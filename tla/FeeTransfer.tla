---------------------------- MODULE FeeTransfer ----------------------------
(***************************************************************************)
(* BuyOrderService.checkAndImproveFeeBalance: the base currency set aside to *)
(* pay the fee of a purchase, and the market orders that fill it up. What is *)
(* saved by BalanceService is seen here as for_fee and amount only.          *)
(***************************************************************************)
EXTENDS FillCells

CONSTANTS
    Fee,      \* percent of a trade the exchange takes
    FeeInBase \* TRUE if it takes it in the base currency

ASSUME FeeAssumption == Fee \in Nat /\ FeeInBase \in BOOLEAN

VARIABLES
    forFee,   \* forFee[p]: for_fee of the base currency of p
    unposted, \* history: market orders less the incomes posted for them
    spare     \* history: market orders placed when for_fee was enough already

feeVars == <<forFee, unposted, spare>>

FeeOf(amount1) == Quotient(amount1 * Fee, 100)

\* Fault model of FeeToBuy: for_fee is not taken off.
FeeToBuyWhole(p, amount1) ==
    LET atLeast == IF FeeOf(amount1) < pair[p].minAmount1 THEN pair[p].minAmount1
                   ELSE FeeOf(amount1)
    IN  IF Fee = 0 THEN 0 ELSE atLeast

\* What has to be bought before an order of amount1: nothing if for_fee is enough,
\* and else what is missing, raised to the pair's least amounts.
FeeToBuy(p, amount1) ==
    LET missing == FeeOf(amount1) - forFee[p]
        atLeast == IF missing < pair[p].minAmount1 THEN pair[p].minAmount1 ELSE missing
    IN  IF missing <= 0 THEN 0
        ELSE IF atLeast * pair[p].sellRate < pair[p].minAmount2
             THEN Quotient(pair[p].minAmount2, pair[p].sellRate)
             ELSE atLeast

\* The market order is accepted, for an order of amount1 to come.
FeeBought(p, amount1) ==
    /\ unposted' = unposted + 1
    /\ spare' = IF forFee[p] >= FeeOf(amount1) THEN spare + 1 ELSE spare
    /\ UNCHANGED forFee

\* income of the base currency in the context FOR_FEE.
FeeIncome(p, fee) ==
    /\ forFee' = [forFee EXCEPT ![p] = @ + fee]
    /\ unposted' = unposted - 1
    /\ UNCHANGED spare

\* outcome in the context FOR_FEE of the fee of a trade of amount1; a fee taken in
\* another currency is another row's matter.
FeeOutcome(p, amount1) ==
    /\ forFee' = IF FeeInBase THEN [forFee EXCEPT ![p] = @ - FeeOf(amount1)] ELSE forFee
    /\ UNCHANGED <<unposted, spare>>

FeeInit == forFee = [p \in Pairs |-> 0] /\ unposted = 0 /\ spare = 0

FeeTypeOK == forFee \in [Pairs -> Int] /\ unposted \in Nat /\ spare \in Nat
=============================================================================
