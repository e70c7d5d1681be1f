----------------------------- MODULE PairRates -----------------------------
(***************************************************************************)
(* The rates of the pairs: BotNest.checkRates and setRates, and PairService, *)
(* as the loops of the daemons use them. The actions here change the         *)
(* variables of this module; DaemonService says when they are taken. One     *)
(* exchange; what its order books show is open.                              *)
(***************************************************************************)
EXTENDS Integers, FiniteSets

CONSTANTS
    Pairs,       \* pairs that are traded
    Quotes,      \* what the order book may show: best bid and ask
    Limits,      \* the exchange's least amount and least cost of an order
    BuyMargin,   \* percent the bid moves before it counts as a change
    SellMargin   \* percent the ask moves before it counts as a change

ASSUME RatesAssumption ==
    /\ IsFiniteSet(Pairs)
    /\ Quotes \subseteq [bid : Nat \ {0}, ask : Nat \ {0}]
    /\ Limits \in [minAmount : Nat, minCost : Nat]
    /\ Limits.minAmount + Limits.minCost > 0
    /\ BuyMargin \in Nat /\ SellMargin \in Nat

VARIABLES
    lastRates,   \* BotNest.lastRates, in memory
    pair,        \* the table of pairs; zero stands for NULL
    changed,     \* changedPairs, of checkRates and then of setRates
    bidMargined, \* isBidMargined
    dropped      \* history: pairs whose change checkRates found and nobody stored

rateVars == <<lastRates, pair, changed, bidMargined, dropped>>

NoQuote == [bid |-> 0, ask |-> 0]
NoRates == [p \in Pairs |-> NoQuote]

PairRow == [buyRate : Nat, sellRate : Nat, minAmount1 : Nat, minAmount2 : Nat]
NewPair == [buyRate |-> 0, sellRate |-> 0, minAmount1 |-> 0, minAmount2 |-> 0]

\* divide of js-big-decimal, of positive numbers, to the nearest unit.
Quotient(a, b) == (2 * a + b) \div (2 * b)

Distance(a, b) == IF a < b THEN b - a ELSE a - b

\* isSuitableRate: the first rate, or one that moved by more than the margin.
IsSuitableRate(rate, last, margin) ==
    last = 0 \/ Distance(rate, last) * 100 > margin * last

RatesInit ==
    /\ lastRates = NoRates
    /\ pair = [p \in Pairs |-> NewPair]
    /\ changed = NoRates
    /\ bidMargined = FALSE
    /\ dropped = {}

-----------------------------------------------------------------------------
(* PairService.actualize, when the program starts.                         *)

\* The least amounts kept with a pair: the exchange's, one taken from the other
\* when it names none, a fifth more if they are near each other, and enough base
\* currency (checkLimits) for the least cost.
MinAmounts(q) ==
    LET cost   == IF Limits.minCost = 0 THEN Limits.minAmount * q.bid ELSE Limits.minCost
        costs  == Quotient(cost, q.ask)
        amount == IF Limits.minAmount = 0 THEN costs ELSE Limits.minAmount
        near   == costs <= amount
        amount1 == IF near THEN Quotient(amount * 12, 10) ELSE amount
        amount2 == IF near THEN Quotient(cost * 12, 10) ELSE cost
    IN  [minAmount1 |-> IF q.ask * amount1 < amount2 THEN Quotient(amount2 * 12, q.ask * 10)
                        ELSE amount1,
         minAmount2 |-> amount2]

\* The order book shows q.
Actualize(p, q) ==
    LET m == MinAmounts(q)
    IN  /\ pair' = [pair EXCEPT ![p] = [buyRate |-> q.bid, sellRate |-> q.ask,
                        minAmount1 |-> m.minAmount1, minAmount2 |-> m.minAmount2]]
        /\ UNCHANGED <<lastRates, changed, bidMargined, dropped>>

-----------------------------------------------------------------------------
(* checkRates, one action per pair, and setRates, the same.                *)

CheckBegins ==
    /\ changed' = NoRates /\ bidMargined' = FALSE
    /\ UNCHANGED <<lastRates, pair, dropped>>

\* Fault model of CheckRate: every rate seen becomes the last one.
CheckRateMoves(p, q) ==
    LET bid == IsSuitableRate(q.bid, lastRates[p].bid, BuyMargin)
        ask == IsSuitableRate(q.ask, lastRates[p].ask, SellMargin)
    IN  /\ changed' = IF bid \/ ask THEN [changed EXCEPT ![p] = q] ELSE changed
        /\ lastRates' = [lastRates EXCEPT ![p] = q]
        /\ bidMargined' = (bidMargined \/ bid)
        /\ UNCHANGED <<pair, dropped>>

\* The order book shows q. Both rates are handed on when either has moved; lastRates
\* takes only the one that did.
CheckRate(p, q) ==
    LET bid == IsSuitableRate(q.bid, lastRates[p].bid, BuyMargin)
        ask == IsSuitableRate(q.ask, lastRates[p].ask, SellMargin)
    IN  /\ changed' = IF bid \/ ask THEN [changed EXCEPT ![p] = q] ELSE changed
        /\ lastRates' = [lastRates EXCEPT
                ![p] = [bid |-> IF bid THEN q.bid ELSE @.bid,
                        ask |-> IF ask THEN q.ask ELSE @.ask]]
        /\ bidMargined' = (bidMargined \/ bid)
        /\ UNCHANGED <<pair, dropped>>

Changed == {p \in Pairs : changed[p] # NoQuote}

\* setInfo of a pair that changed, its row found or created before.
SetRate(p) ==
    /\ pair' = [pair EXCEPT ![p].buyRate = changed[p].bid, ![p].sellRate = changed[p].ask]
    /\ changed' = [changed EXCEPT ![p] = NoQuote]
    /\ dropped' = dropped \ {p}
    /\ UNCHANGED <<lastRates, bidMargined>>

\* The results of checkRates have served.
RatesForwarded ==
    /\ bidMargined' = FALSE
    /\ UNCHANGED <<lastRates, pair, changed, dropped>>

\* checkRates or setRates throws: what was found is not stored, and lastRates
\* has moved already.
RatesLost ==
    /\ changed' = NoRates /\ bidMargined' = FALSE
    /\ dropped' = dropped \cup Changed
    /\ UNCHANGED <<lastRates, pair>>

\* The process dies: the memory is gone, and with it what was dropped.
RatesForgotten ==
    /\ lastRates' = NoRates /\ changed' = NoRates /\ bidMargined' = FALSE
    /\ dropped' = {}
    /\ UNCHANGED <<pair>>

-----------------------------------------------------------------------------
RatesTypeOK ==
    /\ lastRates \in [Pairs -> [bid : Nat, ask : Nat]]
    /\ pair \in [Pairs -> PairRow]
    /\ changed \in [Pairs -> Quotes \cup {NoQuote}]
    /\ bidMargined \in BOOLEAN
    /\ dropped \subseteq Pairs

\* The rates of p that trading uses are within the margins of the last rates.
Within(p) ==
    /\ ~IsSuitableRate(pair[p].buyRate, lastRates[p].bid, BuyMargin)
    /\ ~IsSuitableRate(pair[p].sellRate, lastRates[p].ask, SellMargin)
=============================================================================
