--------------------------- MODULE DaemonService ---------------------------
(***************************************************************************)
(* DaemonService.init and trade with TradeService.runBuyStrategies: the loop *)
(* that watches the rates, and the buy runs it starts, each of which gets the *)
(* free cells and creates one order after another. The loop awaits its run,  *)
(* but not if another promise of the same Promise.all is rejected.           *)
(***************************************************************************)
EXTENDS FeeTransfer

CONSTANTS
    Runs,        \* places for buy runs under way
    NoRun,       \* no run
    MaxOverlaps, \* bound: runs started beside another
    MaxFaults    \* bound: awaits that throw, runs that are rejected, crashes

ASSUME DaemonAssumption ==
    /\ IsFiniteSet(Runs) /\ NoRun \notin Runs
    /\ MaxOverlaps \in Nat /\ MaxFaults \in Nat

VARIABLES
    phase,        \* of the loop: "init", "idle", "rates" or "runs"
    todo,         \* pairs the phase has not come to
    mine,         \* the buy run the loop awaits, or NoRun
    pc,           \* pc[t]: "idle", or the step of the run
    job,          \* job[t]: its local variables
    overlaps,     \* history: runs started while another was under way
    faults        \* faults so far

loopVars == <<phase, todo, mine>>
runVars  == <<pc, job>>
vars == <<rateVars, cellVars, feeVars, loopVars, runVars, overlaps, faults>>

NoRequest == [pair |-> "none", rate |-> 0, amount2 |-> 0, cell |-> 0]
NoItems   == [p \in Pairs |-> 0]
NoJob     == [todo |-> {}, request |-> NoRequest, amount1 |-> 0, fee |-> 0, cost |-> 0,
              id |-> 0, left |-> {}, items |-> NoItems, cell |-> "none", row |-> NewPair,
              balance |-> 0]

Init ==
    /\ RatesInit /\ CellsInit /\ FeeInit
    /\ phase = "init" /\ todo = Pairs /\ mine = NoRun
    /\ pc = [t \in Runs |-> "idle"] /\ job = [t \in Runs |-> NoJob]
    /\ overlaps = 0 /\ faults = 0

Busy == {t \in Runs : pc[t] # "idle"}

Fails == faults < MaxFaults /\ faults' = faults + 1

-----------------------------------------------------------------------------
(* init, and the loop of trade.                                            *)

ActualizePair(p) ==
    /\ phase = "init" /\ p \in todo
    /\ \E q \in Quotes : Actualize(p, q)
    /\ todo' = todo \ {p}
    /\ UNCHANGED <<cellVars, feeVars, phase, mine, runVars, overlaps, faults>>

ActualizeFails(p) ==
    /\ phase = "init" /\ p \in todo
    /\ Fails
    /\ todo' = todo \ {p}
    /\ UNCHANGED <<rateVars, cellVars, feeVars, phase, mine, runVars, overlaps>>

NextIteration ==
    /\ \/ phase = "init" /\ todo = {}
       \/ phase = "idle"
    /\ phase' = "rates" /\ todo' = Pairs
    /\ CheckBegins
    /\ UNCHANGED <<cellVars, feeVars, mine, runVars, overlaps, faults>>

GetActualRates(p) ==
    /\ phase = "rates" /\ p \in todo
    /\ \E q \in Quotes : CheckRate(p, q)
    /\ todo' = todo \ {p}
    /\ UNCHANGED <<cellVars, feeVars, phase, mine, runVars, overlaps, faults>>

\* The order book is not to be had: the pair is passed over.
GetActualRatesFails(p) ==
    /\ phase = "rates" /\ p \in todo
    /\ Fails
    /\ todo' = todo \ {p}
    /\ UNCHANGED <<rateVars, cellVars, feeVars, phase, mine, runVars, overlaps>>

SetRates(p) ==
    /\ phase = "rates" /\ todo = {} /\ p \in Changed
    /\ SetRate(p)
    /\ UNCHANGED <<cellVars, feeVars, loopVars, runVars, overlaps, faults>>

\* A query or a save throws: the iteration is over.
RatesThrow ==
    /\ phase = "rates"
    /\ Fails
    /\ RatesLost
    /\ phase' = "idle" /\ todo' = {}
    /\ UNCHANGED <<cellVars, feeVars, mine, runVars, overlaps>>

\* The rates are stored: if a bid moved, a buy run begins.
StartRun(t) ==
    /\ phase = "rates" /\ todo = {} /\ Changed = {} /\ bidMargined
    /\ pc[t] = "idle"
    /\ pc' = [pc EXCEPT ![t] = "get"]
    /\ IF Busy = {} THEN UNCHANGED overlaps
       ELSE overlaps < MaxOverlaps /\ overlaps' = overlaps + 1
    /\ phase' = "runs" /\ mine' = t
    /\ RatesForwarded
    /\ UNCHANGED <<cellVars, feeVars, todo, job, faults>>

NoRunToStart ==
    /\ phase = "rates" /\ todo = {} /\ Changed = {} /\ ~bidMargined
    /\ phase' = "idle"
    /\ UNCHANGED <<rateVars, cellVars, feeVars, todo, mine, runVars, overlaps, faults>>

\* Promise.all settles: the run is over, whether it returned or threw.
RunSettled ==
    /\ phase = "runs" /\ mine \notin Busy
    /\ phase' = "idle" /\ mine' = NoRun
    /\ UNCHANGED <<rateVars, cellVars, feeVars, todo, runVars, overlaps, faults>>

\* The sell run or the check rejects while the buy run is under way.
OtherRejected ==
    /\ phase = "runs" /\ mine \in Busy
    /\ Fails
    /\ phase' = "idle" /\ mine' = NoRun
    /\ UNCHANGED <<rateVars, cellVars, feeVars, todo, runVars, overlaps>>

-----------------------------------------------------------------------------
(* A buy run: FillCellsStrategy.get, and BuyOrderService.create for each row. *)

Goto(t, label) == pc' = [pc EXCEPT ![t] = label]

Return(t) == Goto(t, "idle") /\ job' = [job EXCEPT ![t] = NoJob]

\* The query; no row if the account may not trade (AccountService).
Get(t) ==
    /\ pc[t] = "get"
    /\ \E found \in {Suitable, {}} :
        job' = [job EXCEPT ![t].todo = {RequestFor(p) : p \in found}]
    /\ Goto(t, "next")
    /\ UNCHANGED <<rateVars, cellVars, feeVars, loopVars, overlaps, faults>>

RunEnds(t) ==
    /\ pc[t] = "next" /\ job[t].todo = {}
    /\ Return(t)
    /\ UNCHANGED <<rateVars, cellVars, feeVars, loopVars, overlaps, faults>>

\* create begins: the amounts, and what for_fee is short of.
Create(t, r) ==
    LET amount1 == PrepareAmounts(r, pair[r.pair].minAmount1).amount1
        fee     == FeeToBuy(r.pair, amount1)
    IN  /\ pc[t] = "next" /\ r \in job[t].todo
        /\ job' = [job EXCEPT ![t].todo = @ \ {r}, ![t].request = r,
                              ![t].amount1 = amount1, ![t].fee = fee]
        /\ Goto(t, IF fee = 0 THEN "order" ELSE "market")
        /\ UNCHANGED <<rateVars, cellVars, feeVars, loopVars, overlaps, faults>>

\* What is posted below is what the exchange says was bought.
MarketOrder(t) ==
    /\ pc[t] = "market" /\ Precise(job[t].fee) > 0
    /\ FeeBought(job[t].request.pair, job[t].amount1)
    /\ job' = [job EXCEPT ![t].fee = Precise(@)]
    /\ Goto(t, "t_in")
    /\ UNCHANGED <<rateVars, cellVars, loopVars, overlaps, faults>>

TransferIn(t) ==
    /\ pc[t] = "t_in"
    /\ FeeIncome(job[t].request.pair, job[t].fee)
    /\ Goto(t, "t_out")
    /\ UNCHANGED <<rateVars, cellVars, loopVars, job, overlaps, faults>>

\* The market order is taken to have cost what the limit order was asked for at.
TransferOut(t) ==
    /\ pc[t] = "t_out"
    /\ Outcome(job[t].fee * job[t].request.rate)
    /\ Goto(t, "t_fee")
    /\ UNCHANGED <<rateVars, feeVars, loopVars, job, overlaps, faults>>

TransferFee(t) ==
    /\ pc[t] = "t_fee"
    /\ FeeOutcome(job[t].request.pair, job[t].fee)
    /\ job' = [job EXCEPT ![t].fee = 0]
    /\ Goto(t, "order")
    /\ UNCHANGED <<rateVars, cellVars, loopVars, overlaps, faults>>

\* The rate of the request has the exchange's precision already.
CreateOrder(t) ==
    LET r       == job[t].request
        amount1 == Precise(job[t].amount1)
    IN  /\ pc[t] = "order" /\ RoomToOrder /\ amount1 > 0
        /\ Sent(r, amount1)
        /\ job' = [job EXCEPT ![t].id = NextId, ![t].cost = amount1 * r.rate,
                              ![t].request = NoRequest, ![t].amount1 = 0]
        /\ Goto(t, "record")
        /\ UNCHANGED <<rateVars, feeVars, loopVars, overlaps, faults>>

\* The exchange refuses, or amountToPrecision an amount of less than a lot: create
\* throws, and the run with it.
Refused(t) ==
    /\ pc[t] \in {"market", "order"}
    /\ Return(t)
    /\ UNCHANGED <<rateVars, cellVars, feeVars, loopVars, overlaps, faults>>

Record(t) ==
    /\ pc[t] = "record"
    /\ Recorded(job[t].id)
    /\ job' = [job EXCEPT ![t].id = 0]
    /\ Goto(t, "out")
    /\ UNCHANGED <<rateVars, feeVars, loopVars, overlaps, faults>>

\* The outcome of the quote currency, and buyOrder.created: recalcCellSize begins
\* if it finds no key in the cache, which forgets its key after ten minutes.
OrderOutcome(t) ==
    /\ pc[t] = "out"
    /\ Outcome(job[t].cost)
    /\ \/ Goto(t, "next") /\ job' = [job EXCEPT ![t].cost = 0]
       \/ Goto(t, "cells") /\ job' = [job EXCEPT ![t].cost = 0]
    /\ UNCHANGED <<rateVars, feeVars, loopVars, overlaps, faults>>

\* findBy, of recalcCellSize.
FindCells(t) ==
    /\ pc[t] = "cells"
    /\ job' = [job EXCEPT ![t].left = Pairs, ![t].items = cellSize]
    /\ Goto(t, "recalc")
    /\ UNCHANGED <<rateVars, cellVars, feeVars, loopVars, overlaps, faults>>

\* pairService.get.
RecalcPair(t, p) ==
    /\ pc[t] = "recalc" /\ p \in job[t].left
    /\ job' = [job EXCEPT ![t].left = @ \ {p}, ![t].cell = p, ![t].row = pair[p]]
    /\ Goto(t, "balance")
    /\ UNCHANGED <<rateVars, cellVars, feeVars, loopVars, overlaps, faults>>

\* getBalance, and calculateCellSize of what was read.
RecalcCellSize(t) ==
    /\ pc[t] = "balance" /\ ~DividesByZero(job[t].row, amount)
    /\ job' = [job EXCEPT ![t].items[job[t].cell] = CellSize(job[t].row, amount),
                          ![t].balance = amount]
    /\ Goto(t, "save")
    /\ UNCHANGED <<rateVars, cellVars, feeVars, loopVars, overlaps, faults>>

\* calculateCellSize throws, which ends recalcCellSize and not the run: the pairs left
\* keep their cells.
RecalcThrows(t) ==
    /\ pc[t] = "balance" /\ DividesByZero(job[t].row, amount)
    /\ job' = [job EXCEPT ![t].left = {}, ![t].items = NoItems, ![t].cell = "none",
                          ![t].row = NewPair]
    /\ Goto(t, "next")
    /\ UNCHANGED <<rateVars, cellVars, feeVars, loopVars, overlaps, faults>>

SaveCells(t) ==
    /\ pc[t] = "save"
    /\ CellsSaved(job[t].items)
    /\ job' = [job EXCEPT ![t].cell = "none", ![t].row = NewPair, ![t].balance = 0]
    /\ Goto(t, "recalc")
    /\ UNCHANGED <<rateVars, feeVars, loopVars, overlaps, faults>>

RecalcEnds(t) ==
    /\ pc[t] = "recalc" /\ job[t].left = {}
    /\ job' = [job EXCEPT ![t].items = NoItems]
    /\ Goto(t, "next")
    /\ UNCHANGED <<rateVars, cellVars, feeVars, loopVars, overlaps, faults>>

-----------------------------------------------------------------------------
(* Faults, and what goes on elsewhere.                                     *)

Unrecorded(S) == {job[t].id : t \in {u \in S : pc[u] = "record"}}

\* An await of the run throws.
Throws(t) ==
    /\ t \in Busy /\ Fails
    /\ Lost(Unrecorded({t}))
    /\ Return(t)
    /\ UNCHANGED <<rateVars, feeVars, loopVars, overlaps>>

Crash ==
    /\ Fails
    /\ RatesForgotten /\ Lost(Unrecorded(Runs))
    /\ phase' = "init" /\ todo' = Pairs /\ mine' = NoRun
    /\ pc' = [t \in Runs |-> "idle"] /\ job' = [t \in Runs |-> NoJob]
    /\ UNCHANGED <<feeVars, overlaps>>

\* check of an order that filled, whose fee may come out of for_fee.
Fills(i) ==
    /\ OrderFills(i)
    /\ FeeOutcome(order[i].pair, order[i].amount1)
    /\ UNCHANGED <<rateVars, loopVars, runVars, overlaps, faults>>

Closes(i) ==
    /\ OrderCloses(i)
    /\ UNCHANGED <<rateVars, feeVars, loopVars, runVars, overlaps, faults>>

LoopStep ==
    \/ \E p \in Pairs : ActualizePair(p) \/ GetActualRates(p) \/ SetRates(p)
    \/ NextIteration \/ NoRunToStart \/ RunSettled
    \/ \E t \in Runs : StartRun(t)

RunStep(t) ==
    \/ Get(t) \/ RunEnds(t) \/ MarketOrder(t) \/ TransferIn(t) \/ TransferOut(t)
    \/ TransferFee(t) \/ CreateOrder(t) \/ Refused(t) \/ Record(t) \/ OrderOutcome(t)
    \/ FindCells(t) \/ RecalcCellSize(t) \/ RecalcThrows(t) \/ SaveCells(t) \/ RecalcEnds(t)
    \/ \E r \in job[t].todo : Create(t, r)
    \/ \E p \in job[t].left : RecalcPair(t, p)

Fault ==
    \/ \E p \in Pairs : ActualizeFails(p) \/ GetActualRatesFails(p)
    \/ RatesThrow \/ OtherRejected \/ Crash
    \/ \E t \in Runs : Throws(t)

Next ==
    \/ LoopStep
    \/ \E t \in Runs : RunStep(t)
    \/ Fault
    \/ \E i \in Ids : Fills(i) \/ Closes(i)

Spec == Init /\ [][Next]_vars

-----------------------------------------------------------------------------
TypeOK ==
    /\ RatesTypeOK /\ CellsTypeOK /\ FeeTypeOK
    /\ phase \in {"init", "idle", "rates", "runs"}
    /\ todo \subseteq Pairs
    /\ mine \in Runs \cup {NoRun}
    /\ pc \in [Runs -> {"idle", "get", "next", "market", "t_in", "t_out", "t_fee",
                        "order", "record", "out", "cells", "recalc", "balance", "save"}]
    /\ job \in [Runs -> [todo : SUBSET Request, request : Request \cup {NoRequest},
                         amount1 : Nat, fee : Nat, cost : Nat, id : 0..MaxOrders,
                         left : SUBSET Pairs, items : [Pairs -> Nat],
                         cell : Pairs \cup {"none"}, row : PairRow, balance : Int]]
    /\ overlaps \in 0..MaxOverlaps /\ faults \in 0..MaxFaults

\* lastRates decides when to trade and the table of pairs at what rate. They are
\* written at different times, and not always both: still the stored rates of a
\* pair are within the margins of the last ones, in whatever steps the market
\* moved, unless a failure dropped a change or the program has just started.
StoredWithinMargin ==
    \A p \in Pairs :
        lastRates[p] # NoQuote /\ changed[p] = NoQuote /\ p \notin dropped => Within(p)

\* "If there is an already opened order with current rate step found, the purchase
\* is not made" (README.md): an order is placed in the cell of another only if runs
\* overlapped, and then once; or the row of the other was never written.
CellsApart == clashes <= overlaps * Cardinality(Pairs)

\* Cell sizes change by a run that saves what it recalculated: the balance it read
\* lasts with the new cell at the rate it read, however much later it saves. What it
\* writes for other pairs is what is there already, unless runs overlapped; and the
\* rate it read is still the pair's, unless the loop has not waited for the run.
BalanceLasts ==
    [][cellSize' # cellSize => \E t \in Runs :
        LET j == job[t]
        IN  /\ pc[t] = "save"
            /\ j.row.minAmount2 > 0 => Lasts(j.row, j.balance, cellSize'[j.cell])
            /\ overlaps = 0 => \A p \in Pairs \ {j.cell} : cellSize'[p] = cellSize[p]
            /\ t = mine => j.row = pair[j.cell]]_vars

\* Every order meets the exchange's limits, at whatever rate it is placed: its
\* amounts come from minima computed when the program started, at other rates.
OrdersAcceptable ==
    \A i \in Ids : order[i].status \in {"sent", "open"} =>
        /\ order[i].amount1 >= Limits.minAmount
        /\ order[i].amount1 * order[i].rate >= Limits.minCost

\* Base currency is bought for fees only as far as it is missing, and what was
\* bought is posted: a market order goes unposted only by a failure, and one that
\* was not needed any more is made only by overlapping runs.
TransfersBounded ==
    /\ unposted <= faults + Cardinality({t \in Runs : pc[t] = "t_in"})
    /\ spare <= overlaps * Cardinality(Pairs)
=============================================================================
