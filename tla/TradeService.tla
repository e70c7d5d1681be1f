---------------------------- MODULE TradeService ----------------------------
(***************************************************************************)
(* TradeService.runBuyStrategies, runSellStrategies and checkLimitOrders,   *)
(* running concurrently over the order services. With Overlap checks run    *)
(* beside the runs, as DaemonService.trade lets them; without it they wait   *)
(* for the runs, as in ExampleDaemon.trade and the inline example.          *)
(***************************************************************************)
EXTENDS BuyOrderService, CloseOrderService

Idle(S) == \A t \in S : pc[t] = "idle"

\* Fault model of Sellable: orders that have not filled are taken too.
SellableUnfilled ==
    {i \in BuyRows : row[i].isActive /\ row[i].preclosed < row[i].amount1}

\* Rows AwaitProfitStrategy.get may return; whether the price is right is open.
Sellable ==
    {i \in BuyRows : /\ row[i].isActive /\ row[i].filled = row[i].amount1
                     /\ row[i].preclosed < row[i].amount1
                     /\ InOrders >= row[i].amount1}

\* Fault model of Unfilled: closed rows are returned too.
UnfilledAndClosed == {i \in Ids : row[i].stored /\ row[i].filled < row[i].amount1}

\* Fault model of Unfilled: only sell orders are returned.
UnfilledSells == {i \in SellRows : row[i].isActive /\ row[i].filled < row[i].amount1}

\* Rows the query of checkLimitOrders returns.
Unfilled == {i \in Ids : row[i].stored /\ row[i].isActive /\ row[i].filled < row[i].amount1}

SnapshotOf(i) == [id |-> i, preclosed |-> row[i].preclosed]

\* Without Overlap the two runs of an iteration are over before its check, and
\* the check before the next iteration. With it the loop starts any of the three
\* while the others are under way: together in one iteration, or in the next one
\* when a run that failed, say in its own query, has made Promise.all reject.
StartRun(t) ==
    IF Overlap THEN UNCHANGED started
    ELSE /\ Idle(Checkers) /\ (t \notin started \/ Idle(Tasks))
         /\ started' = IF Idle(Tasks) THEN {t} ELSE started \cup {t}

RunBuyStrategies(t) ==
    /\ pc[t] = "idle" /\ RoomToOrder
    /\ StartRun(t)
    /\ Goto(t, "buy")
    /\ UNCHANGED <<ext, row, posted, job, faults>>

RunSellStrategies(t) ==
    /\ pc[t] = "idle"
    /\ StartRun(t)
    /\ \E chosen \in SUBSET Sellable \ {{}} :
        job' = [job EXCEPT ![t].todo = {SnapshotOf(i) : i \in chosen}]
    /\ Goto(t, "sell")
    /\ UNCHANGED <<ext, row, posted, faults>>

CheckLimitOrders(t) ==
    /\ pc[t] = "idle" /\ Unfilled # {}
    /\ Overlap \/ Idle(Tasks)
    /\ job' = [job EXCEPT ![t].todo = {SnapshotOf(i) : i \in Unfilled}]
    /\ Goto(t, "fetch")
    /\ UNCHANGED <<ext, row, posted, started, faults>>

FetchNext(t) ==
    /\ pc[t] = "fetch"
    /\ \E s \in job[t].todo : CheckBuy(t, s) \/ CheckSell(t, s)

-----------------------------------------------------------------------------
(* Faults.                                                                 *)

FetchFails(t) ==
    /\ pc[t] = "fetch"
    /\ \E s \in job[t].todo : CheckBuyUnanswered(t, s) \/ CheckSellUnanswered(t, s)

\* An await of the task throws: the database refuses a statement or a listener
\* of an order event fails. A checker catches it and goes on with its next row;
\* a run is over.
Throws(t) ==
    /\ faults < MaxFaults
    /\ pc[t] \notin {"idle", "buy", "sell", "fetch"}
    /\ Continue(t, IF t \in Checkers THEN job[t].todo ELSE {})
    /\ faults' = faults + 1
    /\ UNCHANGED <<ext, row, posted, started>>

\* The process dies and starts again: the tables and the exchange stay as
\* they are.
Crash ==
    /\ faults < MaxFaults
    /\ pc' = [t \in Tasks |-> "idle"]
    /\ job' = [t \in Tasks |-> NoJob]
    /\ started' = {}
    /\ faults' = faults + 1
    /\ UNCHANGED <<ext, row, posted>>

-----------------------------------------------------------------------------
\* Nothing is left to place, to sell or to wait for.
Over ==
    /\ Idle(Tasks) /\ ~RoomToOrder /\ Unfilled = {} /\ Sellable = {}
    /\ UNCHANGED vars

CheckStep(t) == FetchNext(t) \/ BuyCheckStep(t) \/ SellCheckStep(t)

Next ==
    \/ \E t \in Buyers : RunBuyStrategies(t) \/ BuyCreateStep(t) \/ BuyLost(t)
    \/ \E t \in Sellers :
        RunSellStrategies(t) \/ SellCreateStep(t) \/ SellLost(t) \/ SellCheckStep(t)
    \/ \E t \in Checkers : CheckLimitOrders(t) \/ CheckStep(t) \/ FetchFails(t)
    \/ \E t \in Tasks : Throws(t)
    \/ Crash
    \/ ExchangeNext
    \/ Over

Spec == Init /\ [][Next]_vars

\* Every await is answered in the end, and the trade loop calls checkLimitOrders
\* again and again: in the first iteration after its timer is due.
Fairness ==
    /\ \A t \in Buyers : WF_vars(BuyCreateStep(t))
    /\ \A t \in Sellers : WF_vars(SellCreateStep(t) \/ SellCheckStep(t))
    /\ \A t \in Checkers : WF_vars(CheckStep(t)) /\ SF_vars(CheckLimitOrders(t))

FairSpec == Spec /\ Fairness

-----------------------------------------------------------------------------
\* Where a task may stand: idle, at the awaits of create, check and rollback.
Steps ==
    {"idle", "buy", "b_record", "b_out", "sell", "s_record", "s_out", "s_preclose",
     "fetch", "f_row", "f_income", "f_fee", "c_close", "c_income", "c_fee", "c_find",
     "c_parent", "r_back", "r_off", "k_back", "k_find", "k_preclose", "k_off"}

TypeOK ==
    /\ ext \in [Ids -> ExtOrder]
    /\ row \in [Ids -> OrderRow]
    /\ posted \in [Ids -> Postings]
    /\ started \in SUBSET Tasks
    /\ pc \in [Tasks -> Steps]
    /\ job \in [Tasks -> Job]
    /\ faults \in 0..MaxFaults

\* What the exchange has sold for position p.
SoldOnExchange(p) == Sum(Children(p), LAMBDA i : ext[i].filled)

\* The base amount of p's sell orders that the exchange has sold or may sell.
OnExchange(p) ==
    Sum({i \in Ids : ext[i].parent = p /\ Placed(i)},
        LAMBDA i : IF ext[i].status \in {"open", "closed"} THEN ext[i].amount
                   ELSE ext[i].filled)

\* Order i has filled and the query of checkLimitOrders no longer returns it.
Settled(i) == row[i].stored /\ ext[i].status = "closed" /\ i \notin Unfilled

\* What position p has put in sell orders that were not rolled back.
InSells(p) == Sum({i \in Children(p) : posted[i].back = 0}, LAMBDA i : row[i].amount1)

\* No movement of an order is posted twice, and no order is both settled and
\* rolled back: the check that ends CloseOrderService.create and the checks of
\* checkLimitOrders never do one order's work twice between them.
PostedOnce ==
    \A i \in Ids :
        /\ posted[i].out <= 1 /\ posted[i].fee <= posted[i].in
        /\ posted[i].in + posted[i].back <= 1

\* closed_amount of a position never exceeds what its sell orders have sold:
\* CloseOrderService.check counts a filled order in its parent once.
NeverOverclosed == \A p \in BuyRows : row[p].closed_amount <= SoldOnExchange(p)

\* A credited position is closed only when all of it has been sold: the test on
\* closed_amount in CloseOrderService.check closes it with its last part.
ClosedWhenSold ==
    \A p \in BuyRows :
        ~row[p].isActive /\ posted[p].in > 0 => SoldOnExchange(p) >= ext[p].amount

\* The parts of one position that are sold or still on sale on the exchange
\* never exceed what was bought: what AwaitProfitStrategy's query and preclosed
\* are there for.
NoOversell == \A p \in Ids : Placed(p) /\ ext[p].parent = 0 => OnExchange(p) <= ext[p].filled

\* At rest, preclosed is what the position has put in sell orders that were not
\* rolled back, whatever create and rollback wrote in whichever order.
PreclosedExact ==
    Idle(Tasks) => \A p \in BuyRows : row[p].preclosed = InSells(p)

\* At rest, in_orders of the balance is what credited positions have not yet put
\* in sell orders: the figure the guard of AwaitProfitStrategy relies on.
InOrdersExact ==
    Idle(Tasks) =>
        InOrders - OtherInOrders = Sum({p \in BuyRows : posted[p].in > 0},
                                       LAMBDA p : row[p].amount1 - row[p].preclosed)

\* A sell order is rolled back only when it has vanished from the exchange, as
\* the comment on CloseOrderService.rollback says.
RollbackOnlyIfGone ==
    \A i \in SellRows : posted[i].back > 0 => ext[i].status = "gone"

\* Faults lose movements, and repeat few: what an order's placing and filling
\* post is posted once, and a rollback cut short before its last write ends the
\* order once more, by a second refund or by a settlement, once per fault.
RepeatsBounded ==
    /\ \A i \in Ids : /\ posted[i].out <= 1 /\ posted[i].in <= 1
                      /\ posted[i].fee <= posted[i].in
    /\ Sum({i \in Ids : posted[i].in + posted[i].back > 1},
           LAMBDA i : posted[i].in + posted[i].back - 1) <= faults

\* At rest, what faults have lost is bounded. But for one buy order and one sell
\* order per fault, which the buy run and the sell run, or the check, were at, every
\* order the exchange took is in the table with its outcome posted, every filled
\* order that no check will look at again has its income, and closed_amount counts
\* every such sell order: create and check lose nothing while their awaits are
\* answered, and a later check makes good what an earlier one left undone.
LossesBounded ==
    Idle(Tasks) =>
        \E lost \in SUBSET {i \in Ids : Placed(i)} :
            /\ Cardinality({i \in lost : ext[i].parent = 0}) <= faults
            /\ Cardinality({i \in lost : ext[i].parent # 0}) <= faults
            /\ \A i \in Ids \ lost :
                /\ Placed(i) => row[i].stored /\ posted[i].out > 0
                /\ Settled(i) => posted[i].in > 0
            /\ \A p \in BuyRows :
                row[p].closed_amount >=
                    Sum({i \in Children(p) \ lost : Settled(i)}, LAMBDA i : ext[i].amount)

\* At rest, preclosed is wrong by one order per fault at most: it misses sell
\* orders of the position, or still holds orders that were rolled back, or both,
\* as many in all as there were faults, whatever create and rollback had written.
PreclosedGapsBounded ==
    Idle(Tasks) =>
        \E gap \in [SellRows -> -faults..faults] :
            /\ \A p \in BuyRows :
                row[p].preclosed =
                    InSells(p) + Sum(Children(p), LAMBDA i : gap[i] * row[i].amount1)
            /\ Sum(SellRows, LAMBDA i : IF gap[i] < 0 THEN -gap[i] ELSE gap[i]) <= faults

\* While checks overlap runs, what concerns a buy order is still posted once,
\* and a sell order is settled twice at most, by create and by one check.
OverlapPostings ==
    \A i \in Ids :
        /\ posted[i].out <= 1 /\ posted[i].fee <= posted[i].in
        /\ posted[i].in = 0 \/ posted[i].back = 0
        /\ posted[i].in + posted[i].back <= IF ext[i].parent = 0 THEN 1 ELSE 2

\* A recorded order that fills is credited in the end, by create's own check or
\* by checkLimitOrders.
FillsSettle ==
    \A i \in Ids : row[i].stored /\ ext[i].status = "closed" ~> posted[i].in >= 1

\* A recorded order that ended unfilled is refunded in the end and its row
\* closed, also when a crash or an error interrupts its rollback.
CancelsRefunded ==
    \A i \in Ids :
        row[i].stored /\ \/ ext[i].status = "gone"
                         \/ ext[i].status = "canceled" /\ IsBuy(i)
            ~> posted[i].back >= 1 /\ ~row[i].isActive

\* The lines of the balance log, read order by order, are a history of Positions:
\* a position is bought, offered in parts, and each part sold or withdrawn once.
Parts(p) ==
    {<<i, row[i].amount1>> : i \in {j \in Children(p) :
        posted[j].out > posted[j].in + posted[j].back}}

SoldOf(p) == Sum(Children(p), LAMBDA i : posted[i].in * row[i].amount1)

Book == INSTANCE Positions WITH
    MaxAmount <- BuyAmount,
    bought    <- [p \in Ids |-> IF p \in BuyRows THEN posted[p].in * row[p].amount1 ELSE 0],
    offered   <- [p \in Ids |-> Parts(p)],
    sold      <- [p \in Ids |-> SoldOf(p)]

ImplementsPositions == Book!Spec
=============================================================================
