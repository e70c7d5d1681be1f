--------------------------- MODULE FrozenService ---------------------------
(***************************************************************************)
(* FrozenService: what the base currency of open positions cost, kept by    *)
(* listeners of order events. One account, one base currency, positions     *)
(* bought for USDT. A task is an order service awaiting emitAsync, with the  *)
(* update of the order's row that follows it. The table has no lock and no   *)
(* unique key. For what the orders do apart from that see TradeService.     *)
(***************************************************************************)
EXTENDS Integers, Sequences, FiniteSetsExt, SequencesExt

CONSTANTS
    Tasks,        \* order services emitting events
    Amounts,      \* base amounts bought
    Costs,        \* what is paid for them, in the unit of avg_rate
    Fees,         \* fees taken in the base currency, 0 when in another one
    MaxOrders,    \* bound: buy orders
    MaxTransfers, \* bound: fee transfers
    MaxFaults     \* bound: awaits that throw, crashes

ASSUME FrozenAssumption ==
    /\ Amounts \subseteq Nat \ {0} /\ Costs \subseteq Nat \ {0} /\ Fees \subseteq Nat
    /\ MaxOrders \in Nat \ {0} /\ MaxTransfers \in Nat /\ MaxFaults \in Nat

VARIABLES
    rows,        \* the "frozen" table; findOneBy returns its first row
    order,       \* order[i]: buy order i
    transferred, \* base amounts and costs of the fee transfers
    spent,       \* history: fees the table has been told of
    pc,          \* "idle", or the step of its listener a task awaits
    job,         \* the local variables of each task
    faults       \* faults so far

vars == <<rows, order, transferred, spent, pc, job, faults>>

Ids == 1..MaxOrders

Row == [stored : BOOLEAN, amount : Int, amount_in_usd : Int, avg_rate : Int]

\* placed2: amount2 when the order was placed, which the fill replaces.
Order == [status : {"none", "placed", "filled", "sold", "dropped"}, isActive : BOOLEAN,
          amount1 : Nat, amount2 : Nat, placed2 : Nat, fee1 : Nat]

\* One call of income or outcome. Without a cost it is valued at the average;
\* only income guards the division by what is left.
Movement == [amount : Int, cost : Int, atAverage : BOOLEAN, guarded : BOOLEAN]

Income(amount, cost) ==
    [amount |-> amount, cost |-> cost, atAverage |-> FALSE, guarded |-> TRUE]
OutcomeAtAverage(amount) ==
    [amount |-> -amount, cost |-> 0, atAverage |-> TRUE, guarded |-> FALSE]
Outcome(amount, cost) ==
    [amount |-> -amount, cost |-> -cost, atAverage |-> FALSE, guarded |-> FALSE]

\* A call with amount zero returns at once.
Call(m) == IF m.amount = 0 THEN <<>> ELSE <<m>>

NoOrder == [status |-> "none", isActive |-> FALSE, amount1 |-> 0, amount2 |-> 0,
            placed2 |-> 0, fee1 |-> 0]
NewRow  == [stored |-> FALSE, amount |-> 0, amount_in_usd |-> 0, avg_rate |-> 0]
NoJob   == [id |-> 0, todo |-> <<>>, entity |-> NewRow]

\* Fault model of Entity: a missing row gives no entity.
EntityOrNull == IF rows = <<>> THEN <<>> ELSE rows[1]

\* getBalance: the row found, or a new entity that is not stored yet.
Entity == IF rows = <<>> THEN NewRow ELSE rows[1]

\* divide of js-big-decimal, to the nearest unit; the divisor is not zero.
Divide(u, a) ==
    LET n == IF a < 0 THEN -u ELSE u
        d == IF a < 0 THEN -a ELSE a
    IN  (2 * n + d) \div (2 * d)

\* The entity after movement m.
Moved(e, m) ==
    LET a == e.amount + m.amount
        u == e.amount_in_usd + IF m.atAverage THEN m.amount * e.avg_rate ELSE m.cost
    IN  [stored |-> TRUE, amount |-> a, amount_in_usd |-> u,
         avg_rate |-> IF a = 0 THEN 0 ELSE Divide(u, a)]

Init ==
    /\ rows = <<>>
    /\ order = [i \in Ids |-> NoOrder]
    /\ transferred = [n |-> 0, amount |-> 0, cost |-> 0]
    /\ spent = 0
    /\ pc = [t \in Tasks |-> "idle"]
    /\ job = [t \in Tasks |-> NoJob]
    /\ faults = 0

-----------------------------------------------------------------------------
(* The events of the order services.                                       *)

Goto(t, label) == pc' = [pc EXCEPT ![t] = label]

Listen(t, i, movements) ==
    /\ pc[t] = "idle"
    /\ pc' = [pc EXCEPT ![t] = "read"]
    /\ job' = [job EXCEPT ![t].id = i, ![t].todo = movements]

\* buyOrder.created -> buyOrderCreatedWithoutFee.
BuyOrderCreated(t) ==
    /\ \E i \in Ids :
        /\ order[i].status = "none" /\ \A j \in 1..(i - 1) : order[j].status # "none"
        /\ \E amount \in Amounts, cost \in Costs :
            /\ order' = [order EXCEPT ![i] =
                    [NoOrder EXCEPT !.status = "placed", !.isActive = TRUE,
                                    !.amount1 = amount, !.amount2 = cost, !.placed2 = cost]]
            /\ Listen(t, 0, Call(Income(amount, cost)))
    /\ UNCHANGED <<rows, transferred, spent, faults>>

\* BuyOrderService.check of a filled order: what it cost and its fee are known.
BuyOrderFilled(i) ==
    /\ order[i].status = "placed"
    /\ \E cost \in Costs, fee \in Fees :
        order' = [order EXCEPT ![i].status = "filled", ![i].amount2 = cost,
                               ![i].fee1 = fee]
    /\ UNCHANGED <<rows, transferred, spent, pc, job, faults>>

\* Fault model of BuyOrderRolledBack: what was paid is not taken off.
BuyOrderRolledBackUnpaid(t) ==
    /\ \E i \in Ids :
        /\ order[i].status \in {"placed", "dropped"} /\ order[i].isActive
        /\ \A u \in Tasks : job[u].id # i
        /\ order' = [order EXCEPT ![i].status = "dropped"]
        /\ Listen(t, i, Call(Income(-order[i].amount1, 0)))
    /\ UNCHANGED <<rows, transferred, spent, faults>>

\* buyOrder.rolledback, of an order that did not fill; a rollback that was cut
\* short is begun again while the row is active.
BuyOrderRolledBack(t) ==
    /\ \E i \in Ids :
        /\ order[i].status \in {"placed", "dropped"} /\ order[i].isActive
        /\ \A u \in Tasks : job[u].id # i
        /\ order' = [order EXCEPT ![i].status = "dropped"]
        /\ Listen(t, i, Call(Income(-order[i].amount1, -order[i].placed2)))
    /\ UNCHANGED <<rows, transferred, spent, faults>>

\* buyOrder.closed, when the last part of a position has been sold: the fee of
\* the sale, the fee of the purchase, the position. It is emitted once.
BuyOrderClosed(t) ==
    /\ \E i \in Ids, fee \in Fees :
        /\ order[i].status = "filled"
        /\ order' = [order EXCEPT ![i].status = "sold"]
        /\ Listen(t, i, Call(OutcomeAtAverage(fee)) \o Call(OutcomeAtAverage(order[i].fee1))
                          \o Call(Outcome(order[i].amount1, order[i].amount2)))
    /\ UNCHANGED <<rows, transferred, spent, faults>>

\* fee.transferred -> buyOrderCreated, which also takes off the transfer's fee.
FeeTransferred(t) ==
    /\ transferred.n < MaxTransfers
    /\ \E amount \in Amounts, cost \in Costs, fee \in Fees :
        /\ transferred' = [n |-> transferred.n + 1, amount |-> transferred.amount + amount,
                           cost |-> transferred.cost + cost]
        /\ Listen(t, 0, Call(Income(amount, cost)) \o Call(OutcomeAtAverage(fee)))
    /\ UNCHANGED <<rows, order, spent, faults>>

-----------------------------------------------------------------------------
(* The steps of a listener.                                                *)

Return(t) == Goto(t, "idle") /\ job' = [job EXCEPT ![t] = NoJob]

GetBalance(t) ==
    /\ pc[t] = "read"
    /\ job' = [job EXCEPT ![t].entity = Entity]
    /\ Goto(t, "save")
    /\ UNCHANGED <<rows, order, transferred, spent, faults>>

\* The next call of the listener, or its end: what closes or rolls back an order
\* updates the order's row then.
NextCall(t) ==
    LET left == Tail(job[t].todo)
    IN  IF left = <<>> /\ job[t].id = 0 THEN Return(t)
        ELSE /\ Goto(t, IF left = <<>> THEN "update" ELSE "read")
             /\ job' = [job EXCEPT ![t].todo = left, ![t].entity = NewRow]

Zero(t) == job[t].entity.amount + Head(job[t].todo).amount = 0

\* Fault model of SaveBalance: every save inserts a row.
SaveBalanceInserts(t) ==
    LET m == Head(job[t].todo)
        r == Moved(job[t].entity, m)
    IN  /\ pc[t] = "save"
        /\ m.guarded \/ ~Zero(t)
        /\ rows' = Append(rows, r)
        /\ spent' = IF m.atAverage THEN spent - m.amount ELSE spent
        /\ NextCall(t)
        /\ UNCHANGED <<order, transferred, faults>>

\* The entity is changed and saved: an insert if none was found.
SaveBalance(t) ==
    LET m == Head(job[t].todo)
        r == Moved(job[t].entity, m)
    IN  /\ pc[t] = "save"
        /\ m.guarded \/ ~Zero(t)
        /\ rows' = IF job[t].entity.stored THEN [rows EXCEPT ![1] = r] ELSE Append(rows, r)
        /\ spent' = IF m.atAverage THEN spent - m.amount ELSE spent
        /\ NextCall(t)
        /\ UNCHANGED <<order, transferred, faults>>

\* outcome takes off all that is left and divides by zero: the listener throws,
\* and emitAsync with it, so that the order's row is not updated.
DividesByZero(t) ==
    /\ pc[t] = "save"
    /\ ~Head(job[t].todo).guarded /\ Zero(t)
    /\ Return(t)
    /\ UNCHANGED <<rows, order, transferred, spent, faults>>

\* After the event: the order's row is closed.
UpdateOrder(t) ==
    /\ pc[t] = "update"
    /\ order' = [order EXCEPT ![job[t].id].isActive = FALSE]
    /\ Return(t)
    /\ UNCHANGED <<rows, transferred, spent, faults>>

\* An await of the task throws, or the process dies.
Interrupted(t) ==
    /\ faults < MaxFaults /\ pc[t] # "idle"
    /\ Return(t)
    /\ faults' = faults + 1
    /\ UNCHANGED <<rows, order, transferred, spent>>

AtRest == \A t \in Tasks : pc[t] = "idle"

Waiting == AtRest /\ UNCHANGED vars

Next ==
    \/ \E t \in Tasks :
        \/ BuyOrderCreated(t) \/ BuyOrderRolledBack(t) \/ BuyOrderClosed(t)
        \/ FeeTransferred(t)
        \/ GetBalance(t) \/ SaveBalance(t) \/ DividesByZero(t) \/ UpdateOrder(t)
        \/ Interrupted(t)
    \/ \E i \in Ids : BuyOrderFilled(i)
    \/ Waiting

Spec == Init /\ [][Next]_vars

-----------------------------------------------------------------------------
TypeOK ==
    /\ rows \in Seq(Row)
    /\ order \in [Ids -> Order]
    /\ transferred \in [n : 0..MaxTransfers, amount : Nat, cost : Nat]
    /\ spent \in Nat
    /\ pc \in [Tasks -> {"idle", "read", "save", "update"}]
    /\ job \in [Tasks -> [id : 0..MaxOrders, todo : Seq(Movement), entity : Row]]
    /\ faults \in 0..MaxFaults

Sum(S, f(_)) == SumFunctionOnSet([i \in S |-> f(i)], S)
Apart(a, b)  == IF a < b THEN b - a ELSE a - b

\* At rest, the amount frozen is that of the orders the bot holds for active,
\* plus what was transferred for fees, less the fees: every fault loses or
\* repeats one movement at most. It also holds after a division by zero, which
\* leaves both the row and the order as they were.
FrozenAmount ==
    AtRest =>
        LET active == Sum({i \in Ids : order[i].isActive}, LAMBDA i : order[i].amount1)
        IN  Apart(Entity.amount, active + transferred.amount - spent)
                <= faults * Max(Amounts \cup {0})

\* At rest and while no fee was taken in the base currency, the cost frozen is
\* what the active orders cost when they were placed, plus the transfers, plus
\* what each sold order cost more when placed than when filled: closing takes off
\* the later figure, and the difference stays.
FrozenCost ==
    AtRest /\ spent = 0 =>
        LET active == Sum({i \in Ids : order[i].isActive}, LAMBDA i : order[i].placed2)
            left   == Sum({i \in Ids : order[i].status = "sold" /\ ~order[i].isActive},
                          LAMBDA i : order[i].placed2 - order[i].amount2)
        IN  Apart(Entity.amount_in_usd, active + transferred.cost + left)
                <= faults * Max(Costs \cup {0})

\* At rest and without faults, a position sold whole is closed, as the test of
\* CloseOrderService.create expects of its buy order.
SoldIsClosed ==
    AtRest /\ faults = 0 => \A i \in Ids : order[i].status = "sold" => ~order[i].isActive
=============================================================================
