----------------------- MODULE FrozenService_proof -----------------------
(***************************************************************************)
(* Proofs about FrozenService. Typed says what a listener has yet to do: a   *)
(* purchase is entered first, an order that ends is taken off last. It holds  *)
(* for any number of tasks and carries TypeCorrect. The table agrees with    *)
(* the orders only for one task at a time (OneTask), since it has no lock;    *)
(* then Known says that a listener saves what is still there, Balanced that   *)
(* Gap, the difference between the table and the orders, and Due, what the    *)
(* listener at work has yet to enter, add up to one movement per fault at     *)
(* most, and CostBalanced the same of the costs. The sums over orders are     *)
(* reasoned about with the lemmas of Sums.                                   *)
(***************************************************************************)
EXTENDS FrozenService, Sums, SequenceTheorems, TLAPS

\* A call that is valued at the average takes something off.
AtAverage(m) == m \in Movement /\ m.atAverage /\ ~m.guarded /\ m.amount < 0

Busy(t) == pc[t] \in {"read", "save"}

\* The call by which closing or rolling back order i takes it off.
Ending(i) ==
    IF order[i].status = "sold" THEN Outcome(order[i].amount1, order[i].amount2)
    ELSE Income(-order[i].amount1, -order[i].placed2)

\* What a listener has yet to do: an income first when something was bought; when an
\* order ends, its own call last.
Plan(t) ==
    LET s == job[t].todo
    IN  /\ s # <<>>
        /\ IF job[t].id = 0
           THEN /\ \/ AtAverage(s[1])
                   \/ \E a \in Amounts, c \in Costs : s[1] = Income(a, c)
                /\ \A k \in 2..Len(s) : AtAverage(s[k])
           ELSE /\ s[Len(s)] = Ending(job[t].id)
                /\ \A k \in 1..(Len(s) - 1) : AtAverage(s[k])

Plans ==
    \A t \in Tasks :
        /\ pc[t] = "idle" => job[t] = NoJob
        /\ Busy(t) => Plan(t)
        /\ pc[t] = "update" => job[t].id # 0
        /\ job[t].id # 0 => /\ order[job[t].id].isActive
                            /\ order[job[t].id].status \in {"dropped", "sold"}
                            /\ \A u \in Tasks : job[u].id = job[t].id => u = t

Orders ==
    \A i \in Ids :
        /\ order[i].status # "none" => /\ order[i].amount1 \in Amounts
                                       /\ order[i].amount2 \in Costs
                                       /\ order[i].placed2 \in Costs
        /\ order[i].status = "none" => ~order[i].isActive
        /\ order[i].status \in {"placed", "filled"} => order[i].isActive

Typed == TypeOK /\ Orders /\ Plans

-----------------------------------------------------------------------------
LEMMA CallShape ==
    ASSUME NEW m \in Movement
    PROVE  /\ Call(m) \in Seq(Movement)
           /\ m.amount = 0 => Call(m) = <<>>
           /\ m.amount # 0 => Call(m) # <<>> /\ Len(Call(m)) = 1 /\ Call(m)[1] = m
  BY DEF Call

LEMMA MovementTypes ==
    ASSUME NEW a \in Int, NEW c \in Int
    PROVE  /\ Income(a, c) \in Movement /\ Outcome(a, c) \in Movement
           /\ OutcomeAtAverage(a) \in Movement
  BY DEF Income, Outcome, OutcomeAtAverage, Movement

LEMMA FeeShape ==
    ASSUME NEW f \in Nat
    PROVE  /\ Call(OutcomeAtAverage(f)) \in Seq(Movement)
           /\ \A k \in 1..Len(Call(OutcomeAtAverage(f))) :
                  AtAverage(Call(OutcomeAtAverage(f))[k])
  <1> PICK m \in Movement : m = OutcomeAtAverage(f)
    BY MovementTypes
  <1>1. m.amount = -f
    BY DEF OutcomeAtAverage
  <1>2. CASE f = 0
    BY <1>1, <1>2, CallShape
  <1>3. CASE f # 0
    <2>1. AtAverage(m)
      BY <1>3 DEF AtAverage, OutcomeAtAverage
    <2> QED
      BY <1>1, <1>3, <2>1, CallShape
  <1> QED
    BY <1>2, <1>3

LEMMA JoinShape ==
    ASSUME NEW r \in Seq(Movement), NEW s \in Seq(Movement)
    PROVE  /\ r \o s \in Seq(Movement)
           /\ Len(r \o s) = Len(r) + Len(s)
           /\ \A k \in 1..Len(r) : (r \o s)[k] = r[k]
           /\ \A k \in 1..Len(s) : (r \o s)[Len(r) + k] = s[k]
           /\ \A k \in (Len(r) + 1)..(Len(r) + Len(s)) : (r \o s)[k] = s[k - Len(r)]
  OBVIOUS

\* The plan of a listener that takes an order off.
LEMMA EndingPlan ==
    ASSUME NEW r \in Seq(Movement), \A k \in 1..Len(r) : AtAverage(r[k]),
           NEW m \in Movement, m.amount # 0, NEW s, s = r \o Call(m)
    PROVE  /\ s \in Seq(Movement) /\ s # <<>> /\ s[Len(s)] = m
           /\ \A k \in 1..(Len(s) - 1) : AtAverage(s[k])
  <1>1. Call(m) \in Seq(Movement) /\ Len(Call(m)) = 1 /\ Call(m)[1] = m
    BY CallShape
  <1> PICK q \in Seq(Movement) : q = Call(m)
    BY <1>1
  <1> s = r \o q
    OBVIOUS
  <1>2. /\ s \in Seq(Movement) /\ Len(s) = Len(r) + 1
        /\ \A k \in 1..Len(r) : s[k] = r[k]
        /\ s[Len(r) + 1] = m
    <2>1. /\ s \in Seq(Movement) /\ Len(s) = Len(r) + Len(q)
          /\ \A k \in 1..Len(r) : s[k] = r[k]
          /\ \A k \in 1..Len(q) : s[Len(r) + k] = q[k]
      BY JoinShape
    <2>2. Len(q) = 1 /\ q[1] = m
      BY <1>1
    <2> QED
      BY <2>1, <2>2
  <1> QED
    BY <1>2

\* The plan of a listener that adds something bought.
LEMMA BuyingPlan ==
    ASSUME NEW r \in Seq(Movement), \A k \in 1..Len(r) : AtAverage(r[k]),
           NEW m \in Movement, m.amount # 0, NEW s, s = Call(m) \o r
    PROVE  /\ s \in Seq(Movement) /\ s # <<>> /\ s[1] = m
           /\ \A k \in 2..Len(s) : AtAverage(s[k])
  <1>1. Call(m) \in Seq(Movement) /\ Len(Call(m)) = 1 /\ Call(m)[1] = m
    BY CallShape
  <1> PICK q \in Seq(Movement) : q = Call(m)
    BY <1>1
  <1> s = q \o r
    OBVIOUS
  <1>2. /\ s \in Seq(Movement) /\ Len(s) = 1 + Len(r) /\ s[1] = m
        /\ \A k \in 2..Len(s) : s[k] = r[k - 1]
    <2>1. /\ s \in Seq(Movement) /\ Len(s) = Len(q) + Len(r)
          /\ \A k \in 1..Len(q) : s[k] = q[k]
          /\ \A k \in (Len(q) + 1)..(Len(q) + Len(r)) : s[k] = r[k - Len(q)]
      BY JoinShape
    <2>2. Len(q) = 1 /\ q[1] = m /\ Len(r) \in Nat
      BY <1>1
    <2> QED
      BY <2>1, <2>2
  <1>3. \A k \in 2..Len(s) : k - 1 \in 1..Len(r)
    BY <1>2
  <1> QED
    BY <1>2, <1>3

LEMMA TailShape ==
    ASSUME NEW s \in Seq(Movement), s # <<>>
    PROVE  /\ Tail(s) \in Seq(Movement) /\ Len(Tail(s)) = Len(s) - 1
           /\ \A k \in 1..(Len(s) - 1) : Tail(s)[k] = s[k + 1]
           /\ Head(s) = s[1] /\ Head(s) \in Movement
           /\ Tail(s) = <<>> <=> Len(s) = 1
  <1>1. Tail(s) \in Seq(Movement) /\ Len(Tail(s)) = Len(s) - 1 /\ Len(s) \in Nat /\ Len(s) > 0
    OBVIOUS
  <1>2. \A k \in 1..(Len(s) - 1) : Tail(s)[k] = s[k + 1]
    OBVIOUS
  <1>3. Head(s) = s[1] /\ Head(s) \in Movement
    OBVIOUS
  <1>4. Tail(s) = <<>> <=> Len(Tail(s)) = 0
    BY <1>1
  <1>5. Tail(s) = <<>> <=> Len(s) = 1
    BY <1>1, <1>4
  <1> QED
    BY <1>1, <1>2, <1>3, <1>5

LEMMA DivideInt ==
    ASSUME NEW u \in Int, NEW a \in Int, a # 0
    PROVE  Divide(u, a) \in Int
  <1> DEFINE n == IF a < 0 THEN -u ELSE u
             d == IF a < 0 THEN -a ELSE a
  <1>1. n \in Int /\ d \in Nat /\ d > 0
    OBVIOUS
  <1>2. 2 * n + d \in Int /\ 2 * d \in Nat /\ 2 * d > 0
    BY <1>1
  <1> HIDE DEF n, d
  <1>3. (2 * n + d) \div (2 * d) \in Int
    BY <1>2
  <1> QED
    BY <1>3 DEF Divide, n, d

LEMMA MovedRow ==
    ASSUME NEW e \in Row, NEW m \in Movement
    PROVE  /\ Moved(e, m) \in Row /\ Moved(e, m).stored
           /\ Moved(e, m).amount = e.amount + m.amount
           /\ ~m.atAverage => Moved(e, m).amount_in_usd = e.amount_in_usd + m.cost
  <1>1. m.amount * e.avg_rate \in Int
    BY DEF Row, Movement
  <1> DEFINE a == e.amount + m.amount
             u == e.amount_in_usd + IF m.atAverage THEN m.amount * e.avg_rate ELSE m.cost
  <1>2. a \in Int /\ u \in Int
    BY <1>1 DEF Row, Movement
  <1> HIDE DEF a, u
  <1>3. (IF a = 0 THEN 0 ELSE Divide(u, a)) \in Int
    BY <1>2, DivideInt
  <1>4. Moved(e, m) = [stored |-> TRUE, amount |-> a, amount_in_usd |-> u,
                       avg_rate |-> IF a = 0 THEN 0 ELSE Divide(u, a)]
    BY DEF Moved, a, u
  <1> QED
    BY <1>2, <1>3, <1>4 DEF Row, a, u

LEMMA NoJobShape ==
    NoJob.id = 0 /\ NoJob \in [id : 0..MaxOrders, todo : Seq(Movement), entity : Row]
  BY FrozenAssumption DEF NoJob, NewRow, Row

-----------------------------------------------------------------------------
(* Types, orders and plans.                                                *)

JobType == [id : 0..MaxOrders, todo : Seq(Movement), entity : Row]

\* What holds of one task.
Planned(t) ==
    /\ pc[t] = "idle" => job[t] = NoJob
    /\ Busy(t) => Plan(t)
    /\ pc[t] = "update" => job[t].id # 0
    /\ job[t].id # 0 => /\ order[job[t].id].isActive
                        /\ order[job[t].id].status \in {"dropped", "sold"}
                        /\ \A u \in Tasks : job[u].id = job[t].id => u = t

LEMMA InitTyped == Init => Typed
  <1> SUFFICES ASSUME Init PROVE Typed
    OBVIOUS
  <1>1. TypeOK
    <2>1. NoOrder \in Order
      BY DEF NoOrder, Order
    <2>2. NoJob \in JobType
      BY NoJobShape DEF JobType
    <2> QED
      BY <2>1, <2>2, FrozenAssumption DEF Init, TypeOK, JobType
  <1>2. Orders
    BY DEF Init, Orders, NoOrder
  <1>3. Plans
    BY NoJobShape DEF Init, Plans, Busy
  <1> QED
    BY <1>1, <1>2, <1>3 DEF Typed

\* A task that moves, and the orders of the other tasks that do not change.
LEMMA MoverPlanned ==
    ASSUME Plans, NEW t \in Tasks,
           \A u \in Tasks \ {t} : pc'[u] = pc[u] /\ job'[u] = job[u],
           \A u \in Tasks \ {t} : job[u].id # 0 => order'[job[u].id] = order[job[u].id],
           \A u \in Tasks \ {t} : job'[t].id # 0 => job[u].id # job'[t].id,
           pc'[t] = "idle" => job'[t] = NoJob,
           Busy(t)' => Plan(t)',
           pc'[t] = "update" => job'[t].id # 0,
           job'[t].id # 0 => /\ order'[job'[t].id].isActive
                             /\ order'[job'[t].id].status \in {"dropped", "sold"}
    PROVE  Plans'
  <1>1. ASSUME NEW u \in Tasks, u # t
        PROVE  Planned(u)'
    <2>1. pc'[u] = pc[u] /\ job'[u] = job[u] /\ Planned(u)
      BY <1>1 DEF Plans, Planned
    <2>2. job[u].id # 0 => order'[job[u].id] = order[job[u].id]
      BY <1>1
    <2>3. Busy(u)' <=> Busy(u)
      BY <2>1 DEF Busy
    <2>4. Plan(u) => Plan(u)'
      BY <2>1, <2>2 DEF Plan, Ending
    <2>5. job[u].id # 0 => \A v \in Tasks : job'[v].id = job[u].id => v = u
      BY <1>1, <2>1 DEF Planned
    <2> QED
      BY <2>1, <2>2, <2>3, <2>4, <2>5 DEF Planned
  <1>2. Planned(t)'
    BY DEF Planned
  <1> QED
    BY <1>1, <1>2 DEF Plans, Planned

LEMMA ReturnTyped ==
    ASSUME Typed, NEW t \in Tasks, Return(t), TypeOK', Orders',
           \A u \in Tasks \ {t} : job[u].id # 0 => order'[job[u].id] = order[job[u].id]
    PROVE  Typed'
  <1>1. /\ pc'[t] = "idle" /\ job'[t] = NoJob
        /\ \A u \in Tasks \ {t} : pc'[u] = pc[u] /\ job'[u] = job[u]
    BY DEF Return, Goto, Typed, TypeOK
  <1>2. Plans'
    BY <1>1, NoJobShape, MoverPlanned DEF Typed, Busy
  <1> QED
    BY <1>2 DEF Typed

LEMMA ReturnTypes ==
    ASSUME TypeOK, NEW t \in Tasks, Return(t)
    PROVE  /\ pc' \in [Tasks -> {"idle", "read", "save", "update"}]
           /\ job' \in [Tasks -> JobType]
  BY NoJobShape DEF Return, Goto, TypeOK, JobType

\* An event whose listener begins.
LEMMA ListenTyped ==
    ASSUME Typed, NEW t \in Tasks, NEW i \in 0..MaxOrders, NEW s \in Seq(Movement),
           Listen(t, i, s), UNCHANGED <<rows, spent, faults>>,
           order' \in [Ids -> Order], Orders',
           transferred' \in [n : 0..MaxTransfers, amount : Nat, cost : Nat],
           \A u \in Tasks : job[u].id # 0 => order'[job[u].id] = order[job[u].id],
           s # <<>>,
           i = 0 => /\ AtAverage(s[1]) \/ \E a \in Amounts, c \in Costs : s[1] = Income(a, c)
                    /\ \A k \in 2..Len(s) : AtAverage(s[k]),
           i # 0 => /\ s[Len(s)] = Ending(i)'
                    /\ \A k \in 1..(Len(s) - 1) : AtAverage(s[k])
                    /\ order'[i].isActive /\ order'[i].status \in {"dropped", "sold"}
                    /\ \A u \in Tasks : job[u].id # i
    PROVE  Typed'
  <1>1. /\ pc' \in [Tasks -> {"idle", "read", "save", "update"}]
        /\ job' \in [Tasks -> JobType]
    BY DEF Listen, Typed, TypeOK, JobType
  <1>2. TypeOK'
    BY <1>1 DEF Typed, TypeOK, JobType
  <1>3. /\ pc'[t] = "read" /\ job'[t].id = i /\ job'[t].todo = s
        /\ \A u \in Tasks \ {t} : pc'[u] = pc[u] /\ job'[u] = job[u]
    BY DEF Listen, Typed, TypeOK
  <1>4. Plan(t)'
    BY <1>3 DEF Plan
  <1>5. Plans'
    BY <1>3, <1>4, MoverPlanned DEF Typed
  <1> QED
    BY <1>2, <1>5 DEF Typed

LEMMA IdleHasNoOrder ==
    ASSUME Typed, NEW t \in Tasks, pc[t] = "idle"
    PROVE  job[t].id = 0
  BY NoJobShape DEF Typed, Plans

\* An order no task is busy with may change.
LEMMA FreeOrder ==
    ASSUME Typed, NEW i \in Ids, order[i].status \notin {"dropped", "sold"}
    PROVE  \A u \in Tasks : job[u].id # i
  BY FrozenAssumption DEF Typed, Plans, Ids

LEMMA OtherOrders ==
    ASSUME Typed, NEW i \in Ids, order[i].status \notin {"dropped", "sold"},
           \A j \in Ids \ {i} : order'[j] = order[j]
    PROVE  \A u \in Tasks : job[u].id # 0 => order'[job[u].id] = order[job[u].id]
  <1>1. \A u \in Tasks : job[u].id \in 0..MaxOrders /\ job[u].id # i
    BY FreeOrder DEF Typed, TypeOK
  <1> QED
    BY <1>1, FrozenAssumption DEF Ids

LEMMA CreatedTyped ==
    ASSUME Typed, NEW t \in Tasks, BuyOrderCreated(t)
    PROVE  Typed'
  <1>1. PICK i \in Ids, a \in Amounts, c \in Costs :
            /\ order[i].status = "none"
            /\ order' = [order EXCEPT ![i] =
                    [NoOrder EXCEPT !.status = "placed", !.isActive = TRUE,
                                    !.amount1 = a, !.amount2 = c, !.placed2 = c]]
            /\ Listen(t, 0, Call(Income(a, c)))
            /\ UNCHANGED <<rows, transferred, spent, faults>>
    BY DEF BuyOrderCreated
  <1>2. a \in Nat /\ a # 0 /\ c \in Nat
    BY FrozenAssumption
  <1>3. order' \in [Ids -> Order]
    BY <1>1, <1>2 DEF Typed, TypeOK, Order, NoOrder
  <1>4. Orders'
    BY <1>1 DEF Typed, TypeOK, Orders, NoOrder
  <1>5. \A u \in Tasks : job[u].id # 0 => order'[job[u].id] = order[job[u].id]
    <2>1. \A j \in Ids \ {i} : order'[j] = order[j]
      BY <1>1 DEF Typed, TypeOK
    <2> QED
      BY <1>1, <2>1, OtherOrders
  <1> PICK m \in Movement : m = Income(a, c)
    BY <1>2, MovementTypes
  <1> PICK s : s = Call(m)
    OBVIOUS
  <1>6. s \in Seq(Movement) /\ s # <<>> /\ Len(s) = 1 /\ s[1] = Income(a, c)
    BY <1>2, CallShape DEF Income
  <1>7. Listen(t, 0, s)
    BY <1>1
  <1>8. transferred' \in [n : 0..MaxTransfers, amount : Nat, cost : Nat]
    BY <1>1 DEF Typed, TypeOK
  <1> QED
    BY <1>1, <1>3, <1>4, <1>5, <1>6, <1>7, <1>8, ListenTyped, FrozenAssumption

LEMMA FilledTyped ==
    ASSUME Typed, NEW i \in Ids, BuyOrderFilled(i)
    PROVE  Typed'
  <1>1. PICK c \in Costs, f \in Fees :
            order' = [order EXCEPT ![i].status = "filled", ![i].amount2 = c, ![i].fee1 = f]
    BY DEF BuyOrderFilled
  <1>2. order[i].status = "placed" /\ UNCHANGED <<rows, transferred, spent, pc, job, faults>>
    BY DEF BuyOrderFilled
  <1>3. c \in Nat /\ f \in Nat
    BY FrozenAssumption
  <1>4. TypeOK'
    <2>1. order' \in [Ids -> Order]
      <3> PICK o \in Order : o = order[i]
        BY DEF Typed, TypeOK
      <3>1. [o EXCEPT !.status = "filled", !.amount2 = c, !.fee1 = f] \in Order
        BY <1>3 DEF Order
      <3>2. order' = [order EXCEPT ![i] =
                         [o EXCEPT !.status = "filled", !.amount2 = c, !.fee1 = f]]
        BY <1>1 DEF Typed, TypeOK
      <3> QED
        BY <3>1, <3>2 DEF Typed, TypeOK
    <2> QED
      BY <1>2, <2>1 DEF Typed, TypeOK
  <1>5. Orders'
    BY <1>1, <1>2 DEF Typed, TypeOK, Orders, Order
  <1>6. \A u \in Tasks : job[u].id # 0 => order'[job[u].id] = order[job[u].id]
    <2>1. \A j \in Ids \ {i} : order'[j] = order[j]
      BY <1>1 DEF Typed, TypeOK
    <2> QED
      BY <1>2, <2>1, OtherOrders
  <1>7. Plans'
    <2>1. ASSUME NEW u \in Tasks
          PROVE  Planned(u)'
      BY <1>2, <1>6 DEF Typed, Plans, Planned, Busy, Plan, Ending
    <2> QED
      BY <2>1 DEF Plans, Planned
  <1> QED
    BY <1>4, <1>5, <1>7 DEF Typed

LEMMA RolledBackTyped ==
    ASSUME Typed, NEW t \in Tasks, BuyOrderRolledBack(t)
    PROVE  Typed'
  <1>1. PICK i \in Ids :
            /\ order[i].status \in {"placed", "dropped"} /\ order[i].isActive
            /\ \A u \in Tasks : job[u].id # i
            /\ order' = [order EXCEPT ![i].status = "dropped"]
            /\ Listen(t, i, Call(Income(-order[i].amount1, -order[i].placed2)))
            /\ UNCHANGED <<rows, transferred, spent, faults>>
    BY DEF BuyOrderRolledBack
  <1> PICK a \in Amounts, c \in Costs : a = order[i].amount1 /\ c = order[i].placed2
    BY <1>1 DEF Typed, Orders
  <1>2. -a \in Int /\ -a # 0 /\ -c \in Int
    <2>1. a \in Nat \ {0} /\ c \in Nat \ {0}
      BY FrozenAssumption, Zenon
    <2>2. \A n \in Nat \ {0} : -n \in Int /\ -n # 0
      OBVIOUS
    <2> QED
      BY <2>1, <2>2, Zenon
  <1>3. order' \in [Ids -> Order]
    BY ZenonT(60), <1>1 DEF Typed, TypeOK, Order
  <1>4. Orders'
    BY <1>1 DEF Typed, TypeOK, Orders, Order
  <1>5. \A u \in Tasks : job[u].id # 0 => order'[job[u].id] = order[job[u].id]
    <2>1. \A j \in Ids \ {i} : order'[j] = order[j]
      BY <1>1 DEF Typed, TypeOK
    <2>2. \A u \in Tasks : job[u].id \in 0..MaxOrders /\ job[u].id # i
      BY <1>1 DEF Typed, TypeOK
    <2> QED
      BY <2>1, <2>2, FrozenAssumption DEF Ids
  <1> PICK m \in Movement : m = Income(-a, -c)
    BY <1>2, MovementTypes
  <1> PICK s : s = Call(m)
    OBVIOUS
  <1>6. s \in Seq(Movement) /\ s # <<>> /\ Len(s) = 1 /\ s[1] = m
    BY <1>2, CallShape DEF Income
  <1>7. Listen(t, i, s)
    BY <1>1
  <1>8. transferred' \in [n : 0..MaxTransfers, amount : Nat, cost : Nat]
    BY <1>1 DEF Typed, TypeOK
  <1>9. /\ order'[i].status = "dropped" /\ order'[i].isActive
        /\ order'[i].amount1 = a /\ order'[i].placed2 = c
    BY <1>1 DEF Typed, TypeOK, Order
  <1>10. m = Ending(i)'
    BY <1>9 DEF Ending
  <1>11. i \in 0..MaxOrders /\ i # 0
    BY FrozenAssumption DEF Ids
  <1>12. s[Len(s)] = Ending(i)' /\ \A k \in 1..(Len(s) - 1) : AtAverage(s[k])
    BY <1>6, <1>10
  <1>13. order'[i].isActive /\ order'[i].status \in {"dropped", "sold"}
    BY <1>9
  <1> QED
    BY <1>1, <1>3, <1>4, <1>5, <1>6, <1>7, <1>8, <1>11, <1>12, <1>13, ListenTyped

LEMMA ClosedTyped ==
    ASSUME Typed, NEW t \in Tasks, BuyOrderClosed(t)
    PROVE  Typed'
  <1>1. PICK i \in Ids, f \in Fees :
            /\ order[i].status = "filled"
            /\ order' = [order EXCEPT ![i].status = "sold"]
            /\ Listen(t, i, Call(OutcomeAtAverage(f)) \o Call(OutcomeAtAverage(order[i].fee1))
                                \o Call(Outcome(order[i].amount1, order[i].amount2)))
            /\ UNCHANGED <<rows, transferred, spent, faults>>
    BY DEF BuyOrderClosed
  <1> PICK a \in Amounts, c \in Costs : a = order[i].amount1 /\ c = order[i].amount2
    BY <1>1 DEF Typed, Orders
  <1> PICK g \in Nat : g = order[i].fee1
    BY DEF Typed, TypeOK, Order
  <1>2. a \in Int /\ a # 0 /\ c \in Int /\ f \in Nat
    BY FrozenAssumption
  <1>3. order' \in [Ids -> Order]
    BY ZenonT(60), <1>1 DEF Typed, TypeOK, Order
  <1>4. Orders'
    BY <1>1 DEF Typed, TypeOK, Orders, Order
  <1>5. \A u \in Tasks : job[u].id # 0 => order'[job[u].id] = order[job[u].id]
    <2>1. \A j \in Ids \ {i} : order'[j] = order[j]
      BY <1>1 DEF Typed, TypeOK
    <2> QED
      BY <1>1, <2>1, OtherOrders
  <1> PICK m \in Movement : m = Outcome(a, c)
    BY <1>2, MovementTypes
  <1> PICK p, q : p = Call(OutcomeAtAverage(f)) /\ q = Call(OutcomeAtAverage(g))
    OBVIOUS
  <1>6. /\ p \in Seq(Movement) /\ \A k \in 1..Len(p) : AtAverage(p[k])
        /\ q \in Seq(Movement) /\ \A k \in 1..Len(q) : AtAverage(q[k])
    BY <1>2, FeeShape
  <1> DEFINE r == p \o q
  <1>7. r \in Seq(Movement) /\ \A k \in 1..Len(r) : AtAverage(r[k])
    <2>1. /\ r \in Seq(Movement) /\ Len(r) = Len(p) + Len(q)
          /\ \A k \in 1..Len(p) : r[k] = p[k]
          /\ \A k \in (Len(p) + 1)..(Len(p) + Len(q)) : r[k] = q[k - Len(p)]
      BY <1>6, JoinShape
    <2>2. ASSUME NEW k \in 1..Len(r)
          PROVE  AtAverage(r[k])
      <3>0. Len(p) \in Nat /\ Len(q) \in Nat
        BY <1>6
      <3>1. CASE k <= Len(p)
        BY <1>6, <2>1, <3>0, <3>1
      <3>2. CASE k > Len(p)
        <4>1. k - Len(p) \in 1..Len(q) /\ k \in (Len(p) + 1)..(Len(p) + Len(q))
          BY <2>1, <3>0, <3>2
        <4> QED
          BY <1>6, <2>1, <4>1
      <3> QED
        BY <3>0, <3>1, <3>2
    <2> QED
      BY <2>1, <2>2
  <1> HIDE DEF r
  <1> PICK s : s = r \o Call(m)
    OBVIOUS
  <1>8. /\ s \in Seq(Movement) /\ s # <<>> /\ s[Len(s)] = m
        /\ \A k \in 1..(Len(s) - 1) : AtAverage(s[k])
    <2>1. m.amount # 0
      BY <1>2 DEF Outcome
    <2> QED
      BY ZenonT(60), <1>7, <2>1, EndingPlan
  <1>9. Listen(t, i, s)
    BY <1>1 DEF r
  <1>10. transferred' \in [n : 0..MaxTransfers, amount : Nat, cost : Nat]
    BY <1>1 DEF Typed, TypeOK
  <1>11. /\ order'[i].status = "sold" /\ order'[i].isActive
         /\ order'[i].amount1 = a /\ order'[i].amount2 = c
    BY <1>1 DEF Typed, TypeOK, Order, Orders
  <1>12. m = Ending(i)'
    BY <1>11 DEF Ending
  <1>13. i \in 0..MaxOrders /\ i # 0
    BY FrozenAssumption DEF Ids
  <1>14. \A u \in Tasks : job[u].id # i
    BY <1>1, FreeOrder
  <1>15. s[Len(s)] = Ending(i)' /\ order'[i].isActive /\ order'[i].status \in {"dropped", "sold"}
    BY <1>8, <1>11, <1>12
  <1> QED
    BY <1>1, <1>3, <1>4, <1>5, <1>8, <1>9, <1>10, <1>13, <1>14, <1>15, ListenTyped

LEMMA TransferredTyped ==
    ASSUME Typed, NEW t \in Tasks, FeeTransferred(t)
    PROVE  Typed'
  <1>1. PICK a \in Amounts, c \in Costs, f \in Fees :
            /\ transferred' = [n |-> transferred.n + 1, amount |-> transferred.amount + a,
                               cost |-> transferred.cost + c]
            /\ Listen(t, 0, Call(Income(a, c)) \o Call(OutcomeAtAverage(f)))
            /\ UNCHANGED <<rows, order, spent, faults>> /\ transferred.n < MaxTransfers
    BY DEF FeeTransferred
  <1>2. a \in Nat /\ a # 0 /\ c \in Nat /\ f \in Nat
    BY FrozenAssumption
  <1> PICK m \in Movement : m = Income(a, c)
    BY <1>2, MovementTypes
  <1> PICK r : r = Call(OutcomeAtAverage(f))
    OBVIOUS
  <1>3. r \in Seq(Movement) /\ \A k \in 1..Len(r) : AtAverage(r[k])
    BY <1>2, FeeShape
  <1> PICK s : s = Call(m) \o r
    OBVIOUS
  <1>4. s \in Seq(Movement) /\ s # <<>> /\ s[1] = m /\ \A k \in 2..Len(s) : AtAverage(s[k])
    <2>1. m.amount # 0
      BY <1>2 DEF Income
    <2> QED
      BY <1>3, <2>1, BuyingPlan
  <1>5. Listen(t, 0, s)
    BY <1>1
  <1>6. transferred' \in [n : 0..MaxTransfers, amount : Nat, cost : Nat]
    BY <1>1, <1>2, FrozenAssumption DEF Typed, TypeOK
  <1>7. /\ order' \in [Ids -> Order] /\ Orders'
        /\ \A u \in Tasks : job[u].id # 0 => order'[job[u].id] = order[job[u].id]
    BY <1>1 DEF Typed, TypeOK, Orders
  <1>8. s[1] = Income(a, c) /\ 0 \in 0..MaxOrders
    BY <1>4, FrozenAssumption
  <1>9. UNCHANGED <<rows, spent, faults>>
    BY <1>1
  <1> QED
    BY <1>4, <1>5, <1>6, <1>7, <1>8, <1>9, ListenTyped

-----------------------------------------------------------------------------
(* The steps of a listener.                                                *)

LEMMA GetBalanceTyped ==
    ASSUME Typed, NEW t \in Tasks, GetBalance(t)
    PROVE  Typed'
  <1>1. Entity \in Row
    <2>1. NewRow \in Row
      BY DEF NewRow, Row
    <2>2. CASE rows = <<>>
      BY <2>1, <2>2 DEF Entity
    <2>3. CASE rows # <<>>
      <3>1. rows \in Seq(Row)
        BY DEF Typed, TypeOK
      <3>2. rows[1] \in Row
        BY <2>3, <3>1
      <3> QED
        BY <2>3, <3>2 DEF Entity
    <2> QED
      BY <2>2, <2>3
  <1> PICK e \in Row : e = Entity
    BY <1>1
  <1>2. /\ pc' = [pc EXCEPT ![t] = "save"] /\ job' = [job EXCEPT ![t].entity = e]
        /\ UNCHANGED <<rows, order, transferred, spent, faults>> /\ pc[t] = "read"
    BY DEF GetBalance, Goto
  <1>3. TypeOK'
    BY <1>2 DEF Typed, TypeOK
  <1>4. /\ pc'[t] = "save" /\ job'[t].id = job[t].id /\ job'[t].todo = job[t].todo
        /\ \A u \in Tasks \ {t} : pc'[u] = pc[u] /\ job'[u] = job[u]
    BY <1>2 DEF Typed, TypeOK
  <1>5. Planned(t)
    BY DEF Typed, Plans, Planned
  <1>6. Plan(t)'
    BY <1>2, <1>4, <1>5 DEF Planned, Busy, Plan, Ending
  <1>7. Plans'
    BY <1>2, <1>4, <1>5, <1>6, MoverPlanned DEF Typed, Planned
  <1>8. Orders'
    BY <1>2 DEF Typed, Orders
  <1> QED
    BY <1>3, <1>7, <1>8 DEF Typed

\* What is left of a plan is a plan, unless nothing is.
LEMMA TailPlan ==
    ASSUME Typed, NEW t \in Tasks, Busy(t)
    PROVE  LET s == job[t].todo
           IN  /\ s \in Seq(Movement) /\ s # <<>> /\ Head(s) \in Movement /\ Head(s) = s[1]
               /\ Tail(s) \in Seq(Movement)
               /\ Head(s).atAverage => AtAverage(Head(s))
               /\ job[t].id = 0 => \A k \in 1..Len(Tail(s)) : AtAverage(Tail(s)[k])
               /\ job[t].id # 0 /\ Tail(s) # <<>> =>
                     /\ AtAverage(Head(s))
                     /\ Tail(s)[Len(Tail(s))] = Ending(job[t].id)
                     /\ \A k \in 1..(Len(Tail(s)) - 1) : AtAverage(Tail(s)[k])
               /\ job[t].id # 0 /\ Tail(s) = <<>> => Head(s) = Ending(job[t].id)
  <1> PICK s \in Seq(Movement) : s = job[t].todo
    BY DEF Typed, TypeOK
  <1> PICK i \in 0..MaxOrders : i = job[t].id
    BY DEF Typed, TypeOK
  <1>1. Plan(t)
    BY DEF Typed, Plans
  <1>2. s # <<>>
    BY <1>1 DEF Plan
  <1>3. /\ Tail(s) \in Seq(Movement) /\ Len(Tail(s)) = Len(s) - 1 /\ Len(s) \in Nat
        /\ \A k \in 1..(Len(s) - 1) : Tail(s)[k] = s[k + 1]
        /\ Head(s) = s[1] /\ Head(s) \in Movement
        /\ Tail(s) = <<>> <=> Len(s) = 1
    BY <1>2, TailShape
  <1> PICK r \in Seq(Movement) : r = Tail(s)
    BY <1>3
  <1>4. Len(s) # 0
    BY <1>2
  <1>5. CASE i = 0
    <2>1. /\ AtAverage(s[1]) \/ \E a \in Amounts, c \in Costs : s[1] = Income(a, c)
          /\ \A k \in 2..Len(s) : AtAverage(s[k])
      BY <1>1, <1>5 DEF Plan
    <2>2. s[1].atAverage => AtAverage(s[1])
      <3>1. CASE \E a \in Amounts, c \in Costs : s[1] = Income(a, c)
        <4>1. PICK a \in Amounts, c \in Costs : s[1] = Income(a, c)
          BY <3>1
        <4>2. ~Income(a, c).atAverage
          BY DEF Income
        <4> QED
          BY <4>1, <4>2
      <3> QED
        BY <2>1, <3>1
    <2>3. \A k \in 1..Len(r) : AtAverage(r[k])
      <3>1. \A k \in 1..Len(r) : r[k] = s[k + 1] /\ k + 1 \in 2..Len(s)
        BY <1>3
      <3> QED
        BY <2>1, <3>1
    <2> QED
      BY <1>2, <1>3, <1>5, <2>2, <2>3
  <1>6. CASE i # 0
    <2>1. s[Len(s)] = Ending(i) /\ \A k \in 1..(Len(s) - 1) : AtAverage(s[k])
      BY <1>1, <1>6 DEF Plan
    <2>2. ~Ending(i).atAverage
      BY DEF Ending, Outcome, Income
    <2>3. CASE Len(s) = 1
      BY <1>2, <1>3, <1>6, <2>1, <2>2, <2>3
    <2>4. CASE Len(s) # 1
      <3>1. AtAverage(s[1])
        BY <1>3, <1>4, <2>1, <2>4
      <3>2. \A k \in 1..(Len(r) - 1) : r[k] = s[k + 1] /\ k + 1 \in 1..(Len(s) - 1)
        BY <1>3
      <3>3. \A k \in 1..(Len(r) - 1) : AtAverage(r[k])
        BY <2>1, <3>2
      <3>4. r[Len(r)] = s[Len(s)]
        BY <1>3, <1>4, <2>4
      <3> QED
        BY <1>2, <1>3, <1>6, <2>1, <2>4, <3>1, <3>3, <3>4
    <2> QED
      BY <2>3, <2>4
  <1> QED
    BY <1>5, <1>6

LEMMA SaveTyped ==
    ASSUME Typed, NEW t \in Tasks, SaveBalance(t)
    PROVE  Typed'
  <1> PICK s \in Seq(Movement) : s = job[t].todo
    BY DEF Typed, TypeOK
  <1> PICK i \in 0..MaxOrders : i = job[t].id
    BY DEF Typed, TypeOK
  <1>0. Busy(t) /\ pc[t] = "save"
    BY DEF SaveBalance, Busy
  <1>1. /\ s # <<>> /\ Head(s) \in Movement /\ Tail(s) \in Seq(Movement)
        /\ Head(s).atAverage => AtAverage(Head(s))
        /\ i = 0 => \A k \in 1..Len(Tail(s)) : AtAverage(Tail(s)[k])
        /\ i # 0 /\ Tail(s) # <<>> =>
              /\ Tail(s)[Len(Tail(s))] = Ending(i)
              /\ \A k \in 1..(Len(Tail(s)) - 1) : AtAverage(Tail(s)[k])
    BY <1>0, TailPlan
  <1> PICK m \in Movement, q \in Seq(Movement) : m = Head(s) /\ q = Tail(s)
    BY <1>1
  <1> PICK e \in Row : e = job[t].entity
    BY DEF Typed, TypeOK
  <1> PICK r \in Row : r = Moved(e, m)
    BY MovedRow
  <1>2. /\ rows' = IF e.stored THEN [rows EXCEPT ![1] = r] ELSE Append(rows, r)
        /\ spent' = IF m.atAverage THEN spent - m.amount ELSE spent
        /\ NextCall(t) /\ UNCHANGED <<order, transferred, faults>>
    BY DEF SaveBalance
  <1>3. rows' \in Seq(Row)
    <2>1. rows \in Seq(Row)
      BY DEF Typed, TypeOK
    <2>2. Append(rows, r) \in Seq(Row)
      BY <2>1
    <2>3. [rows EXCEPT ![1] = r] \in Seq(Row)
      <3> PICK n \in Nat : n = Len(rows)
        BY <2>1
      <3>1. rows \in [1..n -> Row]
        BY <2>1
      <3>2. [rows EXCEPT ![1] = r] \in [1..n -> Row]
        BY <3>1
      <3>3. [1..n -> Row] \subseteq Seq(Row)
        OBVIOUS
      <3> QED
        BY <3>2, <3>3, Zenon
    <2> QED
      BY <1>2, <2>2, <2>3
  <1>4. spent' \in Nat
    <2>1. spent \in Nat /\ m.amount \in Int /\ (m.atAverage => m.amount < 0)
      BY <1>1 DEF Typed, TypeOK, AtAverage, Movement
    <2> QED
      BY <1>2, <2>1
  <1>5. Orders'
    BY <1>2 DEF Typed, Orders
  <1>6. Planned(t)
    BY DEF Typed, Plans, Planned
  <1>7. CASE q = <<>> /\ i = 0
    <2>1. Return(t)
      BY <1>2, <1>7 DEF NextCall
    <2>2. TypeOK'
      BY <1>2, <1>3, <1>4, <2>1, ReturnTypes DEF Typed, TypeOK, JobType
    <2> QED
      BY <1>2, <1>5, <2>1, <2>2, ReturnTyped
  <1>8. CASE q # <<>> \/ i # 0
    <2> PICK label \in {"update", "read"} : label = IF q = <<>> THEN "update" ELSE "read"
      OBVIOUS
    <2>1. /\ pc' = [pc EXCEPT ![t] = label]
          /\ job' = [job EXCEPT ![t].todo = q, ![t].entity = NewRow]
      BY <1>2, <1>8 DEF NextCall, Goto
    <2>2. NewRow \in Row
      BY DEF NewRow, Row
    <2>3. /\ pc' \in [Tasks -> {"idle", "read", "save", "update"}]
          /\ job' \in [Tasks -> JobType]
      BY ZenonT(60), <2>1, <2>2 DEF Typed, TypeOK, JobType
    <2>4. TypeOK'
      BY <1>2, <1>3, <1>4, <2>3 DEF Typed, TypeOK, JobType
    <2>5. /\ pc'[t] = label /\ job'[t].id = i /\ job'[t].todo = q
          /\ \A u \in Tasks \ {t} : pc'[u] = pc[u] /\ job'[u] = job[u]
      BY <2>1 DEF Typed, TypeOK
    <2>6. ASSUME q # <<>>
          PROVE  Plan(t)'
      <3>1. CASE i = 0
        <4>1. \A k \in 1..Len(q) : AtAverage(q[k])
          BY <1>1, <3>1
        <4>2. Len(q) \in Nat /\ Len(q) # 0
          BY <2>6
        <4>3. AtAverage(q[1]) /\ \A k \in 2..Len(q) : AtAverage(q[k])
          <5>1. 1 \in 1..Len(q) /\ \A k \in 2..Len(q) : k \in 1..Len(q)
            <6>1. \A n \in Nat \ {0} : 1 \in 1..n /\ \A k \in 2..n : k \in 1..n
              OBVIOUS
            <6> QED
              BY <4>2, <6>1
          <5> QED
            BY <4>1, <5>1
        <4> QED
          BY <2>5, <2>6, <3>1, <4>3 DEF Plan
      <3>2. CASE i # 0
        <4>1. q[Len(q)] = Ending(i) /\ \A k \in 1..(Len(q) - 1) : AtAverage(q[k])
          BY <1>1, <2>6, <3>2
        <4>2. Ending(i)' = Ending(i)
          BY <1>2 DEF Ending
        <4> QED
          BY <2>5, <2>6, <3>2, <4>1, <4>2 DEF Plan
      <3> QED
        BY <3>1, <3>2
    <2>7. Plans'
      <3>1. q = <<>> => label = "update" /\ i # 0
        BY <1>8
      <3>2. Busy(t)' => Plan(t)'
        BY <2>5, <2>6, <3>1 DEF Busy
      <3>3. pc'[t] = "update" => job'[t].id # 0
        BY <1>8, <2>5
      <3>4. i # 0 => /\ order'[i].isActive /\ order'[i].status \in {"dropped", "sold"}
                     /\ \A u \in Tasks : job[u].id = i => u = t
        BY <1>2, <1>6 DEF Planned
      <3>5. pc'[t] # "idle"
        BY <2>5
      <3> QED
        BY <1>2, <2>5, <3>2, <3>3, <3>4, <3>5, MoverPlanned DEF Typed
    <2> QED
      BY <1>5, <2>4, <2>7 DEF Typed
  <1> QED
    BY <1>7, <1>8

LEMMA UpdateTyped ==
    ASSUME Typed, NEW t \in Tasks, UpdateOrder(t)
    PROVE  Typed'
  <1> PICK i \in 0..MaxOrders : i = job[t].id
    BY DEF Typed, TypeOK
  <1>1. /\ order' = [order EXCEPT ![i].isActive = FALSE] /\ Return(t)
        /\ UNCHANGED <<rows, transferred, spent, faults>> /\ pc[t] = "update"
    BY DEF UpdateOrder
  <1>2. /\ i \in Ids /\ order[i].status \in {"dropped", "sold"}
        /\ \A u \in Tasks : job[u].id = i => u = t
    BY <1>1, FrozenAssumption DEF Typed, Plans, Ids
  <1>3. TypeOK'
    <2>1. order' \in [Ids -> Order]
      BY ZenonT(60), <1>1 DEF Typed, TypeOK, Order
    <2> QED
      BY <1>1, <2>1, ReturnTypes DEF Typed, TypeOK, JobType
  <1>4. Orders'
    BY <1>1, <1>2 DEF Typed, TypeOK, Orders, Order
  <1>5. \A u \in Tasks \ {t} : job[u].id # 0 => order'[job[u].id] = order[job[u].id]
    BY <1>1, <1>2 DEF Typed, TypeOK
  <1> QED
    BY <1>1, <1>3, <1>4, <1>5, ReturnTyped

LEMMA CutShortTyped ==
    ASSUME Typed, NEW t \in Tasks, DividesByZero(t) \/ Interrupted(t)
    PROVE  Typed'
  <1>1. /\ Return(t) /\ UNCHANGED <<rows, order, transferred, spent>>
        /\ faults' \in 0..MaxFaults
    BY FrozenAssumption DEF DividesByZero, Interrupted, Typed, TypeOK
  <1>2. TypeOK'
    BY <1>1, ReturnTypes DEF Typed, TypeOK, JobType
  <1>3. Orders'
    BY <1>1 DEF Typed, Orders
  <1> QED
    BY <1>1, <1>2, <1>3, ReturnTyped

LEMMA StutterTyped ==
    ASSUME Typed, UNCHANGED vars
    PROVE  Typed'
  BY DEF Typed, TypeOK, Orders, Plans, Busy, Plan, Ending, vars

LEMMA NextTyped == Typed /\ [Next]_vars => Typed'
  <1> SUFFICES ASSUME Typed, [Next]_vars PROVE Typed'
    OBVIOUS
  <1>1. ASSUME NEW t \in Tasks,
               \/ BuyOrderCreated(t) \/ BuyOrderRolledBack(t) \/ BuyOrderClosed(t)
               \/ FeeTransferred(t)
               \/ GetBalance(t) \/ SaveBalance(t) \/ DividesByZero(t) \/ UpdateOrder(t)
               \/ Interrupted(t)
        PROVE  Typed'
    BY <1>1, CreatedTyped, RolledBackTyped, ClosedTyped, TransferredTyped, GetBalanceTyped,
       SaveTyped, UpdateTyped, CutShortTyped
  <1>2. ASSUME NEW i \in Ids, BuyOrderFilled(i)
        PROVE  Typed'
    BY <1>2, FilledTyped
  <1>3. CASE Waiting \/ UNCHANGED vars
    BY <1>3, StutterTyped DEF Waiting
  <1> QED
    BY <1>1, <1>2, <1>3 DEF Next

LEMMA TypedInvariant == Spec => []Typed
  BY InitTyped, NextTyped, PTL DEF Spec

\* TypeOK, for any number of tasks, orders, transfers and faults.
THEOREM TypeCorrect == Spec => []TypeOK
  <1>1. Typed => TypeOK
    BY DEF Typed
  <1> QED
    BY <1>1, TypedInvariant, PTL

-----------------------------------------------------------------------------
(* What the table is owed, with one order service at a time.               *)

OneTask == \A t, u \in Tasks : t = u

\* The row a listener is about to save has not changed since it read it.
Known ==
    /\ rows # <<>> => Len(rows) = 1 /\ rows[1].stored
    /\ \A t \in Tasks : pc[t] = "save" => job[t].entity = Entity

\* What order i adds to the sums of FrozenAmount and FrozenCost.
Part(i)     == IF order[i].isActive THEN order[i].amount1 ELSE 0
CostPart(i) == IF order[i].isActive THEN order[i].placed2 ELSE 0
LeftPart(i) == IF order[i].status = "sold" /\ ~order[i].isActive
               THEN order[i].placed2 - order[i].amount2 ELSE 0

Active     == SumFunctionOnSet([i \in Ids |-> Part(i)], Ids)
ActiveCost == SumFunctionOnSet([i \in Ids |-> CostPart(i)], Ids)
Left       == SumFunctionOnSet([i \in Ids |-> LeftPart(i)], Ids)

Gap     == Entity.amount - (Active + transferred.amount - spent)
CostGap == Entity.amount_in_usd - (ActiveCost + transferred.cost + Left)

Buying(t) == Busy(t) /\ ~Head(job[t].todo).atAverage

\* What the listener of task t has yet to put in the row or in the orders.
Due(t) ==
    IF job[t].id = 0
    THEN IF Buying(t) THEN Head(job[t].todo).amount ELSE 0
    ELSE IF pc[t] = "update" THEN order[job[t].id].amount1 ELSE 0

CostDue(t) ==
    IF job[t].id = 0
    THEN IF Buying(t) THEN Head(job[t].todo).cost ELSE 0
    ELSE IF pc[t] # "update" THEN 0
    ELSE IF order[job[t].id].status = "sold" THEN order[job[t].id].amount2
    ELSE order[job[t].id].placed2

Within(n, S) == -(faults * Max(S \cup {0})) <= n /\ n <= faults * Max(S \cup {0})

Balanced ==
    /\ AtRest => Within(Gap, Amounts)
    /\ \A t \in Tasks : Within(Gap + Due(t), Amounts)

CostBalanced ==
    spent = 0 =>
        /\ AtRest => Within(CostGap, Costs)
        /\ \A t \in Tasks : Within(CostGap + CostDue(t), Costs)

Owed == Typed /\ Known /\ Balanced /\ CostBalanced

LEMMA IdsFinite == IsFiniteSet(Ids)
  BY FS_Interval, FrozenAssumption DEF Ids

LEMMA PartTypes ==
    ASSUME Typed, NEW i \in Ids
    PROVE  /\ Part(i) \in Int /\ CostPart(i) \in Int /\ LeftPart(i) \in Int
  BY DEF Typed, TypeOK, Order, Part, CostPart, LeftPart

LEMMA EntityType ==
    ASSUME Typed
    PROVE  Entity \in Row
  <1>1. NewRow \in Row
    BY DEF NewRow, Row
  <1>2. CASE rows = <<>>
    BY <1>1, <1>2 DEF Entity
  <1>3. CASE rows # <<>>
    <2>1. rows \in Seq(Row)
      BY DEF Typed, TypeOK
    <2>2. rows[1] \in Row
      BY <1>3, <2>1
    <2> QED
      BY <1>3, <2>2 DEF Entity
  <1> QED
    BY <1>2, <1>3

LEMMA SumTypes ==
    ASSUME Typed
    PROVE  /\ Active \in Int /\ ActiveCost \in Int /\ Left \in Int
           /\ Gap \in Int /\ CostGap \in Int
           /\ Entity.amount \in Int /\ Entity.amount_in_usd \in Int
           /\ transferred.amount \in Nat /\ transferred.cost \in Nat /\ spent \in Nat
  <1>1. Active \in Int
    BY IdsFinite, PartTypes, SumType DEF Active
  <1>2. ActiveCost \in Int
    BY IdsFinite, PartTypes, SumType DEF ActiveCost
  <1>3. Left \in Int
    BY IdsFinite, PartTypes, SumType DEF Left
  <1>4. /\ Entity.amount \in Int /\ Entity.amount_in_usd \in Int
        /\ transferred.amount \in Nat /\ transferred.cost \in Nat /\ spent \in Nat
    BY EntityType DEF Typed, TypeOK, Row
  <1> QED
    BY <1>1, <1>2, <1>3, <1>4 DEF Gap, CostGap

\* One order changes.
LEMMA SumsChange ==
    ASSUME Typed, Typed', NEW i \in Ids, \A j \in Ids \ {i} : order'[j] = order[j]
    PROVE  /\ Active' = Active - Part(i) + Part(i)'
           /\ ActiveCost' = ActiveCost - CostPart(i) + CostPart(i)'
           /\ Left' = Left - LeftPart(i) + LeftPart(i)'
  <1>1. \A j \in Ids : /\ Part(j) \in Int /\ CostPart(j) \in Int /\ LeftPart(j) \in Int
                       /\ Part(j)' \in Int /\ CostPart(j)' \in Int /\ LeftPart(j)' \in Int
    <2>1. \A j \in Ids : Part(j)' \in Int /\ CostPart(j)' \in Int /\ LeftPart(j)' \in Int
      <3>1. ASSUME NEW j \in Ids
            PROVE  Part(j)' \in Int /\ CostPart(j)' \in Int /\ LeftPart(j)' \in Int
        <4>1. order'[j] \in Order
          BY DEF Typed, TypeOK
        <4> QED
          BY <4>1 DEF Order, Part, CostPart, LeftPart
      <3> QED
        BY <3>1
    <2> QED
      BY <2>1, PartTypes
  <1>2. \A j \in Ids \ {i} : /\ Part(j)' = Part(j) /\ CostPart(j)' = CostPart(j)
                             /\ LeftPart(j)' = LeftPart(j)
    BY DEF Part, CostPart, LeftPart
  <1>3. Active' = Active - Part(i) + Part(i)'
    <2> PICK f, e : f = [j \in Ids |-> Part(j)] /\ e = [j \in Ids |-> Part(j)']
      OBVIOUS
    <2>1. SumFunctionOnSet(e, Ids) = SumFunctionOnSet(f, Ids) - f[i] + e[i]
      <3>1. /\ \A j \in Ids : f[j] \in Int /\ e[j] \in Int
            /\ \A j \in Ids \ {i} : e[j] = f[j]
        BY <1>1, <1>2
      <3> QED
        BY <3>1, IdsFinite, SumChange
    <2> QED
      BY <2>1 DEF Active
  <1>4. ActiveCost' = ActiveCost - CostPart(i) + CostPart(i)'
    <2> PICK f, e : f = [j \in Ids |-> CostPart(j)] /\ e = [j \in Ids |-> CostPart(j)']
      OBVIOUS
    <2>1. SumFunctionOnSet(e, Ids) = SumFunctionOnSet(f, Ids) - f[i] + e[i]
      <3>1. /\ \A j \in Ids : f[j] \in Int /\ e[j] \in Int
            /\ \A j \in Ids \ {i} : e[j] = f[j]
        BY <1>1, <1>2
      <3> QED
        BY <3>1, IdsFinite, SumChange
    <2> QED
      BY <2>1 DEF ActiveCost
  <1>5. Left' = Left - LeftPart(i) + LeftPart(i)'
    <2> PICK f, e : f = [j \in Ids |-> LeftPart(j)] /\ e = [j \in Ids |-> LeftPart(j)']
      OBVIOUS
    <2>1. SumFunctionOnSet(e, Ids) = SumFunctionOnSet(f, Ids) - f[i] + e[i]
      <3>1. /\ \A j \in Ids : f[j] \in Int /\ e[j] \in Int
            /\ \A j \in Ids \ {i} : e[j] = f[j]
        BY <1>1, <1>2
      <3> QED
        BY <3>1, IdsFinite, SumChange
    <2> QED
      BY <2>1 DEF Left
  <1> QED
    BY <1>3, <1>4, <1>5

LEMMA SumsKept ==
    ASSUME UNCHANGED order
    PROVE  Active' = Active /\ ActiveCost' = ActiveCost /\ Left' = Left
  BY DEF Active, ActiveCost, Left, Part, CostPart, LeftPart

LEMMA EntityKept ==
    ASSUME UNCHANGED rows
    PROVE  Entity' = Entity
  BY DEF Entity

LEMMA MaxIs ==
    ASSUME NEW S \in SUBSET Nat, IsFiniteSet(S)
    PROVE  Max(S \cup {0}) \in Nat /\ \A n \in S : n <= Max(S \cup {0})
  <1> DEFINE Bounded(s) == \E m \in s \cup {0} : \A n \in s \cup {0} : n <= m
             T == {s \in SUBSET S : Bounded(s)}
  <1>1. {} \in T
    OBVIOUS
  <1>2. ASSUME NEW s \in SUBSET S, NEW x \in S, x \notin s, s \in T
        PROVE  s \cup {x} \in T
    <2>1. PICK m \in s \cup {0} : \A n \in s \cup {0} : n <= m
      BY <1>2
    <2> DEFINE k == IF m <= x THEN x ELSE m
    <2>2. k \in s \cup {x} \cup {0} /\ \A n \in s \cup {x} \cup {0} : n <= k
      BY <2>1
    <2>3. Bounded(s \cup {x})
      BY <2>2
    <2> QED
      BY <1>2, <2>3
  <1>3. S \in T
    <2> HIDE DEF T
    <2> QED
      BY <1>1, <1>2, AddingSteps
  <1>4. PICK m \in S \cup {0} : \A n \in S \cup {0} : n <= m
    BY <1>3
  <1>5. \E x \in S \cup {0} : \A y \in S \cup {0} : x >= y
    BY <1>4
  <1>6. Max(S \cup {0}) \in S \cup {0} /\ \A y \in S \cup {0} : Max(S \cup {0}) >= y
    BY <1>5 DEF Max
  <1> PICK k : k = Max(S \cup {0})
    OBVIOUS
  <1>7. k \in S \cup {0} /\ \A y \in S \cup {0} : k >= y
    BY <1>6
  <1>8. k \in Nat
    BY <1>7
  <1>9. \A n \in S : n <= k
    BY <1>7, <1>8
  <1> QED
    BY <1>8, <1>9

-----------------------------------------------------------------------------
(* A step that is not a fault leaves what the table is owed as it was.      *)

Steady(t) ==
    /\ faults' = faults
    /\ Gap' + Due(t)' = Gap + Due(t)
    /\ spent' = 0 => spent = 0 /\ CostGap' + CostDue(t)' = CostGap + CostDue(t)

LEMMA IdleOwesNothing ==
    ASSUME Typed, NEW t \in Tasks, pc[t] = "idle"
    PROVE  Due(t) = 0 /\ CostDue(t) = 0
  <1>1. job[t].id = 0
    BY IdleHasNoOrder
  <1> QED
    BY <1>1 DEF Due, CostDue, Buying, Busy

\* The listener of an order that ends has nothing to account for until it is done.
LEMMA EndingOwesNothing ==
    ASSUME NEW t \in Tasks, job[t].id # 0, pc[t] # "update"
    PROVE  Due(t) = 0 /\ CostDue(t) = 0
  BY DEF Due, CostDue

LEMMA ListenEffect ==
    ASSUME Typed, NEW t \in Tasks, NEW i, NEW s, Listen(t, i, s)
    PROVE  /\ pc[t] = "idle" /\ pc'[t] = "read" /\ job'[t].id = i /\ job'[t].todo = s
           /\ \A u \in Tasks \ {t} : pc'[u] = pc[u] /\ job'[u] = job[u]
  BY DEF Listen, Typed, TypeOK

LEMMA CreatedSteady ==
    ASSUME Typed, Typed', NEW t \in Tasks, BuyOrderCreated(t)
    PROVE  Steady(t)
  <1>1. PICK i \in Ids, a \in Amounts, c \in Costs :
            /\ order[i].status = "none"
            /\ order' = [order EXCEPT ![i] =
                    [NoOrder EXCEPT !.status = "placed", !.isActive = TRUE,
                                    !.amount1 = a, !.amount2 = c, !.placed2 = c]]
            /\ Listen(t, 0, Call(Income(a, c)))
            /\ UNCHANGED <<rows, transferred, spent, faults>>
    BY DEF BuyOrderCreated
  <1>2. a \in Nat /\ a # 0 /\ c \in Nat
    BY FrozenAssumption
  <1>3. /\ pc[t] = "idle" /\ pc'[t] = "read" /\ job'[t].id = 0
        /\ job'[t].todo = Call(Income(a, c))
    BY <1>1, ListenEffect
  <1>4. Due(t)' = a /\ CostDue(t)' = c
    <2>1. Call(Income(a, c)) = <<Income(a, c)>>
      BY <1>2 DEF Call, Income
    <2>2. Head(job'[t].todo) = Income(a, c)
      BY <1>3, <2>1
    <2>3. Busy(t)' /\ Buying(t)'
      BY <1>3, <2>2 DEF Busy, Buying, Income
    <2> QED
      BY <1>3, <2>2, <2>3 DEF Due, CostDue, Income
  <1>5. /\ Part(i) = 0 /\ CostPart(i) = 0 /\ LeftPart(i) = 0
        /\ Part(i)' = a /\ CostPart(i)' = c /\ LeftPart(i)' = 0
    BY <1>1 DEF Typed, TypeOK, Orders, Part, CostPart, LeftPart, NoOrder
  <1>6. \A j \in Ids \ {i} : order'[j] = order[j]
    BY <1>1 DEF Typed, TypeOK
  <1>7. Active' = Active + a /\ ActiveCost' = ActiveCost + c /\ Left' = Left
    BY <1>2, <1>5, <1>6, SumsChange, SumTypes
  <1>8. Due(t) = 0 /\ CostDue(t) = 0
    BY <1>3, IdleOwesNothing
  <1>9. Entity' = Entity
    BY <1>1, EntityKept
  <1> QED
    BY <1>1, <1>2, <1>4, <1>7, <1>8, <1>9, SumTypes DEF Steady, Gap, CostGap

\* What comes in unposted widens a gap by as much.
LEMMA GapShift ==
    ASSUME NEW e \in Int, NEW x \in Int, NEW v \in Int, NEW s \in Int, NEW a \in Nat
    PROVE  /\ e - (x + (v + a) - s) = (e - (x + v - s)) - a
           /\ e - (x + (v + a) + s) = (e - (x + v + s)) - a
  OBVIOUS

LEMMA TransferredSteady ==
    ASSUME Typed, Typed', NEW t \in Tasks, FeeTransferred(t)
    PROVE  Steady(t)
  <1>1. PICK a \in Amounts, c \in Costs, f \in Fees :
            /\ transferred' = [n |-> transferred.n + 1, amount |-> transferred.amount + a,
                               cost |-> transferred.cost + c]
            /\ Listen(t, 0, Call(Income(a, c)) \o Call(OutcomeAtAverage(f)))
            /\ UNCHANGED <<rows, order, spent, faults>>
    BY DEF FeeTransferred
  <1>2. a \in Nat /\ a # 0 /\ c \in Nat /\ f \in Nat
    BY FrozenAssumption
  <1> PICK s : s = Call(Income(a, c)) \o Call(OutcomeAtAverage(f))
    OBVIOUS
  <1>3. pc[t] = "idle" /\ pc'[t] = "read" /\ job'[t].id = 0 /\ job'[t].todo = s
    BY <1>1, ListenEffect
  <1>4. s \in Seq(Movement) /\ s # <<>> /\ s[1] = Income(a, c)
    <2> PICK m \in Movement : m = Income(a, c)
      BY <1>2, MovementTypes
    <2> DEFINE r == Call(OutcomeAtAverage(f))
    <2>1. r \in Seq(Movement) /\ \A k \in 1..Len(r) : AtAverage(r[k])
      BY <1>2, FeeShape
    <2>2. m.amount # 0
      BY <1>2 DEF Income
    <2>3. s = Call(m) \o r
      OBVIOUS
    <2> HIDE DEF r
    <2> QED
      BY <2>1, <2>2, <2>3, BuyingPlan
  <1>5. Due(t)' = a /\ CostDue(t)' = c
    <2>1. Head(s) = Income(a, c)
      BY <1>4
    <2>2. Head(job'[t].todo) = Income(a, c) /\ pc'[t] = "read" /\ job'[t].id = 0
      BY <1>3, <2>1
    <2>3. Busy(t)' /\ Buying(t)'
      BY <2>2 DEF Busy, Buying, Income
    <2> QED
      BY <2>2, <2>3 DEF Due, CostDue, Income
  <1>6. Active' = Active /\ ActiveCost' = ActiveCost /\ Left' = Left
    BY <1>1, SumsKept
  <1>7. Due(t) = 0 /\ CostDue(t) = 0
    BY <1>3, IdleOwesNothing
  <1>8. Entity' = Entity
    BY <1>1, EntityKept
  <1>9. /\ transferred'.amount = transferred.amount + a
        /\ transferred'.cost = transferred.cost + c
        /\ spent' = spent /\ faults' = faults
    BY <1>1
  <1>10. Gap' = Gap - a /\ CostGap' = CostGap - c
    <2>1. Gap' = Entity.amount - (Active + (transferred.amount + a) - spent)
      BY <1>6, <1>8, <1>9 DEF Gap
    <2>2. CostGap' = Entity.amount_in_usd - (ActiveCost + (transferred.cost + c) + Left)
      BY <1>6, <1>8, <1>9 DEF CostGap
    <2>0. /\ Entity.amount \in Int /\ Entity.amount_in_usd \in Int
          /\ Active \in Int /\ ActiveCost \in Int /\ Left \in Int
          /\ transferred.amount \in Int /\ transferred.cost \in Int /\ spent \in Int
      BY SumTypes
    <2> PICK e1 \in Int, e2 \in Int : e1 = Entity.amount /\ e2 = Entity.amount_in_usd
      BY <2>0
    <2> PICK x \in Int, y \in Int, z \in Int : x = Active /\ y = ActiveCost /\ z = Left
      BY <2>0
    <2> PICK v \in Int, w \in Int : v = transferred.amount /\ w = transferred.cost
      BY <2>0
    <2>3. e1 - (x + (v + a) - spent) = (e1 - (x + v - spent)) - a
      BY SMTT(30), <1>2, <2>0, GapShift
    <2>4. e2 - (y + (w + c) + z) = (e2 - (y + w + z)) - c
      BY SMTT(30), <1>2, GapShift
    <2>5. Gap = e1 - (x + v - spent) /\ CostGap = e2 - (y + w + z)
      BY DEF Gap, CostGap
    <2> QED
      BY <2>1, <2>2, <2>3, <2>4, <2>5
  <1> QED
    BY SMTT(30), <1>2, <1>5, <1>7, <1>9, <1>10, SumTypes DEF Steady

LEMMA EndingSteady ==
    ASSUME Typed, Typed', NEW t \in Tasks, BuyOrderRolledBack(t) \/ BuyOrderClosed(t)
    PROVE  Steady(t)
  <1>0. \E i \in Ids, status \in {"dropped", "sold"} : \E s :
            /\ order[i].isActive /\ order' = [order EXCEPT ![i].status = status]
            /\ order[i].status \notin {"sold"}
            /\ Listen(t, i, s) /\ UNCHANGED <<rows, transferred, spent, faults>>
    <2>1. CASE BuyOrderRolledBack(t)
      BY <2>1 DEF BuyOrderRolledBack
    <2>2. CASE BuyOrderClosed(t)
      <3>1. PICK i \in Ids, fee \in Fees :
                /\ order[i].status = "filled"
                /\ order' = [order EXCEPT ![i].status = "sold"]
                /\ Listen(t, i, Call(OutcomeAtAverage(fee))
                                   \o Call(OutcomeAtAverage(order[i].fee1))
                                   \o Call(Outcome(order[i].amount1, order[i].amount2)))
                /\ UNCHANGED <<rows, transferred, spent, faults>>
        BY <2>2 DEF BuyOrderClosed
      <3>2. order[i].isActive
        BY <3>1 DEF Typed, Orders
      <3> QED
        BY <3>1, <3>2
    <2> QED
      BY <2>1, <2>2
  <1> PICK i \in Ids, status \in {"dropped", "sold"} : \E s :
            /\ order[i].isActive /\ order' = [order EXCEPT ![i].status = status]
            /\ order[i].status \notin {"sold"}
            /\ Listen(t, i, s) /\ UNCHANGED <<rows, transferred, spent, faults>>
    BY <1>0
  <1>1. PICK s :
            /\ order[i].isActive /\ order' = [order EXCEPT ![i].status = status]
            /\ order[i].status \notin {"sold"}
            /\ Listen(t, i, s) /\ UNCHANGED <<rows, transferred, spent, faults>>
    OBVIOUS
  <1>2. pc[t] = "idle" /\ pc'[t] = "read" /\ job'[t].id = i
    BY <1>1, ListenEffect
  <1>3. /\ Part(i)' = Part(i) /\ CostPart(i)' = CostPart(i)
        /\ LeftPart(i) = 0 /\ LeftPart(i)' = 0
    BY <1>1 DEF Typed, TypeOK, Order, Part, CostPart, LeftPart
  <1>4. \A j \in Ids \ {i} : order'[j] = order[j]
    BY <1>1 DEF Typed, TypeOK
  <1>5. Active' = Active /\ ActiveCost' = ActiveCost /\ Left' = Left
    BY <1>3, <1>4, SumsChange, SumTypes, PartTypes
  <1>6. Due(t) = 0 /\ CostDue(t) = 0
    BY <1>2, IdleOwesNothing
  <1>7. Due(t)' = 0 /\ CostDue(t)' = 0
    <2>1. i # 0
      BY FrozenAssumption DEF Ids
    <2> QED
      BY <1>2, <2>1 DEF Due, CostDue
  <1>8. Entity' = Entity
    BY <1>1, EntityKept
  <1> QED
    BY <1>1, <1>5, <1>6, <1>7, <1>8, SumTypes DEF Steady, Gap, CostGap

LEMMA GetBalanceSteady ==
    ASSUME Typed, NEW t \in Tasks, GetBalance(t)
    PROVE  Steady(t)
  <1>1. /\ pc[t] = "read" /\ pc'[t] = "save" /\ job'[t].id = job[t].id
        /\ job'[t].todo = job[t].todo /\ UNCHANGED <<rows, order, transferred, spent, faults>>
    BY DEF GetBalance, Goto, Typed, TypeOK
  <1>2. Busy(t)' /\ Busy(t)
    BY <1>1 DEF Busy
  <1>3. Due(t)' = Due(t) /\ CostDue(t)' = CostDue(t)
    BY <1>1, <1>2 DEF Due, CostDue, Buying
  <1> QED
    BY <1>1, <1>3, SumsKept, EntityKept DEF Steady, Gap, CostGap

LEMMA UpdateSteady ==
    ASSUME Typed, Typed', NEW t \in Tasks, UpdateOrder(t)
    PROVE  Steady(t)
  <1> PICK i \in 0..MaxOrders : i = job[t].id
    BY DEF Typed, TypeOK
  <1>1. /\ order' = [order EXCEPT ![i].isActive = FALSE] /\ Return(t)
        /\ UNCHANGED <<rows, transferred, spent, faults>> /\ pc[t] = "update"
    BY DEF UpdateOrder
  <1>2. /\ i \in Ids /\ i # 0 /\ order[i].status \in {"dropped", "sold"} /\ order[i].isActive
    BY <1>1, FrozenAssumption DEF Typed, Plans, Ids
  <1> PICK o \in Order : o = order[i]
    BY <1>2 DEF Typed, TypeOK
  <1>3. \A j \in Ids \ {i} : order'[j] = order[j]
    BY <1>1, <1>2 DEF Typed, TypeOK
  <1>4. /\ order'[i].isActive = FALSE /\ order'[i].status = o.status
        /\ order'[i].amount1 = o.amount1 /\ order'[i].amount2 = o.amount2
        /\ order'[i].placed2 = o.placed2
    BY <1>1, <1>2 DEF Typed, TypeOK, Order
  <1>5. /\ Part(i) = o.amount1 /\ CostPart(i) = o.placed2 /\ LeftPart(i) = 0
        /\ Part(i)' = 0 /\ CostPart(i)' = 0
        /\ LeftPart(i)' = IF o.status = "sold" THEN o.placed2 - o.amount2 ELSE 0
    BY <1>2, <1>4 DEF Part, CostPart, LeftPart
  <1>6. /\ Due(t) = o.amount1
        /\ CostDue(t) = IF o.status = "sold" THEN o.amount2 ELSE o.placed2
    BY <1>1, <1>2 DEF Due, CostDue
  <1>7. Due(t)' = 0 /\ CostDue(t)' = 0
    <2>1. pc'[t] = "idle" /\ job'[t] = NoJob
      BY <1>1 DEF Return, Goto, Typed, TypeOK
    <2> QED
      BY <2>1, NoJobShape DEF Due, CostDue, Buying, Busy
  <1>8. /\ Active' = Active - o.amount1 /\ ActiveCost' = ActiveCost - o.placed2
        /\ Left' = Left + (IF o.status = "sold" THEN o.placed2 - o.amount2 ELSE 0)
    BY <1>2, <1>3, <1>5, SumsChange, SumTypes DEF Order
  <1>9. Entity' = Entity
    BY <1>1, EntityKept
  <1>10. o.amount1 \in Nat /\ o.amount2 \in Nat /\ o.placed2 \in Nat
    BY DEF Order
  <1> QED
    BY <1>1, <1>6, <1>7, <1>8, <1>9, <1>10, SumTypes DEF Steady, Gap, CostGap

LEMMA SavedEntity ==
    ASSUME Typed, Known, NEW t \in Tasks, SaveBalance(t)
    PROVE  /\ Entity' = Moved(Entity, Head(job[t].todo)) /\ Head(job[t].todo) \in Movement
           /\ Len(rows') = 1 /\ rows'[1].stored
  <1> PICK e \in Row : e = Entity
    BY EntityType
  <1>1. Busy(t) /\ job[t].entity = e
    BY DEF SaveBalance, Busy, Known
  <1> PICK m \in Movement : m = Head(job[t].todo)
    BY <1>1, TailPlan
  <1> PICK r \in Row : r = Moved(e, m)
    BY MovedRow
  <1>2. r.stored
    BY MovedRow
  <1>3. rows' = IF e.stored THEN [rows EXCEPT ![1] = r] ELSE Append(rows, r)
    BY <1>1 DEF SaveBalance
  <1>4. rows' # <<>> /\ Len(rows') = 1 /\ rows'[1] = r
    <2>0. rows \in Seq(Row)
      BY DEF Typed, TypeOK
    <2>1. CASE rows = <<>>
      <3>1. ~e.stored
        BY <2>1 DEF Entity, NewRow
      <3> QED
        BY <1>3, <2>1, <3>1
    <2>2. CASE rows # <<>>
      <3>1. e.stored /\ Len(rows) = 1
        BY <2>2 DEF Entity, Known
      <3>2. rows' = [rows EXCEPT ![1] = r]
        BY <1>3, <3>1
      <3>3. 1 \in 1..Len(rows)
        BY <3>1
      <3>4. /\ [rows EXCEPT ![1] = r] \in Seq(Row)
            /\ Len([rows EXCEPT ![1] = r]) = Len(rows)
            /\ [rows EXCEPT ![1] = r][1] = r
        BY <2>0, <3>3, ExceptSeq
      <3>5. rows' \in Seq(Row) /\ Len(rows') = 1 /\ rows'[1] = r
        BY <3>1, <3>2, <3>4
      <3>6. Len(<<>>) # 1
        OBVIOUS
      <3>7. rows' # <<>>
        BY <3>5, <3>6, Zenon
      <3> QED
        BY <3>5, <3>7
    <2> QED
      BY <2>1, <2>2
  <1>5. Entity' = r
    BY <1>4 DEF Entity
  <1> QED
    BY <1>2, <1>4, <1>5

\* What is due of a task that has just saved.
LEMMA DueAfterSave ==
    ASSUME Typed, NEW t \in Tasks, SaveBalance(t),
           NEW s, NEW i, s = job[t].todo, i = job[t].id
    PROVE  /\ i = 0 => Due(t)' = 0 /\ CostDue(t)' = 0
           /\ i # 0 /\ Tail(s) # <<>> => Due(t)' = 0 /\ CostDue(t)' = 0
           /\ i # 0 /\ Tail(s) = <<>> =>
                 /\ Due(t)' = order[i].amount1
                 /\ CostDue(t)' = IF order[i].status = "sold" THEN order[i].amount2
                                  ELSE order[i].placed2
  <1>1. NextCall(t) /\ order' = order /\ Busy(t)
    BY DEF SaveBalance, Busy
  <1>2. /\ i = 0 => \A k \in 1..Len(Tail(s)) : AtAverage(Tail(s)[k])
        /\ Tail(s) \in Seq(Movement)
    BY <1>1, TailPlan
  <1> PICK q \in Seq(Movement) : q = Tail(s)
    BY <1>2
  <1>3. CASE q = <<>> /\ i = 0
    <2>1. Return(t)
      BY <1>1, <1>3 DEF NextCall
    <2>2. pc'[t] = "idle" /\ job'[t] = NoJob
      BY <2>1 DEF Return, Goto, Typed, TypeOK
    <2>3. Due(t)' = 0 /\ CostDue(t)' = 0
      BY <2>2, NoJobShape DEF Due, CostDue, Buying, Busy
    <2> QED
      BY <1>3, <2>3
  <1>4. CASE q # <<>> \/ i # 0
    <2> PICK label : label = IF q = <<>> THEN "update" ELSE "read"
      OBVIOUS
    <2>0. /\ pc' = [pc EXCEPT ![t] = label]
          /\ job' = [job EXCEPT ![t].todo = q, ![t].entity = NewRow]
      BY <1>1, <1>4 DEF NextCall, Goto
    <2>1. pc'[t] = label /\ job'[t].id = i /\ job'[t].todo = q
      BY <2>0 DEF Typed, TypeOK
    <2>2. CASE i = 0
      <3>1. q # <<>> /\ Head(q) = q[1] /\ AtAverage(q[1])
        <4>1. q # <<>>
          BY <1>4, <2>2
        <4>2. 1 \in 1..Len(q) /\ Head(q) = q[1]
          <5>1. Len(q) \in Nat /\ Len(q) # 0
            BY <4>1
          <5>2. \A n \in Nat \ {0} : 1 \in 1..n
            OBVIOUS
          <5> QED
            BY <4>1, <5>1, <5>2
        <4> QED
          BY <1>2, <2>2, <4>1, <4>2
      <3>2. Head(job'[t].todo).atAverage
        BY <2>1, <3>1 DEF AtAverage
      <3>3. ~Buying(t)'
        BY <3>2 DEF Buying
      <3>4. Due(t)' = 0 /\ CostDue(t)' = 0
        BY <2>1, <2>2, <3>3 DEF Due, CostDue
      <3> QED
        BY <2>2, <3>4
    <2>3. CASE i # 0
      <3>1. CASE q # <<>>
        <4>1. Due(t)' = 0 /\ CostDue(t)' = 0
          BY <2>1, <2>3, <3>1 DEF Due, CostDue
        <4> QED
          BY <2>3, <3>1, <4>1
      <3>2. CASE q = <<>>
        <4>1. /\ Due(t)' = order[i].amount1
              /\ CostDue(t)' = IF order[i].status = "sold" THEN order[i].amount2
                               ELSE order[i].placed2
          BY <1>1, <2>1, <2>3, <3>2 DEF Due, CostDue
        <4> QED
          BY <2>3, <3>2, <4>1
      <3> QED
        BY <3>1, <3>2
    <2> QED
      BY <2>2, <2>3
  <1> QED
    BY <1>3, <1>4

LEMMA SaveSteady ==
    ASSUME Typed, Typed', Known, NEW t \in Tasks, SaveBalance(t)
    PROVE  Steady(t)
  <1> PICK e \in Row : e = Entity
    BY EntityType
  <1> PICK s, i : s = job[t].todo /\ i = job[t].id
    OBVIOUS
  <1>0. Busy(t) /\ pc[t] = "save"
    BY DEF SaveBalance, Busy
  <1>1. /\ Head(s).atAverage => AtAverage(Head(s))
        /\ Head(s) \in Movement
        /\ i # 0 /\ Tail(s) # <<>> => AtAverage(Head(s))
        /\ i # 0 /\ Tail(s) = <<>> => Head(s) = Ending(i)
    BY <1>0, TailPlan
  <1> PICK m \in Movement : m = Head(s)
    BY <1>1
  <1>2. /\ spent' = IF m.atAverage THEN spent - m.amount ELSE spent
        /\ UNCHANGED <<order, transferred, faults>>
    BY DEF SaveBalance
  <1>3. Entity' = Moved(e, m)
    BY SavedEntity
  <1>4. /\ Entity'.amount = e.amount + m.amount
        /\ ~m.atAverage => Entity'.amount_in_usd = e.amount_in_usd + m.cost
    BY <1>3, MovedRow
  <1>5. Active' = Active /\ ActiveCost' = ActiveCost /\ Left' = Left
    BY <1>2, SumsKept
  <1>6. Gap' = (e.amount + m.amount) - (Active + transferred.amount - spent')
    BY <1>2, <1>4, <1>5 DEF Gap
  <1>7. Gap = e.amount - (Active + transferred.amount - spent)
    BY DEF Gap
  <1>8. /\ e.amount \in Int /\ e.amount_in_usd \in Int /\ m.amount \in Int /\ m.cost \in Int
        /\ Active \in Int /\ ActiveCost \in Int /\ Left \in Int
        /\ transferred.amount \in Int /\ transferred.cost \in Int /\ spent \in Nat
    BY SumTypes DEF Row, Movement
  <1>9. /\ i = 0 => Due(t)' = 0 /\ CostDue(t)' = 0
        /\ i # 0 /\ Tail(s) # <<>> => Due(t)' = 0 /\ CostDue(t)' = 0
        /\ i # 0 /\ Tail(s) = <<>> =>
              /\ Due(t)' = order[i].amount1
              /\ CostDue(t)' = IF order[i].status = "sold" THEN order[i].amount2
                               ELSE order[i].placed2
    BY DueAfterSave
  <1>10. CASE m.atAverage
    <2>1. m.amount < 0 /\ spent' = spent - m.amount
      BY <1>1, <1>2, <1>10 DEF AtAverage
    <2>2. Gap' = Gap /\ spent' # 0
      BY <1>6, <1>7, <1>8, <2>1
    <2>3. i # 0 => Tail(s) # <<>>
      <3>1. ~Ending(i).atAverage
        BY DEF Ending, Outcome, Income
      <3> QED
        BY <1>1, <1>10, <3>1
    <2>4. Due(t)' = 0
      BY <1>9, <2>3
    <2>5. Due(t) = 0
      BY <1>0, <1>10 DEF Due, Buying
    <2> QED
      BY <1>2, <2>2, <2>4, <2>5 DEF Steady
  <1>11. CASE ~m.atAverage
    <2>1. spent' = spent
      BY <1>2, <1>11
    <2>2. Gap' = Gap + m.amount
      BY <1>6, <1>7, <1>8, <2>1
    <2>3. CostGap' = CostGap + m.cost
      <3>1. CostGap' = (e.amount_in_usd + m.cost) - (ActiveCost + transferred.cost + Left)
        BY <1>2, <1>4, <1>5, <1>11 DEF CostGap
      <3>2. CostGap = e.amount_in_usd - (ActiveCost + transferred.cost + Left)
        BY DEF CostGap
      <3> QED
        BY <1>8, <3>1, <3>2
    <2>4. Gap \in Int /\ CostGap \in Int
      BY SumTypes
    <2>5. CASE i = 0
      <3>1. Buying(t)
        BY <1>0, <1>11 DEF Buying
      <3>2. Due(t) = m.amount /\ CostDue(t) = m.cost
        BY <2>5, <3>1 DEF Due, CostDue
      <3>3. Due(t)' = 0 /\ CostDue(t)' = 0
        BY <1>9, <2>5
      <3> QED
        BY <1>2, <1>8, <2>1, <2>2, <2>3, <2>4, <3>2, <3>3 DEF Steady
    <2>6. CASE i # 0
      <3>1. Tail(s) = <<>> /\ m = Ending(i)
        BY <1>1, <1>11, <2>6 DEF AtAverage
      <3>2. i \in Ids
        BY <2>6, FrozenAssumption DEF Ids, Typed, TypeOK
      <3> PICK o \in Order : o = order[i]
        BY <3>2 DEF Typed, TypeOK
      <3>3. /\ m.amount = -o.amount1
            /\ m.cost = IF o.status = "sold" THEN -o.amount2 ELSE -o.placed2
        BY <3>1 DEF Ending, Outcome, Income
      <3>4. /\ Due(t)' = o.amount1
            /\ CostDue(t)' = IF o.status = "sold" THEN o.amount2 ELSE o.placed2
        BY <1>9, <2>6, <3>1
      <3>5. Due(t) = 0 /\ CostDue(t) = 0
        BY <1>0, <2>6, EndingOwesNothing
      <3>6. o.amount1 \in Nat /\ o.amount2 \in Nat /\ o.placed2 \in Nat
        BY DEF Order
      <3> QED
        BY <1>2, <2>1, <2>2, <2>3, <2>4, <3>3, <3>4, <3>5, <3>6 DEF Steady
    <2> QED
      BY <2>5, <2>6
  <1> QED
    BY <1>10, <1>11

LEMMA ZeroSteady ==
    ASSUME Typed, NEW t \in Tasks, DividesByZero(t)
    PROVE  Steady(t)
  <1> PICK i : i = job[t].id
    OBVIOUS
  <1>1. /\ pc[t] = "save" /\ ~Head(job[t].todo).guarded /\ Return(t)
        /\ UNCHANGED <<rows, order, transferred, spent, faults>>
    BY DEF DividesByZero
  <1>2. Due(t) = 0 /\ CostDue(t) = 0
    <2>1. CASE i = 0
      <3>1. Plan(t)
        BY <1>1 DEF Typed, Plans, Busy
      <3> PICK s \in Seq(Movement) : s = job[t].todo
        BY DEF Typed, TypeOK
      <3>2. s # <<>> /\ (AtAverage(s[1]) \/ \E a \in Amounts, c \in Costs : s[1] = Income(a, c))
        BY <2>1, <3>1 DEF Plan
      <3>3. Head(s) = s[1]
        BY <3>2
      <3>4. AtAverage(s[1])
        <4>1. \A a, c : Income(a, c).guarded
          BY DEF Income
        <4> QED
          BY <1>1, <3>2, <3>3, <4>1
      <3>5. ~Buying(t)
        BY <3>3, <3>4 DEF Buying, AtAverage
      <3> QED
        BY <2>1, <3>5 DEF Due, CostDue
    <2>2. CASE i # 0
      BY <1>1, <2>2, EndingOwesNothing
    <2> QED
      BY <2>1, <2>2
  <1>3. Due(t)' = 0 /\ CostDue(t)' = 0
    <2>1. pc'[t] = "idle" /\ job'[t] = NoJob
      BY <1>1 DEF Return, Goto, Typed, TypeOK
    <2> QED
      BY <2>1, NoJobShape DEF Due, CostDue, Buying, Busy
  <1>4. Gap' = Gap /\ CostGap' = CostGap
    BY <1>1, SumsKept, EntityKept DEF Gap, CostGap
  <1> QED
    BY <1>1, <1>2, <1>3, <1>4 DEF Steady

-----------------------------------------------------------------------------
(* The invariant of a single order service.                                *)

GapTypes == Gap \in Int /\ CostGap \in Int

LEMMA NextGapTypes == Typed' => GapTypes'
  <1>1. Typed => GapTypes
    BY SumTypes DEF GapTypes
  <1> QED
    BY <1>1, PTL

\* What a fault may lose is one movement.
LEMMA DueBounds ==
    ASSUME Typed, NEW t \in Tasks, IsFiniteSet(Amounts), IsFiniteSet(Costs)
    PROVE  Due(t) \in 0..Max(Amounts \cup {0}) /\ CostDue(t) \in 0..Max(Costs \cup {0})
  <1> PICK i \in 0..MaxOrders : i = job[t].id
    BY DEF Typed, TypeOK
  <1>1. Amounts \in SUBSET Nat /\ Costs \in SUBSET Nat
    BY FrozenAssumption
  <1>2. /\ \A a \in Amounts : a \in 0..Max(Amounts \cup {0})
        /\ 0 \in 0..Max(Amounts \cup {0})
    <2>1. Max(Amounts \cup {0}) \in Nat /\ \A n \in Amounts : n <= Max(Amounts \cup {0})
      BY <1>1, MaxIs
    <2> PICK k \in Nat : k = Max(Amounts \cup {0})
      BY <2>1
    <2>2. \A n \in Amounts : n \in Nat /\ n <= k
      BY <1>1, <2>1
    <2> QED
      BY <2>2
  <1>3. /\ \A c \in Costs : c \in 0..Max(Costs \cup {0})
        /\ 0 \in 0..Max(Costs \cup {0})
    <2>1. Max(Costs \cup {0}) \in Nat /\ \A n \in Costs : n <= Max(Costs \cup {0})
      BY <1>1, MaxIs
    <2> PICK k \in Nat : k = Max(Costs \cup {0})
      BY <2>1
    <2>2. \A n \in Costs : n \in Nat /\ n <= k
      BY <1>1, <2>1
    <2> QED
      BY <2>2
  <1>4. Due(t) \in Amounts \cup {0} /\ CostDue(t) \in Costs \cup {0}
    <2>1. CASE i = 0 /\ Buying(t)
      <3>1. Plan(t) /\ Busy(t) /\ ~Head(job[t].todo).atAverage
        BY <2>1 DEF Typed, Plans, Buying
      <3> PICK s \in Seq(Movement) : s = job[t].todo
        BY DEF Typed, TypeOK
      <3>2. s # <<>> /\ (AtAverage(s[1]) \/ \E a \in Amounts, c \in Costs : s[1] = Income(a, c))
        BY <2>1, <3>1 DEF Plan
      <3>3. Head(s) = s[1]
        BY <3>2
      <3>4. PICK a \in Amounts, c \in Costs : Head(s) = Income(a, c)
        BY <3>1, <3>2, <3>3 DEF AtAverage
      <3>5. Due(t) = a /\ CostDue(t) = c
        BY <2>1, <3>4 DEF Due, CostDue, Income
      <3> QED
        BY <3>5
    <2>2. CASE i = 0 /\ ~Buying(t)
      BY <2>2 DEF Due, CostDue
    <2>3. CASE i # 0
      <3>1. i \in Ids /\ order[i].status \in {"dropped", "sold"}
        BY <2>3, FrozenAssumption DEF Typed, Plans, Ids
      <3>2. order[i].amount1 \in Amounts /\ order[i].amount2 \in Costs /\ order[i].placed2 \in Costs
        BY <3>1 DEF Typed, Orders
      <3> QED
        BY <2>3, <3>2 DEF Due, CostDue
    <2> QED
      BY <2>1, <2>2, <2>3
  <1> QED
    BY <1>2, <1>3, <1>4

LEMMA AddingZero == \A n \in Int : n + 0 = n
  OBVIOUS

LEMMA SteadyBalanced ==
    ASSUME OneTask, Typed, Typed', Balanced, CostBalanced, NEW t \in Tasks, Steady(t)
    PROVE  Balanced' /\ CostBalanced'
  <1>1. \A u \in Tasks : u = t
    BY DEF OneTask
  <1>2. AtRest' => Due(t)' = 0 /\ CostDue(t)' = 0
    <2> SUFFICES ASSUME AtRest' PROVE Due(t)' = 0 /\ CostDue(t)' = 0
      OBVIOUS
    <2>1. pc'[t] = "idle" /\ job'[t] = NoJob
      BY DEF AtRest, Typed, Plans
    <2> QED
      BY <2>1, NoJobShape DEF Due, CostDue, Buying, Busy
  <1>3. Gap' \in Int /\ CostGap' \in Int
    BY NextGapTypes DEF GapTypes
  <1>4. Balanced'
    <2>1. Within(Gap + Due(t), Amounts)
      BY DEF Balanced
    <2>2. Within(Gap + Due(t), Amounts)'
      BY <2>1 DEF Steady, Within
    <2>3. AtRest' => Gap' + Due(t)' = Gap'
      <3>1. Gap' + 0 = Gap'
        BY <1>3, AddingZero, Zenon
      <3> QED
        BY <1>2, <3>1, Zenon
    <2>4. AtRest' => Within(Gap, Amounts)'
      BY <2>2, <2>3 DEF Within
    <2> QED
      BY <1>1, <2>2, <2>4 DEF Balanced
  <1>5. CostBalanced'
    <2> SUFFICES ASSUME spent' = 0
                 PROVE  /\ AtRest' => Within(CostGap, Costs)'
                        /\ \A u \in Tasks : Within(CostGap + CostDue(u), Costs)'
      BY DEF CostBalanced
    <2>1. Within(CostGap + CostDue(t), Costs)
      BY DEF CostBalanced, Steady
    <2>2. Within(CostGap + CostDue(t), Costs)'
      BY <2>1 DEF Steady, Within
    <2>3. AtRest' => CostGap' + CostDue(t)' = CostGap'
      <3>1. CostGap' + 0 = CostGap'
        BY <1>3, AddingZero, Zenon
      <3> QED
        BY <1>2, <3>1, Zenon
    <2>4. AtRest' => Within(CostGap, Costs)'
      BY <2>2, <2>3 DEF Within
    <2> QED
      BY <1>1, <2>2, <2>4
  <1> QED
    BY <1>4, <1>5

\* Arithmetic of one more fault.
LEMMA OneMoreFault ==
    ASSUME NEW f \in Nat, NEW k \in Nat, NEW g \in Int, NEW d \in 0..k,
           -(f * k) <= g + d, g + d <= f * k
    PROVE  -((f + 1) * k) <= g /\ g <= (f + 1) * k
  <1> PICK n \in Nat : n = f * k
    OBVIOUS
  <1>1. (f + 1) * k = n + k
    OBVIOUS
  <1>2. -(n + k) <= g /\ g <= n + k
    OBVIOUS
  <1> QED
    BY <1>1, <1>2

LEMMA InterruptedBalanced ==
    ASSUME OneTask, Typed, Typed', Balanced, CostBalanced,
           IsFiniteSet(Amounts), IsFiniteSet(Costs), NEW t \in Tasks, Interrupted(t)
    PROVE  Balanced' /\ CostBalanced'
  <1>1. \A u \in Tasks : u = t
    BY DEF OneTask
  <1>2. Return(t) /\ faults' = faults + 1 /\ UNCHANGED <<rows, order, transferred, spent>>
    BY DEF Interrupted
  <1>3. Due(t)' = 0 /\ CostDue(t)' = 0
    <2>1. pc'[t] = "idle" /\ job'[t] = NoJob
      BY <1>2 DEF Return, Goto, Typed, TypeOK
    <2> QED
      BY <2>1, NoJobShape DEF Due, CostDue, Buying, Busy
  <1>4. Gap' = Gap /\ CostGap' = CostGap
    BY <1>2, SumsKept, EntityKept DEF Gap, CostGap
  <1>5. Gap \in Int /\ CostGap \in Int /\ faults \in Nat
    BY SumTypes DEF Typed, TypeOK
  <1> PICK k, l : k = Max(Amounts \cup {0}) /\ l = Max(Costs \cup {0})
    OBVIOUS
  <1>6. k \in Nat /\ l \in Nat /\ Due(t) \in 0..k /\ CostDue(t) \in 0..l
    BY FrozenAssumption, MaxIs, DueBounds
  <1>7. Balanced'
    <2>1. -(faults * k) <= Gap + Due(t) /\ Gap + Due(t) <= faults * k
      BY DEF Balanced, Within
    <2>2. -((faults + 1) * k) <= Gap /\ Gap <= (faults + 1) * k
      BY <1>5, <1>6, <2>1, OneMoreFault
    <2>3. Within(Gap, Amounts)'
      BY <1>2, <1>4, <2>2 DEF Within
    <2>4. Gap' + Due(t)' = Gap'
      BY <1>3, <1>4, <1>5
    <2>5. Within(Gap + Due(t), Amounts)'
      BY <2>3, <2>4 DEF Within
    <2> QED
      BY <1>1, <2>3, <2>5 DEF Balanced
  <1>8. CostBalanced'
    <2> SUFFICES ASSUME spent' = 0
                 PROVE  /\ AtRest' => Within(CostGap, Costs)'
                        /\ \A u \in Tasks : Within(CostGap + CostDue(u), Costs)'
      BY DEF CostBalanced
    <2>1. -(faults * l) <= CostGap + CostDue(t) /\ CostGap + CostDue(t) <= faults * l
      BY <1>2 DEF CostBalanced, Within
    <2>2. -((faults + 1) * l) <= CostGap /\ CostGap <= (faults + 1) * l
      BY <1>5, <1>6, <2>1, OneMoreFault
    <2>3. Within(CostGap, Costs)'
      BY <1>2, <1>4, <2>2 DEF Within
    <2>4. CostGap' + CostDue(t)' = CostGap'
      BY <1>3, <1>4, <1>5
    <2>5. Within(CostGap + CostDue(t), Costs)'
      BY <2>3, <2>4 DEF Within
    <2> QED
      BY <1>1, <2>3, <2>5
  <1> QED
    BY <1>7, <1>8

\* What a purchase came to and its fee change neither what the table is owed nor what a
\* listener has yet to account for.
LEMMA FilledBalanced ==
    ASSUME Typed, Typed', Balanced, CostBalanced, NEW i \in Ids, BuyOrderFilled(i)
    PROVE  Balanced' /\ CostBalanced'
  <1>1. PICK c \in Costs, f \in Fees :
            order' = [order EXCEPT ![i].status = "filled", ![i].amount2 = c, ![i].fee1 = f]
    BY DEF BuyOrderFilled
  <1>2. order[i].status = "placed" /\ UNCHANGED <<rows, transferred, spent, pc, job, faults>>
    BY DEF BuyOrderFilled
  <1>3. \A j \in Ids \ {i} : order'[j] = order[j]
    BY <1>1 DEF Typed, TypeOK
  <1>4. \A u \in Tasks : job[u].id # 0 => order'[job[u].id] = order[job[u].id]
    BY <1>2, <1>3, OtherOrders
  <1>5. \A u \in Tasks : Due(u)' = Due(u) /\ CostDue(u)' = CostDue(u)
    BY <1>2, <1>4 DEF Due, CostDue, Buying, Busy
  <1>6. Part(i)' = Part(i) /\ CostPart(i)' = CostPart(i) /\ LeftPart(i)' = LeftPart(i)
    <2> PICK o \in Order : o = order[i]
      BY DEF Typed, TypeOK
    <2>1. /\ order'[i].isActive = o.isActive /\ order'[i].amount1 = o.amount1
          /\ order'[i].placed2 = o.placed2 /\ order'[i].status = "filled"
      BY <1>1 DEF Typed, TypeOK, Order
    <2> QED
      BY <1>2, <2>1 DEF Part, CostPart, LeftPart
  <1>7. Active' = Active /\ ActiveCost' = ActiveCost /\ Left' = Left
    <2>1. Part(i) \in Int /\ CostPart(i) \in Int /\ LeftPart(i) \in Int
      BY PartTypes
    <2> QED
      BY <1>3, <1>6, <2>1, SumsChange, SumTypes
  <1>8. Gap' = Gap /\ CostGap' = CostGap
    BY <1>2, <1>7, EntityKept DEF Gap, CostGap
  <1> QED
    BY <1>2, <1>5, <1>8 DEF Balanced, CostBalanced, Within, AtRest

LEMMA KnownKept ==
    ASSUME Typed, Known, UNCHANGED rows,
           \A u \in Tasks : pc'[u] = "save" => pc[u] = "save" /\ job'[u] = job[u]
    PROVE  Known'
  BY EntityKept DEF Known

LEMMA NextKnown ==
    ASSUME OneTask, Typed, Known, [Next]_vars
    PROVE  Known'
  <1>1. ASSUME NEW t \in Tasks,
               BuyOrderCreated(t) \/ BuyOrderRolledBack(t) \/ BuyOrderClosed(t) \/ FeeTransferred(t)
        PROVE  Known'
    <2>1. UNCHANGED rows /\ \E i, s : Listen(t, i, s)
      BY <1>1 DEF BuyOrderCreated, BuyOrderRolledBack, BuyOrderClosed, FeeTransferred
    <2>2. /\ pc'[t] = "read"
          /\ \A u \in Tasks \ {t} : pc'[u] = pc[u] /\ job'[u] = job[u]
      BY <2>1, ListenEffect
    <2> QED
      BY <2>1, <2>2, KnownKept
  <1>2. ASSUME NEW t \in Tasks, GetBalance(t)
        PROVE  Known'
    <2>1. UNCHANGED rows /\ job'[t].entity = Entity
      BY <1>2 DEF GetBalance, Typed, TypeOK
    <2>2. \A u \in Tasks : u = t
      BY DEF OneTask
    <2> QED
      BY <2>1, <2>2, EntityKept DEF Known
  <1>3. ASSUME NEW t \in Tasks, SaveBalance(t)
        PROVE  Known'
    <2>1. Len(rows') = 1 /\ rows'[1].stored
      BY <1>3, SavedEntity
    <2>2. pc'[t] # "save"
      BY <1>3 DEF SaveBalance, NextCall, Return, Goto, Typed, TypeOK
    <2>3. \A u \in Tasks : u = t
      BY DEF OneTask
    <2> QED
      BY <2>1, <2>2, <2>3 DEF Known
  <1>4. ASSUME NEW t \in Tasks, DividesByZero(t) \/ UpdateOrder(t) \/ Interrupted(t)
        PROVE  Known'
    <2>1. UNCHANGED rows /\ Return(t)
      BY <1>4 DEF DividesByZero, UpdateOrder, Interrupted
    <2>2. /\ pc'[t] = "idle"
          /\ \A u \in Tasks \ {t} : pc'[u] = pc[u] /\ job'[u] = job[u]
      BY <2>1 DEF Return, Goto, Typed, TypeOK
    <2> QED
      BY <2>1, <2>2, KnownKept
  <1>5. CASE \/ \E i \in Ids : BuyOrderFilled(i)
             \/ Waiting \/ UNCHANGED vars
    BY <1>5, KnownKept DEF BuyOrderFilled, Waiting, vars
  <1> QED
    BY <1>1, <1>2, <1>3, <1>4, <1>5 DEF Next

LEMMA InitOwed ==
    ASSUME Init, IsFiniteSet(Amounts), IsFiniteSet(Costs)
    PROVE  Known /\ Balanced /\ CostBalanced
  <1>0. Typed
    BY InitTyped
  <1>1. Known
    BY DEF Init, Known
  <1>2. Active = 0 /\ ActiveCost = 0 /\ Left = 0
    <2>1. \A i \in Ids : Part(i) = 0 /\ CostPart(i) = 0 /\ LeftPart(i) = 0
      BY DEF Init, Part, CostPart, LeftPart, NoOrder
    <2>2. ASSUME NEW g, g = [i \in Ids |-> 0]
          PROVE  SumFunctionOnSet(g, Ids) = 0
      BY <2>2, IdsFinite, SumZero
    <2>3. /\ [i \in Ids |-> Part(i)] = [i \in Ids |-> 0]
          /\ [i \in Ids |-> CostPart(i)] = [i \in Ids |-> 0]
          /\ [i \in Ids |-> LeftPart(i)] = [i \in Ids |-> 0]
      BY <2>1
    <2> QED
      BY <2>2, <2>3 DEF Active, ActiveCost, Left
  <1>3. Gap = 0 /\ CostGap = 0 /\ faults = 0
    BY <1>2 DEF Init, Gap, CostGap, Entity, NewRow
  <1>4. \A t \in Tasks : Due(t) = 0 /\ CostDue(t) = 0
    BY <1>0, IdleOwesNothing DEF Init
  <1> PICK k, l : k = Max(Amounts \cup {0}) /\ l = Max(Costs \cup {0})
    OBVIOUS
  <1>5. k \in Nat /\ l \in Nat
    BY FrozenAssumption, MaxIs
  <1>6. /\ \A n : n = 0 => Within(n, Amounts)
        /\ \A n : n = 0 => Within(n, Costs)
    <2>1. -(0 * k) <= 0 /\ 0 <= 0 * k /\ -(0 * l) <= 0 /\ 0 <= 0 * l
      BY <1>5
    <2> QED
      BY <1>3, <2>1 DEF Within
  <1>7. Within(Gap, Amounts) /\ Within(CostGap, Costs)
    BY <1>3, <1>6
  <1>8. \A t \in Tasks : Within(Gap + Due(t), Amounts) /\ Within(CostGap + CostDue(t), Costs)
    <2>1. \A t \in Tasks : Gap + Due(t) = 0 /\ CostGap + CostDue(t) = 0
      BY <1>3, <1>4
    <2> QED
      BY <1>6, <2>1
  <1> QED
    BY <1>1, <1>7, <1>8 DEF Balanced, CostBalanced

LEMMA OwedInvariant ==
    ASSUME OneTask, IsFiniteSet(Amounts), IsFiniteSet(Costs)
    PROVE  Spec => []Owed
  <1>1. Init => Owed
    BY InitTyped, InitOwed DEF Owed
  <1>2. Owed /\ [Next]_vars => Owed'
    <2> SUFFICES ASSUME Owed, [Next]_vars, Typed' PROVE Known' /\ Balanced' /\ CostBalanced'
      <3>1. Typed /\ [Next]_vars => Typed'
        BY NextTyped
      <3> QED
        BY <3>1 DEF Owed
    <2>0. Typed /\ Known /\ Balanced /\ CostBalanced
      BY DEF Owed
    <2>1. Known'
      BY <2>0, NextKnown
    <2>2. ASSUME NEW t \in Tasks, Steady(t)
          PROVE  Balanced' /\ CostBalanced'
      BY <2>0, <2>2, SteadyBalanced
    <2>3. ASSUME NEW t \in Tasks,
                 \/ BuyOrderCreated(t) \/ BuyOrderRolledBack(t) \/ BuyOrderClosed(t)
                 \/ FeeTransferred(t)
                 \/ GetBalance(t) \/ SaveBalance(t) \/ DividesByZero(t) \/ UpdateOrder(t)
          PROVE  Steady(t)
      BY <2>0, <2>3, CreatedSteady, EndingSteady, TransferredSteady, GetBalanceSteady,
         SaveSteady, ZeroSteady, UpdateSteady
    <2>4. ASSUME NEW t \in Tasks, Interrupted(t)
          PROVE  Balanced' /\ CostBalanced'
      BY <2>0, <2>4, InterruptedBalanced
    <2>5. ASSUME NEW i \in Ids, BuyOrderFilled(i)
          PROVE  Balanced' /\ CostBalanced'
      BY <2>0, <2>5, FilledBalanced
    <2>6. ASSUME Waiting \/ UNCHANGED vars
          PROVE  Balanced' /\ CostBalanced'
      <3>1. UNCHANGED vars
        BY <2>6 DEF Waiting
      <3>2. Gap' = Gap /\ CostGap' = CostGap
        BY <3>1, SumsKept, EntityKept DEF Gap, CostGap, vars
      <3>3. \A u \in Tasks : Due(u)' = Due(u) /\ CostDue(u)' = CostDue(u)
        BY <3>1 DEF Due, CostDue, Buying, Busy, vars
      <3> QED
        BY <2>0, <3>1, <3>2, <3>3 DEF Balanced, CostBalanced, Within, AtRest, vars
    <2>7. Balanced' /\ CostBalanced'
      BY <2>2, <2>3, <2>4, <2>5, <2>6 DEF Next
    <2> QED
      BY <2>1, <2>7
  <1> QED
    BY <1>1, <1>2, PTL DEF Spec

LEMMA ApartIs ==
    ASSUME NEW a \in Int, NEW b \in Int, NEW k \in Int, -k <= a - b, a - b <= k
    PROVE  Apart(a, b) <= k
  BY DEF Apart

LEMMA ActiveIs ==
    ASSUME Typed, NEW J, J = {i \in Ids : order[i].isActive}
    PROVE  /\ SumFunctionOnSet([i \in J |-> order[i].amount1], J) = Active
           /\ SumFunctionOnSet([i \in J |-> order[i].placed2], J) = ActiveCost
  <1>1. /\ J \in SUBSET Ids
        /\ \A i \in J : order[i].amount1 \in Int /\ order[i].placed2 \in Int
    BY DEF Typed, TypeOK, Order
  <1>2. SumFunctionOnSet([i \in J |-> order[i].amount1], J) = Active
    <2> PICK f, e : f = [i \in J |-> order[i].amount1] /\ e = [i \in Ids |-> Part(i)]
      OBVIOUS
    <2>1. /\ \A i \in J : f[i] \in Int /\ e[i] = f[i]
          /\ \A i \in Ids \ J : e[i] = 0
      BY <1>1 DEF Part
    <2>2. SumFunctionOnSet(e, Ids) = SumFunctionOnSet(f, J)
      BY <1>1, <2>1, IdsFinite, SumPadded
    <2> QED
      BY <2>2 DEF Active
  <1>3. SumFunctionOnSet([i \in J |-> order[i].placed2], J) = ActiveCost
    <2> PICK f, e : f = [i \in J |-> order[i].placed2] /\ e = [i \in Ids |-> CostPart(i)]
      OBVIOUS
    <2>1. /\ \A i \in J : f[i] \in Int /\ e[i] = f[i]
          /\ \A i \in Ids \ J : e[i] = 0
      BY <1>1 DEF CostPart
    <2>2. SumFunctionOnSet(e, Ids) = SumFunctionOnSet(f, J)
      BY <1>1, <2>1, IdsFinite, SumPadded
    <2> QED
      BY <2>2 DEF ActiveCost
  <1> QED
    BY <1>2, <1>3

LEMMA LeftIs ==
    ASSUME Typed, NEW J, J = {i \in Ids : order[i].status = "sold" /\ ~order[i].isActive}
    PROVE  SumFunctionOnSet([i \in J |-> order[i].placed2 - order[i].amount2], J) = Left
  <1>1. /\ J \in SUBSET Ids
        /\ \A i \in J : order[i].amount2 \in Int /\ order[i].placed2 \in Int
    BY DEF Typed, TypeOK, Order
  <1> PICK f, e : /\ f = [i \in J |-> order[i].placed2 - order[i].amount2]
                  /\ e = [i \in Ids |-> LeftPart(i)]
    OBVIOUS
  <1>2. /\ \A i \in J : f[i] \in Int /\ e[i] = f[i]
        /\ \A i \in Ids \ J : e[i] = 0
    BY <1>1 DEF LeftPart
  <1>3. SumFunctionOnSet(e, Ids) = SumFunctionOnSet(f, J)
    BY <1>1, <1>2, IdsFinite, SumPadded
  <1> QED
    BY <1>3 DEF Left

\* FrozenAmount, for one order service at a time, any finite sets of amounts and costs,
\* and any number of orders, transfers and faults: at rest the amount frozen is what the
\* active orders and the transfers put there less the fees, up to one movement per fault.
THEOREM FrozenAmountHeld ==
    ASSUME OneTask, IsFiniteSet(Amounts), IsFiniteSet(Costs)
    PROVE  Spec => []FrozenAmount
  <1>1. ASSUME Owed PROVE FrozenAmount
    <2>0. Typed /\ Balanced
      BY <1>1 DEF Owed
    <2> SUFFICES ASSUME AtRest
                 PROVE  Apart(Entity.amount, Active + transferred.amount - spent)
                            <= faults * Max(Amounts \cup {0})
      <3> PICK J : J = {i \in Ids : order[i].isActive}
        OBVIOUS
      <3>1. Sum(J, LAMBDA i : order[i].amount1) = Active
        BY <2>0, ActiveIs DEF Sum
      <3> QED
        BY <3>1 DEF FrozenAmount
    <2> PICK k : k = Max(Amounts \cup {0})
      OBVIOUS
    <2>1. k \in Nat /\ faults \in Nat
      <3>1. Amounts \in SUBSET Nat /\ MaxFaults \in Nat
        BY FrozenAssumption
      <3>2. k \in Nat
        BY <3>1, MaxIs
      <3>3. faults \in Nat
        BY <2>0, <3>1 DEF Typed, TypeOK
      <3> QED
        BY <3>2, <3>3
    <2> PICK b \in Int, a \in Int, n \in Nat :
            /\ b = Active + transferred.amount - spent /\ a = Entity.amount /\ n = faults * k
      <3>1. /\ Active + transferred.amount - spent \in Int /\ Entity.amount \in Int
            /\ faults * k \in Nat
        BY <2>0, <2>1, SumTypes
      <3> QED
        BY <3>1
    <2>2. -n <= a - b /\ a - b <= n
      BY <2>0 DEF Balanced, Within, Gap
    <2> QED
      BY <2>2, ApartIs
  <1> QED
    BY <1>1, OwedInvariant, PTL

\* FrozenCost, for one order service at a time, any finite sets of amounts and costs,
\* and any number of orders, transfers and faults: at rest and while no fee was taken in
\* the base currency, the cost frozen is what was paid for the active orders and the
\* transfers, plus what each sold order cost more when placed than when filled, up to one
\* movement per fault.
THEOREM FrozenCostHeld ==
    ASSUME OneTask, IsFiniteSet(Amounts), IsFiniteSet(Costs)
    PROVE  Spec => []FrozenCost
  <1>1. ASSUME Owed PROVE FrozenCost
    <2>0. Typed /\ CostBalanced
      BY <1>1 DEF Owed
    <2> SUFFICES ASSUME AtRest, spent = 0
                 PROVE  Apart(Entity.amount_in_usd, ActiveCost + transferred.cost + Left)
                            <= faults * Max(Costs \cup {0})
      <3> PICK J, K : /\ J = {i \in Ids : order[i].isActive}
                      /\ K = {i \in Ids : order[i].status = "sold" /\ ~order[i].isActive}
        OBVIOUS
      <3>1. Sum(J, LAMBDA i : order[i].placed2) = ActiveCost
        BY <2>0, ActiveIs DEF Sum
      <3>2. Sum(K, LAMBDA i : order[i].placed2 - order[i].amount2) = Left
        BY <2>0, LeftIs DEF Sum
      <3> QED
        BY <3>1, <3>2 DEF FrozenCost
    <2> PICK k : k = Max(Costs \cup {0})
      OBVIOUS
    <2>1. k \in Nat /\ faults \in Nat
      <3>1. Costs \in SUBSET Nat /\ MaxFaults \in Nat
        BY FrozenAssumption
      <3>2. k \in Nat
        BY <3>1, MaxIs
      <3>3. faults \in Nat
        BY <2>0, <3>1 DEF Typed, TypeOK
      <3> QED
        BY <3>2, <3>3
    <2> PICK b \in Int, a \in Int, n \in Nat :
            /\ b = ActiveCost + transferred.cost + Left /\ a = Entity.amount_in_usd
            /\ n = faults * k
      <3>1. /\ ActiveCost + transferred.cost + Left \in Int /\ Entity.amount_in_usd \in Int
            /\ faults * k \in Nat
        BY <2>0, <2>1, SumTypes
      <3> QED
        BY <3>1
    <2>2. -n <= a - b /\ a - b <= n
      BY <2>0 DEF CostBalanced, Within, CostGap
    <2> QED
      BY <2>2, ApartIs
  <1> QED
    BY <1>1, OwedInvariant, PTL
=============================================================================
