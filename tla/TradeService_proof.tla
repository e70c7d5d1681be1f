-------------------------- MODULE TradeService_proof --------------------------
(***************************************************************************)
(* Proofs about TradeService, for any number of runs, checks and orders.     *)
(* Sound carries them, faults included: what each task has in hand at each   *)
(* step, and that an order has one creator. Without faults Truthful adds that *)
(* what was posted agrees with what became of the order, and Dues counts what *)
(* was done with an order together with what its seller and a check may still *)
(* do. A step of a task is described twice: StepSound says what it keeps, and *)
(* Flow what it does to the order in hand.                                   *)
(***************************************************************************)
EXTENDS TradeService, FiniteSetTheorems, TLAPS

\* The steps of a task by what it has in hand: an order of its own creation, an order
\* that filled, an order to be rolled back.
BuyCreation  == {"b_record", "b_out"}
SellCreation == {"s_record", "s_out", "s_preclose"}
BuyFilling   == {"f_row", "f_income", "f_fee"}
SellFilling  == {"c_close", "c_income", "c_fee", "c_find", "c_parent"}
BuyBacking   == {"r_back", "r_off"}
SellBacking  == {"k_back", "k_find", "k_preclose", "k_off"}

OfBuys  == BuyCreation \cup BuyFilling \cup BuyBacking
OfSells == SellCreation \cup SellFilling \cup SellBacking
Holding == OfBuys \cup OfSells

Labels(t) ==
    {"idle"} \cup
    (IF t \in Buyers THEN {"buy"} \cup BuyCreation
     ELSE IF t \in Sellers THEN {"sell"} \cup SellCreation \cup SellFilling
     ELSE {"fetch"} \cup BuyFilling \cup BuyBacking \cup SellFilling \cup SellBacking)

\* What task t holds at each step.
Shape(t, l, j) ==
    /\ l \in Labels(t) /\ j \in Job
    /\ l = "idle" => j = NoJob
    /\ l \in {"buy"} \cup BuyCreation => j.todo = {}
    /\ \A s \in j.todo : s.id \in Ids /\ row[s.id].stored
    /\ t \in Sellers => \A s \in j.todo : s.preclosed < ext[s.id].amount
    /\ \A r, s \in j.todo : r.id = s.id => r = s
    /\ l \in Holding => j.id \in Ids /\ Placed(j.id)
    /\ l \in Holding /\ t \in Checkers => \A s \in j.todo : s.id # j.id
    /\ l \in Holding \ {"b_record", "s_record"} => row[j.id].stored
    /\ l \in {"b_record", "s_record"} => ~row[j.id].stored
    /\ l \in OfBuys => ext[j.id].parent = 0
    /\ l \in OfSells => ext[j.id].parent \in Ids
    /\ l \in SellCreation => j.cur.id \in Ids /\ (j.full => ext[j.id].status = "closed")
    /\ l \in {"f_row", "f_income", "c_close", "c_income"} => ext[j.id].status = "closed"

Shaped == \A t \in Tasks : Shape(t, pc[t], job[t])

OrdersSound ==
    /\ \E n \in 0..MaxOrders : \A i \in Ids : Placed(i) <=> i <= n
    /\ \A i \in Ids :
        /\ ext[i].status = "closed" => ext[i].filled = ext[i].amount
        /\ ~Placed(i) => posted[i].out = 0
        /\ ~row[i].stored => posted[i].in = 0 /\ posted[i].back = 0 /\ posted[i].fee = 0
        /\ row[i].stored =>
              Placed(i) /\ row[i].parent = ext[i].parent /\ row[i].amount1 = ext[i].amount

\* Each order has one creator, who posts its outcome.
Creators ==
    /\ \A t, u \in Buyers \cup Sellers :
          pc[t] \in Holding /\ pc[u] \in Holding /\ job[t].id = job[u].id => t = u
    /\ \A i \in Ids : posted[i].out <= 1
    /\ \A t \in Tasks :
          pc[t] \in {"b_record", "b_out", "s_record", "s_out"} => posted[job[t].id].out = 0

Sound == TypeOK /\ Shaped /\ OrdersSound /\ Creators

-----------------------------------------------------------------------------
(* Without faults.                                                         *)

\* What has come in is of orders that filled; what was given back, and what a task is
\* giving back, is of orders that ended unfilled, and for a sell order vanished.
Truthful ==
    /\ \A i \in Ids :
        /\ posted[i].in > 0 => ext[i].status = "closed"
        /\ posted[i].back > 0 => /\ ext[i].status \in {"gone", "canceled"}
                                 /\ ext[i].parent # 0 => ext[i].status = "gone"
    /\ \A t \in Tasks :
        /\ pc[t] \in BuyBacking => ext[job[t].id].status \in {"gone", "canceled"}
        /\ pc[t] \in SellBacking => ext[job[t].id].status = "gone"

\* Without Overlap a checker runs when no other task does.
Alone ==
    ~Overlap => \A k \in Checkers : pc[k] # "idle" => \A t \in Tasks \ {k} : pc[t] = "idle"

\* The seller that created order i may still settle it.
SellerDue(i) ==
    \E t \in Sellers : /\ pc[t] \in SellCreation \cup {"c_close", "c_income"}
                       /\ job[t].id = i

\* A checker may still settle order i or give it back: it is in its list or in its hand,
\* or the query of a check to come will return it.
CheckerDue(i) ==
    \/ \E k \in Checkers :
        \/ pc[k] # "idle" /\ \E s \in job[k].todo : s.id = i
        \/ /\ pc[k] \in {"f_row", "f_income", "c_close", "c_income", "r_back", "k_back"}
           /\ job[k].id = i
    \/ /\ i \in Unfilled
       /\ \A k \in Checkers : ~(pc[k] \in Holding /\ job[k].id = i)
       /\ Overlap \/ ~SellerDue(i)

One(b) == IF b THEN 1 ELSE 0

\* How often order i may be settled: its seller and a check may both do so with Overlap.
Limit(i) == IF Overlap /\ ext[i].parent # 0 THEN 2 ELSE 1

AtFee(S, i) == \E t \in S : pc[t] \in {"f_fee", "c_fee"} /\ job[t].id = i

\* What was posted of an order, with what is still due of it, keeps within its limit, and
\* no fee goes, or is about to go, without an income.
Dues ==
    \A i \in Ids :
        /\ posted[i].in + posted[i].back + One(SellerDue(i)) + One(CheckerDue(i)) <= Limit(i)
        /\ posted[i].fee + One(AtFee(Sellers, i)) + One(AtFee(Checkers, i)) <= posted[i].in

\* A task that has closed a row, or filled it, has done so.
Closing ==
    \A t \in Tasks :
        pc[t] \in {"f_income", "f_fee", "c_income", "c_fee", "c_find", "c_parent"}
            => job[t].id \notin Unfilled

-----------------------------------------------------------------------------
\* What no step takes back.
Evolves ==
    \A i \in Ids :
        /\ Placed(i) => /\ Placed(i)'
                        /\ ext'[i].parent = ext[i].parent /\ ext'[i].amount = ext[i].amount
        /\ ext[i].status = "closed" => ext'[i].status = "closed"
        /\ ext[i].status = "gone" => ext'[i].status = "gone"
        /\ ext[i].status = "canceled" => ext'[i].status \in {"canceled", "gone"}
        /\ row[i].stored => row'[i].stored

\* Only task t moves.
Others(t) ==
    /\ pc' \in [Tasks -> Steps] /\ job' \in [Tasks -> Job]
    /\ \A u \in Tasks \ {t} : pc'[u] = pc[u] /\ job'[u] = job[u]

LEMMA NextIdIsNew ==
    ASSUME OrdersSound, RoomToOrder
    PROVE  /\ NextId \in Ids /\ ~Placed(NextId) /\ NextId - 1 \in 0..MaxOrders
           /\ \A i \in Ids : Placed(i) <=> i <= NextId - 1
  <1>1. PICK n \in 0..MaxOrders : \A i \in Ids : Placed(i) <=> i <= n
    BY DEF OrdersSound
  <1>2. n + 1 \in Ids /\ ~Placed(n + 1)
    BY <1>1, OrderAssumption DEF RoomToOrder, Ids
  <1> DEFINE S == {i \in Ids : ~Placed(i)}
  <1>3. n + 1 \in S /\ \A i \in S : n + 1 <= i
    BY <1>1, <1>2, OrderAssumption DEF Ids
  <1>4. \A x \in S : (\A y \in S : x <= y) => x = n + 1
    BY <1>3, OrderAssumption DEF Ids
  <1>5. Min(S) = n + 1
    BY <1>3, <1>4 DEF Min
  <1>6. NextId = n + 1
    BY <1>5 DEF NextId
  <1> QED
    BY <1>1, <1>2, <1>6, OrderAssumption DEF Ids

LEMMA NoJobType ==
    /\ NoJob \in Job /\ NoJob.todo = {} /\ NoJob.id = 0
    /\ NoSnapshot \in Snapshot /\ 0 \in 0..MaxOrders
  <1>1. 0 \in 0..MaxOrders /\ NoSnapshot \in Snapshot
    BY OrderAssumption DEF NoSnapshot, Snapshot
  <1>2. NoJob \in Job
    BY <1>1 DEF NoJob, Job
  <1>3. NoJob.todo = {} /\ NoJob.id = 0
    BY DEF NoJob
  <1> QED
    BY <1>1, <1>2, <1>3

LEMMA LeftType ==
    ASSUME NEW left, left \subseteq Snapshot
    PROVE  /\ [NoJob EXCEPT !.todo = left] \in Job
           /\ [NoJob EXCEPT !.todo = left].todo = left
  <1>1. NoJob \in Job
    BY NoJobType
  <1>2. [NoJob EXCEPT !.todo = left] \in Job
    BY <1>1 DEF Job
  <1>3. [NoJob EXCEPT !.todo = left].todo = left
    BY <1>1 DEF Job
  <1> QED
    BY <1>2, <1>3

LEMMA TaskKinds ==
    /\ Tasks = Buyers \cup Sellers \cup Checkers
    /\ \A t \in Tasks : /\ t \in Buyers => t \notin Sellers /\ t \notin Checkers
                        /\ t \in Sellers => t \notin Checkers
  BY OrderAssumption DEF Tasks

-----------------------------------------------------------------------------
\* What the others hold stays as it must be.
LEMMA OthersKeepShape ==
    ASSUME Sound, NEW t \in Tasks, NEW u \in Tasks, u # t, Others(t), Evolves,
           \A i \in Ids : ~row[i].stored /\ row'[i].stored =>
                /\ pc[t] \in {"b_record", "s_record"} /\ i = job[t].id
                /\ t \in Buyers \cup Sellers
    PROVE  Shape(u, pc[u], job[u])'
  <1> DEFINE l == pc[u]
             j == job[u]
  <1>1. Shape(u, l, j) /\ l' = l /\ j' = j
    BY DEF Sound, Shaped, Others
  <1>2. j \in Job /\ l \in Labels(u)
    BY <1>1 DEF Shape
  <1>3. \A s \in j.todo : s.id \in Ids /\ Placed(s.id) /\ Placed(s.id)'
                          /\ ext'[s.id].amount = ext[s.id].amount
    BY <1>1 DEF Shape, Sound, OrdersSound, Evolves
  <1>4. \A s \in j.todo : row'[s.id].stored
    BY <1>1 DEF Shape, Evolves
  <1>5. l \in Holding => /\ j.id \in Ids /\ Placed(j.id)'
                         /\ ext'[j.id].parent = ext[j.id].parent
    BY <1>1 DEF Shape, Evolves
  <1>6. l \in Holding \ {"b_record", "s_record"} => row'[j.id].stored
    BY <1>1, <1>5 DEF Shape, Evolves
  <1>7. ASSUME l \in {"b_record", "s_record"}
        PROVE  ~row'[j.id].stored
    <2>1. u \in Buyers \cup Sellers /\ l \in Holding /\ ~row[j.id].stored /\ j.id \in Ids
      BY <1>1, <1>7, TaskKinds
         DEF Shape, Labels, Holding, OfBuys, OfSells, BuyCreation, SellCreation,
         BuyFilling, SellFilling, BuyBacking, SellBacking
    <2>2. CASE row'[j.id].stored
      <3>1. /\ pc[t] \in {"b_record", "s_record"} /\ j.id = job[t].id
            /\ t \in Buyers \cup Sellers
        BY <2>1, <2>2
      <3>2. pc[t] \in Holding
        BY <3>1 DEF Holding, OfBuys, OfSells, BuyCreation, SellCreation
      <3> QED
        BY <2>1, <3>1, <3>2 DEF Sound, Creators
    <2> QED
      BY <2>2
  <1>8. /\ l \in OfBuys \cup OfSells => l \in Holding
        /\ l \in {"f_row", "f_income", "c_close", "c_income"} => l \in Holding
        /\ l \in SellCreation => l \in Holding
    BY DEF Holding, OfBuys, OfSells, BuyFilling, SellFilling, SellCreation
  <1>9. /\ l \in {"f_row", "f_income", "c_close", "c_income"} => ext'[j.id].status = "closed"
        /\ l \in SellCreation => j.cur.id \in Ids /\ (j.full => ext'[j.id].status = "closed")
        /\ l \in OfBuys => ext'[j.id].parent = 0
        /\ l \in OfSells => ext'[j.id].parent \in Ids
    BY <1>1, <1>5, <1>8 DEF Shape, Evolves
  <1> HIDE DEF l, j
  <1>10. /\ l' = "idle" => j' = NoJob
         /\ l' \in {"buy"} \cup BuyCreation => j'.todo = {}
         /\ u \in Sellers => \A s \in j'.todo : s.preclosed < ext'[s.id].amount
         /\ \A r, s \in j'.todo : r.id = s.id => r = s
         /\ l' \in Holding /\ u \in Checkers => \A s \in j'.todo : s.id # j'.id
    BY <1>1, <1>3 DEF Shape
  <1>11. Shape(u, l, j)'
    BY <1>1, <1>2, <1>3, <1>4, <1>5, <1>6, <1>7, <1>9, <1>10 DEF Shape, Labels
  <1> QED
    BY <1>11 DEF l, j

\* Continue leaves the task with rows of its query, or with nothing.
LEMMA ContinueShape ==
    ASSUME TypeOK, Shaped, OrdersSound, NEW t \in Tasks, NEW left \in SUBSET job[t].todo,
           t \in Buyers => left = {}, Continue(t, left), Evolves
    PROVE  /\ Others(t) /\ Shape(t, pc[t], job[t])'
           /\ pc'[t] \in {"idle", "sell", "fetch"} /\ job'[t].todo \subseteq left
           /\ pc'[t] = "idle" => job'[t] = NoJob
           /\ pc'[t] # "idle" => job'[t].todo = left
           /\ t \in Sellers => pc'[t] # "fetch"
           /\ t \in Checkers => pc'[t] # "sell"
           /\ pc'[t] = "idle" => t \in Buyers \/ left = {}
  <1>1. /\ pc \in [Tasks -> Steps] /\ job \in [Tasks -> Job]
        /\ Shape(t, pc[t], job[t]) /\ job[t].todo \in SUBSET Snapshot
    BY DEF TypeOK, Shaped, Job
  <1>2. CASE t \in Buyers \/ left = {}
    <2>1. pc' = [pc EXCEPT ![t] = "idle"] /\ job' = [job EXCEPT ![t] = NoJob]
      BY <1>2 DEF Continue, Goto
    <2>2. pc'[t] = "idle" /\ job'[t] = NoJob /\ Others(t)
      <3>1. pc'[t] = "idle" /\ job'[t] = NoJob
        BY <1>1, <2>1
      <3>2. pc' \in [Tasks -> Steps] /\ job' \in [Tasks -> Job]
        BY <1>1, <2>1, NoJobType DEF Steps
      <3> QED
        BY <1>1, <2>1, <3>1, <3>2 DEF Others
    <2>3. Shape(t, pc[t], job[t])'
      BY <2>2, NoJobType DEF Shape, Labels, Holding, OfBuys, OfSells, BuyCreation, SellCreation,
         BuyFilling, SellFilling, BuyBacking, SellBacking
    <2> QED
      BY <1>2, <2>2, <2>3, NoJobType
  <1>3. CASE t \notin Buyers /\ left # {}
    <2> DEFINE l == IF t \in Sellers THEN "sell" ELSE "fetch"
               j == [NoJob EXCEPT !.todo = left]
    <2>1. pc' = [pc EXCEPT ![t] = l] /\ job' = [job EXCEPT ![t] = j]
      BY <1>3 DEF Continue, Goto
    <2>2. j \in Job /\ j.todo = left /\ l \in Steps
      <3>1. left \in SUBSET Snapshot
        BY <1>1
      <3>2. j \in Job /\ j.todo = left
        BY <3>1, LeftType
      <3> QED
        BY <3>2 DEF Steps
    <2> HIDE DEF j
    <2>3. pc'[t] = l /\ job'[t] = j /\ Others(t)
      BY <1>1, <2>1, <2>2 DEF Others
    <2>4. \A s \in left : /\ s.id \in Ids /\ row'[s.id].stored
                          /\ t \in Sellers => s.preclosed < ext'[s.id].amount
      BY <1>1 DEF Shape, OrdersSound, Evolves
    <2>5. \A r, s \in left : r.id = s.id => r = s
      BY <1>1 DEF Shape
    <2>6. Shape(t, l, j)'
      BY <1>3, <2>2, <2>3, <2>4, <2>5, TaskKinds
         DEF Shape, Labels, Holding, OfBuys, OfSells, BuyCreation,
         SellCreation, BuyFilling, SellFilling, BuyBacking, SellBacking
    <2>7. Shape(t, pc[t], job[t])'
      BY <2>3, <2>6, <2>2 DEF Shape
    <2> QED
      BY <1>3, <2>2, <2>3, <2>7, TaskKinds
  <1> QED
    BY <1>2, <1>3

-----------------------------------------------------------------------------
(* What the steps do to the orders, the table and the log.                 *)

LEMMA PlaceData ==
    ASSUME TypeOK, OrdersSound, RoomToOrder,
           NEW p \in 0..MaxOrders, NEW amount \in Nat, NEW full \in BOOLEAN,
           Accept(NextId, p, amount, full), UNCHANGED <<row, posted>>
    PROVE  /\ ext' \in [Ids -> ExtOrder] /\ Evolves /\ OrdersSound'
           /\ NextId \in Ids /\ ~Placed(NextId) /\ ext'[NextId].status # "none"
           /\ ~row[NextId].stored /\ posted[NextId].out = 0
           /\ ext'[NextId].parent = p
           /\ full => ext'[NextId].status = "closed"
           /\ \A i \in Ids \ {NextId} : ext'[i] = ext[i]
  <1> DEFINE n == NextId
             x == [status |-> IF full THEN "closed" ELSE "open",
                   parent |-> p, amount |-> amount,
                   filled |-> IF full THEN amount ELSE 0]
  <1>1. /\ n \in Ids /\ ~Placed(n) /\ n - 1 \in 0..MaxOrders
        /\ \A i \in Ids : Placed(i) <=> i <= n - 1
    BY NextIdIsNew
  <1>2. ext' = [ext EXCEPT ![n] = x]
    BY DEF Accept
  <1>3. /\ x \in ExtOrder /\ x.status \in {"closed", "open"} /\ x.parent = p
        /\ full => x.status = "closed"
        /\ x.status = "closed" => x.filled = x.amount
    BY DEF ExtOrder
  <1> HIDE DEF x, n
  <1>4. ext \in [Ids -> ExtOrder]
    BY DEF TypeOK
  <1>5. /\ ext'[n] = x /\ \A i \in Ids \ {n} : ext'[i] = ext[i]
        /\ ext' \in [Ids -> ExtOrder]
    BY <1>1, <1>2, <1>3, <1>4
  <1>6. ext[n].status = "none"
    BY <1>1 DEF Placed
  <1>7. Evolves
    BY <1>1, <1>5, <1>6 DEF Evolves, Placed
  <1>8. \A i \in Ids : Placed(i)' <=> i <= n
    BY <1>1, <1>3, <1>5, OrderAssumption DEF Placed, Ids
  <1>9. n \in 0..MaxOrders
    BY <1>1, OrderAssumption DEF Ids
  <1>10. ~row[n].stored /\ posted[n].out = 0
    BY <1>1 DEF OrdersSound
  <1>11. \A i \in Ids : ext'[i].status = "closed" => ext'[i].filled = ext'[i].amount
    BY <1>3, <1>5 DEF OrdersSound
  <1>12. \A i \in Ids : ~Placed(i)' => posted[i].out = 0
    BY <1>5, <1>10 DEF OrdersSound, Placed
  <1>13. \A i \in Ids : row[i].stored => /\ Placed(i)' /\ row[i].parent = ext'[i].parent
                                         /\ row[i].amount1 = ext'[i].amount
    BY <1>5, <1>10 DEF OrdersSound, Placed
  <1>14. OrdersSound'
    <2>1. \E m \in 0..MaxOrders : \A i \in Ids : Placed(i)' <=> i <= m
      BY <1>8, <1>9
    <2>2. \A i \in Ids : ~row[i].stored =>
            posted[i].in = 0 /\ posted[i].back = 0 /\ posted[i].fee = 0
      BY DEF OrdersSound
    <2>3. \A i \in Ids : (ext'[i].status = "none" => posted[i].out = 0)
      BY <1>12 DEF Placed
    <2> QED
      BY <1>11, <1>12, <1>13, <2>1, <2>2 DEF OrdersSound, Placed
  <1> QED
    BY <1>1, <1>3, <1>5, <1>7, <1>10, <1>14 DEF n

LEMMA SameData ==
    ASSUME OrdersSound, UNCHANGED <<ext, row, posted>>
    PROVE  Evolves /\ OrdersSound'
  <1>1. Evolves
    BY DEF Evolves, Placed
  <1>2. OrdersSound'
    BY DEF OrdersSound, Placed
  <1> QED
    BY <1>1, <1>2

\* A write to a row that leaves its order and its amount alone.
LEMMA RowData ==
    ASSUME TypeOK, OrdersSound, UNCHANGED <<ext, posted>>, NEW i \in Ids,
           NEW r \in OrderRow, row' = [row EXCEPT ![i] = r],
           r.stored = row[i].stored, r.parent = row[i].parent, r.amount1 = row[i].amount1
    PROVE  /\ row' \in [Ids -> OrderRow] /\ Evolves /\ OrdersSound'
           /\ \A k \in Ids : row'[k].stored = row[k].stored
  <1>1. row \in [Ids -> OrderRow] /\ row' \in [Ids -> OrderRow]
    BY DEF TypeOK
  <1>2. row'[i] = r /\ \A k \in Ids \ {i} : row'[k] = row[k]
    BY <1>1
  <1>3. \A k \in Ids : /\ row'[k].stored = row[k].stored
                       /\ row'[k].parent = row[k].parent /\ row'[k].amount1 = row[k].amount1
    BY <1>1, <1>2 DEF OrderRow
  <1>4. Evolves
    BY <1>3 DEF Evolves, Placed
  <1>5. OrdersSound'
    BY <1>3 DEF OrdersSound, Placed
  <1> QED
    BY <1>1, <1>3, <1>4, <1>5

LEMMA RecordData ==
    ASSUME TypeOK, OrdersSound, UNCHANGED <<ext, posted>>, NEW i \in Ids, Placed(i), Record(i)
    PROVE  /\ row' \in [Ids -> OrderRow] /\ Evolves /\ OrdersSound'
           /\ row'[i].stored /\ \A k \in Ids \ {i} : row'[k] = row[k]
  <1> DEFINE r == [NoRow EXCEPT !.stored = TRUE, !.isActive = TRUE,
                                !.parent = ext[i].parent, !.amount1 = ext[i].amount]
  <1>1. /\ row \in [Ids -> OrderRow] /\ ext[i] \in ExtOrder
        /\ ext[i].parent \in 0..MaxOrders /\ ext[i].amount \in Nat
    BY DEF TypeOK, ExtOrder
  <1>2. NoRow \in OrderRow
    BY OrderAssumption DEF NoRow, OrderRow
  <1>3. /\ r \in OrderRow /\ r.stored /\ r.parent = ext[i].parent /\ r.amount1 = ext[i].amount
    BY <1>1, <1>2 DEF OrderRow
  <1>4. row' = [row EXCEPT ![i] = r]
    BY DEF Record
  <1> HIDE DEF r
  <1>5. /\ row'[i] = r /\ \A k \in Ids \ {i} : row'[k] = row[k]
        /\ row' \in [Ids -> OrderRow]
    BY <1>1, <1>3, <1>4
  <1>6. Evolves
    BY <1>3, <1>5 DEF Evolves, Placed
  <1>7. OrdersSound'
    BY <1>3, <1>5 DEF OrdersSound, Placed
  <1> QED
    BY <1>1, <1>3, <1>4, <1>5, <1>6, <1>7

LEMMA PostData ==
    ASSUME TypeOK, OrdersSound, UNCHANGED <<ext, row>>, NEW i \in Ids, row[i].stored,
           NEW kind \in {"out", "in", "fee", "back"}, Post(i, kind)
    PROVE  /\ posted' \in [Ids -> Postings] /\ Evolves /\ OrdersSound'
           /\ \A k \in Ids \ {i} : posted'[k] = posted[k]
           /\ posted'[i].out = posted[i].out + IF kind = "out" THEN 1 ELSE 0
           /\ posted'[i].in = posted[i].in + IF kind = "in" THEN 1 ELSE 0
           /\ posted'[i].fee = posted[i].fee + IF kind = "fee" THEN 1 ELSE 0
           /\ posted'[i].back = posted[i].back + IF kind = "back" THEN 1 ELSE 0
  <1>1. posted \in [Ids -> Postings] /\ posted' = [posted EXCEPT ![i][kind] = @ + 1]
    BY DEF TypeOK, Post
  <1>2. /\ posted'[i] = [posted[i] EXCEPT ![kind] = @ + 1]
        /\ \A k \in Ids \ {i} : posted'[k] = posted[k]
    BY <1>1
  <1>3. /\ posted'[i] \in Postings
        /\ posted'[i].out = posted[i].out + IF kind = "out" THEN 1 ELSE 0
        /\ posted'[i].in = posted[i].in + IF kind = "in" THEN 1 ELSE 0
        /\ posted'[i].fee = posted[i].fee + IF kind = "fee" THEN 1 ELSE 0
        /\ posted'[i].back = posted[i].back + IF kind = "back" THEN 1 ELSE 0
    BY <1>1, <1>2 DEF Postings
  <1>4. posted' \in [Ids -> Postings]
    BY <1>1, <1>2, <1>3
  <1>5. Evolves
    BY DEF Evolves, Placed
  <1>6. \A k \in Ids : row[k].stored \/ posted'[k] = posted[k]
    BY <1>2
  <1>7. OrdersSound'
    BY <1>6 DEF OrdersSound, Placed
  <1> QED
    BY <1>2, <1>3, <1>4, <1>5, <1>7

LEMMA ExchangeData ==
    ASSUME TypeOK, OrdersSound, ExchangeNext
    PROVE  /\ ext' \in [Ids -> ExtOrder] /\ Evolves /\ OrdersSound'
           /\ UNCHANGED <<row, posted, pc, job, started, faults>>
  <1>1. PICK i \in Ids : Fill(i) \/ CancelOnExchange(i) \/ Forget(i)
    BY DEF ExchangeNext
  <1>2. UNCHANGED <<row, posted, pc, job, started, faults>>
    BY <1>1 DEF Fill, CancelOnExchange, Forget
  <1>3. ext \in [Ids -> ExtOrder]
    BY DEF TypeOK
  <1>4. \E x \in ExtOrder :
          /\ ext' = [ext EXCEPT ![i] = x] /\ x.parent = ext[i].parent /\ x.amount = ext[i].amount
          /\ x.status # "none" /\ ext[i].status # "none"
          /\ x.status = "closed" => x.filled = x.amount
          /\ ext[i].status # "closed" /\ ext[i].status # "gone"
          /\ ext[i].status = "canceled" => x.status = "gone"
    <2>1. CASE Fill(i)
      <3>1. /\ ext[i].status = "open"
            /\ \E f \in (ext[i].filled + 1)..ext[i].amount :
                ext' = [ext EXCEPT ![i].filled = f,
                                   ![i].status = IF f = ext[i].amount THEN "closed" ELSE @]
        BY <2>1 DEF Fill
      <3>2. PICK f \in (ext[i].filled + 1)..ext[i].amount :
                ext' = [ext EXCEPT ![i].filled = f,
                                   ![i].status = IF f = ext[i].amount THEN "closed" ELSE @]
        BY <3>1
      <3>3. ext[i].filled \in Nat /\ ext[i].amount \in Nat /\ f \in Nat
        BY <1>3, <3>2 DEF ExtOrder
      <3> DEFINE x == [ext[i] EXCEPT !.filled = f,
                                     !.status = IF f = ext[i].amount THEN "closed" ELSE @]
      <3>4. ext' = [ext EXCEPT ![i] = x]
        BY <1>3, <3>2
      <3>5. /\ x \in ExtOrder /\ x.parent = ext[i].parent /\ x.amount = ext[i].amount
            /\ x.status \in {"open", "closed"}
            /\ x.status = "closed" => x.filled = x.amount
        <4>1. /\ x.parent = ext[i].parent /\ x.amount = ext[i].amount
              /\ x.filled = f
              /\ x.status = IF f = ext[i].amount THEN "closed" ELSE ext[i].status
          BY <1>3 DEF ExtOrder
        <4>2. x \in ExtOrder
          BY <1>3, <3>3 DEF ExtOrder
        <4> HIDE DEF x
        <4> QED
          BY <3>1, <4>1, <4>2
      <3> HIDE DEF x
      <3> QED
        BY <3>1, <3>4, <3>5
    <2>2. CASE CancelOnExchange(i)
      <3> DEFINE x == [ext[i] EXCEPT !.status = "canceled"]
      <3>1. ext' = [ext EXCEPT ![i] = x] /\ ext[i].status = "open"
        BY <1>3, <2>2 DEF CancelOnExchange
      <3>2. /\ x \in ExtOrder /\ x.parent = ext[i].parent /\ x.amount = ext[i].amount
            /\ x.status = "canceled"
        BY <1>3 DEF ExtOrder
      <3> HIDE DEF x
      <3> QED
        BY <3>1, <3>2
    <2>3. CASE Forget(i)
      <3> DEFINE x == [ext[i] EXCEPT !.status = "gone"]
      <3>1. ext' = [ext EXCEPT ![i] = x] /\ ext[i].status = "canceled"
        BY <1>3, <2>3 DEF Forget
      <3>2. /\ x \in ExtOrder /\ x.parent = ext[i].parent /\ x.amount = ext[i].amount
            /\ x.status = "gone"
        BY <1>3 DEF ExtOrder
      <3> HIDE DEF x
      <3> QED
        BY <3>1, <3>2
    <2> QED
      BY <1>1, <2>1, <2>2, <2>3
  <1>5. PICK x \in ExtOrder :
          /\ ext' = [ext EXCEPT ![i] = x] /\ x.parent = ext[i].parent /\ x.amount = ext[i].amount
          /\ x.status # "none" /\ ext[i].status # "none"
          /\ x.status = "closed" => x.filled = x.amount
          /\ ext[i].status # "closed" /\ ext[i].status # "gone"
          /\ ext[i].status = "canceled" => x.status = "gone"
    BY <1>4
  <1>6. /\ ext' \in [Ids -> ExtOrder] /\ ext'[i] = x
        /\ \A k \in Ids \ {i} : ext'[k] = ext[k]
    BY <1>3, <1>5
  <1>7. Evolves
    BY <1>2, <1>5, <1>6 DEF Evolves, Placed
  <1>8. OrdersSound'
    BY <1>2, <1>5, <1>6 DEF OrdersSound, Placed
  <1> QED
    BY <1>2, <1>5, <1>6, <1>7, <1>8

-----------------------------------------------------------------------------
(* One step of one task.                                                   *)

DataType ==
    /\ ext \in [Ids -> ExtOrder]
    /\ row \in [Ids -> OrderRow]
    /\ posted \in [Ids -> Postings]
    /\ started \in SUBSET Tasks
    /\ faults \in 0..MaxFaults

Creating == {"b_record", "b_out", "s_record", "s_out"}

\* Task t stores only the order it created, posts its outcome only once, and takes up
\* only a new order.
Creates(t) ==
    /\ \A i \in Ids : ~row[i].stored /\ row'[i].stored =>
          pc[t] \in {"b_record", "s_record"} /\ i = job[t].id /\ t \in Buyers \cup Sellers
    /\ t \in Buyers \cup Sellers /\ pc'[t] \in Holding =>
          \/ pc[t] \in Holding /\ job'[t].id = job[t].id
          \/ ~Placed(job'[t].id)
    /\ \A i \in Ids :
          \/ posted'[i].out = posted[i].out
          \/ /\ pc[t] \in Creating /\ pc'[t] \notin Creating /\ i = job[t].id
             /\ posted'[i].out = posted[i].out + 1
    /\ pc'[t] \in Creating =>
          \/ pc[t] \in Creating /\ job'[t].id = job[t].id
          \/ posted[job'[t].id].out = 0

StepSound(t) ==
    /\ Others(t) /\ Shape(t, pc[t], job[t])'
    /\ Evolves /\ OrdersSound' /\ DataType' /\ Creates(t)

LEMMA CreatorOf ==
    ASSUME Shaped, NEW t \in Tasks, pc[t] \in Creating
    PROVE  t \in Buyers \cup Sellers /\ pc[t] \in Holding /\ job[t].id \in Ids
  <1>1. Shape(t, pc[t], job[t])
    BY DEF Shaped
  <1>2. pc[t] \in Holding
    BY DEF Creating, Holding, OfBuys, OfSells, BuyCreation, SellCreation
  <1>3. t \in Buyers \cup Sellers
    BY <1>1 DEF Shape, Labels, Creating, BuyFilling, SellFilling, BuyBacking, SellBacking
  <1> QED
    BY <1>1, <1>2, <1>3 DEF Shape

LEMMA StepKeepsSound ==
    ASSUME Sound, NEW t \in Tasks, StepSound(t)
    PROVE  Sound'
  <1>1. /\ Others(t) /\ Shape(t, pc[t], job[t])'
        /\ Evolves /\ OrdersSound' /\ DataType' /\ Creates(t)
    BY DEF StepSound
  <1>2. TypeOK'
    BY <1>1 DEF TypeOK, DataType, Others
  <1>3. Shaped'
    <2>1. ASSUME NEW u \in Tasks, u # t
          PROVE  Shape(u, pc[u], job[u])'
      <3>1. \A i \in Ids : ~row[i].stored /\ row'[i].stored =>
              /\ pc[t] \in {"b_record", "s_record"} /\ i = job[t].id
              /\ t \in Buyers \cup Sellers
        BY <1>1 DEF Creates
      <3> QED
        BY <1>1, <2>1, <3>1, OthersKeepShape
    <2> QED
      BY <1>1, <2>1 DEF Shaped
  <1>4. ASSUME NEW u \in Buyers \cup Sellers, u # t, pc'[t] \in Holding, pc'[u] \in Holding,
               job'[t].id = job'[u].id, t \in Buyers \cup Sellers
        PROVE  FALSE
    <2>1. pc[u] \in Holding /\ job'[u] = job[u]
      BY <1>1, <1>4, TaskKinds DEF Others
    <2>2. Placed(job[u].id)
      BY <2>1, <1>4, TaskKinds DEF Sound, Shaped, Shape
    <2>3. pc[t] \in Holding /\ job'[t].id = job[t].id
      BY <1>1, <1>4, <2>1, <2>2 DEF Creates
    <2> QED
      BY <1>4, <2>1, <2>3 DEF Sound, Creators
  <1>5. \A i \in Ids : posted'[i].out <= 1
    <2> SUFFICES ASSUME NEW i \in Ids, posted'[i].out # posted[i].out
                 PROVE  posted'[i].out <= 1
      BY DEF Sound, Creators
    <2>1. pc[t] \in Creating /\ i = job[t].id /\ posted'[i].out = posted[i].out + 1
      BY <1>1 DEF Creates
    <2>2. posted[i].out = 0
      BY <2>1 DEF Sound, Creators, Creating
    <2> QED
      BY <2>1, <2>2
  <1>6. ASSUME NEW u \in Tasks, pc'[u] \in Creating
        PROVE  posted'[job'[u].id].out = 0
    <2>1. CASE u = t
      <3>1. posted[job'[t].id].out = 0
        BY <1>1, <1>6, <2>1 DEF Creates, Sound, Creators, Creating
      <3>2. job'[t].id \in Ids
        BY <1>3, <1>6, <2>1, CreatorOf DEF Shaped, Shape, Creating, Holding, OfBuys, OfSells,
           BuyCreation, SellCreation
      <3>3. posted'[job'[t].id].out = posted[job'[t].id].out
        BY <1>1, <1>6, <2>1, <3>2 DEF Creates
      <3> QED
        BY <2>1, <3>1, <3>3
    <2>2. CASE u # t
      <3>1. pc[u] \in Creating /\ job'[u] = job[u]
        BY <1>1, <1>6, <2>2 DEF Others
      <3>2. posted[job[u].id].out = 0 /\ job[u].id \in Ids /\ u \in Buyers \cup Sellers
            /\ pc[u] \in Holding
        BY <3>1, CreatorOf DEF Sound, Creators, Creating
      <3>3. CASE posted'[job[u].id].out # posted[job[u].id].out
        <4>1. pc[t] \in Creating /\ job[u].id = job[t].id
          BY <1>1, <3>2, <3>3 DEF Creates
        <4>2. t \in Buyers \cup Sellers /\ pc[t] \in Holding
          BY <4>1, CreatorOf DEF Sound
        <4> QED
          BY <2>2, <3>2, <4>1, <4>2 DEF Sound, Creators
      <3> QED
        BY <3>1, <3>2, <3>3
    <2> QED
      BY <2>1, <2>2
  <1>7. Creators'
    <2>1. ASSUME NEW u \in Buyers \cup Sellers, NEW v \in Buyers \cup Sellers,
                 pc'[u] \in Holding, pc'[v] \in Holding, job'[u].id = job'[v].id
          PROVE  u = v
      <3>1. CASE u = t \/ v = t
        BY <1>4, <2>1, <3>1
      <3>2. CASE u # t /\ v # t
        BY <1>1, <2>1, <3>2, TaskKinds DEF Others, Sound, Creators
      <3> QED
        BY <3>1, <3>2
    <2> QED
      BY <1>5, <1>6, <2>1 DEF Creators, Creating
  <1> QED
    BY <1>1, <1>2, <1>3, <1>7 DEF Sound

-----------------------------------------------------------------------------
(* The actions, by what they do.                                           *)

\* A task that takes up nothing, stores nothing and posts no outcome.
LEMMA NothingCreated ==
    ASSUME Sound, NEW t \in Tasks,
           \A i \in Ids : row'[i].stored => row[i].stored,
           \A i \in Ids : posted'[i].out = posted[i].out,
           t \in Buyers \cup Sellers /\ pc'[t] \in Holding
              => pc[t] \in Holding /\ job'[t].id = job[t].id,
           pc'[t] \in Creating => pc[t] \in Creating /\ job'[t].id = job[t].id
    PROVE  Creates(t)
  BY DEF Creates

\* The task turns to the next row of its query, or returns, and nothing else changes.
LEMMA ContinueSound ==
    ASSUME Sound, NEW t \in Tasks, NEW left \in SUBSET job[t].todo, t \in Buyers => left = {},
           Continue(t, left), UNCHANGED <<ext, row, posted, started>>,
           faults' \in 0..MaxFaults
    PROVE  StepSound(t)
  <1>1. Evolves /\ OrdersSound'
    BY SameData DEF Sound
  <1>2. /\ Others(t) /\ Shape(t, pc[t], job[t])'
        /\ pc'[t] \in {"idle", "sell", "fetch"}
    BY <1>1, ContinueShape DEF Sound
  <1>3. pc'[t] \notin Holding /\ pc'[t] \notin Creating
    BY <1>2 DEF Holding, OfBuys, OfSells, BuyCreation, SellCreation, BuyFilling, SellFilling,
       BuyBacking, SellBacking, Creating
  <1>4. Creates(t)
    BY <1>3, NothingCreated
  <1>5. DataType'
    BY DEF Sound, TypeOK, DataType
  <1> QED
    BY <1>1, <1>2, <1>4, <1>5 DEF StepSound

LEMMA BuyerHasNoRows ==
    ASSUME Shaped, NEW t \in Buyers
    PROVE  job[t].todo = {} /\ t \in Tasks
  <1>1. t \in Tasks /\ Shape(t, pc[t], job[t])
    BY TaskKinds DEF Shaped
  <1>2. pc[t] \in {"idle", "buy"} \cup BuyCreation
    BY <1>1 DEF Shape, Labels
  <1> QED
    BY <1>1, <1>2, NoJobType DEF Shape

LEMMA ContinuesSound ==
    ASSUME Sound, NEW t \in Tasks,
           \/ t \in Buyers /\ BuyRefused(t)
           \/ t \in Sellers /\ SellRefused(t)
           \/ Throws(t)
           \/ /\ t \in Checkers /\ pc[t] = "fetch"
              /\ \E s \in job[t].todo :
                  /\ Continue(t, job[t].todo \ {s})
                  /\ UNCHANGED <<ext, row, posted, started>>
                  /\ faults' = faults \/ (faults < MaxFaults /\ faults' = faults + 1)
    PROVE  StepSound(t)
  <1>1. faults \in 0..MaxFaults /\ MaxFaults \in Nat
    BY OrderAssumption DEF Sound, TypeOK
  <1>2. /\ UNCHANGED <<ext, row, posted, started>> /\ faults' \in 0..MaxFaults
        /\ \E left \in SUBSET job[t].todo : Continue(t, left) /\ (t \in Buyers => left = {})
    <2>1. CASE t \in Buyers /\ BuyRefused(t)
      BY <1>1, <2>1, BuyerHasNoRows DEF BuyRefused, Sound
    <2>2. CASE t \in Sellers /\ SellRefused(t)
      BY <1>1, <2>2, TaskKinds DEF SellRefused
    <2>3. CASE Throws(t)
      <3>1. t \in Buyers => job[t].todo = {}
        BY BuyerHasNoRows DEF Sound
      <3> QED
        BY <1>1, <2>3, <3>1, TaskKinds DEF Throws
    <2>4. CASE /\ t \in Checkers /\ pc[t] = "fetch"
               /\ \E s \in job[t].todo :
                   /\ Continue(t, job[t].todo \ {s})
                   /\ UNCHANGED <<ext, row, posted, started>>
                   /\ faults' = faults \/ (faults < MaxFaults /\ faults' = faults + 1)
      BY <1>1, <2>4, TaskKinds
    <2> QED
      BY <2>1, <2>2, <2>3, <2>4
  <1> QED
    BY <1>2, ContinueSound

LEMMA StartSound ==
    ASSUME Sound, NEW t \in Tasks,
           \/ t \in Buyers /\ RunBuyStrategies(t)
           \/ t \in Sellers /\ RunSellStrategies(t)
           \/ t \in Checkers /\ CheckLimitOrders(t)
    PROVE  StepSound(t)
  <1>1. /\ pc \in [Tasks -> Steps] /\ job \in [Tasks -> Job] /\ Shape(t, pc[t], job[t])
        /\ job[t] \in Job /\ pc[t] = "idle" /\ job[t] = NoJob
        /\ UNCHANGED <<ext, row, posted, faults>>
    BY DEF Sound, TypeOK, Shaped, Shape, RunBuyStrategies, RunSellStrategies, CheckLimitOrders
  <1>2. Evolves /\ OrdersSound'
    BY <1>1, SameData DEF Sound
  <1>3. started' \in SUBSET Tasks
    BY <1>1 DEF Sound, TypeOK, RunBuyStrategies, RunSellStrategies, CheckLimitOrders, StartRun
  <1>4. \E l \in Steps, todo \in SUBSET Snapshot :
          /\ pc' = [pc EXCEPT ![t] = l] /\ job' = [job EXCEPT ![t] = [NoJob EXCEPT !.todo = todo]]
          /\ Shape(t, l, [NoJob EXCEPT !.todo = todo]) /\ l \in {"buy", "sell", "fetch"}
    <2>1. \A i \in Ids : row[i].stored =>
             SnapshotOf(i) \in Snapshot /\ SnapshotOf(i).id = i /\ SnapshotOf(i).preclosed = row[i].preclosed
      BY OrderAssumption DEF SnapshotOf, Snapshot, Sound, TypeOK, OrderRow, Ids
    <2>2. [job EXCEPT ![t].todo = {}] = [job EXCEPT ![t] = [NoJob EXCEPT !.todo = {}]]
      BY <1>1
    <2>3. CASE t \in Buyers /\ RunBuyStrategies(t)
      <3> DEFINE j == [NoJob EXCEPT !.todo = {}]
      <3>1. pc' = [pc EXCEPT ![t] = "buy"] /\ job' = job
        BY <2>3 DEF RunBuyStrategies, Goto
      <3>2. j = NoJob
        BY NoJobType DEF NoJob
      <3>3. job' = [job EXCEPT ![t] = j]
        BY <1>1, <3>1, <3>2
      <3>4. Shape(t, "buy", NoJob)
        BY <2>3, NoJobType DEF Shape, Labels, Holding, OfBuys, OfSells, BuyCreation,
         SellCreation, BuyFilling, SellFilling, BuyBacking, SellBacking
      <3>5. Shape(t, "buy", j) /\ {} \in SUBSET Snapshot
        BY <3>2, <3>4
      <3> HIDE DEF j
      <3> QED
        BY <3>1, <3>3, <3>5 DEF Steps, j
    <2>4. CASE t \in Sellers /\ RunSellStrategies(t)
      <3>1. PICK chosen \in SUBSET Sellable :
              job' = [job EXCEPT ![t].todo = {SnapshotOf(i) : i \in chosen}]
        BY <2>4 DEF RunSellStrategies
      <3> DEFINE left == {SnapshotOf(i) : i \in chosen}
                 j == [NoJob EXCEPT !.todo = left]
      <3>2. pc' = [pc EXCEPT ![t] = "sell"]
        BY <2>4 DEF RunSellStrategies, Goto
      <3>3. \A i \in chosen : i \in Ids /\ row[i].stored /\ row[i].preclosed < row[i].amount1
        BY DEF Sellable, BuyRows
      <3>4. \A s \in left : /\ s \in Snapshot /\ s.id \in Ids /\ row[s.id].stored
                            /\ s.preclosed < ext[s.id].amount
        BY <2>1, <3>3 DEF Sound, OrdersSound
      <3>5. \A r, s \in left : r.id = s.id => r = s
        BY <2>1, <3>3
      <3> HIDE DEF left
      <3>6. left \subseteq Snapshot
        BY <3>4
      <3>7. j \in Job /\ j.todo = left
        BY <3>6, LeftType
      <3>8. job' = [job EXCEPT ![t] = j]
        BY <1>1, <3>1 DEF left
      <3> HIDE DEF j
      <3>9. Shape(t, "sell", j)
        BY <2>4, <3>4, <3>5, <3>7, TaskKinds
           DEF Shape, Labels, Holding, OfBuys, OfSells, BuyCreation,
         SellCreation, BuyFilling, SellFilling, BuyBacking, SellBacking
      <3> QED
        BY <3>2, <3>6, <3>8, <3>9 DEF Steps, j
    <2>5. CASE t \in Checkers /\ CheckLimitOrders(t)
      <3> DEFINE left == {SnapshotOf(i) : i \in Unfilled}
                 j == [NoJob EXCEPT !.todo = left]
      <3>2. pc' = [pc EXCEPT ![t] = "fetch"] /\ job' = [job EXCEPT ![t].todo = left]
        BY <2>5 DEF CheckLimitOrders, Goto
      <3>3. \A i \in Unfilled : i \in Ids /\ row[i].stored
        BY DEF Unfilled
      <3>4. \A s \in left : s \in Snapshot /\ s.id \in Ids /\ row[s.id].stored
        BY <2>1, <3>3
      <3>5. \A r, s \in left : r.id = s.id => r = s
        BY <2>1, <3>3
      <3> HIDE DEF left
      <3>6. left \subseteq Snapshot
        BY <3>4
      <3>7. j \in Job /\ j.todo = left
        BY <3>6, LeftType
      <3>8. job' = [job EXCEPT ![t] = j]
        BY <1>1, <3>2
      <3> HIDE DEF j
      <3>9. Shape(t, "fetch", j)
        BY <2>5, <3>4, <3>5, <3>7, TaskKinds
           DEF Shape, Labels, Holding, OfBuys, OfSells, BuyCreation,
         SellCreation, BuyFilling, SellFilling, BuyBacking, SellBacking
      <3> QED
        BY <3>2, <3>6, <3>8, <3>9 DEF Steps, j
    <2> QED
      BY <2>3, <2>4, <2>5
  <1>5. PICK l \in Steps, todo \in SUBSET Snapshot :
          /\ pc' = [pc EXCEPT ![t] = l] /\ job' = [job EXCEPT ![t] = [NoJob EXCEPT !.todo = todo]]
          /\ Shape(t, l, [NoJob EXCEPT !.todo = todo]) /\ l \in {"buy", "sell", "fetch"}
    BY <1>4
  <1>6. PICK j \in Job : j = [NoJob EXCEPT !.todo = todo]
    BY LeftType
  <1>7. pc'[t] = l /\ job'[t] = j /\ Others(t)
    <2>1. job' = [job EXCEPT ![t] = j]
      BY <1>5, <1>6
    <2> QED
      BY <1>1, <1>5, <2>1 DEF Others
  <1>8. Shape(t, l, j)
    BY <1>5, <1>6
  <1>9. Shape(t, pc[t], job[t])'
    BY <1>1, <1>7, <1>8 DEF Shape, Placed
  <1>10. Creates(t)
    <2>1. l \notin Holding /\ l \notin Creating
      BY <1>5 DEF Holding, OfBuys, OfSells, BuyCreation, SellCreation, BuyFilling, SellFilling,
       BuyBacking, SellBacking, Creating
    <2> QED
      BY <1>1, <1>7, <2>1, NothingCreated
  <1>11. DataType'
    BY <1>1, <1>3 DEF Sound, TypeOK, DataType
  <1> QED
    BY <1>2, <1>7, <1>9, <1>10, <1>11 DEF StepSound

\* create: the exchange accepts the order, and the task has it in hand.
LEMMA AcceptedSound ==
    ASSUME Sound, NEW t \in Tasks,
           \/ t \in Buyers /\ BuyAccepted(t)
           \/ t \in Sellers /\ SellAccepted(t)
    PROVE  StepSound(t)
  <1>1. /\ pc \in [Tasks -> Steps] /\ job \in [Tasks -> Job] /\ Shape(t, pc[t], job[t])
        /\ job[t] \in Job /\ RoomToOrder
        /\ UNCHANGED <<row, posted, started, faults>>
    BY DEF Sound, TypeOK, Shaped, Shape, BuyAccepted, SellAccepted
  <1> DEFINE n == NextId
             Effect(p, amount, full, l, j) ==
                 /\ Accept(n, p, amount, full)
                 /\ pc' = [pc EXCEPT ![t] = l] /\ job' = [job EXCEPT ![t] = j]
                 /\ j.id = n /\ j.todo \subseteq job[t].todo
                 /\ \/ t \in Buyers /\ l = "b_record" /\ p = 0 /\ j.todo = {}
                    \/ /\ t \in Sellers /\ l = "s_record" /\ p \in Ids /\ j.cur.id = p /\ j.full = full
  <1>2. \E p \in 0..MaxOrders, amount \in Nat, full \in BOOLEAN, l \in Steps, j \in Job :
            Effect(p, amount, full, l, j)
    <2>1. n \in Ids /\ n \in 0..MaxOrders
      BY <1>1, NextIdIsNew, OrderAssumption DEF Sound, Ids
    <2>2. CASE t \in Buyers /\ BuyAccepted(t)
      <3>1. PICK full \in BOOLEAN :
              Accept(n, 0, BuyAmount, full) /\ job' = [job EXCEPT ![t].id = n]
        BY <2>2 DEF BuyAccepted
      <3> HIDE DEF n
      <3> DEFINE j == [job[t] EXCEPT !.id = n]
      <3>2. j \in Job /\ j.id = n /\ j.todo = job[t].todo
        BY <1>1, <2>1 DEF Job
      <3>3. pc' = [pc EXCEPT ![t] = "b_record"] /\ job' = [job EXCEPT ![t] = j]
        BY <1>1, <2>2, <3>1 DEF BuyAccepted, Goto
      <3>4. job[t].todo = {}
        BY <2>2, BuyerHasNoRows DEF Sound
      <3> HIDE DEF j
      <3>5. 0 \in 0..MaxOrders /\ BuyAmount \in Nat /\ "b_record" \in Steps
        BY OrderAssumption DEF Steps
      <3>6. Effect(0, BuyAmount, full, "b_record", j)
        BY <2>2, <3>1, <3>2, <3>3, <3>4
      <3> HIDE DEF Effect
      <3> QED
        BY <3>2, <3>5, <3>6
    <2>3. CASE t \in Sellers /\ SellAccepted(t)
      <3>1. PICK s \in job[t].todo, full \in BOOLEAN :
              \E amount \in 1..(row[s.id].amount1 - s.preclosed) :
                /\ Accept(n, s.id, amount, full)
                /\ job' = [job EXCEPT ![t].todo = @ \ {s}, ![t].cur = s,
                                      ![t].id = n, ![t].full = full]
        BY <2>3 DEF SellAccepted
      <3>2. PICK amount \in 1..(row[s.id].amount1 - s.preclosed) :
                /\ Accept(n, s.id, amount, full)
                /\ job' = [job EXCEPT ![t].todo = @ \ {s}, ![t].cur = s,
                                      ![t].id = n, ![t].full = full]
        BY <3>1
      <3>3. s \in Snapshot /\ s.id \in Ids /\ row[s.id] \in OrderRow
        BY <1>1 DEF Shape, Job, Sound, TypeOK
      <3>4. amount \in Nat
        BY <3>3 DEF Snapshot, OrderRow
      <3> HIDE DEF n
      <3> DEFINE j == [job[t] EXCEPT !.todo = @ \ {s}, !.cur = s, !.id = n, !.full = full]
      <3>5. j \in Job /\ j.id = n /\ j.todo = job[t].todo \ {s} /\ j.cur = s /\ j.full = full
        BY <1>1, <2>1, <3>3 DEF Job
      <3>6. pc' = [pc EXCEPT ![t] = "s_record"] /\ job' = [job EXCEPT ![t] = j]
        BY <1>1, <2>3, <3>2 DEF SellAccepted, Goto
      <3> HIDE DEF j
      <3>7. s.id \in 0..MaxOrders /\ "s_record" \in Steps
        BY <3>3, OrderAssumption DEF Steps, Ids
      <3>8. Effect(s.id, amount, full, "s_record", j)
        BY <2>3, <3>2, <3>3, <3>5, <3>6
      <3> HIDE DEF Effect
      <3> QED
        BY <3>4, <3>5, <3>7, <3>8
    <2> QED
      BY <2>2, <2>3
  <1>3. PICK p \in 0..MaxOrders, amount \in Nat, full \in BOOLEAN, l \in Steps, j \in Job :
            Effect(p, amount, full, l, j)
    BY <1>2
  <1>4. /\ ext' \in [Ids -> ExtOrder] /\ Evolves /\ OrdersSound'
        /\ n \in Ids /\ ~Placed(n) /\ ext'[n].status # "none"
        /\ ~row[n].stored /\ posted[n].out = 0
        /\ ext'[n].parent = p /\ full => ext'[n].status = "closed"
    BY <1>1, <1>3, PlaceData DEF Accept, Sound
  <1>5. full => ext'[n].status = "closed"
    BY <1>1, <1>3, PlaceData DEF Accept, Sound
  <1>6. ext'[n].parent = p
    BY <1>1, <1>3, PlaceData DEF Accept, Sound
  <1> HIDE DEF n
  <1>8. pc'[t] = l /\ job'[t] = j /\ Others(t)
    BY <1>1, <1>3 DEF Others
  <1>9. \A s \in j.todo : /\ s.id \in Ids /\ row'[s.id].stored
                          /\ t \in Sellers => s.preclosed < ext'[s.id].amount
    BY <1>1, <1>3, <1>4 DEF Shape, Evolves, Sound, OrdersSound
  <1>10. \A r, s \in j.todo : r.id = s.id => r = s
    BY <1>1, <1>3 DEF Shape
  <1>11. Shape(t, pc[t], job[t])'
    BY <1>1, <1>3, <1>4, <1>5, <1>6, <1>8, <1>9, <1>10, TaskKinds
       DEF Shape, Labels, Holding, OfBuys, OfSells, Placed,
         BuyCreation, SellCreation, BuyFilling, SellFilling, BuyBacking, SellBacking
  <1>12. Creates(t)
    BY <1>1, <1>3, <1>4, <1>8 DEF Creates
  <1>13. DataType'
    BY <1>1, <1>4 DEF Sound, TypeOK, DataType
  <1> QED
    BY <1>4, <1>8, <1>11, <1>12, <1>13 DEF StepSound

\* The exchange took the order and create threw before its row was written.
LEMMA LostSound ==
    ASSUME Sound, NEW t \in Tasks,
           \/ t \in Buyers /\ BuyLost(t)
           \/ t \in Sellers /\ SellLost(t)
    PROVE  StepSound(t)
  <1>1. /\ pc \in [Tasks -> Steps] /\ job \in [Tasks -> Job] /\ Shape(t, pc[t], job[t])
        /\ job[t] \in Job /\ RoomToOrder
        /\ UNCHANGED <<row, posted, started>>
        /\ faults \in 0..MaxFaults /\ MaxFaults \in Nat
        /\ faults < MaxFaults /\ faults' = faults + 1
    BY OrderAssumption DEF Sound, TypeOK, Shaped, Shape, BuyLost, SellLost, AcceptLost
  <1>2. \E p \in 0..MaxOrders, amount \in Nat : AcceptLost(NextId, p, amount)
    <2>1. CASE t \in Buyers /\ BuyLost(t)
      BY <2>1, OrderAssumption DEF BuyLost
    <2>2. CASE t \in Sellers /\ SellLost(t)
      <3>1. PICK s \in job[t].todo :
              \E amount \in 1..(row[s.id].amount1 - s.preclosed) :
                AcceptLost(NextId, s.id, amount)
        BY <2>2 DEF SellLost
      <3>2. PICK amount \in 1..(row[s.id].amount1 - s.preclosed) :
              AcceptLost(NextId, s.id, amount)
        BY <3>1
      <3>3. s \in Snapshot /\ s.id \in Ids /\ row[s.id] \in OrderRow
        BY <1>1, <2>2 DEF Shape, Job, Sound, TypeOK
      <3>4. amount \in Nat
        BY <3>3 DEF Snapshot, OrderRow
      <3>5. s.id \in 0..MaxOrders
        BY <3>3, OrderAssumption DEF Ids
      <3> QED
        BY <3>2, <3>4, <3>5
    <2> QED
      BY <2>1, <2>2
  <1>3. PICK p \in 0..MaxOrders, amount \in Nat, full \in BOOLEAN :
            Accept(NextId, p, amount, full)
    BY <1>2 DEF AcceptLost
  <1>4. ext' \in [Ids -> ExtOrder] /\ Evolves /\ OrdersSound'
    BY <1>1, <1>3, PlaceData DEF Sound
  <1>5. \E left \in SUBSET job[t].todo : Continue(t, left) /\ (t \in Buyers => left = {})
    BY BuyerHasNoRows, TaskKinds DEF BuyLost, SellLost, Sound
  <1>6. /\ Others(t) /\ Shape(t, pc[t], job[t])'
        /\ pc'[t] \in {"idle", "sell", "fetch"}
    BY <1>4, <1>5, ContinueShape DEF Sound
  <1>7. pc'[t] \notin Holding /\ pc'[t] \notin Creating
    BY <1>6 DEF Holding, OfBuys, OfSells, BuyCreation, SellCreation, BuyFilling, SellFilling,
       BuyBacking, SellBacking, Creating
  <1>8. Creates(t)
    BY <1>1, <1>7, NothingCreated
  <1>9. DataType'
    BY <1>1, <1>4 DEF Sound, TypeOK, DataType
  <1> QED
    BY <1>4, <1>6, <1>8, <1>9 DEF StepSound

\* The task goes on with the order it has in hand.
LEMMA AdvanceShape ==
    ASSUME Sound, NEW t \in Tasks, pc[t] \in Holding, Evolves,
           NEW l \in Holding \ {"b_record", "s_record"}, pc' = [pc EXCEPT ![t] = l], l \in Labels(t),
           \/ job' = job
           \/ \E seen \in Int : job' = [job EXCEPT ![t].seen = seen],
           row'[job[t].id].stored,
           l \in OfBuys <=> pc[t] \in OfBuys, l \in OfSells <=> pc[t] \in OfSells,
           l \in SellCreation => pc[t] \in SellCreation,
           l \in {"f_row", "f_income", "c_close", "c_income"} => ext'[job[t].id].status = "closed"
    PROVE  /\ Others(t) /\ Shape(t, pc[t], job[t])' /\ pc'[t] = l
           /\ job'[t].id = job[t].id /\ job'[t].todo = job[t].todo
  <1> DEFINE j == job'[t]
  <1>1. /\ pc \in [Tasks -> Steps] /\ job \in [Tasks -> Job] /\ Shape(t, pc[t], job[t])
        /\ job[t] \in Job
    BY DEF Sound, TypeOK, Shaped
  <1>2. l \in Steps
    BY DEF Holding, OfBuys, OfSells, BuyCreation, SellCreation, BuyFilling, SellFilling,
       BuyBacking, SellBacking, Steps
  <1>3. /\ j \in Job /\ j.id = job[t].id /\ j.todo = job[t].todo /\ j.cur = job[t].cur
        /\ j.full = job[t].full
        /\ job' \in [Tasks -> Job] /\ \A u \in Tasks \ {t} : job'[u] = job[u]
    <2>1. CASE job' = job
      BY <1>1, <2>1
    <2>2. CASE \E seen \in Int : job' = [job EXCEPT ![t].seen = seen]
      <3>1. PICK seen \in Int : job' = [job EXCEPT ![t].seen = seen]
        BY <2>2
      <3> DEFINE k == [job[t] EXCEPT !.seen = seen]
      <3>2. /\ k \in Job /\ k.id = job[t].id /\ k.todo = job[t].todo /\ k.cur = job[t].cur
            /\ k.full = job[t].full
        BY <1>1 DEF Job
      <3>3. job' = [job EXCEPT ![t] = k]
        BY <1>1, <3>1
      <3> HIDE DEF k
      <3> QED
        BY <1>1, <3>2, <3>3
    <2> QED
      BY <2>1, <2>2
  <1>4. Others(t) /\ pc'[t] = l
    BY <1>1, <1>2, <1>3 DEF Others
  <1> HIDE DEF j
  <1>5. \A s \in j.todo : /\ s.id \in Ids /\ row'[s.id].stored
                          /\ t \in Sellers => s.preclosed < ext'[s.id].amount
    BY <1>1, <1>3 DEF Shape, Evolves, Sound, OrdersSound
  <1>6. l \in Holding => j.id \in Ids /\ ext'[j.id].status # "none"
                          /\ ext'[j.id].parent = ext[j.id].parent
    BY <1>1, <1>3 DEF Shape, Evolves, Placed
  <1>7. /\ l # "idle" /\ l # "buy" /\ (l \in BuyCreation => pc[t] \in BuyCreation)
    <2>1. l \in BuyCreation => t \in Buyers
      BY TaskKinds
         DEF Labels, Holding, BuyCreation, SellCreation, BuyFilling, SellFilling, BuyBacking,
         SellBacking
    <2>2. t \in Buyers => pc[t] \in BuyCreation
      BY <1>1 DEF Shape, Labels, Holding, OfBuys, OfSells, BuyCreation, SellCreation, BuyFilling,
         SellFilling, BuyBacking, SellBacking
    <2> QED
      BY <2>1, <2>2
         DEF Holding, OfBuys, OfSells, BuyCreation, SellCreation, BuyFilling, SellFilling,
         BuyBacking, SellBacking
  <1>8. /\ l \in {"buy"} \cup BuyCreation => j.todo = {}
        /\ \A r, s \in j.todo : r.id = s.id => r = s
        /\ t \in Checkers => \A s \in j.todo : s.id # j.id
    BY <1>1, <1>3, <1>7 DEF Shape
  <1>9. /\ l \in OfBuys => ext'[j.id].parent = 0
        /\ l \in OfSells => ext'[j.id].parent \in Ids
    BY <1>1, <1>3, <1>6 DEF Shape
  <1>10. l \in SellCreation => j.cur.id \in Ids /\ (j.full => ext'[j.id].status = "closed")
    <2>1. ext[j.id].status = "closed" => ext'[j.id].status = "closed"
      BY <1>6 DEF Evolves
    <2> QED
      BY <1>1, <1>3, <2>1 DEF Shape
  <1>11. Shape(t, pc[t], job[t])'
    BY <1>3, <1>4, <1>5, <1>6, <1>7, <1>8, <1>9, <1>10 DEF Shape, Placed, Labels, j
  <1> QED
    BY <1>3, <1>4, <1>11 DEF j

LEMMA RecordSound ==
    ASSUME Sound, NEW t \in Tasks,
           \/ t \in Buyers /\ BuyRecord(t)
           \/ t \in Sellers /\ SellRecord(t)
    PROVE  StepSound(t)
  <1> DEFINE i == job[t].id
             l == IF t \in Buyers THEN "b_out" ELSE "s_out"
  <1>1. /\ pc \in [Tasks -> Steps] /\ job \in [Tasks -> Job] /\ Shape(t, pc[t], job[t])
        /\ pc[t] \in {"b_record", "s_record"} /\ pc[t] \in Holding
        /\ pc' = [pc EXCEPT ![t] = l] /\ Record(i)
        /\ t \in Buyers => pc[t] = "b_record"
        /\ t \notin Buyers => pc[t] = "s_record"
        /\ UNCHANGED <<ext, posted, job, started, faults>>
    BY TaskKinds DEF Sound, TypeOK, Shaped, BuyRecord, SellRecord, Goto, Holding, OfBuys, OfSells,
       BuyCreation, SellCreation
  <1>2. i \in Ids /\ Placed(i) /\ ~row[i].stored
    BY <1>1 DEF Shape
  <1> HIDE DEF i
  <1>3. /\ row' \in [Ids -> OrderRow] /\ Evolves /\ OrdersSound'
        /\ row'[i].stored /\ \A k \in Ids \ {i} : row'[k] = row[k]
    BY <1>1, <1>2, RecordData DEF Sound
  <1>4. /\ l \in Holding \ {"b_record", "s_record"} /\ l \in Labels(t)
        /\ (l \in OfBuys <=> pc[t] \in OfBuys) /\ (l \in OfSells <=> pc[t] \in OfSells)
        /\ (l \in SellCreation => pc[t] \in SellCreation)
        /\ l \notin {"f_row", "f_income", "c_close", "c_income"}
    BY <1>1, TaskKinds DEF Labels, Holding, OfBuys, OfSells, BuyCreation, SellCreation, BuyFilling,
       SellFilling, BuyBacking, SellBacking
  <1> HIDE DEF l
  <1>5. /\ Others(t) /\ Shape(t, pc[t], job[t])' /\ pc'[t] = l
        /\ job'[t].id = job[t].id /\ job'[t].todo = job[t].todo
    BY <1>1, <1>3, <1>4, AdvanceShape DEF i
  <1>6. Creates(t)
    <2>1. \A k \in Ids : ~row[k].stored /\ row'[k].stored => k = job[t].id
      BY <1>3 DEF i
    <2>2. t \in Buyers \cup Sellers
      OBVIOUS
    <2> QED
      BY <1>1, <1>5, <2>1, <2>2 DEF Creates, Creating
  <1>7. DataType'
    BY <1>1, <1>3 DEF Sound, TypeOK, DataType
  <1> QED
    BY <1>3, <1>5, <1>6, <1>7 DEF StepSound

LEMMA OutcomeSound ==
    ASSUME Sound, NEW t \in Tasks,
           \/ t \in Buyers /\ BuyOutcome(t)
           \/ t \in Sellers /\ SellOutcome(t)
    PROVE  StepSound(t)
  <1> DEFINE i == job[t].id
  <1>1. /\ pc \in [Tasks -> Steps] /\ job \in [Tasks -> Job] /\ Shape(t, pc[t], job[t])
        /\ pc[t] \in {"b_out", "s_out"} /\ pc[t] \in Holding /\ pc[t] \in Creating
        /\ Post(i, "out")
        /\ UNCHANGED <<ext, row, started, faults>>
    BY DEF Sound, TypeOK, Shaped, BuyOutcome, SellOutcome, Goto, Holding, OfBuys, OfSells,
       BuyCreation, SellCreation, Creating
  <1>2. i \in Ids /\ row[i].stored
    BY <1>1 DEF Shape
  <1> HIDE DEF i
  <1>3. /\ posted' \in [Ids -> Postings] /\ Evolves /\ OrdersSound'
        /\ \A k \in Ids \ {i} : posted'[k] = posted[k]
        /\ posted'[i].out = posted[i].out + IF "out" = "out" THEN 1 ELSE 0
    BY <1>1, <1>2, PostData DEF Sound
  <1>4. /\ Others(t) /\ Shape(t, pc[t], job[t])' /\ pc'[t] \notin Creating
        /\ pc'[t] \in Holding => job'[t].id = job[t].id
    <2>1. CASE t \in Buyers /\ BuyOutcome(t)
      <3>1. job[t].todo = {} /\ Continue(t, {})
        BY <2>1, BuyerHasNoRows DEF Sound, BuyOutcome
      <3>2. /\ Others(t) /\ Shape(t, pc[t], job[t])'
            /\ pc'[t] \in {"idle", "sell", "fetch"}
        BY <1>3, <3>1, ContinueShape DEF Sound
      <3> QED
        BY <3>2
           DEF Creating, Holding, OfBuys, OfSells, BuyCreation, SellCreation, BuyFilling,
               SellFilling,
           BuyBacking, SellBacking
    <2>2. CASE t \in Sellers /\ SellOutcome(t)
      <3> DEFINE l == "s_preclose"
      <3>1. pc' = [pc EXCEPT ![t] = l] /\ job' = job /\ pc[t] = "s_out"
        BY <2>2 DEF SellOutcome, Goto
      <3>2. /\ l \in Holding \ {"b_record", "s_record"} /\ l \in Labels(t)
            /\ (l \in OfBuys <=> pc[t] \in OfBuys) /\ (l \in OfSells <=> pc[t] \in OfSells)
            /\ (l \in SellCreation => pc[t] \in SellCreation)
            /\ l \notin {"f_row", "f_income", "c_close", "c_income"} /\ l \notin Creating
        BY <2>2, <3>1, TaskKinds DEF Labels, Holding, OfBuys, OfSells, BuyCreation, SellCreation,
           BuyFilling, SellFilling, BuyBacking, SellBacking, Creating
      <3> HIDE DEF l
      <3>3. row'[job[t].id].stored
        BY <1>1, <1>2 DEF i
      <3>4. /\ Others(t) /\ Shape(t, pc[t], job[t])' /\ pc'[t] = l
            /\ job'[t].id = job[t].id /\ job'[t].todo = job[t].todo
        BY <1>1, <1>3, <3>1, <3>2, <3>3, AdvanceShape
      <3> QED
        BY <3>2, <3>4
    <2> QED
      BY <2>1, <2>2
  <1>5. Creates(t)
    BY <1>1, <1>3, <1>4 DEF Creates, i
  <1>6. DataType'
    BY <1>1, <1>3 DEF Sound, TypeOK, DataType
  <1> QED
    BY <1>3, <1>4, <1>5, <1>6 DEF StepSound

\* A step of check on an order in hand writes its row, or its parent's row.
LEMMA RowStepSound ==
    ASSUME Sound, NEW t \in Tasks, pc[t] \in Holding \ Creating,
           NEW i \in Ids, NEW r \in OrderRow, row' = [row EXCEPT ![i] = r],
           r.stored = row[i].stored, r.parent = row[i].parent, r.amount1 = row[i].amount1,
           UNCHANGED <<ext, posted, started, faults>>,
           \/ Continue(t, job[t].todo)
           \/ \E l \in Holding \ Creating :
                /\ pc' = [pc EXCEPT ![t] = l] /\ job' = job /\ l \in Labels(t)
                /\ (l \in OfBuys <=> pc[t] \in OfBuys) /\ (l \in OfSells <=> pc[t] \in OfSells)
                /\ (l \in SellCreation => pc[t] \in SellCreation)
                /\ l \in {"f_row", "f_income", "c_close", "c_income"} => ext[job[t].id].status = "closed"
    PROVE  StepSound(t)
  <1>1. /\ row' \in [Ids -> OrderRow] /\ Evolves /\ OrdersSound'
        /\ \A k \in Ids : row'[k].stored = row[k].stored
    BY RowData DEF Sound
  <1>2. Shape(t, pc[t], job[t]) /\ job[t].id \in Ids /\ row[job[t].id].stored
    BY DEF Sound, Shaped, Shape, Creating
  <1>3. /\ Others(t) /\ Shape(t, pc[t], job[t])' /\ pc'[t] \notin Creating
        /\ pc'[t] \in Holding => job'[t].id = job[t].id
    <2>1. CASE Continue(t, job[t].todo)
      <3>1. t \in Buyers => job[t].todo = {}
        BY BuyerHasNoRows DEF Sound
      <3>2. /\ Others(t) /\ Shape(t, pc[t], job[t])'
            /\ pc'[t] \in {"idle", "sell", "fetch"}
        BY <1>1, <2>1, <3>1, ContinueShape DEF Sound
      <3> QED
        BY <3>2
           DEF Creating, Holding, OfBuys, OfSells, BuyCreation, SellCreation, BuyFilling,
               SellFilling,
           BuyBacking, SellBacking
    <2>2. CASE \E l \in Holding \ Creating :
                /\ pc' = [pc EXCEPT ![t] = l] /\ job' = job /\ l \in Labels(t)
                /\ (l \in OfBuys <=> pc[t] \in OfBuys) /\ (l \in OfSells <=> pc[t] \in OfSells)
                /\ (l \in SellCreation => pc[t] \in SellCreation)
                /\ l \in {"f_row", "f_income", "c_close", "c_income"} => ext[job[t].id].status = "closed"
      <3>1. PICK l \in Holding \ Creating :
                /\ pc' = [pc EXCEPT ![t] = l] /\ job' = job /\ l \in Labels(t)
                /\ (l \in OfBuys <=> pc[t] \in OfBuys) /\ (l \in OfSells <=> pc[t] \in OfSells)
                /\ (l \in SellCreation => pc[t] \in SellCreation)
                /\ l \in {"f_row", "f_income", "c_close", "c_income"} => ext[job[t].id].status = "closed"
        BY <2>2
      <3>2. l \in Holding \ {"b_record", "s_record"}
        BY <3>1 DEF Creating
      <3>3. l \in {"f_row", "f_income", "c_close", "c_income"} => ext'[job[t].id].status = "closed"
        BY <3>1
      <3>4. /\ Others(t) /\ Shape(t, pc[t], job[t])' /\ pc'[t] = l
            /\ job'[t].id = job[t].id /\ job'[t].todo = job[t].todo
        BY <1>1, <1>2, <3>1, <3>2, <3>3, AdvanceShape
      <3> QED
        BY <3>1, <3>4
    <2> QED
      BY <2>1, <2>2
  <1>4. Creates(t)
    BY <1>1, <1>3, NothingCreated
  <1>5. DataType'
    BY <1>1 DEF Sound, TypeOK, DataType
  <1> QED
    BY <1>1, <1>3, <1>4, <1>5 DEF StepSound

\* create of a sell order writes preclosed of the parent, then checks the order.
LEMMA PrecloseSound ==
    ASSUME Sound, NEW t \in Sellers, SellPreclose(t)
    PROVE  StepSound(t)
  <1> DEFINE p == job[t].cur.id
             c == job[t].cur.preclosed + row[job[t].id].amount1
             r == [row[p] EXCEPT !.preclosed = c]
  <1>1. /\ t \in Tasks /\ row \in [Ids -> OrderRow] /\ job[t] \in Job /\ Shape(t, pc[t], job[t])
        /\ pc[t] = "s_preclose" /\ row' = [row EXCEPT ![p].preclosed = c]
        /\ IF job[t].full THEN pc' = [pc EXCEPT ![t] = "c_close"] /\ UNCHANGED job
           ELSE Continue(t, job[t].todo)
        /\ UNCHANGED <<ext, posted, started, faults>>
    BY TaskKinds DEF Sound, TypeOK, Shaped, Shape, SellPreclose, Goto
  <1>2. pc[t] \in Holding \ Creating /\ pc[t] \in SellCreation /\ pc[t] \in OfSells /\ pc[t] \notin OfBuys
    BY <1>1
       DEF Creating, Holding, OfBuys, OfSells, BuyCreation, SellCreation, BuyFilling, BuyBacking
  <1>3. job[t].id \in Ids /\ row[job[t].id].stored /\ p \in Ids
        /\ (job[t].full => ext[job[t].id].status = "closed")
    BY <1>1, <1>2 DEF Shape
  <1>4. c \in Int
    BY <1>1, <1>3 DEF Job, Snapshot, OrderRow
  <1> HIDE DEF c
  <1>5. /\ r \in OrderRow /\ r.stored = row[p].stored /\ r.parent = row[p].parent
        /\ r.amount1 = row[p].amount1 /\ row' = [row EXCEPT ![p] = r]
    BY <1>1, <1>3, <1>4 DEF OrderRow
  <1> HIDE DEF r
  <1>6. \/ Continue(t, job[t].todo)
        \/ \E l \in Holding \ Creating :
                /\ pc' = [pc EXCEPT ![t] = l] /\ job' = job /\ l \in Labels(t)
                /\ (l \in OfBuys <=> pc[t] \in OfBuys) /\ (l \in OfSells <=> pc[t] \in OfSells)
                /\ (l \in SellCreation => pc[t] \in SellCreation)
                /\ l \in {"f_row", "f_income", "c_close", "c_income"} => ext[job[t].id].status = "closed"
    <2>1. CASE ~job[t].full
      BY <1>1, <2>1
    <2>2. CASE job[t].full
      <3> DEFINE l == "c_close"
      <3>1. /\ l \in Holding \ Creating /\ l \in Labels(t)
            /\ l \in OfSells /\ l \notin OfBuys /\ l \notin SellCreation
        BY TaskKinds DEF Labels, Holding, OfBuys, OfSells, BuyCreation, SellCreation,
           BuyFilling, SellFilling, BuyBacking, SellBacking, Creating
      <3>2. pc' = [pc EXCEPT ![t] = l] /\ job' = job
        BY <1>1, <2>2
      <3> HIDE DEF l
      <3> QED
        BY <1>2, <1>3, <2>2, <3>1, <3>2
    <2> QED
      BY <2>1, <2>2
  <1> HIDE DEF p
  <1> QED
    BY <1>1, <1>2, <1>3, <1>5, <1>6, RowStepSound

\* The two steps that mark an order as filled.
LEMMA FilledSound ==
    ASSUME Sound, NEW t \in Tasks, BuyFilled(t) \/ SellFilled(t)
    PROVE  StepSound(t)
  <1> DEFINE i == job[t].id
             f == ext[i].filled
             r == IF pc[t] = "f_row" THEN [row[i] EXCEPT !.filled = f, !.amount1 = f]
                  ELSE [row[i] EXCEPT !.isActive = FALSE, !.filled = f, !.amount1 = f]
             l == IF pc[t] = "f_row" THEN "f_income" ELSE "c_income"
  <1>1. /\ row \in [Ids -> OrderRow] /\ job[t] \in Job /\ Shape(t, pc[t], job[t])
        /\ pc[t] \in {"f_row", "c_close"}
        /\ pc[t] = "f_row" => row' = [row EXCEPT ![i].filled = f, ![i].amount1 = f]
        /\ pc[t] = "c_close" =>
              row' = [row EXCEPT ![i].isActive = FALSE, ![i].filled = f, ![i].amount1 = f]
        /\ pc' = [pc EXCEPT ![t] = l] /\ job' = job
        /\ UNCHANGED <<ext, posted, started, faults>>
    BY DEF Sound, TypeOK, Shaped, Shape, BuyFilled, SellFilled, Goto
  <1>2. /\ pc[t] \in Holding \ Creating
        /\ l \in Holding \ Creating
        /\ (l \in OfBuys <=> pc[t] \in OfBuys) /\ (l \in OfSells <=> pc[t] \in OfSells)
        /\ l \notin SellCreation
    BY <1>1
       DEF Creating, Holding, OfBuys, OfSells, BuyCreation, SellCreation, BuyFilling, SellFilling,
       BuyBacking, SellBacking
  <1>3. /\ i \in Ids /\ row[i].stored /\ ext[i].status = "closed"
    BY <1>1, <1>2 DEF Shape, Creating
  <1>4. f \in Nat /\ f = row[i].amount1
    BY <1>3 DEF Sound, TypeOK, OrdersSound, ExtOrder
  <1>5. l \in Labels(t)
    BY <1>1, TaskKinds
       DEF Shape, Labels, BuyCreation, SellCreation, BuyFilling, SellFilling, BuyBacking,
           SellBacking
  <1> HIDE DEF l, f
  <1>6. /\ r \in OrderRow /\ r.stored = row[i].stored /\ r.parent = row[i].parent
        /\ r.amount1 = row[i].amount1 /\ row' = [row EXCEPT ![i] = r]
    <2>1. CASE pc[t] = "f_row"
      <3> DEFINE q == [row[i] EXCEPT !.filled = f, !.amount1 = f]
      <3>1. r = q
        BY <2>1
      <3>2. /\ row \in [Ids -> OrderRow]
            /\ row' = [row EXCEPT ![i].filled = f, ![i].amount1 = f]
        BY <1>1, <2>1
      <3> HIDE DEF r
      <3>3. /\ q \in OrderRow /\ q.stored = row[i].stored /\ q.parent = row[i].parent
            /\ q.amount1 = row[i].amount1
        BY <1>3, <1>4, <3>2 DEF OrderRow
      <3>4. row' = [row EXCEPT ![i] = q]
        BY <1>3, <3>2
      <3> HIDE DEF q
      <3> QED
        BY <3>1, <3>3, <3>4
    <2>2. CASE pc[t] = "c_close"
      <3> DEFINE q == [row[i] EXCEPT !.isActive = FALSE, !.filled = f, !.amount1 = f]
      <3>1. r = q
        BY <2>2
      <3>2. /\ row \in [Ids -> OrderRow]
            /\ row' = [row EXCEPT ![i].isActive = FALSE, ![i].filled = f, ![i].amount1 = f]
        BY <1>1, <2>2
      <3> HIDE DEF r
      <3>3. /\ q \in OrderRow /\ q.stored = row[i].stored /\ q.parent = row[i].parent
            /\ q.amount1 = row[i].amount1
        BY <1>3, <1>4, <3>2 DEF OrderRow
      <3>4. row' = [row EXCEPT ![i] = q]
        BY <1>3, <3>2
      <3> HIDE DEF q
      <3> QED
        BY <3>1, <3>3, <3>4
    <2> QED
      BY <1>1, <2>1, <2>2
  <1> HIDE DEF r
  <1> QED
    BY <1>1, <1>2, <1>3, <1>5, <1>6, RowStepSound

\* The steps that write isActive, closed_amount or preclosed.
LEMMA RowWriteSound ==
    ASSUME Sound, NEW t \in Tasks,
           SellParent(t) \/ SellRollbackParent(t) \/ BuyRollbackRow(t) \/ SellRollbackRow(t)
    PROVE  StepSound(t)
  <1>1. /\ row \in [Ids -> OrderRow] /\ job[t] \in Job /\ Shape(t, pc[t], job[t])
        /\ pc[t] \in {"c_parent", "k_preclose", "r_off", "k_off"}
        /\ UNCHANGED <<ext, posted, started, faults>>
    BY DEF Sound, TypeOK, Shaped, Shape, SellParent, SellRollbackParent, BuyRollbackRow,
       SellRollbackRow
  <1>2. pc[t] \in Holding \ Creating /\ (pc[t] \in {"c_parent", "k_preclose", "k_off"} => pc[t] \in OfSells)
    BY <1>1
       DEF Creating, Holding, OfBuys, OfSells, BuyCreation, SellCreation, BuyFilling, SellFilling,
       BuyBacking, SellBacking
  <1>3. /\ job[t].id \in Ids /\ row[job[t].id].stored /\ job[t].seen \in Int
        /\ pc[t] \in {"c_parent", "k_preclose", "k_off"} => row[job[t].id].parent \in Ids
    BY <1>1, <1>2 DEF Shape, Creating, Sound, OrdersSound, Job
  <1>4. \E i \in Ids : \E r \in OrderRow :
          /\ row' = [row EXCEPT ![i] = r] /\ r.stored = row[i].stored
          /\ r.parent = row[i].parent /\ r.amount1 = row[i].amount1
    <2>1. CASE SellParent(t)
      <3> DEFINE p == row[job[t].id].parent
                 r == [row[p] EXCEPT !.closed_amount = job[t].seen,
                                     !.isActive = @ /\ row[p].amount1 # job[t].seen]
      <3>1. p \in Ids
        BY <1>3, <2>1 DEF SellParent
      <3>2. row' = [row EXCEPT ![p].closed_amount = job[t].seen,
                               ![p].isActive = @ /\ row[p].amount1 # job[t].seen]
        BY <2>1 DEF SellParent
      <3> HIDE DEF p
      <3>3. /\ r \in OrderRow /\ r.stored = row[p].stored /\ r.parent = row[p].parent
            /\ r.amount1 = row[p].amount1 /\ row' = [row EXCEPT ![p] = r]
        BY <1>1, <1>3, <3>1, <3>2 DEF OrderRow
      <3> HIDE DEF r
      <3> QED
        BY <3>1, <3>3
    <2>2. CASE SellRollbackParent(t)
      <3> DEFINE p == row[job[t].id].parent
                 c == job[t].seen - row[job[t].id].amount1
                 r == [row[p] EXCEPT !.preclosed = c]
      <3>1. p \in Ids /\ c \in Int
        BY <1>1, <1>3, <2>2 DEF SellRollbackParent, OrderRow
      <3>2. row' = [row EXCEPT ![p].preclosed = c]
        BY <2>2 DEF SellRollbackParent
      <3> HIDE DEF p, c
      <3>3. /\ r \in OrderRow /\ r.stored = row[p].stored /\ r.parent = row[p].parent
            /\ r.amount1 = row[p].amount1 /\ row' = [row EXCEPT ![p] = r]
        BY <1>1, <1>3, <3>1, <3>2 DEF OrderRow
      <3> HIDE DEF r
      <3> QED
        BY <3>1, <3>3
    <2>3. CASE BuyRollbackRow(t) \/ SellRollbackRow(t)
      <3> DEFINE p == job[t].id
                 r == [row[p] EXCEPT !.isActive = FALSE]
      <3>1. p \in Ids
        BY <1>3
      <3>2. row' = [row EXCEPT ![p].isActive = FALSE]
        BY <2>3 DEF BuyRollbackRow, SellRollbackRow
      <3> HIDE DEF p
      <3>3. /\ r \in OrderRow /\ r.stored = row[p].stored /\ r.parent = row[p].parent
            /\ r.amount1 = row[p].amount1 /\ row' = [row EXCEPT ![p] = r]
        BY <1>1, <1>3, <3>1, <3>2 DEF OrderRow
      <3> HIDE DEF r
      <3> QED
        BY <3>1, <3>3
    <2> QED
      BY <2>1, <2>2, <2>3
  <1>5. \/ Continue(t, job[t].todo)
        \/ pc[t] = "k_preclose" /\ pc' = [pc EXCEPT ![t] = "k_off"] /\ job' = job
    BY DEF SellParent, SellRollbackParent, BuyRollbackRow, SellRollbackRow, Goto
  <1>6. \/ Continue(t, job[t].todo)
        \/ \E l \in Holding \ Creating :
                /\ pc' = [pc EXCEPT ![t] = l] /\ job' = job /\ l \in Labels(t)
                /\ (l \in OfBuys <=> pc[t] \in OfBuys) /\ (l \in OfSells <=> pc[t] \in OfSells)
                /\ (l \in SellCreation => pc[t] \in SellCreation)
                /\ l \in {"f_row", "f_income", "c_close", "c_income"} => ext[job[t].id].status = "closed"
    <2>1. CASE pc[t] = "k_preclose" /\ pc' = [pc EXCEPT ![t] = "k_off"] /\ job' = job
      <3> DEFINE l == "k_off"
      <3>1. /\ l \in Holding \ Creating /\ l \in Labels(t)
            /\ (l \in OfBuys <=> pc[t] \in OfBuys) /\ (l \in OfSells <=> pc[t] \in OfSells)
            /\ l \notin SellCreation /\ l \notin {"f_row", "f_income", "c_close", "c_income"}
        BY <1>1, <2>1, TaskKinds
           DEF Shape, Labels, Holding, OfBuys, OfSells, BuyCreation, SellCreation,
           BuyFilling, SellFilling, BuyBacking, SellBacking, Creating
      <3>2. pc' = [pc EXCEPT ![t] = l] /\ job' = job
        BY <2>1
      <3> HIDE DEF l
      <3> QED
        BY <3>1, <3>2
    <2> QED
      BY <1>5, <2>1
  <1> QED
    BY <1>1, <1>2, <1>4, <1>6, RowStepSound

\* The steps that read the parent's row.
LEMMA FindSound ==
    ASSUME Sound, NEW t \in Tasks, SellFindParent(t) \/ SellRollbackFind(t)
    PROVE  StepSound(t)
  <1> DEFINE i == job[t].id
             p == row[i].parent
             seen == IF pc[t] = "c_find" THEN row[p].closed_amount + ext[i].filled
                     ELSE row[p].preclosed
             l == IF pc[t] = "c_find" THEN "c_parent" ELSE "k_preclose"
  <1>1. /\ row \in [Ids -> OrderRow] /\ ext \in [Ids -> ExtOrder] /\ job[t] \in Job
        /\ Shape(t, pc[t], job[t])
        /\ pc[t] \in {"c_find", "k_find"}
        /\ pc' = [pc EXCEPT ![t] = l] /\ job' = [job EXCEPT ![t].seen = seen]
        /\ UNCHANGED <<ext, row, posted, started, faults>>
    BY DEF Sound, TypeOK, Shaped, Shape, SellFindParent, SellRollbackFind, Goto
  <1>2. /\ pc[t] \in Holding \ Creating /\ pc[t] \in OfSells
        /\ l \in Holding \ Creating
        /\ (l \in OfBuys <=> pc[t] \in OfBuys) /\ (l \in OfSells <=> pc[t] \in OfSells)
        /\ l \notin SellCreation /\ l \notin {"f_row", "f_income", "c_close", "c_income"}
    BY <1>1
       DEF Creating, Holding, OfBuys, OfSells, BuyCreation, SellCreation, BuyFilling, SellFilling,
       BuyBacking, SellBacking
  <1>3. i \in Ids /\ row[i].stored /\ p \in Ids
    BY <1>1, <1>2 DEF Shape, Creating, Sound, OrdersSound
  <1>4. seen \in Int
    BY <1>1, <1>3 DEF OrderRow, ExtOrder
  <1>5. l \in Labels(t)
    BY <1>1, TaskKinds
       DEF Shape, Labels, BuyCreation, SellCreation, BuyFilling, SellFilling, BuyBacking,
           SellBacking
  <1> HIDE DEF l, seen, p
  <1>6. Evolves /\ OrdersSound'
    BY <1>1, SameData DEF Sound
  <1>7. row'[job[t].id].stored /\ l \in Holding \ {"b_record", "s_record"}
    BY <1>1, <1>2, <1>3 DEF Creating
  <1>8. /\ Others(t) /\ Shape(t, pc[t], job[t])' /\ pc'[t] = l
        /\ job'[t].id = job[t].id /\ job'[t].todo = job[t].todo
    BY <1>1, <1>2, <1>4, <1>5, <1>6, <1>7, AdvanceShape
  <1>9. Creates(t)
    BY <1>1, <1>2, <1>8, NothingCreated
  <1>10. DataType'
    BY <1>1 DEF Sound, TypeOK, DataType
  <1> QED
    BY <1>6, <1>8, <1>9, <1>10 DEF StepSound

\* The postings of a filled order, and of one that is rolled back.
LEMMA PostSound ==
    ASSUME Sound, NEW t \in Tasks,
           \/ BuyIncome(t) \/ BuyFee(t) \/ BuyRollback(t)
           \/ SellIncome(t) \/ SellFee(t) \/ SellRollback(t)
    PROVE  StepSound(t)
  <1> DEFINE i == job[t].id
             l == CASE pc[t] = "f_income" -> "f_fee" [] pc[t] = "r_back" -> "r_off"
                    [] pc[t] = "c_income" -> "c_fee" [] pc[t] = "c_fee" -> "c_find"
                    [] OTHER -> "k_find"
  <1>1. /\ Shape(t, pc[t], job[t])
        /\ pc[t] \in {"f_income", "f_fee", "r_back", "c_income", "c_fee", "k_back"}
        /\ \/ \E kind \in {"in", "fee", "back"} : Post(i, kind)
           \/ UNCHANGED posted
        /\ IF pc[t] = "f_fee" THEN Continue(t, job[t].todo)
           ELSE pc' = [pc EXCEPT ![t] = l] /\ job' = job
        /\ UNCHANGED <<ext, row, started, faults>>
    BY
       DEF Sound, Shaped, BuyIncome, BuyFee, BuyRollback, SellIncome, SellFee, SellRollback, Goto,
           PostFee
  <1>2. /\ pc[t] \in Holding \ Creating
        /\ pc[t] # "f_fee" =>
              /\ l \in Holding \ Creating
              /\ (l \in OfBuys <=> pc[t] \in OfBuys) /\ (l \in OfSells <=> pc[t] \in OfSells)
              /\ l \notin SellCreation /\ l \notin {"f_row", "f_income", "c_close", "c_income"}
    BY <1>1
       DEF Creating, Holding, OfBuys, OfSells, BuyCreation, SellCreation, BuyFilling, SellFilling,
       BuyBacking, SellBacking
  <1>3. i \in Ids /\ row[i].stored
    BY <1>1, <1>2 DEF Shape, Creating
  <1>4. pc[t] # "f_fee" => l \in Labels(t)
    BY <1>1, TaskKinds
       DEF Shape, Labels, BuyCreation, SellCreation, BuyFilling, SellFilling, BuyBacking,
           SellBacking
  <1> HIDE DEF l, i
  <1>5. /\ posted' \in [Ids -> Postings] /\ Evolves /\ OrdersSound'
        /\ \A k \in Ids : posted'[k].out = posted[k].out
    <2>1. CASE UNCHANGED posted
      BY <1>1, <2>1, SameData DEF Sound, TypeOK
    <2>2. ASSUME NEW kind \in {"in", "fee", "back"}, Post(i, kind)
          PROVE  /\ posted' \in [Ids -> Postings] /\ Evolves /\ OrdersSound'
                 /\ \A k \in Ids : posted'[k].out = posted[k].out
      <3>1. /\ posted' \in [Ids -> Postings] /\ Evolves /\ OrdersSound'
            /\ \A k \in Ids \ {i} : posted'[k] = posted[k]
            /\ posted'[i].out = posted[i].out + IF kind = "out" THEN 1 ELSE 0
        BY <1>1, <1>3, <2>2, PostData DEF Sound
      <3>2. posted[i].out + 0 = posted[i].out
        BY <1>3 DEF Sound, TypeOK, Postings
      <3> QED
        BY <3>1, <3>2
    <2> QED
      BY <1>1, <2>1, <2>2
  <1>6. /\ Others(t) /\ Shape(t, pc[t], job[t])' /\ pc'[t] \notin Creating
        /\ pc'[t] \in Holding => job'[t].id = job[t].id
    <2>1. CASE pc[t] = "f_fee"
      <3>1. t \in Buyers => job[t].todo = {}
        BY BuyerHasNoRows DEF Sound
      <3>2. /\ Others(t) /\ Shape(t, pc[t], job[t])'
            /\ pc'[t] \in {"idle", "sell", "fetch"}
        BY <1>1, <1>5, <2>1, <3>1, ContinueShape DEF Sound
      <3> QED
        BY <3>2
           DEF Creating, Holding, OfBuys, OfSells, BuyCreation, SellCreation, BuyFilling,
               SellFilling,
           BuyBacking, SellBacking
    <2>2. CASE pc[t] # "f_fee"
      <3>1. row'[job[t].id].stored /\ l \in Holding \ {"b_record", "s_record"}
        BY <1>1, <1>2, <1>3, <2>2 DEF Creating, i
      <3>2. /\ Others(t) /\ Shape(t, pc[t], job[t])' /\ pc'[t] = l
            /\ job'[t].id = job[t].id /\ job'[t].todo = job[t].todo
        BY <1>1, <1>2, <1>4, <1>5, <2>2, <3>1, AdvanceShape
      <3> QED
        BY <1>2, <2>2, <3>2
    <2> QED
      BY <2>1, <2>2
  <1>7. Creates(t)
    BY <1>1, <1>2, <1>5, <1>6, NothingCreated
  <1>8. DataType'
    BY <1>1, <1>5 DEF Sound, TypeOK, DataType
  <1> QED
    BY <1>5, <1>6, <1>7, <1>8 DEF StepSound

\* A checker takes a row of its query: fetchOrder has answered, or failed.
LEMMA TurnSound ==
    ASSUME Sound, NEW t \in Checkers, pc[t] = "fetch", NEW s \in job[t].todo,
           CheckBuy(t, s) \/ CheckSell(t, s) \/ CheckBuyUnanswered(t, s) \/ CheckSellUnanswered(t, s)
    PROVE  StepSound(t)
  <1>1. /\ t \in Tasks /\ pc \in [Tasks -> Steps] /\ job \in [Tasks -> Job]
        /\ Shape(t, pc[t], job[t]) /\ job[t] \in Job
        /\ faults \in 0..MaxFaults /\ MaxFaults \in Nat
    BY TaskKinds, OrderAssumption DEF Sound, TypeOK, Shaped
  <1>2. s.id \in Ids /\ row[s.id].stored
    BY <1>1 DEF Shape
  <1>3. /\ UNCHANGED <<ext, row, posted, started>>
        /\ faults' = faults \/ (faults < MaxFaults /\ faults' = faults + 1)
        /\ \/ Continue(t, job[t].todo \ {s})
           \/ \E l \in {"r_back", "f_row", "k_back", "c_close"} :
                /\ Turn(t, s, l)
                /\ l \in {"r_back", "f_row"} => IsBuy(s.id)
                /\ l \in {"k_back", "c_close"} => ~IsBuy(s.id)
                /\ l \in {"f_row", "c_close"} => ext[s.id].status = "closed"
    BY DEF CheckBuy, CheckSell, CheckBuyUnanswered, CheckSellUnanswered
  <1>4. CASE Continue(t, job[t].todo \ {s})
    BY <1>1, <1>3, <1>4, ContinuesSound
  <1>5. ASSUME NEW l \in {"r_back", "f_row", "k_back", "c_close"}, Turn(t, s, l),
               l \in {"r_back", "f_row"} => IsBuy(s.id),
               l \in {"k_back", "c_close"} => ~IsBuy(s.id),
               l \in {"f_row", "c_close"} => ext[s.id].status = "closed"
        PROVE  StepSound(t)
    <2> DEFINE j == [job[t] EXCEPT !.todo = @ \ {s}, !.id = s.id]
    <2>1. /\ j \in Job /\ j.todo = job[t].todo \ {s} /\ j.id = s.id
      <3>1. s.id \in 0..MaxOrders
        BY <1>2, OrderAssumption DEF Ids
      <3> QED
        BY <1>1, <3>1 DEF Job
    <2>2. pc' = [pc EXCEPT ![t] = l] /\ job' = [job EXCEPT ![t] = j] /\ l \in Steps
      BY <1>1, <1>5 DEF Turn, Goto, Steps
    <2> HIDE DEF j
    <2>3. pc'[t] = l /\ job'[t] = j /\ Others(t)
      BY <1>1, <2>1, <2>2 DEF Others
    <2>4. Evolves /\ OrdersSound'
      BY <1>3, SameData DEF Sound
    <2>5. /\ ext[s.id].parent = row[s.id].parent /\ Placed(s.id)
          /\ ext[s.id].parent \in 0..MaxOrders
      BY <1>2 DEF Sound, OrdersSound, TypeOK, ExtOrder
    <2>6. /\ l \in Holding \ Creating /\ l \in Labels(t) /\ l \notin SellCreation /\ l \notin BuyCreation
          /\ (l \in OfBuys <=> l \in {"r_back", "f_row"}) /\ (l \in OfSells <=> l \in {"k_back", "c_close"})
      BY <1>5, TaskKinds
         DEF Labels, Holding, OfBuys, OfSells, BuyCreation, SellCreation, BuyFilling,
         SellFilling, BuyBacking, SellBacking, Creating
    <2>7. /\ l \in OfBuys => ext[s.id].parent = 0
          /\ l \in OfSells => ext[s.id].parent \in Ids
      BY <1>5, <2>5, <2>6, OrderAssumption DEF IsBuy, Ids
    <2>8. \A r \in j.todo : r.id \in Ids /\ row[r.id].stored /\ r.id # s.id
      BY <1>1, <2>1 DEF Shape
    <2>9. \A r, q \in j.todo : r.id = q.id => r = q
      BY <1>1, <2>1 DEF Shape
    <2>10. l # "idle" /\ l # "buy" /\ l \notin {"b_record", "s_record"} /\ t \notin Sellers
           /\ (l \in {"f_row", "f_income", "c_close", "c_income"} => ext[s.id].status = "closed")
      BY <1>5, TaskKinds
    <2>11. Shape(t, pc[t], job[t])'
      BY <1>2, <1>3, <2>1, <2>3, <2>5, <2>6, <2>7, <2>8, <2>9, <2>10 DEF Shape, Placed, Labels
    <2>12. Creates(t)
      BY <1>3, <2>3, <2>6, NothingCreated, TaskKinds
    <2>13. faults' \in 0..MaxFaults
      BY <1>1, <1>3
    <2>14. DataType'
      BY <1>3, <2>13 DEF Sound, TypeOK, DataType
    <2> QED
      BY <2>3, <2>4, <2>11, <2>12, <2>14 DEF StepSound
  <1> QED
    BY <1>3, <1>4, <1>5

-----------------------------------------------------------------------------
(* The invariant.                                                          *)

\* A step is one of a task, of the exchange, a crash, or changes nothing.
LEMMA StepKinds ==
    ASSUME Sound, [Next]_vars
    PROVE  (\E t \in Tasks : StepSound(t)) \/ Crash \/ ExchangeNext \/ UNCHANGED vars
  <1>1. Sellers \subseteq Tasks /\ Buyers \subseteq Tasks /\ Checkers \subseteq Tasks
    BY TaskKinds
  <1>2. ASSUME NEW t \in Tasks, BuyCheckStep(t) \/ SellCheckStep(t)
        PROVE  StepSound(t)
    BY <1>2, FilledSound, PostSound, RowWriteSound, FindSound DEF BuyCheckStep, SellCheckStep
  <1>3. ASSUME NEW t \in Buyers, RunBuyStrategies(t) \/ BuyCreateStep(t) \/ BuyLost(t)
        PROVE  StepSound(t)
    BY <1>1, <1>3, StartSound, AcceptedSound, ContinuesSound, RecordSound, OutcomeSound,
       LostSound
       DEF BuyCreateStep
  <1>4. ASSUME NEW t \in Sellers,
               RunSellStrategies(t) \/ SellCreateStep(t) \/ SellLost(t) \/ SellCheckStep(t)
        PROVE  StepSound(t)
    BY <1>1, <1>2, <1>4, StartSound, AcceptedSound, ContinuesSound, RecordSound, OutcomeSound,
       LostSound, PrecloseSound DEF SellCreateStep
  <1>5. ASSUME NEW t \in Checkers, CheckLimitOrders(t) \/ CheckStep(t) \/ FetchFails(t)
        PROVE  StepSound(t)
    <2>1. CASE CheckLimitOrders(t)
      BY <1>1, <2>1, StartSound
    <2>2. CASE CheckStep(t)
      BY <1>1, <1>2, <2>2, TurnSound DEF CheckStep, FetchNext
    <2>3. CASE FetchFails(t)
      BY <2>3, TurnSound DEF FetchFails
    <2> QED
      BY <1>5, <2>1, <2>2, <2>3
  <1>6. ASSUME NEW t \in Tasks, Throws(t)
        PROVE  StepSound(t)
    BY <1>6, ContinuesSound
  <1>7. CASE Next
    BY <1>1, <1>3, <1>4, <1>5, <1>6, <1>7 DEF Next, Over
  <1> QED
    BY <1>7

LEMMA IdleShape ==
    ASSUME NEW t \in Tasks
    PROVE  Shape(t, "idle", NoJob)
  BY NoJobType DEF Shape, Labels, Holding, OfBuys, OfSells, BuyCreation, SellCreation, BuyFilling,
     SellFilling, BuyBacking, SellBacking

LEMMA IdleSound ==
    ASSUME OrdersSound', DataType', \A i \in Ids : posted'[i].out <= 1,
           pc' = [t \in Tasks |-> "idle"], job' = [t \in Tasks |-> NoJob]
    PROVE  Sound'
  <1>1. /\ pc' \in [Tasks -> Steps] /\ job' \in [Tasks -> Job]
        /\ \A t \in Tasks : pc'[t] = "idle" /\ job'[t] = NoJob
    BY NoJobType DEF Steps
  <1>2. TypeOK'
    BY <1>1 DEF TypeOK, DataType
  <1>3. Shaped'
    BY <1>1, NoJobType DEF Shaped, Shape, Labels, Holding, OfBuys, OfSells, BuyCreation,
       SellCreation, BuyFilling, SellFilling, BuyBacking, SellBacking
  <1>4. Creators'
    BY <1>1, TaskKinds
       DEF Creators, Holding, OfBuys, OfSells, BuyCreation, SellCreation, BuyFilling,
       SellFilling, BuyBacking, SellBacking
  <1> QED
    BY <1>2, <1>3, <1>4 DEF Sound

LEMMA InitSound == Init => Sound
  <1> SUFFICES ASSUME Init PROVE Sound
    OBVIOUS
  <1>1. /\ ext = [i \in Ids |-> NoExt] /\ row = [i \in Ids |-> NoRow]
        /\ posted = [i \in Ids |-> [out |-> 0, in |-> 0, fee |-> 0, back |-> 0]]
        /\ started = {} /\ faults = 0
        /\ pc = [t \in Tasks |-> "idle"] /\ job = [t \in Tasks |-> NoJob]
    BY DEF Init
  <1>2. /\ NoExt \in ExtOrder /\ NoExt.status = "none"
        /\ NoRow \in OrderRow /\ ~NoRow.stored
        /\ [out |-> 0, in |-> 0, fee |-> 0, back |-> 0] \in Postings
    BY OrderAssumption DEF NoExt, ExtOrder, NoRow, OrderRow, Postings
  <1>3. /\ ext \in [Ids -> ExtOrder] /\ \A i \in Ids : ext[i].status = "none"
    BY <1>1, <1>2
  <1>4. row \in [Ids -> OrderRow] /\ \A i \in Ids : ~row[i].stored
    BY <1>1, <1>2
  <1>5. /\ posted \in [Ids -> Postings]
        /\ \A i \in Ids : /\ posted[i].out = 0 /\ posted[i].in = 0
                          /\ posted[i].back = 0 /\ posted[i].fee = 0
    BY <1>1, <1>2
  <1>6. OrdersSound
    <2>1. 0 \in 0..MaxOrders /\ \A i \in Ids : ~(i <= 0)
      BY OrderAssumption DEF Ids
    <2> QED
      BY <1>3, <1>4, <1>5, <2>1 DEF OrdersSound, Placed
  <1>7. /\ pc \in [Tasks -> Steps] /\ job \in [Tasks -> Job]
        /\ \A t \in Tasks : pc[t] = "idle" /\ job[t] = NoJob
    BY <1>1, NoJobType DEF Steps
  <1>8. TypeOK
    BY <1>1, <1>3, <1>4, <1>5, <1>7, OrderAssumption DEF TypeOK
  <1>9. Shaped
    BY <1>7, IdleShape DEF Shaped
  <1>10. Creators
    BY <1>5, <1>7, TaskKinds
       DEF Creators, Holding, OfBuys, OfSells, BuyCreation, SellCreation, BuyFilling,
       SellFilling, BuyBacking, SellBacking
  <1> QED
    BY <1>6, <1>8, <1>9, <1>10 DEF Sound

LEMMA NextSound ==
    ASSUME Sound, [Next]_vars
    PROVE  Sound' /\ Evolves
  <1>1. CASE \E t \in Tasks : StepSound(t)
    BY <1>1, StepKeepsSound DEF StepSound
  <1>2. CASE Crash
    <2>1. /\ UNCHANGED <<ext, row, posted>> /\ started' = {} /\ faults' \in 0..MaxFaults
          /\ pc' = [t \in Tasks |-> "idle"] /\ job' = [t \in Tasks |-> NoJob]
      BY <1>2, OrderAssumption DEF Crash, Sound, TypeOK
    <2>2. Evolves /\ OrdersSound'
      BY <2>1, SameData DEF Sound
    <2>3. DataType' /\ \A i \in Ids : posted'[i].out <= 1
      BY <2>1 DEF DataType, Sound, TypeOK, Creators
    <2> QED
      BY <2>1, <2>2, <2>3, IdleSound
  <1>3. CASE ExchangeNext \/ UNCHANGED vars
    <2>1. /\ ext' \in [Ids -> ExtOrder] /\ Evolves /\ OrdersSound'
          /\ UNCHANGED <<row, posted, pc, job, started, faults>>
      <3>1. CASE ExchangeNext
        BY <3>1, ExchangeData DEF Sound
      <3>2. CASE UNCHANGED vars
        BY <3>2, SameData DEF Sound, TypeOK, vars
      <3> QED
        BY <1>3, <3>1, <3>2
    <2>2. TypeOK'
      BY <2>1 DEF Sound, TypeOK
    <2>3. Shaped'
      <3> SUFFICES ASSUME NEW t \in Tasks
                   PROVE  Shape(t, pc[t], job[t])'
        BY DEF Shaped
      <3> DEFINE l == pc[t]
                 j == job[t]
      <3>1. Shape(t, l, j) /\ l' = l /\ j' = j
        BY <2>1 DEF Sound, Shaped
      <3>2. \A s \in j.todo : s.id \in Ids /\ ext'[s.id].amount = ext[s.id].amount
        BY <2>1, <3>1 DEF Shape, Sound, OrdersSound, Evolves
      <3>3. l \in Holding => /\ j.id \in Ids /\ Placed(j.id) /\ ext'[j.id].status # "none"
                             /\ ext'[j.id].parent = ext[j.id].parent
        BY <2>1, <3>1 DEF Shape, Evolves, Placed
      <3>4. /\ l \in OfBuys \cup OfSells => l \in Holding
            /\ l \in {"f_row", "f_income", "c_close", "c_income"} => l \in Holding
            /\ l \in SellCreation => l \in Holding
        BY DEF Holding, OfBuys, OfSells, BuyFilling, SellFilling, SellCreation
      <3>5. /\ l \in {"f_row", "f_income", "c_close", "c_income"} => ext'[j.id].status = "closed"
            /\ l \in SellCreation => (j.full => ext'[j.id].status = "closed")
        BY <2>1, <3>1, <3>3, <3>4 DEF Shape, Evolves
      <3> HIDE DEF l, j
      <3>6. Shape(t, l, j)'
        BY <2>1, <3>1, <3>2, <3>3, <3>4, <3>5 DEF Shape, Labels, Placed
      <3> QED
        BY <3>6 DEF l, j
    <2>4. Creators'
      BY <2>1 DEF Sound, Creators
    <2> QED
      BY <2>1, <2>2, <2>3, <2>4 DEF Sound
  <1> QED
    BY <1>1, <1>2, <1>3, StepKinds

\* The invariant all the others rest on, under overlaps, lost answers, errors and crashes:
\* what each task has in hand, and that every order has one creator, who has not yet
\* posted its outcome while its row is to be written.
THEOREM SoundInvariant == Spec => []Sound
  <1>1. Init => Sound
    BY InitSound
  <1>2. Sound /\ [Next]_vars => Sound'
    BY NextSound
  <1> QED
    BY <1>1, <1>2, PTL DEF Spec

\* The variables of TradeService keep their types, faults included.
THEOREM TypeCorrect == Spec => []TypeOK
  <1>1. Sound => TypeOK
    BY DEF Sound
  <1> QED
    BY <1>1, SoundInvariant, PTL

-----------------------------------------------------------------------------
(* Without faults: what each order has posted, and what is still to come.   *)

\* From one step of an order to the next, and the steps that end it.
Flows ==
    {<<"b_record", "b_out">>, <<"s_record", "s_out">>, <<"s_out", "s_preclose">>,
     <<"s_preclose", "c_close">>, <<"c_close", "c_income">>, <<"c_income", "c_fee">>,
     <<"c_fee", "c_find">>, <<"c_find", "c_parent">>, <<"f_row", "f_income">>,
     <<"f_income", "f_fee">>, <<"r_back", "r_off">>, <<"k_back", "k_find">>,
     <<"k_find", "k_preclose">>, <<"k_preclose", "k_off">>}
Ends == {"b_out", "s_preclose", "c_parent", "f_fee", "r_off", "k_off"}

\* What a step posts depends on where the task stands.
Posts(t) ==
    LET i == job[t].id
    IN  /\ \A k \in Ids \ {i} : posted'[k] = posted[k]
        /\ pc[t] \in Holding =>
            /\ posted'[i].in = posted[i].in + One(pc[t] \in {"f_income", "c_income"})
            /\ posted'[i].back = posted[i].back + One(pc[t] \in {"r_back", "k_back"})
            /\ posted[i].fee <= posted'[i].fee
            /\ posted'[i].fee <= posted[i].fee + One(pc[t] \in {"f_fee", "c_fee"})

Flow(t) ==
    /\ \/ /\ pc[t] = "idle" /\ pc'[t] \in {"buy", "sell", "fetch"}
          /\ t \in Checkers => \A s \in job'[t].todo : s.id \in Unfilled
          /\ Overlap \/ IF t \in Checkers THEN Idle(Tasks) ELSE Idle(Checkers)
          /\ posted' = posted
       \/ /\ pc[t] \in {"buy", "sell"} /\ pc'[t] \in {"b_record", "s_record"}
          /\ ~Placed(job'[t].id) /\ posted' = posted
       \/ /\ t \in Checkers /\ pc[t] = "fetch" /\ posted' = posted
          /\ pc'[t] \in {"r_back", "f_row", "k_back", "c_close"}
          /\ pc'[t] = "r_back" => ext[job'[t].id].status \in {"gone", "canceled"}
          /\ pc'[t] = "k_back" => ext[job'[t].id].status = "gone"
          /\ \E s \in job[t].todo : job'[t].id = s.id /\ job'[t].todo = job[t].todo \ {s}
       \/ /\ <<pc[t], pc'[t]>> \in Flows /\ Posts(t)
          /\ job'[t].id = job[t].id /\ job'[t].todo = job[t].todo
       \/ /\ pc[t] \in {"buy", "sell", "fetch"} /\ pc'[t] \in {"idle", "sell", "fetch"}
          /\ job'[t].todo \subseteq job[t].todo /\ posted' = posted
       \/ /\ pc[t] \in Ends /\ pc'[t] \in {"idle", "sell", "fetch"}
          /\ job'[t].todo \subseteq job[t].todo /\ Posts(t)
    /\ \A i \in Unfilled' : i \in Unfilled \/ (pc[t] \in {"b_record", "s_record"} /\ i = job[t].id)
    /\ pc[t] \in {"r_off", "k_off", "f_row", "c_close"} => job[t].id \notin Unfilled'

LEMMA SameUnfilled ==
    ASSUME UNCHANGED row
    PROVE  Unfilled' = Unfilled
  BY DEF Unfilled

\* A write to a row that is not made active, nor its filled part smaller.
LEMMA LessUnfilled ==
    ASSUME TypeOK, NEW i \in Ids, NEW r \in OrderRow, row' = [row EXCEPT ![i] = r],
           r.stored = row[i].stored, r.amount1 = row[i].amount1,
           r.isActive => row[i].isActive, r.filled >= row[i].filled \/ r.filled >= r.amount1
    PROVE  /\ Unfilled' \subseteq Unfilled
           /\ ~r.isActive \/ r.filled >= r.amount1 => i \notin Unfilled'
  <1>1. row \in [Ids -> OrderRow]
    BY DEF TypeOK
  <1>2. row'[i] = r /\ \A k \in Ids \ {i} : row'[k] = row[k]
    BY <1>1
  <1>3. r.filled \in Nat /\ r.amount1 \in Nat /\ row[i].filled \in Nat
    BY <1>1 DEF OrderRow
  <1> QED
    BY <1>2, <1>3 DEF Unfilled

LEMMA ContinueTodo ==
    ASSUME TypeOK, NEW t \in Tasks, NEW left \in SUBSET job[t].todo, Continue(t, left)
    PROVE  pc'[t] \in {"idle", "sell", "fetch"} /\ job'[t].todo \subseteq job[t].todo
  <1>1. pc \in [Tasks -> Steps] /\ job \in [Tasks -> Job] /\ left \subseteq Snapshot
    BY DEF TypeOK, Job
  <1>2. NoJob.todo = {} /\ [NoJob EXCEPT !.todo = left].todo = left
    BY <1>1, NoJobType, LeftType
  <1>3. CASE t \in Buyers \/ left = {}
    BY <1>1, <1>2, <1>3 DEF Continue, Goto
  <1>4. CASE t \notin Buyers /\ left # {}
    <2>1. /\ pc' = [pc EXCEPT ![t] = IF t \in Sellers THEN "sell" ELSE "fetch"]
          /\ job' = [job EXCEPT ![t] = [NoJob EXCEPT !.todo = left]]
      BY <1>4 DEF Continue, Goto
    <2>2. job'[t] = [NoJob EXCEPT !.todo = left]
      BY <1>1, <2>1
    <2>3. job'[t].todo = left
      BY <1>2, <2>2
    <2> QED
      BY <1>1, <2>1, <2>3
  <1> QED
    BY <1>3, <1>4

\* Steps that leave the table and the log alone.
LEMMA StartFlow ==
    ASSUME Sound, NEW t \in Tasks,
           \/ t \in Buyers /\ RunBuyStrategies(t)
           \/ t \in Sellers /\ RunSellStrategies(t)
           \/ t \in Checkers /\ CheckLimitOrders(t)
    PROVE  Flow(t)
  <1>1. /\ pc \in [Tasks -> Steps] /\ job \in [Tasks -> Job] /\ pc[t] = "idle"
        /\ UNCHANGED <<row, posted>>
    BY DEF Sound, TypeOK, RunBuyStrategies, RunSellStrategies, CheckLimitOrders
  <1>2. pc'[t] \in {"buy", "sell", "fetch"}
    BY <1>1 DEF RunBuyStrategies, RunSellStrategies, CheckLimitOrders, Goto
  <1>3. t \in Checkers => \A s \in job'[t].todo : s.id \in Unfilled
    <2> SUFFICES ASSUME t \in Checkers PROVE \A s \in job'[t].todo : s.id \in Unfilled
      OBVIOUS
    <2>1. job' = [job EXCEPT ![t].todo = {SnapshotOf(i) : i \in Unfilled}]
      BY TaskKinds DEF CheckLimitOrders
    <2>2. job'[t].todo = {SnapshotOf(i) : i \in Unfilled}
      BY <1>1, <2>1 DEF Job
    <2> QED
      BY <2>2 DEF SnapshotOf
  <1>4. Overlap \/ IF t \in Checkers THEN Idle(Tasks) ELSE Idle(Checkers)
    BY TaskKinds DEF RunBuyStrategies, RunSellStrategies, CheckLimitOrders, StartRun
  <1>5. Unfilled' = Unfilled
    BY <1>1, SameUnfilled
  <1> QED
    BY <1>1, <1>2, <1>3, <1>4, <1>5 DEF Flow

LEMMA AcceptedFlow ==
    ASSUME Sound, NEW t \in Tasks,
           \/ t \in Buyers /\ BuyAccepted(t)
           \/ t \in Sellers /\ SellAccepted(t)
    PROVE  Flow(t)
  <1> DEFINE n == NextId
  <1>1. /\ pc \in [Tasks -> Steps] /\ job \in [Tasks -> Job] /\ RoomToOrder
        /\ UNCHANGED <<row, posted>> /\ pc[t] \in {"buy", "sell"}
    BY DEF Sound, TypeOK, BuyAccepted, SellAccepted
  <1>2. pc'[t] \in {"b_record", "s_record"}
    BY <1>1 DEF BuyAccepted, SellAccepted, Goto
  <1>3. ~Placed(n)
    BY <1>1, NextIdIsNew DEF Sound
  <1>4. \/ job' = [job EXCEPT ![t].id = n]
        \/ \E s, full : job' = [job EXCEPT ![t].todo = @ \ {s}, ![t].cur = s,
                                           ![t].id = n, ![t].full = full]
    BY DEF BuyAccepted, SellAccepted
  <1> HIDE DEF n
  <1>5. job'[t].id = n
    BY ZenonT(60), <1>1, <1>4 DEF Job
  <1>6. Unfilled' = Unfilled
    BY <1>1, SameUnfilled
  <1> QED
    BY <1>1, <1>2, <1>3, <1>5, <1>6 DEF Flow

LEMMA RefusedFlow ==
    ASSUME Sound, NEW t \in Tasks,
           (t \in Buyers /\ BuyRefused(t)) \/ (t \in Sellers /\ SellRefused(t))
    PROVE  Flow(t)
  <1>1. /\ UNCHANGED <<row, posted>> /\ pc[t] \in {"buy", "sell", "fetch"}
        /\ \E left \in SUBSET job[t].todo : Continue(t, left)
    BY DEF BuyRefused, SellRefused
  <1>2. pc'[t] \in {"idle", "sell", "fetch"} /\ job'[t].todo \subseteq job[t].todo
    BY <1>1, ContinueTodo DEF Sound
  <1>3. Unfilled' = Unfilled
    BY <1>1, SameUnfilled
  <1> QED
    BY <1>1, <1>2, <1>3 DEF Flow

LEMMA TurnFlow ==
    ASSUME Sound, MaxFaults = 0, NEW t \in Checkers, FetchNext(t) \/ FetchFails(t)
    PROVE  Flow(t)
  <1>1. /\ t \in Tasks /\ pc \in [Tasks -> Steps] /\ job \in [Tasks -> Job] /\ pc[t] = "fetch"
        /\ ~(faults < MaxFaults)
    BY TaskKinds DEF Sound, TypeOK, FetchNext, FetchFails
  <1>2. PICK s \in job[t].todo : CheckBuy(t, s) \/ CheckSell(t, s)
    BY <1>1 DEF FetchNext, FetchFails, CheckBuyUnanswered, CheckSellUnanswered
  <1>3. /\ UNCHANGED <<row, posted>>
        /\ \/ Continue(t, job[t].todo \ {s})
           \/ \E l \in {"r_back", "f_row", "k_back", "c_close"} :
                /\ Turn(t, s, l)
                /\ l = "r_back" => ext[s.id].status \in {"gone", "canceled"}
                /\ l = "k_back" => ext[s.id].status = "gone"
    BY <1>2 DEF CheckBuy, CheckSell
  <1>4. Unfilled' = Unfilled
    BY <1>3, SameUnfilled
  <1>5. CASE Continue(t, job[t].todo \ {s})
    <2>1. pc'[t] \in {"idle", "sell", "fetch"} /\ job'[t].todo \subseteq job[t].todo
      BY <1>1, <1>5, ContinueTodo DEF Sound
    <2> QED
      BY <1>1, <1>3, <1>4, <2>1 DEF Flow
  <1>6. ASSUME NEW l \in {"r_back", "f_row", "k_back", "c_close"}, Turn(t, s, l),
               l = "r_back" => ext[s.id].status \in {"gone", "canceled"},
               l = "k_back" => ext[s.id].status = "gone"
        PROVE  Flow(t)
    <2>1. /\ pc'[t] = l /\ job'[t].id = s.id /\ job'[t].todo = job[t].todo \ {s}
      BY <1>1, <1>6 DEF Turn, Goto, Job
    <2> QED
      BY <1>1, <1>3, <1>4, <1>6, <2>1 DEF Flow
  <1> QED
    BY <1>3, <1>5, <1>6

\* Steps that write a row.
LEMMA RecordFlow ==
    ASSUME Sound, NEW t \in Tasks, BuyRecord(t) \/ SellRecord(t)
    PROVE  Flow(t)
  <1> DEFINE i == job[t].id
  <1>1. /\ pc \in [Tasks -> Steps] /\ Shape(t, pc[t], job[t])
        /\ pc[t] \in {"b_record", "s_record"} /\ <<pc[t], pc'[t]>> \in Flows
        /\ Record(i) /\ UNCHANGED <<ext, posted, job>>
    BY DEF Sound, TypeOK, Shaped, BuyRecord, SellRecord, Goto, Flows
  <1>2. i \in Ids /\ Placed(i)
    BY <1>1 DEF Shape, Holding, OfBuys, OfSells, BuyCreation, SellCreation
  <1>3. \A k \in Ids \ {i} : row'[k] = row[k]
    BY <1>1, <1>2, RecordData DEF Sound
  <1>4. \A k \in Unfilled' : k \in Unfilled \/ k = i
    BY <1>3 DEF Unfilled
  <1>5. Posts(t)
    <2>1. posted[i].in \in Nat /\ posted[i].back \in Nat /\ posted[i].fee \in Nat
      BY <1>2 DEF Sound, TypeOK, Postings
    <2> QED
      BY <1>1, <2>1 DEF Posts, One
  <1> QED
    BY <1>1, <1>4, <1>5 DEF Flow

LEMMA NothingPosted ==
    ASSUME Sound, NEW t \in Tasks, pc[t] \in Holding, UNCHANGED posted,
           pc[t] \notin {"f_income", "c_income", "r_back", "k_back"}
    PROVE  Posts(t)
  <1>1. job[t].id \in Ids
    BY DEF Sound, Shaped, Shape
  <1>2. LET i == job[t].id
        IN  posted[i].in \in Nat /\ posted[i].back \in Nat /\ posted[i].fee \in Nat
    BY <1>1 DEF Sound, TypeOK, Postings
  <1> QED
    BY <1>2 DEF Posts, One

\* The steps after which the task has the same order in hand, or has done with it.
LEMMA RowFlow ==
    ASSUME Sound, NEW t \in Tasks,
           \/ SellPreclose(t) \/ BuyFilled(t) \/ SellFilled(t) \/ SellParent(t)
           \/ SellRollbackParent(t) \/ BuyRollbackRow(t) \/ SellRollbackRow(t)
    PROVE  Flow(t)
  <1> DEFINE i == job[t].id
  <1>1. /\ pc \in [Tasks -> Steps] /\ job \in [Tasks -> Job] /\ row \in [Ids -> OrderRow]
        /\ Shape(t, pc[t], job[t]) /\ job[t] \in Job
        /\ pc[t] \in {"s_preclose", "f_row", "c_close", "c_parent", "k_preclose", "r_off", "k_off"}
        /\ UNCHANGED <<ext, posted>>
    BY DEF Sound, TypeOK, Shaped, SellPreclose, BuyFilled, SellFilled, SellParent,
       SellRollbackParent, BuyRollbackRow, SellRollbackRow
  <1>2. pc[t] \in Holding \ Creating
    BY <1>1
       DEF Creating, Holding, OfBuys, OfSells, BuyCreation, SellCreation, BuyFilling, SellFilling,
       BuyBacking, SellBacking
  <1>3. i \in Ids /\ row[i].stored /\ row[i].parent = ext[i].parent
    BY <1>1, <1>2 DEF Shape, Creating, Sound, OrdersSound
  <1>4. Posts(t)
    BY <1>1, <1>2, NothingPosted
  <1>5. \/ /\ <<pc[t], pc'[t]>> \in Flows /\ job'[t].id = job[t].id /\ job'[t].todo = job[t].todo
        \/ /\ pc[t] \in Ends /\ pc'[t] \in {"idle", "sell", "fetch"}
           /\ job'[t].todo \subseteq job[t].todo
    <2>1. CASE Continue(t, job[t].todo) /\ pc[t] \in Ends
      BY <2>1, ContinueTodo DEF Sound
    <2>2. CASE UNCHANGED job /\ <<pc[t], pc'[t]>> \in Flows
      BY <2>2
    <2>3. \/ Continue(t, job[t].todo) /\ pc[t] \in Ends
          \/ UNCHANGED job /\ <<pc[t], pc'[t]>> \in Flows
      <3>1. CASE SellPreclose(t)
        BY <1>1, <3>1 DEF SellPreclose, Goto, Flows, Ends
      <3>2. CASE BuyFilled(t) \/ SellFilled(t) \/ SellRollbackParent(t)
        BY <1>1, <3>2 DEF BuyFilled, SellFilled, SellRollbackParent, Goto, Flows
      <3>3. CASE SellParent(t) \/ BuyRollbackRow(t) \/ SellRollbackRow(t)
        BY <3>3 DEF SellParent, BuyRollbackRow, SellRollbackRow, Ends
      <3> QED
        BY <3>1, <3>2, <3>3
    <2> QED
      BY <2>1, <2>2, <2>3
  <1>6. /\ Unfilled' \subseteq Unfilled
        /\ pc[t] \in {"r_off", "k_off", "f_row", "c_close"} => i \notin Unfilled'
    <2>1. CASE pc[t] \in {"s_preclose", "c_parent", "k_preclose"}
      <3> DEFINE p == IF pc[t] = "s_preclose" THEN job[t].cur.id ELSE row[i].parent
      <3>1. p \in Ids
        BY <1>1, <1>2, <1>3, <2>1 DEF Shape, SellCreation, OfSells, SellFilling, SellBacking
      <3>2. \E r \in [stored : {row[p].stored}, isActive : BOOLEAN, parent : {row[p].parent},
                      amount1 : {row[p].amount1}, filled : {row[p].filled},
                      preclosed : Int, closed_amount : Int] :
              row' = [row EXCEPT ![p] = r] /\ (r.isActive => row[p].isActive)
        <4>1. row[p] \in OrderRow
          BY <1>1, <3>1
        <4>2. CASE SellPreclose(t)
          <5> DEFINE c == job[t].cur.preclosed + row[i].amount1
                     r == [row[p] EXCEPT !.preclosed = c]
          <5>1. c \in Int
            BY <1>1, <1>3 DEF Job, Snapshot, OrderRow
          <5>2. row' = [row EXCEPT ![p].preclosed = c]
            BY <4>2 DEF SellPreclose
          <5> HIDE DEF c, p
          <5>3. /\ r \in OrderRow /\ r.stored = row[p].stored /\ r.parent = row[p].parent
                /\ r.amount1 = row[p].amount1 /\ r.filled = row[p].filled
                /\ r.isActive = row[p].isActive /\ row' = [row EXCEPT ![p] = r]
            BY <1>1, <3>1, <4>1, <5>1, <5>2 DEF OrderRow
          <5> HIDE DEF r
          <5> QED
            BY <5>3 DEF OrderRow
        <4>3. CASE SellParent(t)
          <5> DEFINE c == job[t].seen
                     r == [row[p] EXCEPT !.closed_amount = c, !.isActive = @ /\ row[p].amount1 # c]
          <5>1. c \in Int
            BY <1>1 DEF Job
          <5>2. row' = [row EXCEPT ![p].closed_amount = c, ![p].isActive = @ /\ row[p].amount1 # c]
            BY <2>1, <4>3 DEF SellParent
          <5> HIDE DEF c, p
          <5>3. /\ r \in OrderRow /\ r.stored = row[p].stored /\ r.parent = row[p].parent
                /\ r.amount1 = row[p].amount1 /\ r.filled = row[p].filled
                /\ r.isActive => row[p].isActive
                /\ row' = [row EXCEPT ![p] = r]
            BY <1>1, <3>1, <4>1, <5>1, <5>2 DEF OrderRow
          <5>4. r.isActive => row[p].isActive
            BY <4>1 DEF OrderRow
          <5> HIDE DEF r
          <5> QED
            BY <5>3, <5>4 DEF OrderRow
        <4>4. CASE SellRollbackParent(t)
          <5> DEFINE c == job[t].seen - row[i].amount1
                     r == [row[p] EXCEPT !.preclosed = c]
          <5>1. c \in Int
            BY <1>1, <1>3 DEF Job, OrderRow
          <5>2. row' = [row EXCEPT ![p].preclosed = c]
            BY <2>1, <4>4 DEF SellRollbackParent
          <5> HIDE DEF c, p
          <5>3. /\ r \in OrderRow /\ r.stored = row[p].stored /\ r.parent = row[p].parent
                /\ r.amount1 = row[p].amount1 /\ r.filled = row[p].filled
                /\ r.isActive = row[p].isActive /\ row' = [row EXCEPT ![p] = r]
            BY <1>1, <3>1, <4>1, <5>1, <5>2 DEF OrderRow
          <5> HIDE DEF r
          <5> QED
            BY <5>3 DEF OrderRow
        <4> QED
          BY <2>1, <4>2, <4>3, <4>4 DEF BuyFilled, SellFilled, BuyRollbackRow, SellRollbackRow
      <3> HIDE DEF p
      <3>3. PICK r \in [stored : {row[p].stored}, isActive : BOOLEAN, parent : {row[p].parent},
                      amount1 : {row[p].amount1}, filled : {row[p].filled},
                      preclosed : Int, closed_amount : Int] :
              row' = [row EXCEPT ![p] = r] /\ (r.isActive => row[p].isActive)
        BY <3>2
      <3>4. row'[p] = r /\ \A k \in Ids \ {p} : row'[k] = row[k]
        BY <1>1, <3>1, <3>3
      <3>5. /\ r.stored = row[p].stored /\ r.amount1 = row[p].amount1 /\ r.filled = row[p].filled
        BY <3>3
      <3> QED
        BY <2>1, <3>3, <3>4, <3>5 DEF Unfilled
    <2>2. CASE pc[t] \in {"r_off", "k_off"}
      <3>1. row' = [row EXCEPT ![i].isActive = FALSE]
        BY <2>2
           DEF BuyRollbackRow, SellRollbackRow, SellPreclose, BuyFilled, SellFilled, SellParent,
           SellRollbackParent
      <3>2. /\ ~row'[i].isActive /\ \A k \in Ids \ {i} : row'[k] = row[k]
        BY <1>1, <1>3, <3>1 DEF OrderRow
      <3> QED
        BY <3>2 DEF Unfilled
    <2>3. CASE pc[t] \in {"f_row", "c_close"}
      <3> DEFINE f == ext[i].filled
      <3>1. \/ row' = [row EXCEPT ![i].filled = f, ![i].amount1 = f]
            \/ row' = [row EXCEPT ![i].isActive = FALSE, ![i].filled = f, ![i].amount1 = f]
        BY <2>3
           DEF BuyRollbackRow, SellRollbackRow, SellPreclose, BuyFilled, SellFilled, SellParent,
           SellRollbackParent
      <3>2. f \in Nat
        BY <1>3 DEF Sound, TypeOK, ExtOrder
      <3> HIDE DEF f
      <3>3. row'[i].filled = f /\ row'[i].amount1 = f /\ \A k \in Ids \ {i} : row'[k] = row[k]
        BY <1>1, <1>3, <3>1 DEF OrderRow
      <3> QED
        BY <3>2, <3>3 DEF Unfilled
    <2> QED
      BY <1>1, <2>1, <2>2, <2>3
  <1> QED
    BY <1>1, <1>4, <1>5, <1>6 DEF Flow

\* Steps that post to the log, or read the parent's row.
LEMMA PostFlow ==
    ASSUME Sound, NEW t \in Tasks,
           \/ BuyOutcome(t) \/ SellOutcome(t) \/ BuyIncome(t) \/ BuyFee(t) \/ BuyRollback(t)
           \/ SellIncome(t) \/ SellFee(t) \/ SellRollback(t) \/ SellFindParent(t) \/ SellRollbackFind(t)
    PROVE  Flow(t)
  <1> DEFINE i == job[t].id
  <1>1. /\ pc \in [Tasks -> Steps] /\ job \in [Tasks -> Job] /\ Shape(t, pc[t], job[t])
        /\ pc[t] \in {"b_out", "s_out", "f_income", "f_fee", "r_back", "c_income", "c_fee",
                      "k_back", "c_find", "k_find"}
        /\ UNCHANGED <<ext, row>>
    BY DEF Sound, TypeOK, Shaped, BuyOutcome, SellOutcome, BuyIncome, BuyFee, BuyRollback,
       SellIncome, SellFee, SellRollback, SellFindParent, SellRollbackFind
  <1>2. pc[t] \in Holding \ {"b_record", "s_record"}
    BY <1>1 DEF Holding, OfBuys, OfSells, BuyCreation, SellCreation, BuyFilling, SellFilling,
       BuyBacking, SellBacking
  <1>3. i \in Ids /\ row[i].stored
    BY <1>1, <1>2 DEF Shape
  <1>4. /\ pc[t] \in {"b_out", "s_out"} => Post(i, "out")
        /\ pc[t] \in {"f_income", "c_income"} => Post(i, "in")
        /\ pc[t] \in {"f_fee", "c_fee"} => Post(i, "fee") \/ UNCHANGED posted
        /\ pc[t] \in {"r_back", "k_back"} => Post(i, "back")
        /\ pc[t] \in {"c_find", "k_find"} => UNCHANGED posted
    BY DEF BuyOutcome, SellOutcome, BuyIncome, BuyFee, BuyRollback,
       SellIncome, SellFee, SellRollback, SellFindParent, SellRollbackFind, PostFee
  <1>5. /\ posted[i].in \in Nat /\ posted[i].back \in Nat /\ posted[i].fee \in Nat
    BY <1>3 DEF Sound, TypeOK, Postings
  <1> HIDE DEF i
  <1>6. /\ \A k \in Ids \ {i} : posted'[k] = posted[k]
        /\ posted'[i].in = posted[i].in + One(pc[t] \in {"f_income", "c_income"})
        /\ posted'[i].back = posted[i].back + One(pc[t] \in {"r_back", "k_back"})
        /\ posted[i].fee <= posted'[i].fee
        /\ posted'[i].fee <= posted[i].fee + One(pc[t] \in {"f_fee", "c_fee"})
    <2>1. CASE UNCHANGED posted
      BY <1>1, <1>4, <1>5, <2>1, <1>3, PostData DEF One, Sound
    <2>2. ASSUME NEW kind \in {"out", "in", "fee", "back"}, Post(i, kind)
          PROVE  /\ \A k \in Ids \ {i} : posted'[k] = posted[k]
                 /\ posted'[i].in = posted[i].in + IF kind = "in" THEN 1 ELSE 0
                 /\ posted'[i].fee = posted[i].fee + IF kind = "fee" THEN 1 ELSE 0
                 /\ posted'[i].back = posted[i].back + IF kind = "back" THEN 1 ELSE 0
      BY <1>1, <1>3, <2>2, PostData DEF Sound
    <2>3. CASE ~UNCHANGED posted
      <3>1. CASE pc[t] \in {"b_out", "s_out"}
        BY <1>4, <1>5, <2>2, <3>1 DEF One
      <3>2. CASE pc[t] \in {"f_income", "c_income"}
        BY <1>4, <1>5, <2>2, <3>2 DEF One
      <3>3. CASE pc[t] \in {"f_fee", "c_fee"}
        BY <1>4, <1>5, <2>2, <2>3, <3>3 DEF One
      <3>4. CASE pc[t] \in {"r_back", "k_back"}
        BY <1>4, <1>5, <2>2, <3>4 DEF One
      <3> QED
        BY <1>1, <1>4, <2>3, <3>1, <3>2, <3>3, <3>4
    <2> QED
      BY <2>1, <2>3
  <1>7. Posts(t)
    BY <1>6 DEF Posts, i
  <1>8. Unfilled' = Unfilled
    BY <1>1, SameUnfilled
  <1>9. \/ /\ <<pc[t], pc'[t]>> \in Flows /\ job'[t].id = job[t].id /\ job'[t].todo = job[t].todo
        \/ /\ pc[t] \in Ends /\ pc'[t] \in {"idle", "sell", "fetch"}
           /\ job'[t].todo \subseteq job[t].todo
    <2>1. CASE pc[t] \in {"b_out", "f_fee"}
      <3>1. Continue(t, job[t].todo)
        BY <2>1 DEF BuyOutcome, SellOutcome, BuyIncome, BuyFee, BuyRollback,
           SellIncome, SellFee, SellRollback, SellFindParent, SellRollbackFind
      <3> QED
        BY <2>1, <3>1, ContinueTodo DEF Sound, Ends
    <2>2. CASE pc[t] \notin {"b_out", "f_fee"}
      <3>1. <<pc[t], pc'[t]>> \in Flows
        BY <1>1, <2>2 DEF BuyOutcome, SellOutcome, BuyIncome, BuyFee, BuyRollback,
           SellIncome, SellFee, SellRollback, SellFindParent, SellRollbackFind, Goto, Flows
      <3>2. job' = job \/ \E seen : job' = [job EXCEPT ![t].seen = seen]
        BY <2>2 DEF BuyOutcome, SellOutcome, BuyIncome, BuyFee, BuyRollback,
           SellIncome, SellFee, SellRollback, SellFindParent, SellRollbackFind
      <3> QED
        BY <1>1, <3>1, <3>2 DEF Job
    <2> QED
      BY <2>1, <2>2
  <1> QED
    BY <1>1, <1>7, <1>8, <1>9 DEF Flow

\* Without faults every step of a task is described by Flow.
LEMMA FlowKinds ==
    ASSUME Sound, MaxFaults = 0, [Next]_vars
    PROVE  (\E t \in Tasks : StepSound(t) /\ Flow(t)) \/ ExchangeNext \/ UNCHANGED vars
  <1>1. /\ Sellers \subseteq Tasks /\ Buyers \subseteq Tasks /\ Checkers \subseteq Tasks
        /\ ~(faults < MaxFaults)
    BY TaskKinds DEF Sound, TypeOK
  <1>2. ASSUME NEW t \in Tasks, BuyCheckStep(t) \/ SellCheckStep(t)
        PROVE  StepSound(t) /\ Flow(t)
    BY <1>2, FilledSound, PostSound, RowWriteSound, FindSound, RowFlow, PostFlow
       DEF BuyCheckStep, SellCheckStep
  <1>3. ASSUME NEW t \in Buyers, RunBuyStrategies(t) \/ BuyCreateStep(t) \/ BuyLost(t)
        PROVE  StepSound(t) /\ Flow(t)
    <2>1. CASE RunBuyStrategies(t)
      BY <1>1, <2>1, StartSound, StartFlow
    <2>2. CASE BuyCreateStep(t)
      BY <1>1, <2>2, AcceptedSound, ContinuesSound, RecordSound, OutcomeSound,
         AcceptedFlow, RefusedFlow, RecordFlow, PostFlow DEF BuyCreateStep
    <2> QED
      BY <1>1, <1>3, <2>1, <2>2 DEF BuyLost, AcceptLost
  <1>4. ASSUME NEW t \in Sellers,
               RunSellStrategies(t) \/ SellCreateStep(t) \/ SellLost(t) \/ SellCheckStep(t)
        PROVE  StepSound(t) /\ Flow(t)
    <2>1. CASE RunSellStrategies(t)
      BY <1>1, <2>1, StartSound, StartFlow
    <2>2. CASE SellCreateStep(t)
      BY <1>1, <2>2, AcceptedSound, ContinuesSound, RecordSound, OutcomeSound, PrecloseSound,
         AcceptedFlow, RefusedFlow, RecordFlow, PostFlow, RowFlow DEF SellCreateStep
    <2> QED
      BY <1>1, <1>2, <1>4, <2>1, <2>2 DEF SellLost, AcceptLost
  <1>5. ASSUME NEW t \in Checkers, CheckLimitOrders(t) \/ CheckStep(t) \/ FetchFails(t)
        PROVE  StepSound(t) /\ Flow(t)
    <2>1. CASE CheckLimitOrders(t)
      BY <1>1, <2>1, StartSound, StartFlow
    <2>2. CASE CheckStep(t)
      BY <1>1, <1>2, <2>2, TurnSound, TurnFlow DEF CheckStep, FetchNext
    <2>3. CASE FetchFails(t)
      BY <2>3, TurnSound, TurnFlow DEF FetchFails
    <2> QED
      BY <1>5, <2>1, <2>2, <2>3
  <1>6. ~Crash /\ \A t \in Tasks : ~Throws(t)
    BY <1>1 DEF Crash, Throws
  <1>7. CASE Next
    BY <1>1, <1>3, <1>4, <1>5, <1>6, <1>7 DEF Next, Over
  <1> QED
    BY <1>7

FilledSteps == {"f_row", "f_income", "c_close", "c_income"}
DueSteps    == FilledSteps \cup {"r_back", "k_back"}
SellerSteps == SellCreation \cup {"c_close", "c_income"}

LEMMA StepNames ==
    /\ Holding = {"b_record", "b_out", "s_record", "s_out", "s_preclose", "f_row", "f_income",
                  "f_fee", "c_close", "c_income", "c_fee", "c_find", "c_parent", "r_back", "r_off",
                  "k_back", "k_find", "k_preclose", "k_off"}
    /\ SellerSteps = {"s_record", "s_out", "s_preclose", "c_close", "c_income"}
    /\ DueSteps = {"f_row", "f_income", "c_close", "c_income", "r_back", "k_back"}
    /\ BuyBacking = {"r_back", "r_off"}
    /\ SellBacking = {"k_back", "k_find", "k_preclose", "k_off"}
  BY DEF Holding, OfBuys, OfSells, BuyCreation, SellCreation, BuyFilling, SellFilling,
     BuyBacking, SellBacking, SellerSteps, DueSteps, FilledSteps

\* What a step of task t does with the order in hand.
LEMMA FlowFacts ==
    ASSUME Sound, NEW t \in Tasks, Flow(t)
    PROVE  /\ pc'[t] \in Holding =>
                \/ pc[t] \in Holding /\ job'[t].id = job[t].id /\ <<pc[t], pc'[t]>> \in Flows
                \/ pc[t] \in {"buy", "sell"} /\ pc'[t] \in {"b_record", "s_record"}
                   /\ ~Placed(job'[t].id)
                \/ /\ t \in Checkers /\ pc[t] = "fetch"
                   /\ pc'[t] \in {"r_back", "f_row", "k_back", "c_close"}
                   /\ \E s \in job[t].todo : s.id = job'[t].id
           /\ pc[t] \in Holding =>
                \/ pc'[t] \in Holding /\ job'[t].id = job[t].id /\ <<pc[t], pc'[t]>> \in Flows
                \/ pc'[t] \notin Holding /\ pc[t] \in Ends
           /\ pc[t] \notin Holding => posted' = posted
           /\ pc[t] \in Holding => Posts(t)
           /\ pc'[t] # "idle" /\ pc[t] = "idle" =>
                Overlap \/ IF t \in Checkers THEN Idle(Tasks) ELSE Idle(Checkers)
  <1>1. /\ {"buy", "sell", "fetch", "idle"} \cap Holding = {}
        /\ \A l, m : <<l, m>> \in Flows => l \in Holding /\ m \in Holding
        /\ Ends \subseteq Holding
    BY StepNames DEF Flows, Ends
  <1>2. {"b_record", "s_record", "r_back", "f_row", "k_back", "c_close"} \subseteq Holding
    BY StepNames
  <1> QED
    BY <1>1, <1>2 DEF Flow

-----------------------------------------------------------------------------
(* What is posted agrees with what became of the order.                    *)

LEMMA TruthfulKept ==
    ASSUME Sound, Truthful, NEW t \in Tasks, StepSound(t), Flow(t)
    PROVE  Truthful'
  <1>1. /\ Shape(t, pc[t], job[t]) /\ Evolves /\ Others(t)
        /\ Shape(t, pc[t], job[t])' /\ posted \in [Ids -> Postings]
    BY DEF Sound, Shaped, StepSound, TypeOK
  <1>2. \A i \in Ids : /\ posted[i].in > 0 => Placed(i)
                       /\ posted[i].back > 0 => Placed(i)
    BY DEF Sound, OrdersSound, TypeOK, Postings
  <1>3. ASSUME NEW i \in Ids
        PROVE  /\ posted'[i].in > 0 =>
                    posted[i].in > 0 \/ (pc[t] \in {"f_income", "c_income"} /\ i = job[t].id)
               /\ posted'[i].back > 0 =>
                    posted[i].back > 0 \/ (pc[t] \in {"r_back", "k_back"} /\ i = job[t].id)
    <2>1. CASE posted'[i] = posted[i]
      BY <2>1
    <2>2. CASE posted'[i] # posted[i]
      <3>1. pc[t] \in Holding /\ i = job[t].id /\ Posts(t)
        BY <2>2, FlowFacts DEF Posts
      <3>2. posted[i].in \in Nat /\ posted[i].back \in Nat
        BY <1>1 DEF Postings
      <3> QED
        BY <3>1, <3>2 DEF Posts, One
    <2> QED
      BY <2>1, <2>2
  <1>4. ASSUME NEW i \in Ids, posted'[i].in > 0
        PROVE  ext'[i].status = "closed"
    <2>1. ext[i].status = "closed"
      BY <1>1, <1>3, <1>4 DEF Truthful, Shape
    <2> QED
      BY <1>1, <2>1 DEF Evolves
  <1>5. ASSUME NEW i \in Ids, posted'[i].back > 0
        PROVE  /\ ext'[i].status \in {"gone", "canceled"}
               /\ ext'[i].parent # 0 => ext'[i].status = "gone"
    <2>1. /\ ext[i].status \in {"gone", "canceled"}
          /\ ext[i].parent # 0 => ext[i].status = "gone"
      <3>1. CASE posted[i].back > 0
        BY <3>1 DEF Truthful
      <3>2. CASE pc[t] = "r_back" /\ i = job[t].id
        BY <1>1, <3>2 DEF Truthful, Shape, OfBuys, BuyBacking
      <3>3. CASE pc[t] = "k_back" /\ i = job[t].id
        BY <1>1, <3>3 DEF Truthful, Shape, OfSells, SellBacking
      <3> QED
        BY <1>3, <1>5, <3>1, <3>2, <3>3
    <2>2. Placed(i)
      BY <2>1 DEF Placed
    <2> QED
      BY <1>1, <2>1, <2>2 DEF Evolves
  <1>6. ASSUME NEW u \in Tasks
        PROVE  /\ pc'[u] \in BuyBacking => ext'[job'[u].id].status \in {"gone", "canceled"}
               /\ pc'[u] \in SellBacking => ext'[job'[u].id].status = "gone"
    <2>1. /\ pc'[u] \in BuyBacking => ext[job'[u].id].status \in {"gone", "canceled"}
          /\ pc'[u] \in SellBacking => ext[job'[u].id].status = "gone"
      <3>1. CASE u # t
        BY <1>1, <3>1 DEF Others, Truthful
      <3>2. CASE u = t
        BY <3>2, StepNames DEF Flow, Flows, Truthful
      <3> QED
        BY <3>1, <3>2
    <2>2. pc'[u] \in Holding => job'[u].id \in Ids
      BY StepKeepsSound DEF Sound, Shaped, Shape
    <2> QED
      BY <1>1, <2>1, <2>2, StepNames DEF Evolves
  <1> QED
    BY <1>4, <1>5, <1>6 DEF Truthful

LEMMA TruthfulStays ==
    ASSUME Sound, Truthful, Evolves, UNCHANGED <<posted, pc, job>>
    PROVE  Truthful'
  <1>1. \A i \in Ids : /\ posted[i].back > 0 => ext'[i].parent = ext[i].parent
    BY DEF Truthful, Evolves, Placed
  <1>2. \A u \in Tasks : pc[u] \in Holding => job[u].id \in Ids
    BY DEF Sound, Shaped, Shape
  <1>3. \A i \in Ids :
        /\ posted[i].in > 0 => ext'[i].status = "closed"
        /\ posted[i].back > 0 => /\ ext'[i].status \in {"gone", "canceled"}
                                 /\ ext'[i].parent # 0 => ext'[i].status = "gone"
    BY <1>1 DEF Truthful, Evolves
  <1>4. \A t \in Tasks :
        /\ pc[t] \in BuyBacking => ext'[job[t].id].status \in {"gone", "canceled"}
        /\ pc[t] \in SellBacking => ext'[job[t].id].status = "gone"
    BY <1>2, StepNames DEF Truthful, Evolves
  <1> QED
    BY <1>3, <1>4 DEF Truthful

LEMMA InitTruthful == Init => Truthful
  BY TaskKinds DEF Init, Truthful, BuyBacking, SellBacking

LEMMA NextTruthful ==
    ASSUME Sound, Truthful, MaxFaults = 0, [Next]_vars
    PROVE  Truthful'
  <1>1. CASE \E t \in Tasks : StepSound(t) /\ Flow(t)
    BY <1>1, TruthfulKept
  <1>2. CASE ExchangeNext \/ UNCHANGED vars
    <2>1. Evolves /\ UNCHANGED <<posted, pc, job>>
      BY <1>2, ExchangeData, NextSound DEF vars, Sound
    <2> QED
      BY <2>1, TruthfulStays
  <1> QED
    BY <1>1, <1>2, FlowKinds

-----------------------------------------------------------------------------
(* Each order is done with once.                                           *)

LEMMA AloneKept ==
    ASSUME Sound, Alone, NEW t \in Tasks, Others(t), Flow(t)
    PROVE  Alone'
  <1> SUFFICES ASSUME ~Overlap, NEW k \in Checkers, pc'[k] # "idle", NEW u \in Tasks \ {k},
                      pc'[u] # "idle"
               PROVE  FALSE
    BY DEF Alone
  <1>1. k \in Tasks /\ \A v \in Tasks \ {t} : pc'[v] = pc[v]
    BY TaskKinds DEF Others
  <1>2. CASE pc[t] # "idle"
    BY <1>1, <1>2 DEF Alone
  <1>3. CASE pc[t] = "idle"
    <2>1. t = k \/ t = u
      BY <1>1, <1>3 DEF Alone
    <2>2. pc'[t] # "idle"
      BY <2>1
    <2>3. IF t \in Checkers THEN Idle(Tasks) ELSE Idle(Checkers)
      BY <1>3, <2>2, FlowFacts
    <2> QED
      BY <1>1, <2>1, <2>3 DEF Idle
  <1> QED
    BY <1>2, <1>3

LEMMA ClosingKept ==
    ASSUME Sound, Closing, NEW t \in Tasks, StepSound(t), Flow(t)
    PROVE  Closing'
  <1>1. Others(t) /\ Sound' /\ pc \in [Tasks -> Steps]
    BY StepKeepsSound DEF StepSound, Sound, TypeOK
  <1> DEFINE After == {"f_income", "f_fee", "c_income", "c_fee", "c_find", "c_parent"}
  <1> SUFFICES ASSUME NEW u \in Tasks, pc'[u] \in After, job'[u].id \in Unfilled'
               PROVE  FALSE
    BY DEF Closing
  <1>2. \/ job'[u].id \in Unfilled
        \/ pc[t] \in {"b_record", "s_record"} /\ job'[u].id = job[t].id
    BY DEF Flow
  <1>3. CASE u # t
    <2>1. pc[u] \in After /\ job'[u] = job[u]
      BY <1>1, <1>3 DEF Others
    <2>2. job[u].id \notin Unfilled
      BY <2>1 DEF Closing
    <2>3. pc[t] \in {"b_record", "s_record"} /\ job[u].id = job[t].id
      BY <1>2, <2>1, <2>2
    <2>4. row[job[u].id].stored /\ ~row[job[t].id].stored
      BY <2>1, <2>3, StepNames DEF Sound, Shaped, Shape
    <2> QED
      BY <2>3, <2>4
  <1>4. CASE u = t
    <2>1. /\ pc[t] \in After \cup {"f_row", "c_close"} /\ job'[t].id = job[t].id
      BY <1>4 DEF Flow, Flows
    <2>2. pc[t] \in After
      BY <1>4, <2>1 DEF Flow
    <2> QED
      BY <1>2, <1>4, <2>1, <2>2 DEF Closing
  <1> QED
    BY <1>3, <1>4

\* Checks do not overlap one another.
Single == ~Overlap \/ \A j, k \in Checkers : j = k

LEMMA OneChecker ==
    ASSUME Alone, Single, NEW j \in Checkers, NEW k \in Checkers, pc[j] # "idle", pc[k] # "idle"
    PROVE  j = k
  BY TaskKinds DEF Alone, Single

LEMMA SellerHolds ==
    ASSUME Sound, NEW t \in Sellers, pc[t] \in SellerSteps
    PROVE  /\ pc[t] \in Holding /\ job[t].id \in Ids /\ ext[job[t].id].parent \in Ids
           /\ Placed(job[t].id) /\ pc[t] # "idle"
  <1>1. Shape(t, pc[t], job[t])
    BY TaskKinds DEF Sound, Shaped
  <1>2. pc[t] \in Holding /\ pc[t] \in OfSells /\ pc[t] # "idle"
    BY StepNames DEF OfSells, SellCreation, SellFilling
  <1> QED
    BY <1>1, <1>2 DEF Shape

\* What is due of one order never exceeds its limit.
Bounded == \A i \in Ids : One(SellerDue(i)) + One(CheckerDue(i)) <= Limit(i)

LEMMA DueWithinLimit ==
    ASSUME Sound, Alone
    PROVE  Bounded
  <1> SUFFICES ASSUME NEW i \in Ids
               PROVE  One(SellerDue(i)) + One(CheckerDue(i)) <= Limit(i)
    BY DEF Bounded
  <1>1. CASE ~SellerDue(i)
    BY <1>1 DEF One, Limit
  <1>2. CASE SellerDue(i)
    <2>1. PICK t \in Sellers : pc[t] \in SellerSteps /\ job[t].id = i
      BY <1>2 DEF SellerDue, SellerSteps
    <2>2. ext[i].parent \in Ids /\ pc[t] # "idle" /\ t \in Tasks
      BY <2>1, SellerHolds, TaskKinds
    <2>3. CASE Overlap
      BY <2>2, <2>3 DEF One, Limit, Ids
    <2>4. CASE ~Overlap
      <3>1. \A k \in Checkers : pc[k] = "idle"
        BY <2>2, <2>4, TaskKinds DEF Alone
      <3>2. ~CheckerDue(i)
        BY <1>2, <2>4, <3>1 DEF CheckerDue
      <3> QED
        BY <3>2 DEF One, Limit
    <2> QED
      BY <2>3, <2>4
  <1> QED
    BY <1>1, <1>2

LEMMA SellerDueFrom ==
    ASSUME Sound, NEW t \in Tasks, Others(t), Flow(t), NEW i \in Ids, Placed(i), SellerDue(i)'
    PROVE  SellerDue(i)
  <1>1. PICK u \in Sellers : pc'[u] \in SellerSteps /\ job'[u].id = i
    BY DEF SellerDue, SellerSteps
  <1>2. CASE u # t
    BY <1>1, <1>2, TaskKinds DEF Others, SellerDue, SellerSteps
  <1>3. CASE u = t
    <2>1. pc'[t] \in Holding /\ t \notin Checkers
      BY <1>1, <1>3, StepNames, TaskKinds
    <2>2. job'[t].id = job[t].id /\ <<pc[t], pc'[t]>> \in Flows
      BY <1>1, <1>3, <2>1, FlowFacts
    <2>3. pc[t] \in SellerSteps
      BY <1>1, <1>3, <2>2, StepNames DEF Flows
    <2> QED
      BY <1>1, <1>3, <2>2, <2>3 DEF SellerDue, SellerSteps
  <1> QED
    BY <1>2, <1>3

\* What a checker may come to treat: nothing new, but an order just recorded and one
\* that its seller leaves unfilled.
LEMMA CheckerDueFrom ==
    ASSUME Sound, Alone, Closing, Single, NEW t \in Tasks, Others(t), Flow(t),
           NEW i \in Ids, CheckerDue(i)'
    PROVE  \/ CheckerDue(i)
           \/ pc[t] \in {"b_record", "s_record"} /\ job[t].id = i
           \/ SellerDue(i) /\ ~SellerDue(i)' /\ i \in Unfilled'
  <1> DEFINE Held == \E k \in Checkers : pc[k] \in Holding /\ job[k].id = i
             Listed(k) == pc[k] # "idle" /\ \E s \in job[k].todo : s.id = i
             InHand(k) == pc[k] \in DueSteps /\ job[k].id = i
  <1>1. \A k \in Checkers : k \in Tasks /\ Shape(k, pc[k], job[k])
    BY TaskKinds DEF Sound, Shaped
  <1>2. /\ (\E k \in Checkers : Listed(k) \/ InHand(k)) => CheckerDue(i)
        /\ i \in Unfilled /\ ~Held /\ (Overlap \/ ~SellerDue(i)) => CheckerDue(i)
    BY DEF CheckerDue, DueSteps, FilledSteps
  <1>3. ASSUME NEW k \in Checkers, k # t, Listed(k)' \/ InHand(k)'
        PROVE  CheckerDue(i)
    BY <1>1, <1>2, <1>3 DEF Others
  <1>4. ASSUME t \in Checkers, Listed(t)'
        PROVE  CheckerDue(i)
    <2>1. PICK s \in job'[t].todo : s.id = i
      BY <1>4
    <2>2. CASE pc[t] = "idle"
      <3>1. /\ i \in Unfilled
            /\ Overlap \/ Idle(Tasks)
        BY <1>4, <2>1, <2>2, StepNames DEF Flow, Flows, Ends
      <3>2. \A k \in Checkers : pc[k] = "idle"
        <4>1. CASE Overlap
          BY <1>4, <2>2, <4>1 DEF Single
        <4>2. CASE Idle(Tasks)
          BY <1>1, <4>2 DEF Idle
        <4> QED
          BY <3>1, <4>1, <4>2
      <3>3. ~Held
        BY <3>2, StepNames
      <3>4. Overlap \/ ~SellerDue(i)
        <4>1. CASE Idle(Tasks)
          BY <4>1, SellerHolds, TaskKinds DEF SellerDue, SellerSteps, Idle
        <4> QED
          BY <3>1, <4>1
      <3> QED
        BY <1>2, <3>1, <3>3, <3>4
    <2>3. CASE pc[t] # "idle"
      <3>1. pc[t] \notin {"buy", "sell"}
        BY <1>1, <1>4, TaskKinds DEF Shape, Labels, BuyFilling, BuyBacking, SellFilling, SellBacking
      <3>2. s \in job[t].todo
        BY <2>1, <2>3, <3>1 DEF Flow
      <3> QED
        BY <1>2, <1>4, <2>1, <2>3, <3>2
    <2> QED
      BY <2>2, <2>3
  <1>5. ASSUME t \in Checkers, InHand(t)'
        PROVE  CheckerDue(i)
    <2>1. pc'[t] \in Holding /\ pc'[t] \in DueSteps /\ job'[t].id = i
      BY <1>5, StepNames
    <2>2. CASE job'[t].id = job[t].id /\ <<pc[t], pc'[t]>> \in Flows
      <3>1. pc[t] # "s_preclose"
        BY <1>1, <1>5, TaskKinds DEF Shape, Labels, BuyFilling, BuyBacking, SellFilling, SellBacking
      <3>2. pc[t] \in DueSteps
        BY <2>1, <2>2, <3>1, StepNames DEF Flows
      <3> QED
        BY <1>2, <1>5, <2>1, <2>2, <3>2
    <2>3. CASE pc[t] = "fetch" /\ \E s \in job[t].todo : s.id = job'[t].id
      BY <1>2, <1>5, <2>1, <2>3
    <2>4. CASE pc'[t] \in {"b_record", "s_record"}
      BY <2>1, <2>4, StepNames
    <2> QED
      BY <2>1, <2>2, <2>3, <2>4, FlowFacts
  <1>6. ASSUME i \in Unfilled', ~Held', Overlap \/ ~SellerDue(i)'
        PROVE  \/ CheckerDue(i)
               \/ pc[t] \in {"b_record", "s_record"} /\ job[t].id = i
               \/ SellerDue(i) /\ ~SellerDue(i)' /\ i \in Unfilled'
    <2>1. i \in Unfilled \/ (pc[t] \in {"b_record", "s_record"} /\ job[t].id = i)
      BY <1>6 DEF Flow
    <2>2. ASSUME i \in Unfilled, NEW k \in Checkers, pc[k] \in Holding, job[k].id = i
          PROVE  FALSE
      <3>1. k = t
        BY <1>1, <1>6, <2>2 DEF Others
      <3>2. pc[t] \in Ends /\ pc[t] \in Holding
        BY <1>6, <2>2, <3>1, FlowFacts
      <3>3. pc[t] \notin {"b_out", "s_preclose"}
        BY <1>1, <2>2, <3>1, TaskKinds
           DEF Shape, Labels, BuyFilling, BuyBacking, SellFilling, SellBacking
      <3>4. CASE pc[t] \in {"c_parent", "f_fee"}
        BY <2>2, <3>1, <3>4 DEF Closing
      <3>5. CASE pc[t] \in {"r_off", "k_off"}
        BY <1>6, <2>2, <3>1, <3>5 DEF Flow
      <3> QED
        BY <3>2, <3>3, <3>4, <3>5 DEF Ends
    <2> QED
      BY <1>2, <1>6, <2>1, <2>2
  <1>7. \/ \E k \in Checkers : Listed(k)' \/ InHand(k)'
        \/ i \in Unfilled' /\ ~Held' /\ (Overlap \/ ~SellerDue(i)')
    BY DEF CheckerDue, DueSteps, FilledSteps
  <1> QED
    BY <1>3, <1>4, <1>5, <1>6, <1>7

\* A checker that settles an order, or gives it back, has it due no more.
LEMMA CheckerSettles ==
    ASSUME Sound, Alone, Single, NEW t \in Checkers, StepSound(t), Flow(t), Alone',
           pc[t] \in {"f_income", "c_income", "r_back", "k_back"}, NEW i \in Ids, job[t].id = i
    PROVE  CheckerDue(i) /\ ~CheckerDue(i)'
  <1>1. pc[t] \in DueSteps /\ pc[t] \in Holding /\ pc[t] \notin Ends /\ t \in Tasks
    BY StepNames, TaskKinds DEF Ends
  <1>2. CheckerDue(i)
    BY <1>1 DEF CheckerDue, DueSteps, FilledSteps
  <1>3. /\ pc'[t] \in Holding /\ job'[t].id = i /\ <<pc[t], pc'[t]>> \in Flows
    BY <1>1, FlowFacts
  <1>4. pc'[t] \notin DueSteps /\ pc'[t] # "idle"
    BY <1>3, StepNames DEF Flows
  <1>5. \A k \in Checkers : pc'[k] # "idle" => k = t
    BY <1>4, TaskKinds DEF Alone, Single
  <1>6. \A s \in job'[t].todo : s.id # i
    BY <1>1, <1>3 DEF StepSound, Shape
  <1>7. \A k \in Checkers : ~(pc'[k] # "idle" /\ \E s \in job'[k].todo : s.id = i)
    BY <1>5, <1>6
  <1>8. \A k \in Checkers : ~(pc'[k] \in DueSteps /\ job'[k].id = i)
    BY <1>4, <1>5, StepNames
  <1>9. ~CheckerDue(i)'
    BY <1>3, <1>7, <1>8 DEF CheckerDue, DueSteps, FilledSteps
  <1> QED
    BY <1>2, <1>9

\* A seller that settles its order has it due no more.
LEMMA SellerSettles ==
    ASSUME Sound, NEW t \in Sellers, Others(t), Flow(t), pc[t] = "c_income",
           NEW i \in Ids, job[t].id = i
    PROVE  /\ SellerDue(i) /\ ~SellerDue(i)'
           /\ pc'[t] = "c_fee" /\ job'[t].id = i
  <1>1. pc[t] \in SellerSteps /\ pc[t] \in Holding /\ t \in Tasks /\ t \notin Checkers
        /\ pc[t] \notin Ends
    BY StepNames, TaskKinds DEF Ends
  <1>2. pc'[t] = "c_fee" /\ job'[t].id = i
    BY <1>1, FlowFacts DEF Flows
  <1>3. ASSUME NEW u \in Sellers, pc'[u] \in SellerSteps, job'[u].id = i
        PROVE  FALSE
    <2>1. u # t
      BY <1>2, <1>3, StepNames
    <2>2. pc[u] \in SellerSteps /\ job[u].id = i
      BY <1>3, <2>1, TaskKinds DEF Others
    <2>3. pc[u] \in Holding
      BY <2>2, StepNames
    <2> QED
      BY <1>1, <2>1, <2>2, <2>3 DEF Sound, Creators
  <1> QED
    BY <1>1, <1>2, <1>3 DEF SellerDue, SellerSteps

\* What a step of task t adds to the postings of order i.
LEMMA PostsOf ==
    ASSUME Sound, NEW t \in Tasks, Flow(t), NEW i \in Ids
    PROVE  LET of(S) == pc[t] \in S /\ job[t].id = i
           IN  /\ of({"f_income", "c_income"}) => posted'[i].in = posted[i].in + 1
               /\ ~of({"f_income", "c_income"}) => posted'[i].in = posted[i].in
               /\ of({"r_back", "k_back"}) => posted'[i].back = posted[i].back + 1
               /\ ~of({"r_back", "k_back"}) => posted'[i].back = posted[i].back
               /\ of({"f_fee", "c_fee"}) => posted'[i].fee <= posted[i].fee + 1
               /\ ~of({"f_fee", "c_fee"}) => posted'[i].fee <= posted[i].fee
  <1>1. {"f_income", "c_income", "r_back", "k_back", "f_fee", "c_fee"} \subseteq Holding
    BY StepNames
  <1>2. posted[i].in \in Nat /\ posted[i].back \in Nat /\ posted[i].fee \in Nat
    BY DEF Sound, TypeOK, Postings
  <1>3. CASE pc[t] \notin Holding \/ job[t].id # i
    <2>1. posted'[i] = posted[i]
      BY <1>3, FlowFacts DEF Posts
    <2> QED
      BY <1>1, <1>2, <1>3, <2>1
  <1>4. CASE pc[t] \in Holding /\ job[t].id = i
    <2>1. /\ posted'[i].in = posted[i].in + One(pc[t] \in {"f_income", "c_income"})
          /\ posted'[i].back = posted[i].back + One(pc[t] \in {"r_back", "k_back"})
          /\ posted'[i].fee <= posted[i].fee + One(pc[t] \in {"f_fee", "c_fee"})
      BY <1>4, FlowFacts DEF Posts
    <2> QED
      BY <1>2, <1>4, <2>1 DEF One
  <1> QED
    BY <1>3, <1>4

LEMMA DuesKept ==
    ASSUME Sound, Sound', Alone, Alone', Closing, Closing', Single, Dues, Bounded',
           NEW t \in Tasks, StepSound(t), Flow(t), NEW i \in Ids
    PROVE  posted'[i].in + posted'[i].back + One(SellerDue(i)') + One(CheckerDue(i)')
              <= Limit(i)'
  <1> DEFINE SD  == SellerDue(i)
             CD  == CheckerDue(i)
             SDn == SellerDue(i)'
             CDn == CheckerDue(i)'
             done  == posted[i].in + posted[i].back
             doneN == posted'[i].in + posted'[i].back
             lim  == Limit(i)
             limN == Limit(i)'
             Settles == pc[t] \in {"f_income", "c_income", "r_back", "k_back"} /\ job[t].id = i
  <1>1. /\ Others(t) /\ Evolves /\ Shape(t, pc[t], job[t])
        /\ posted[i].in \in Nat /\ posted[i].back \in Nat
        /\ posted'[i].in \in Nat /\ posted'[i].back \in Nat
    BY DEF StepSound, Sound, Shaped, TypeOK, Postings
  <1>2. One(SDn) + One(CDn) <= limN /\ lim \in {1, 2} /\ limN \in {1, 2}
    BY DEF Bounded, Limit
  <1>3. done + One(SD) + One(CD) <= lim
    BY DEF Dues
  <1>4. row[i].stored => limN = lim
    BY <1>1 DEF Limit, Evolves, Sound, OrdersSound
  <1>5. (~Settles => doneN = done) /\ (Settles => doneN = done + 1)
    BY <1>1, PostsOf
  <1>6. Settles => row[i].stored
    BY <1>1, StepNames DEF Shape
  <1>7. /\ One(SD) = (IF SD THEN 1 ELSE 0) /\ One(CD) = (IF CD THEN 1 ELSE 0)
        /\ One(SDn) = (IF SDn THEN 1 ELSE 0) /\ One(CDn) = (IF CDn THEN 1 ELSE 0)
        /\ done \in Nat /\ doneN \in Nat
    BY <1>1 DEF One
  <1>8. CASE ~row[i].stored
    <2>1. done = 0
      BY <1>8 DEF Sound, OrdersSound
    <2>2. ~Settles
      BY <1>6, <1>8
    <2> HIDE DEF SD, CD, SDn, CDn, Settles, done, doneN, lim, limN
    <2>3. doneN + One(SDn) + One(CDn) <= limN
      BY <1>2, <1>5, <1>7, <2>1, <2>2
    <2> QED
      BY <2>3 DEF SDn, CDn, doneN, limN
  <1>9. CASE row[i].stored
    <2>1. Placed(i) /\ (SDn => SD)
      BY <1>1, <1>9, SellerDueFrom DEF Sound, OrdersSound
    <2>2. ~(pc[t] \in {"b_record", "s_record"} /\ job[t].id = i)
      BY <1>1, <1>9 DEF Shape
    <2>3. CDn => CD \/ (SD /\ ~SDn /\ i \in Unfilled')
      BY <1>1, <2>2, CheckerDueFrom
    <2>4. Settles => \/ CD /\ ~CDn
                     \/ SD /\ ~SDn /\ i \notin Unfilled'
      <3>1. CASE Settles /\ t \in Checkers
        BY <3>1, CheckerSettles
      <3>2. CASE Settles /\ t \notin Checkers
        <4>1. t \in Sellers /\ pc[t] = "c_income"
          BY <1>1, <3>2, TaskKinds DEF Shape, Labels, BuyCreation, SellCreation, SellFilling
        <4>2. SD /\ ~SDn /\ pc'[t] = "c_fee" /\ job'[t].id = i
          BY <1>1, <3>2, <4>1, SellerSettles
        <4>3. i \notin Unfilled'
          BY <4>2 DEF Closing
        <4> QED
          BY <4>2, <4>3
      <3> QED
        BY <3>1, <3>2
    <2> DEFINE Unf == i \in Unfilled'
    <2> HIDE DEF SD, CD, SDn, CDn, Settles, done, doneN, lim, limN, Unf
    <2>5. doneN + One(SDn) + One(CDn) <= limN
      <3>1. (SDn => SD) /\ (CDn => CD \/ (SD /\ ~SDn /\ Unf))
            /\ (Settles => (CD /\ ~CDn) \/ (SD /\ ~SDn /\ ~Unf))
        BY <2>1, <2>3, <2>4 DEF Unf
      <3> QED
        BY <1>2, <1>3, <1>4, <1>5, <1>7, <1>9, <3>1
    <2> QED
      BY <2>5 DEF SDn, CDn, doneN, limN
  <1> QED
    BY <1>8, <1>9

FeeSteps == {"f_fee", "c_fee"}

LEMMA FeesKept ==
    ASSUME Sound, Sound', Alone, Single, Dues, NEW t \in Tasks, StepSound(t), Flow(t), NEW i \in Ids
    PROVE  posted'[i].fee + One(AtFee(Sellers, i)') + One(AtFee(Checkers, i)') <= posted'[i].in
  <1> DEFINE SF  == AtFee(Sellers, i)
             CF  == AtFee(Checkers, i)
             SFn == AtFee(Sellers, i)'
             CFn == AtFee(Checkers, i)'
             Pays == pc[t] \in FeeSteps /\ job[t].id = i
             Earns == pc[t] \in {"f_income", "c_income"} /\ job[t].id = i
  <1>1. /\ Others(t) /\ Shape(t, pc[t], job[t])
        /\ posted[i].in \in Nat /\ posted[i].fee \in Nat
        /\ posted'[i].in \in Nat /\ posted'[i].fee \in Nat
    BY DEF StepSound, Sound, Shaped, TypeOK, Postings
  <1>2. posted[i].fee + One(SF) + One(CF) <= posted[i].in
    BY DEF Dues
  <1>3. /\ posted'[i].in = posted[i].in + One(Earns)
        /\ posted'[i].fee <= posted[i].fee + One(Pays)
    BY <1>1, PostsOf DEF One, FeeSteps
  <1>4. \A u \in Sellers \cup Checkers : u \in Tasks
    BY TaskKinds
  <1>5. pc'[t] \in FeeSteps => pc[t] \in {"f_income", "c_income"} /\ job'[t].id = job[t].id
    BY StepNames, FlowFacts DEF Flows, FeeSteps
  <1>6. /\ SFn => SF \/ (Earns /\ t \in Sellers)
        /\ CFn => CF \/ (Earns /\ t \in Checkers)
    <2>1. ASSUME NEW S \in {Sellers, Checkers}, AtFee(S, i)'
          PROVE  AtFee(S, i) \/ (Earns /\ t \in S)
      <3>1. PICK u \in S : pc'[u] \in FeeSteps /\ job'[u].id = i
        BY <2>1 DEF AtFee, FeeSteps
      <3>2. CASE u = t
        BY <1>5, <3>1, <3>2
      <3>3. CASE u # t
        BY <1>1, <1>4, <3>1, <3>3 DEF Others, AtFee, FeeSteps
      <3> QED
        BY <3>2, <3>3
    <2> QED
      BY <2>1
  <1>7. Pays => \/ t \in Sellers /\ SF /\ ~SFn
                \/ t \in Checkers /\ CF /\ ~CFn
    <2> SUFFICES ASSUME Pays
                 PROVE  \/ t \in Sellers /\ SF /\ ~SFn
                        \/ t \in Checkers /\ CF /\ ~CFn
      OBVIOUS
    <2>1. pc[t] \in Holding /\ pc'[t] \notin FeeSteps
      BY <1>5, StepNames DEF FeeSteps
    <2>2. CASE t \in Sellers
      <3>1. ASSUME NEW u \in Sellers, pc'[u] \in FeeSteps, job'[u].id = i
            PROVE  FALSE
        <4>1. u # t /\ pc[u] \in FeeSteps /\ job[u].id = i
          BY <1>1, <1>4, <2>1, <3>1 DEF Others
        <4>2. pc[u] \in Holding
          BY <4>1, StepNames DEF FeeSteps
        <4> QED
          BY <2>1, <2>2, <4>1, <4>2 DEF Sound, Creators
      <3> QED
        BY <2>2, <3>1 DEF AtFee, FeeSteps
    <2>3. CASE t \in Checkers
      <3>1. ASSUME NEW u \in Checkers, pc'[u] \in FeeSteps, job'[u].id = i
            PROVE  FALSE
        <4>1. u # t /\ pc[u] \in FeeSteps /\ job[u].id = i
          BY <1>1, <1>4, <2>1, <3>1 DEF Others
        <4>2. pc[u] # "idle" /\ pc[t] # "idle"
          BY <2>1, <4>1, StepNames DEF FeeSteps
        <4> QED
          BY <2>3, <4>1, <4>2, OneChecker
      <3> QED
        BY <2>3, <3>1 DEF AtFee, FeeSteps
    <2>4. t \in Sellers \cup Checkers
      BY <1>1, TaskKinds DEF Shape, Labels, BuyCreation, FeeSteps
    <2> QED
      BY <2>2, <2>3, <2>4
  <1>8. /\ ~(Pays /\ Earns) /\ (t \in Sellers => t \notin Checkers)
    BY TaskKinds DEF FeeSteps
  <1> HIDE DEF SF, CF, SFn, CFn, Pays, Earns
  <1>9. /\ One(SF) = (IF SF THEN 1 ELSE 0) /\ One(CF) = (IF CF THEN 1 ELSE 0)
        /\ One(SFn) = (IF SFn THEN 1 ELSE 0) /\ One(CFn) = (IF CFn THEN 1 ELSE 0)
        /\ One(Pays) = (IF Pays THEN 1 ELSE 0) /\ One(Earns) = (IF Earns THEN 1 ELSE 0)
    BY DEF One
  <1>10. posted'[i].fee + One(SFn) + One(CFn) <= posted'[i].in
    BY <1>1, <1>2, <1>3, <1>6, <1>7, <1>8, <1>9
  <1> QED
    BY <1>10 DEF SFn, CFn

\* The exchange moves orders on: nothing more is due of any, nor less.
LEMMA DuesStay ==
    ASSUME Sound, Dues, Bounded', Evolves, UNCHANGED <<row, posted, pc, job>>
    PROVE  Dues'
  <1> SUFFICES ASSUME NEW i \in Ids
               PROVE  /\ posted[i].in + posted[i].back + One(SellerDue(i)) + One(CheckerDue(i))
                            <= Limit(i)'
                      /\ posted[i].fee + One(AtFee(Sellers, i)) + One(AtFee(Checkers, i))
                            <= posted[i].in
    <2>1. \A i \in Ids : /\ SellerDue(i)' = SellerDue(i) /\ CheckerDue(i)' = CheckerDue(i)
                         /\ \A S : AtFee(S, i)' = AtFee(S, i)
      BY SameUnfilled DEF SellerDue, CheckerDue, AtFee
    <2> QED
      BY <2>1 DEF Dues, One
  <1>1. CASE row[i].stored
    BY <1>1 DEF Dues, Sound, OrdersSound, Evolves, Limit
  <1>2. CASE ~row[i].stored
    <2>1. posted[i].in = 0 /\ posted[i].back = 0
      BY <1>2 DEF Sound, OrdersSound
    <2>2. SellerDue(i)' = SellerDue(i) /\ CheckerDue(i)' = CheckerDue(i)
      BY SameUnfilled DEF SellerDue, CheckerDue
    <2>3. One(SellerDue(i)) + One(CheckerDue(i)) <= Limit(i)'
      BY <2>2 DEF Bounded, One
    <2>4. One(SellerDue(i)) \in {0, 1} /\ One(CheckerDue(i)) \in {0, 1}
      BY DEF One
    <2> HIDE DEF One, SellerDue, CheckerDue, Limit
    <2>5. 0 + 0 + One(SellerDue(i)) + One(CheckerDue(i)) <= Limit(i)'
      BY <2>3, <2>4
    <2> QED
      BY <2>1, <2>5 DEF Dues
  <1> QED
    BY <1>1, <1>2

LEMMA NextDues ==
    ASSUME MaxFaults = 0, Sound, Sound', Alone, Alone', Closing, Closing', Single, Dues,
           Bounded', [Next]_vars
    PROVE  Dues'
  <1>1. CASE \E t \in Tasks : StepSound(t) /\ Flow(t)
    <2> PICK t \in Tasks : StepSound(t) /\ Flow(t)
      BY <1>1
    <2> QED
      BY DuesKept, FeesKept DEF Dues
  <1>2. CASE ExchangeNext \/ UNCHANGED vars
    <2>1. Evolves /\ UNCHANGED <<row, posted, pc, job>>
      BY <1>2, ExchangeData, NextSound DEF vars, Sound
    <2> QED
      BY <2>1, DuesStay
  <1> QED
    BY <1>1, <1>2, FlowKinds

LEMMA NextAlone ==
    ASSUME MaxFaults = 0, Sound, Alone, Closing, [Next]_vars
    PROVE  Alone' /\ Closing'
  <1>1. CASE \E t \in Tasks : StepSound(t) /\ Flow(t)
    BY <1>1, AloneKept, ClosingKept DEF StepSound
  <1>2. CASE ExchangeNext \/ UNCHANGED vars
    <2>1. UNCHANGED <<row, pc, job>>
      BY <1>2, ExchangeData, NextSound DEF vars, Sound
    <2> QED
      BY <2>1, SameUnfilled DEF Alone, Closing
  <1> QED
    BY <1>1, <1>2, FlowKinds

LEMMA InitDues == Init => Alone /\ Closing /\ Dues
  <1> SUFFICES ASSUME Init
               PROVE  Alone /\ Closing /\ Dues
    OBVIOUS
  <1>1. \A t \in Tasks : pc[t] = "idle"
    BY DEF Init
  <1>2. Unfilled = {} /\ \A i \in Ids : posted[i].in = 0 /\ posted[i].fee = 0 /\ posted[i].back = 0
    BY DEF Init, Unfilled, NoRow
  <1>3. ASSUME NEW i \in Ids
        PROVE  /\ ~SellerDue(i) /\ ~CheckerDue(i)
               /\ ~AtFee(Sellers, i) /\ ~AtFee(Checkers, i)
    BY <1>1, <1>2, TaskKinds
       DEF SellerDue, CheckerDue, AtFee, SellCreation
  <1> HIDE DEF SellerDue, CheckerDue, AtFee
  <1> QED
    BY <1>1, <1>2, <1>3 DEF Alone, Closing, Dues, One, Limit

\* With one check at a time and without faults, what is due of an order is done once.
LEMMA DuesInvariant ==
    ASSUME MaxFaults = 0, Single
    PROVE  Spec => []Dues
  <1>1. Init => Alone /\ Closing /\ Dues
    BY InitDues
  <1>2. Sound /\ Alone /\ Closing /\ [Next]_vars => Alone' /\ Closing'
    BY NextAlone
  <1>3. Sound /\ Alone => Bounded
    BY DueWithinLimit
  <1>4. /\ Sound /\ Sound' /\ Alone /\ Alone' /\ Closing /\ Closing' /\ Dues /\ Bounded'
        /\ [Next]_vars
        => Dues'
    BY NextDues
  <1> QED
    BY <1>1, <1>2, <1>3, <1>4, SoundInvariant, PTL DEF Spec

\* Without faults, checks that wait for the runs post each movement of an order once,
\* and never both settle it and give it back, for any number of tasks and orders.
THEOREM OrdersPostedOnce ==
    ASSUME MaxFaults = 0, ~Overlap
    PROVE  Spec => []PostedOnce
  <1>1. Spec => []Dues
    BY DuesInvariant DEF Single
  <1>2. Sound /\ Dues => PostedOnce
    <2> SUFFICES ASSUME Sound, Dues, NEW i \in Ids
                 PROVE  /\ posted[i].out <= 1 /\ posted[i].fee <= posted[i].in
                        /\ posted[i].in + posted[i].back <= 1
      BY DEF PostedOnce
    <2> DEFINE D == One(SellerDue(i)) + One(CheckerDue(i))
               F == One(AtFee(Sellers, i)) + One(AtFee(Checkers, i))
    <2>1. One(SellerDue(i)) \in Nat /\ One(CheckerDue(i)) \in Nat
          /\ One(AtFee(Sellers, i)) \in Nat /\ One(AtFee(Checkers, i)) \in Nat
      BY DEF One
    <2>2. /\ posted[i].in \in Nat /\ posted[i].back \in Nat /\ posted[i].fee \in Nat
          /\ posted[i].out <= 1
      BY DEF Sound, TypeOK, Postings, Creators
    <2>3. /\ posted[i].in + posted[i].back + One(SellerDue(i)) + One(CheckerDue(i)) <= 1
          /\ posted[i].fee + One(AtFee(Sellers, i)) + One(AtFee(Checkers, i)) <= posted[i].in
      BY DEF Dues, Limit
    <2> HIDE DEF One
    <2> QED
      BY <2>1, <2>2, <2>3
  <1> QED
    BY <1>1, <1>2, SoundInvariant, PTL

\* Without faults, one check at a time beside the runs settles a sell order twice at the
\* most, posts what concerns a buy order once, and no order is both settled and given
\* back, for any number of runs and orders.
THEOREM OverlapSettlesTwice ==
    ASSUME MaxFaults = 0, \A j, k \in Checkers : j = k
    PROVE  Spec => []OverlapPostings
  <1>1. Spec => []Dues
    BY DuesInvariant DEF Single
  <1>2. Spec => []Truthful
    BY InitTruthful, NextTruthful, SoundInvariant, PTL DEF Spec
  <1>3. Sound /\ Truthful /\ Dues => OverlapPostings
    <2> SUFFICES ASSUME Sound, Truthful, Dues, NEW i \in Ids
                 PROVE  /\ posted[i].out <= 1 /\ posted[i].fee <= posted[i].in
                        /\ posted[i].in = 0 \/ posted[i].back = 0
                        /\ posted[i].in + posted[i].back <= IF ext[i].parent = 0 THEN 1 ELSE 2
      BY DEF OverlapPostings
    <2>1. One(SellerDue(i)) \in Nat /\ One(CheckerDue(i)) \in Nat
          /\ One(AtFee(Sellers, i)) \in Nat /\ One(AtFee(Checkers, i)) \in Nat
      BY DEF One
    <2>2. /\ posted[i].in \in Nat /\ posted[i].back \in Nat /\ posted[i].fee \in Nat
          /\ posted[i].out <= 1
      BY DEF Sound, TypeOK, Postings, Creators
    <2>3. /\ posted[i].in + posted[i].back + One(SellerDue(i)) + One(CheckerDue(i)) <= Limit(i)
          /\ posted[i].fee + One(AtFee(Sellers, i)) + One(AtFee(Checkers, i)) <= posted[i].in
      BY DEF Dues
    <2>4. Limit(i) \in Nat /\ Limit(i) <= IF ext[i].parent = 0 THEN 1 ELSE 2
      BY DEF Limit
    <2>5. posted[i].in = 0 \/ posted[i].back = 0
      BY <2>2 DEF Truthful
    <2> HIDE DEF One
    <2> QED
      BY <2>1, <2>2, <2>3, <2>4, <2>5
  <1> QED
    BY <1>1, <1>2, <1>3, SoundInvariant, PTL
=============================================================================
