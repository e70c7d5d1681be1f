----------------------- MODULE TradePositions_proof -----------------------
(***************************************************************************)
(* Proofs about the amounts of TradeService: what the orders of a position    *)
(* add up to, in its row, in the balance and on the exchange. They hold for   *)
(* checks that wait for the runs and one sell run at a time, any number of    *)
(* orders, amounts, buy runs and checks. Motion describes one step of a task, *)
(* faults included. Closed carries what concerns closed_amount, under faults  *)
(* too; Paid what a row and the log say of an order, and Offering what        *)
(* preclosed says of a position, without them. Both figures are compared with *)
(* a sum over all orders, in which an order counts from the write that enters *)
(* it to the write that takes it off. At the end the lines of the log are     *)
(* shown to be a history of Positions.                                       *)
(***************************************************************************)
EXTENDS TradeService_proof, Sums

\* Some task is at one of the steps L with order i in hand.
At(L, i) == \E t \in Tasks : pc[t] \in L /\ job[t].id = i

Total(f) == SumFunctionOnSet(f, Ids)

\* A sell order sells a part of a position, which is a buy order in the table.
Lineage ==
    /\ \A i \in Ids : Placed(i) =>
        /\ ext[i].amount > 0
        /\ ext[i].parent # 0 => row[ext[i].parent].stored /\ ext[ext[i].parent].parent = 0
    /\ \A t \in Sellers : \A s \in job[t].todo : ext[s.id].parent = 0
    /\ \A t \in Tasks : pc[t] \in SellCreation => ext[job[t].id].parent = job[t].cur.id

-----------------------------------------------------------------------------
(* One step of a task.                                                     *)

\* What a step writes to the rows, field by field.
Fields(t) ==
    LET i == job[t].id
        p == ext[i].parent
    IN  /\ \A k \in Ids : row[k].stored =>
            /\ row'[k].stored
            /\ row'[k].parent = row[k].parent /\ row'[k].amount1 = row[k].amount1
            /\ row'[k].filled = IF pc[t] \in {"f_row", "c_close"} /\ k = i THEN ext[i].filled
                                ELSE row[k].filled
            /\ row'[k].isActive <=> /\ row[k].isActive
                                    /\ ~(pc[t] \in {"c_close", "r_off", "k_off"} /\ k = i)
                                    /\ ~(pc[t] = "c_parent" /\ k = p /\ ext[p].amount = job[t].seen)
            /\ row'[k].preclosed =
                    IF pc[t] = "s_preclose" /\ k = job[t].cur.id
                    THEN job[t].cur.preclosed + ext[i].amount
                    ELSE IF pc[t] = "k_preclose" /\ k = p THEN job[t].seen - ext[i].amount
                    ELSE row[k].preclosed
            /\ row'[k].closed_amount = IF pc[t] = "c_parent" /\ k = p THEN job[t].seen
                                       ELSE row[k].closed_amount
        /\ \A k \in Ids : ~row[k].stored =>
            IF pc[t] \in {"b_record", "s_record"} /\ k = i
            THEN /\ row'[k].stored /\ row'[k].isActive /\ row'[k].filled = 0
                 /\ row'[k].preclosed = 0 /\ row'[k].closed_amount = 0
            ELSE row'[k] = row[k]

\* What it posts.
Lines(t) ==
    LET i == job[t].id
    IN  /\ \A k \in Ids \ {i} : posted'[k] = posted[k]
        /\ posted'[i].out = posted[i].out + One(pc[t] \in {"b_out", "s_out"})
        /\ posted'[i].in = posted[i].in + One(pc[t] \in {"f_income", "c_income"})
        /\ posted'[i].back = posted[i].back + One(pc[t] \in {"r_back", "k_back"})

\* The task takes rows up.
Starts(t) ==
    /\ pc[t] = "idle" /\ pc'[t] \in {"buy", "sell", "fetch"}
    /\ UNCHANGED <<ext, row, posted>>
    /\ Overlap \/ IF t \in Checkers THEN Idle(Tasks) ELSE Idle(Checkers)
    /\ \A s \in job'[t].todo :
        /\ s.id \in Ids /\ s.preclosed = row[s.id].preclosed
        /\ t \in Checkers => s.id \in Unfilled
        /\ t \in Sellers => s.id \in Sellable

\* It is done with an order, or gives up.
Leaves(t) ==
    /\ pc[t] # "idle" /\ pc'[t] \in {"idle", "sell", "fetch"}
    /\ UNCHANGED <<ext, row, posted>> /\ job'[t].todo \subseteq job[t].todo
    /\ pc[t] \in Holding => MaxFaults > 0

\* It places an order, and hears of it or does not.
Places(t) ==
    \E p \in 0..MaxOrders, amount \in Nat, full \in BOOLEAN :
        /\ RoomToOrder /\ Accept(NextId, p, amount, full) /\ UNCHANGED <<row, posted>>
        /\ \/ pc[t] = "buy" /\ p = 0 /\ amount = BuyAmount
           \/ /\ pc[t] = "sell"
              /\ \E s \in job[t].todo : p = s.id /\ amount \in 1..(row[p].amount1 - s.preclosed)
        /\ \/ /\ pc[t] = "buy" /\ pc'[t] = "b_record" /\ job'[t].id = NextId
              /\ job'[t].todo = job[t].todo
           \/ /\ pc[t] = "sell" /\ pc'[t] = "s_record" /\ job'[t].id = NextId
              /\ \E s \in job[t].todo : /\ p = s.id /\ job'[t].cur = s
                                        /\ amount \in 1..(row[p].amount1 - s.preclosed)
                                        /\ job'[t].todo = job[t].todo \ {s}
           \/ MaxFaults > 0 /\ pc'[t] = "idle" /\ job'[t].todo = {}

\* A checker takes up the order of one of its rows.
Turns(t) ==
    /\ t \in Checkers /\ pc[t] = "fetch" /\ UNCHANGED <<ext, row, posted>>
    /\ pc'[t] \in {"r_back", "f_row", "k_back", "c_close"}
    /\ \E s \in job[t].todo : job'[t].id = s.id /\ job'[t].todo = job[t].todo \ {s}
    /\ pc'[t] \in {"k_back", "c_close"} <=> ext[job'[t].id].parent # 0

\* Where the task goes on to.
Onward(t) ==
    LET i == job[t].id
        p == ext[i].parent
    IN  \/ /\ <<pc[t], pc'[t]>> \in Flows
           /\ job'[t].id = i /\ job'[t].todo = job[t].todo /\ job'[t].cur = job[t].cur
           /\ pc[t] = "c_find" => job'[t].seen = row[p].closed_amount + ext[i].filled
           /\ pc[t] = "k_find" => job'[t].seen = row[p].preclosed
        \/ /\ pc[t] \in Ends /\ pc'[t] \in {"idle", "sell", "fetch"}
           /\ job'[t].todo \subseteq job[t].todo

\* It goes on with the order in hand.
Works(t) ==
    pc[t] \in Holding /\ UNCHANGED ext /\ Fields(t) /\ Lines(t) /\ Onward(t)

Motion(t) == Starts(t) \/ Leaves(t) \/ Places(t) \/ Turns(t) \/ Works(t)

LEMMA StartMotion ==
    ASSUME Sound, NEW t \in Tasks,
           \/ t \in Buyers /\ RunBuyStrategies(t)
           \/ t \in Sellers /\ RunSellStrategies(t)
           \/ t \in Checkers /\ CheckLimitOrders(t)
    PROVE  Starts(t)
  <1>1. /\ pc \in [Tasks -> Steps] /\ job \in [Tasks -> Job] /\ pc[t] = "idle"
        /\ UNCHANGED <<ext, row, posted>> /\ job[t] = NoJob /\ job[t].todo = {}
    <2>1. Shape(t, pc[t], job[t])
      BY DEF Sound, Shaped
    <2> QED
      BY <2>1, NoJobType
         DEF Sound, TypeOK, RunBuyStrategies, RunSellStrategies, CheckLimitOrders, Shape
  <1>2. pc'[t] \in {"buy", "sell", "fetch"}
    BY <1>1 DEF RunBuyStrategies, RunSellStrategies, CheckLimitOrders, Goto
  <1>3. Overlap \/ IF t \in Checkers THEN Idle(Tasks) ELSE Idle(Checkers)
    BY TaskKinds DEF RunBuyStrategies, RunSellStrategies, CheckLimitOrders, StartRun
  <1>4. \A s \in job'[t].todo :
            /\ s.id \in Ids /\ s.preclosed = row[s.id].preclosed
            /\ t \in Checkers => s.id \in Unfilled
            /\ t \in Sellers => s.id \in Sellable
    <2>1. CASE t \in Buyers
      BY <1>1, <2>1, TaskKinds DEF RunBuyStrategies, RunSellStrategies, CheckLimitOrders
    <2>2. CASE t \in Sellers
      <3>1. PICK chosen \in SUBSET Sellable :
                job' = [job EXCEPT ![t].todo = {SnapshotOf(i) : i \in chosen}]
        BY <2>2, TaskKinds DEF RunSellStrategies
      <3>2. job'[t].todo = {SnapshotOf(i) : i \in chosen}
        BY <1>1, <3>1 DEF Job
      <3>3. chosen \subseteq Ids /\ t \notin Checkers
        BY <2>2, <3>1, TaskKinds DEF Sellable, BuyRows
      <3> QED
        BY <3>1, <3>2, <3>3 DEF SnapshotOf
    <2>3. CASE t \in Checkers
      <3>1. job' = [job EXCEPT ![t].todo = {SnapshotOf(i) : i \in Unfilled}]
        BY <2>3, TaskKinds DEF CheckLimitOrders
      <3>2. job'[t].todo = {SnapshotOf(i) : i \in Unfilled}
        BY <1>1, <3>1 DEF Job
      <3>3. Unfilled \subseteq Ids /\ t \notin Sellers
        BY <2>3, TaskKinds DEF Unfilled
      <3> QED
        BY <3>2, <3>3 DEF SnapshotOf
    <2> QED
      BY <2>1, <2>2, <2>3, TaskKinds
  <1> QED
    BY <1>1, <1>2, <1>3, <1>4 DEF Starts

LEMMA LeaveMotion ==
    ASSUME Sound, NEW t \in Tasks, NEW left \in SUBSET job[t].todo, Continue(t, left),
           UNCHANGED <<ext, row, posted>>, pc[t] # "idle", pc[t] \in Holding => MaxFaults > 0
    PROVE  Leaves(t)
  <1>1. pc'[t] \in {"idle", "sell", "fetch"} /\ job'[t].todo \subseteq job[t].todo
    BY ContinueTodo DEF Sound
  <1> QED
    BY <1>1 DEF Leaves

\* A step that is not taken without faults.
LEMMA Faulty ==
    ASSUME Sound, faults < MaxFaults
    PROVE  MaxFaults > 0
  <1>1. faults \in Nat /\ MaxFaults \in Nat
    BY OrderAssumption DEF Sound, TypeOK
  <1> QED
    BY <1>1

LEMMA GiveUpMotion ==
    ASSUME Sound, NEW t \in Tasks,
           \/ t \in Buyers /\ BuyRefused(t)
           \/ t \in Sellers /\ SellRefused(t)
           \/ Throws(t)
    PROVE  Leaves(t)
  <1>1. pc[t] \in {"buy", "sell"} => pc[t] \notin Holding
    BY StepNames
  <1>2. CASE BuyRefused(t) \/ SellRefused(t)
    <2>1. /\ UNCHANGED <<ext, row, posted>> /\ pc[t] \in {"buy", "sell"}
          /\ \E left \in SUBSET job[t].todo : Continue(t, left)
      BY <1>2 DEF BuyRefused, SellRefused
    <2> QED
      BY <1>1, <2>1, LeaveMotion
  <1>3. CASE Throws(t)
    <2>1. /\ UNCHANGED <<ext, row, posted>> /\ pc[t] # "idle" /\ faults < MaxFaults
          /\ \E left \in SUBSET job[t].todo : Continue(t, left)
      BY <1>3 DEF Throws
    <2> QED
      BY <2>1, LeaveMotion, Faulty
  <1> QED
    BY <1>2, <1>3

LEMMA PlaceMotion ==
    ASSUME Sound, NEW t \in Tasks,
           \/ t \in Buyers /\ (BuyAccepted(t) \/ BuyLost(t))
           \/ t \in Sellers /\ (SellAccepted(t) \/ SellLost(t))
    PROVE  Places(t)
  <1> PICK n : n = NextId
    OBVIOUS
  <1>1. /\ pc \in [Tasks -> Steps] /\ job \in [Tasks -> Job] /\ RoomToOrder
        /\ UNCHANGED <<row, posted>> /\ job[t] \in Job /\ Shape(t, pc[t], job[t])
        /\ row \in [Ids -> OrderRow]
    BY DEF Sound, TypeOK, Shaped, BuyAccepted, SellAccepted, BuyLost, SellLost
  <1>2. 0 \in 0..MaxOrders /\ BuyAmount \in Nat /\ MaxOrders \in Nat
    BY OrderAssumption
  <1>3. CASE BuyAccepted(t)
    <2>1. /\ pc[t] = "buy" /\ job' = [job EXCEPT ![t].id = n] /\ pc' = [pc EXCEPT ![t] = "b_record"]
          /\ \E full \in BOOLEAN : Accept(n, 0, BuyAmount, full)
      BY <1>3 DEF BuyAccepted, Accept, Goto
    <2>2. pc'[t] = "b_record" /\ job'[t].id = n /\ job'[t].todo = job[t].todo
      BY <1>1, <2>1 DEF Job
    <2> QED
      BY <1>1, <1>2, <2>1, <2>2 DEF Places
  <1>4. CASE SellAccepted(t)
    <2>0. PICK s \in job[t].todo : \E full \in BOOLEAN :
            \E amount \in 1..(row[s.id].amount1 - s.preclosed) :
                /\ Accept(NextId, s.id, amount, full)
                /\ job' = [job EXCEPT ![t].todo = @ \ {s}, ![t].cur = s, ![t].id = NextId,
                                      ![t].full = full]
      BY <1>4, Zenon DEF SellAccepted
    <2>1. PICK full \in BOOLEAN, amount \in 1..(row[s.id].amount1 - s.preclosed) :
            /\ Accept(n, s.id, amount, full)
            /\ job' = [job EXCEPT ![t].todo = @ \ {s}, ![t].cur = s, ![t].id = n,
                                  ![t].full = full]
      BY <2>0 DEF Accept
    <2>2. pc[t] = "sell" /\ pc' = [pc EXCEPT ![t] = "s_record"]
      BY <1>4 DEF SellAccepted, Goto
    <2>3. s.id \in 0..MaxOrders /\ amount \in Nat
      <3>1. s.id \in Ids /\ s \in Snapshot
        BY <1>1 DEF Shape, Job
      <3>2. row[s.id].amount1 \in Nat /\ s.preclosed \in Int
        BY <1>1, <3>1 DEF OrderRow, Snapshot
      <3> QED
        BY <1>2, <3>1, <3>2 DEF Ids
    <2>4. /\ pc'[t] = "s_record" /\ job'[t].id = n /\ job'[t].cur = s
          /\ job'[t].todo = job[t].todo \ {s}
      BY <1>1, <2>1, <2>2 DEF Job
    <2>5. \E q \in job[t].todo : s.id = q.id /\ amount \in 1..(row[s.id].amount1 - q.preclosed)
      OBVIOUS
    <2>6. \E q \in job[t].todo : /\ s.id = q.id /\ job'[t].cur = q
                                 /\ amount \in 1..(row[s.id].amount1 - q.preclosed)
                                 /\ job'[t].todo = job[t].todo \ {q}
      BY <2>4
    <2>7. /\ RoomToOrder /\ Accept(NextId, s.id, amount, full) /\ UNCHANGED <<row, posted>>
          /\ pc[t] = "sell" /\ pc'[t] = "s_record" /\ job'[t].id = NextId
      BY <1>1, <2>1, <2>2, <2>4
    <2> HIDE <2>1, <2>2, <2>4
    <2> QED
      BY ONLY <2>3, <2>5, <2>6, <2>7, full \in BOOLEAN, TRUE \in BOOLEAN DEF Places
  <1>5. CASE BuyLost(t)
    <2>1. /\ pc[t] = "buy" /\ Continue(t, job[t].todo) /\ t \in Buyers
          /\ \E full \in BOOLEAN : Accept(n, 0, BuyAmount, full)
      BY <1>5, TaskKinds, StepNames, <1>1
         DEF BuyLost, AcceptLost, Shape, Labels, SellCreation, SellFilling, BuyFilling,
         SellBacking, BuyBacking
    <2>2. pc'[t] = "idle" /\ job'[t].todo = {}
      BY <1>1, <2>1, NoJobType DEF Continue, Goto
    <2>3. MaxFaults > 0
      BY <1>5, Faulty DEF BuyLost, AcceptLost
    <2> QED
      BY <1>1, <1>2, <2>1, <2>2, <2>3 DEF Places
  <1>6. CASE SellLost(t)
    <2>1. /\ pc[t] = "sell" /\ Continue(t, {}) /\ faults < MaxFaults
          /\ \E s \in job[t].todo, full \in BOOLEAN :
                \E amount \in 1..(row[s.id].amount1 - s.preclosed) :
                    Accept(n, s.id, amount, full)
      BY <1>6 DEF SellLost, AcceptLost
    <2>2. pc'[t] = "idle" /\ job'[t].todo = {}
      BY <1>1, <2>1, NoJobType DEF Continue, Goto
    <2>3. MaxFaults > 0
      BY <2>1, Faulty
    <2>4. t \in Sellers
      BY <2>1, <1>1, TaskKinds
         DEF Shape, Labels, SellCreation, SellFilling, BuyFilling, SellBacking, BuyBacking,
         BuyCreation
    <2>5. PICK s \in job[t].todo, full \in BOOLEAN :
              \E amount \in 1..(row[s.id].amount1 - s.preclosed) :
                Accept(n, s.id, amount, full)
      BY <2>1
    <2>6. PICK amount \in 1..(row[s.id].amount1 - s.preclosed) : Accept(n, s.id, amount, full)
      BY <2>5
    <2>7. s.id \in 0..MaxOrders /\ amount \in Nat
      <3>1. s.id \in Ids /\ s \in Snapshot
        BY <1>1, <2>4 DEF Shape, Job
      <3>2. row[s.id].amount1 \in Nat /\ s.preclosed \in Int
        BY <1>1, <3>1 DEF OrderRow, Snapshot
      <3> QED
        BY <1>2, <3>1, <3>2 DEF Ids
    <2> QED
      BY <1>1, <2>1, <2>2, <2>3, <2>6, <2>7 DEF Places
  <1> QED
    BY <1>3, <1>4, <1>5, <1>6

LEMMA TurnMotion ==
    ASSUME Sound, NEW t \in Checkers, FetchNext(t) \/ FetchFails(t)
    PROVE  Turns(t) \/ Leaves(t)
  <1>1. /\ t \in Tasks /\ pc \in [Tasks -> Steps] /\ job \in [Tasks -> Job] /\ pc[t] = "fetch"
        /\ pc[t] \notin Holding /\ pc[t] # "idle"
    BY TaskKinds, StepNames DEF Sound, TypeOK, FetchNext, FetchFails
  <1>2. PICK s \in job[t].todo : \/ CheckBuy(t, s) \/ CheckSell(t, s)
                                 \/ CheckBuyUnanswered(t, s) \/ CheckSellUnanswered(t, s)
    BY <1>1 DEF FetchNext, FetchFails
  <1>3. /\ UNCHANGED <<ext, row, posted>>
        /\ \/ Continue(t, job[t].todo \ {s})
           \/ \E l \in {"r_back", "f_row", "k_back", "c_close"} :
                Turn(t, s, l) /\ (l \in {"k_back", "c_close"} <=> ~IsBuy(s.id))
    BY <1>2 DEF CheckBuy, CheckSell, CheckBuyUnanswered, CheckSellUnanswered
  <1>4. CASE Continue(t, job[t].todo \ {s})
    BY <1>1, <1>3, <1>4, LeaveMotion
  <1>5. ASSUME NEW l \in {"r_back", "f_row", "k_back", "c_close"}, Turn(t, s, l),
               l \in {"k_back", "c_close"} <=> ~IsBuy(s.id)
        PROVE  Turns(t)
    <2>1. /\ pc'[t] = l /\ job'[t].id = s.id /\ job'[t].todo = job[t].todo \ {s}
      BY <1>1, <1>5 DEF Turn, Goto, Job
    <2>2. s.id \in Ids /\ row[s.id].stored /\ row[s.id].parent = ext[s.id].parent
      BY <1>1 DEF Sound, Shaped, Shape, OrdersSound
    <2> QED
      BY <1>1, <1>3, <1>5, <2>1, <2>2 DEF Turns, IsBuy
  <1> QED
    BY <1>3, <1>4, <1>5

\* Where the task holds an order, what the table and the exchange say of it.
LEMMA InHand ==
    ASSUME Sound, NEW t \in Tasks, pc[t] \in Holding
    PROVE  LET i == job[t].id
               p == ext[i].parent
           IN  /\ i \in Ids /\ Placed(i) /\ pc \in [Tasks -> Steps] /\ job \in [Tasks -> Job]
               /\ pc[t] \notin {"b_record", "s_record"} =>
                    /\ row[i].stored /\ row[i].parent = p /\ row[i].amount1 = ext[i].amount
               /\ pc[t] \in {"b_record", "s_record"} => ~row[i].stored
               /\ pc[t] \in OfSells => p \in Ids
               /\ pc[t] \in OfBuys => p = 0
               /\ pc[t] \in SellCreation => job[t].cur.id \in Ids
  <1>1. Shape(t, pc[t], job[t])
    BY DEF Sound, Shaped
  <1>2. job[t].id \in Ids /\ Placed(job[t].id)
    BY <1>1 DEF Shape
  <1> QED
    BY <1>1, <1>2 DEF Shape, Sound, TypeOK, OrdersSound

LEMMA NoFields ==
    ASSUME UNCHANGED row, Sound, NEW t \in Tasks, pc[t] \in Holding,
           pc[t] \notin {"b_record", "s_record", "s_preclose", "f_row", "c_close", "c_parent",
                         "k_preclose", "r_off", "k_off"}
    PROVE  Fields(t)
  <1>1. row \in [Ids -> OrderRow]
    BY DEF Sound, TypeOK
  <1>2. \A k \in Ids : row[k].isActive \in BOOLEAN
    BY <1>1 DEF OrderRow
  <1> QED
    BY <1>2 DEF Fields

LEMMA RecordFields ==
    ASSUME Sound, NEW t \in Tasks, BuyRecord(t) \/ SellRecord(t)
    PROVE  Fields(t)
  <1> DEFINE i == job[t].id
             r == [NoRow EXCEPT !.stored = TRUE, !.isActive = TRUE,
                                !.parent = ext[i].parent, !.amount1 = ext[i].amount]
  <1>1. /\ pc[t] \in {"b_record", "s_record"} /\ row' = [row EXCEPT ![i] = r]
        /\ row \in [Ids -> OrderRow]
    BY DEF BuyRecord, SellRecord, Record, Sound, TypeOK
  <1>2. i \in Ids /\ ~row[i].stored
    BY <1>1, InHand, StepNames
  <1>3. /\ r.stored /\ r.isActive /\ r.filled = 0 /\ r.preclosed = 0 /\ r.closed_amount = 0
    BY DEF NoRow
  <1>4. \A k \in Ids : row[k].isActive \in BOOLEAN
    BY <1>1 DEF OrderRow
  <1> HIDE DEF r, i
  <1>5. row'[i] = r /\ \A k \in Ids \ {i} : row'[k] = row[k]
    BY <1>1, <1>2
  <1>6. pc[t] \notin {"s_preclose", "f_row", "c_close", "c_parent", "k_preclose", "r_off", "k_off"}
    BY <1>1
  <1> QED
    BY <1>1, <1>2, <1>3, <1>4, <1>5, <1>6 DEF Fields, i

\* A step that writes one row, which is stored.
LEMMA OneRow ==
    ASSUME Sound, NEW t \in Tasks, pc[t] \notin {"b_record", "s_record"},
           NEW q \in Ids, row[q].stored, NEW r, row' = [row EXCEPT ![q] = r],
           r.stored, r.parent = row[q].parent, r.amount1 = row[q].amount1,
           LET i == job[t].id
               p == ext[i].parent
           IN  /\ pc[t] = "s_preclose" => q = job[t].cur.id
               /\ pc[t] \in {"k_preclose", "c_parent"} => q = p
               /\ pc[t] \in {"f_row", "c_close", "r_off", "k_off"} => q = i
               /\ pc[t] \in {"s_preclose", "k_preclose", "c_parent", "f_row", "c_close",
                             "r_off", "k_off"}
               /\ r.filled = IF pc[t] \in {"f_row", "c_close"} THEN ext[i].filled ELSE row[q].filled
               /\ r.isActive <=> /\ row[q].isActive /\ pc[t] \notin {"c_close", "r_off", "k_off"}
                                 /\ ~(pc[t] = "c_parent" /\ ext[p].amount = job[t].seen)
               /\ r.preclosed = IF pc[t] = "s_preclose" THEN job[t].cur.preclosed + ext[i].amount
                                ELSE IF pc[t] = "k_preclose" THEN job[t].seen - ext[i].amount
                                ELSE row[q].preclosed
               /\ r.closed_amount = IF pc[t] = "c_parent" THEN job[t].seen
                                    ELSE row[q].closed_amount
    PROVE  Fields(t)
  <1>1. row \in [Ids -> OrderRow]
    BY DEF Sound, TypeOK
  <1>2. \A k \in Ids : row[k].isActive \in BOOLEAN
    BY <1>1 DEF OrderRow
  <1>3. row'[q] = r /\ \A k \in Ids \ {q} : row'[k] = row[k]
    BY <1>1
  <1>4. ASSUME NEW k \in Ids \ {q}
        PROVE  row'[k] = row[k] /\ row[k].isActive \in BOOLEAN
    BY <1>2, <1>3
  <1> DEFINE i == job[t].id
             p == ext[i].parent
             At1(k) ==
            /\ row'[k].stored
            /\ row'[k].parent = row[k].parent /\ row'[k].amount1 = row[k].amount1
            /\ row'[k].filled = IF pc[t] \in {"f_row", "c_close"} /\ k = i THEN ext[i].filled
                                ELSE row[k].filled
            /\ row'[k].isActive <=> /\ row[k].isActive
                                    /\ ~(pc[t] \in {"c_close", "r_off", "k_off"} /\ k = i)
                                    /\ ~(pc[t] = "c_parent" /\ k = p /\ ext[p].amount = job[t].seen)
            /\ row'[k].preclosed =
                    IF pc[t] = "s_preclose" /\ k = job[t].cur.id
                    THEN job[t].cur.preclosed + ext[i].amount
                    ELSE IF pc[t] = "k_preclose" /\ k = p THEN job[t].seen - ext[i].amount
                    ELSE row[k].preclosed
            /\ row'[k].closed_amount = IF pc[t] = "c_parent" /\ k = p THEN job[t].seen
                                       ELSE row[k].closed_amount
  <1>5. At1(q)
    BY <1>3
  <1>6. ASSUME NEW k \in Ids \ {q}, row[k].stored
        PROVE  At1(k)
    <2>1. /\ ~(pc[t] \in {"c_close", "r_off", "k_off"} /\ k = i)
          /\ ~(pc[t] \in {"f_row", "c_close"} /\ k = i)
          /\ ~(pc[t] \in {"k_preclose", "c_parent"} /\ k = p)
          /\ ~(pc[t] = "s_preclose" /\ k = job[t].cur.id)
      OBVIOUS
    <2>2. row'[k] = row[k] /\ row[k].isActive \in BOOLEAN
      BY <1>4
    <2> QED
      BY <1>6, <2>1, <2>2
  <1>7. \A k \in Ids : ~row[k].stored => row'[k] = row[k]
    BY <1>4
  <1> HIDE DEF At1
  <1>8. \A k \in Ids : row[k].stored => At1(k)
    BY <1>5, <1>6
  <1> QED
    BY <1>7, <1>8 DEF At1, Fields

LEMMA RowFields ==
    ASSUME Sound, Lineage, NEW t \in Tasks,
           \/ SellPreclose(t) \/ BuyFilled(t) \/ SellFilled(t) \/ SellParent(t)
           \/ SellRollbackParent(t) \/ BuyRollbackRow(t) \/ SellRollbackRow(t)
    PROVE  Fields(t)
  <1> DEFINE i == job[t].id
             p == ext[i].parent
             c == job[t].cur.id
  <1>1. /\ row \in [Ids -> OrderRow] /\ job[t] \in Job
        /\ pc[t] \in {"s_preclose", "f_row", "c_close", "c_parent", "k_preclose", "r_off", "k_off"}
    BY DEF Sound, TypeOK, SellPreclose, BuyFilled, SellFilled, SellParent, SellRollbackParent,
       BuyRollbackRow, SellRollbackRow
  <1>2. /\ i \in Ids /\ row[i].stored /\ row[i].parent = p /\ row[i].amount1 = ext[i].amount
        /\ pc[t] \in {"c_parent", "k_preclose"} => p \in Ids
        /\ pc[t] = "s_preclose" => c = p /\ p \in Ids
    <2>1. pc[t] \in Holding
      BY <1>1, StepNames
    <2> QED
      BY <1>1, <2>1, InHand, StepNames DEF OfSells, SellCreation, SellFilling, Lineage
  <1>3. pc[t] \in {"s_preclose", "c_parent", "k_preclose"} =>
            row[p].stored /\ row[p].amount1 = ext[p].amount
    <2>1. Placed(i)
      BY <1>2 DEF Sound, OrdersSound
    <2> QED
      BY <1>2, <2>1, OrderAssumption DEF Lineage, Sound, OrdersSound, Ids
  <1> HIDE DEF i, p, c
  <1>4. CASE SellPreclose(t)
    <2> DEFINE r == [row[p] EXCEPT !.preclosed = job[t].cur.preclosed + ext[i].amount]
    <2>1. pc[t] = "s_preclose" /\ row' = [row EXCEPT ![p] = r]
      BY <1>2, <1>4 DEF SellPreclose, i, c
    <2>2. row[p] \in OrderRow
      BY <1>1, <1>2, <2>1
    <2>3. /\ r.stored /\ r.parent = row[p].parent /\ r.amount1 = row[p].amount1
          /\ r.filled = row[p].filled /\ r.isActive = row[p].isActive
          /\ r.preclosed = job[t].cur.preclosed + ext[i].amount
          /\ r.closed_amount = row[p].closed_amount
      BY <1>3, <2>1, <2>2 DEF OrderRow
    <2> HIDE DEF r
    <2> QED
      BY <1>2, <1>3, <2>1, <2>3, OneRow DEF i, p, c
  <1>5. CASE SellRollbackParent(t)
    <2> DEFINE r == [row[p] EXCEPT !.preclosed = job[t].seen - ext[i].amount]
    <2>1. pc[t] = "k_preclose" /\ row' = [row EXCEPT ![p] = r]
      BY <1>2, <1>5 DEF SellRollbackParent, i
    <2>2. row[p] \in OrderRow
      BY <1>1, <1>2, <2>1
    <2>3. /\ r.stored /\ r.parent = row[p].parent /\ r.amount1 = row[p].amount1
          /\ r.filled = row[p].filled /\ r.isActive = row[p].isActive
          /\ r.preclosed = job[t].seen - ext[i].amount
          /\ r.closed_amount = row[p].closed_amount
      BY <1>3, <2>1, <2>2 DEF OrderRow
    <2> HIDE DEF r
    <2> QED
      BY <1>2, <1>3, <2>1, <2>3, OneRow DEF i, p
  <1>6. CASE SellParent(t)
    <2> DEFINE r == [row[p] EXCEPT !.closed_amount = job[t].seen,
                                   !.isActive = @ /\ row[p].amount1 # job[t].seen]
    <2>1. /\ pc[t] = "c_parent"
          /\ row' = [row EXCEPT ![p].closed_amount = job[t].seen,
                                ![p].isActive = @ /\ row[p].amount1 # job[t].seen]
      BY <1>2, <1>6 DEF SellParent, i
    <2>2. row[p] \in OrderRow /\ row' = [row EXCEPT ![p] = r]
      BY <1>1, <1>2, <2>1
    <2>3. /\ r.stored /\ r.parent = row[p].parent /\ r.amount1 = row[p].amount1
          /\ r.filled = row[p].filled /\ r.preclosed = row[p].preclosed
          /\ r.isActive = (row[p].isActive /\ row[p].amount1 # job[t].seen)
          /\ r.closed_amount = job[t].seen
      BY <1>3, <2>1, <2>2 DEF OrderRow
    <2> HIDE DEF r
    <2> QED
      BY ZenonT(60), <1>2, <1>3, <2>1, <2>2, <2>3, OneRow DEF i, p
  <1>7. CASE BuyFilled(t) \/ SellFilled(t)
    <2> DEFINE f == ext[i].filled
               r == IF pc[t] = "f_row" THEN [row[i] EXCEPT !.filled = f, !.amount1 = f]
                    ELSE [row[i] EXCEPT !.isActive = FALSE, !.filled = f, !.amount1 = f]
    <2>1. /\ pc[t] \in {"f_row", "c_close"}
          /\ row' = IF pc[t] = "f_row" THEN [row EXCEPT ![i].filled = f, ![i].amount1 = f]
                    ELSE [row EXCEPT ![i].isActive = FALSE, ![i].filled = f, ![i].amount1 = f]
      BY <1>7 DEF BuyFilled, SellFilled, i
    <2>2. row[i] \in OrderRow /\ f = row[i].amount1
      <3>1. Shape(t, pc[t], job[t])
        BY DEF Sound, Shaped
      <3>2. ext[i].status = "closed"
        BY <2>1, <3>1 DEF Shape, i
      <3> QED
        BY <1>1, <1>2, <3>2 DEF Sound, OrdersSound
    <2> HIDE DEF f
    <2>3. /\ r.stored /\ r.parent = row[i].parent /\ r.amount1 = row[i].amount1
          /\ r.filled = f /\ r.preclosed = row[i].preclosed
          /\ r.isActive <=> row[i].isActive /\ pc[t] = "f_row"
          /\ r.closed_amount = row[i].closed_amount
      BY <1>2, <2>1, <2>2 DEF OrderRow
    <2>4. row' = [row EXCEPT ![i] = r]
      BY <1>1, <1>2, <2>1
    <2> HIDE DEF r
    <2> QED
      BY <1>2, <2>1, <2>3, <2>4, OneRow DEF i, f
  <1>8. CASE BuyRollbackRow(t) \/ SellRollbackRow(t)
    <2> DEFINE r == [row[i] EXCEPT !.isActive = FALSE]
    <2>1. /\ pc[t] \in {"r_off", "k_off"} /\ row' = [row EXCEPT ![i] = r]
      BY <1>8 DEF BuyRollbackRow, SellRollbackRow, i
    <2>2. row[i] \in OrderRow
      BY <1>1, <1>2
    <2>3. /\ r.stored /\ r.parent = row[i].parent /\ r.amount1 = row[i].amount1
          /\ r.filled = row[i].filled /\ r.preclosed = row[i].preclosed
          /\ ~r.isActive /\ r.closed_amount = row[i].closed_amount
      BY <1>2, <2>2 DEF OrderRow
    <2> HIDE DEF r
    <2> QED
      BY <1>2, <2>1, <2>3, OneRow DEF i
  <1> QED
    BY <1>4, <1>5, <1>6, <1>7, <1>8

\* A step that posts nothing.
LEMMA NoLines ==
    ASSUME Sound, NEW t \in Tasks, pc[t] \in Holding, UNCHANGED posted,
           pc[t] \notin {"b_out", "s_out", "f_income", "c_income", "r_back", "k_back"}
    PROVE  Lines(t)
  <1>1. job[t].id \in Ids
    BY InHand
  <1>2. LET i == job[t].id
        IN  posted[i].in \in Nat /\ posted[i].back \in Nat /\ posted[i].out \in Nat
    BY <1>1 DEF Sound, TypeOK, Postings
  <1> QED
    BY <1>2 DEF Lines, One

LEMMA PostLines ==
    ASSUME Sound, NEW t \in Tasks,
           \/ BuyOutcome(t) \/ SellOutcome(t) \/ BuyIncome(t) \/ BuyFee(t) \/ BuyRollback(t)
           \/ SellIncome(t) \/ SellFee(t) \/ SellRollback(t)
    PROVE  Lines(t)
  <1> DEFINE i == job[t].id
  <1>1. /\ pc[t] \in {"b_out", "s_out", "f_income", "f_fee", "r_back", "c_income", "c_fee", "k_back"}
        /\ UNCHANGED <<ext, row>> /\ TypeOK /\ OrdersSound
    BY DEF Sound, BuyOutcome, SellOutcome, BuyIncome, BuyFee, BuyRollback,
       SellIncome, SellFee, SellRollback
  <1>2. pc[t] \in Holding /\ i \in Ids /\ row[i].stored
    BY <1>1, InHand, StepNames
  <1>3. /\ pc[t] \in {"b_out", "s_out"} => Post(i, "out")
        /\ pc[t] \in {"f_income", "c_income"} => Post(i, "in")
        /\ pc[t] \in {"f_fee", "c_fee"} => Post(i, "fee") \/ UNCHANGED posted
        /\ pc[t] \in {"r_back", "k_back"} => Post(i, "back")
    BY DEF BuyOutcome, SellOutcome, BuyIncome, BuyFee, BuyRollback,
       SellIncome, SellFee, SellRollback, PostFee
  <1>4. posted[i].in \in Nat /\ posted[i].back \in Nat /\ posted[i].out \in Nat
    BY <1>2 DEF Sound, TypeOK, Postings
  <1> HIDE DEF i
  <1>5. CASE UNCHANGED posted /\ pc[t] \in {"f_fee", "c_fee"}
    BY <1>2, <1>5, NoLines
  <1>6. ASSUME NEW kind \in {"out", "in", "fee", "back"}, Post(i, kind)
        PROVE  /\ \A k \in Ids \ {i} : posted'[k] = posted[k]
               /\ posted'[i].in = posted[i].in + IF kind = "in" THEN 1 ELSE 0
               /\ posted'[i].out = posted[i].out + IF kind = "out" THEN 1 ELSE 0
               /\ posted'[i].back = posted[i].back + IF kind = "back" THEN 1 ELSE 0
    BY <1>1, <1>2, <1>6, PostData
  <1>7. CASE pc[t] \in {"b_out", "s_out"}
    BY <1>3, <1>4, <1>6, <1>7 DEF Lines, One, i
  <1>8. CASE pc[t] \in {"f_income", "c_income"}
    BY <1>3, <1>4, <1>6, <1>8 DEF Lines, One, i
  <1>9. CASE pc[t] \in {"f_fee", "c_fee"} /\ Post(i, "fee")
    BY <1>4, <1>6, <1>9 DEF Lines, One, i
  <1>10. CASE pc[t] \in {"r_back", "k_back"}
    BY <1>3, <1>4, <1>6, <1>10 DEF Lines, One, i
  <1> QED
    BY <1>1, <1>3, <1>5, <1>7, <1>8, <1>9, <1>10

LEMMA EndsOnward ==
    ASSUME Sound, NEW t \in Tasks, pc[t] \in Ends, Continue(t, job[t].todo)
    PROVE  Onward(t)
  BY ContinueTodo DEF Sound, Onward

LEMMA FlowsOnward ==
    ASSUME Sound, NEW t \in Tasks, UNCHANGED job, <<pc[t], pc'[t]>> \in Flows,
           pc[t] \notin {"c_find", "k_find"}
    PROVE  Onward(t)
  BY DEF Onward

LEMMA FindOnward ==
    ASSUME Sound, NEW t \in Tasks, SellFindParent(t) \/ SellRollbackFind(t)
    PROVE  Onward(t)
  <1> DEFINE i == job[t].id
             p == ext[i].parent
  <1>1. /\ pc[t] \in {"c_find", "k_find"} /\ pc[t] \in Holding
        /\ pc \in [Tasks -> Steps] /\ job \in [Tasks -> Job]
    BY StepNames DEF SellFindParent, SellRollbackFind, Sound, TypeOK
  <1>2. row[i].parent = p
    BY <1>1, InHand
  <1>3. CASE SellFindParent(t)
    <2>1. /\ pc[t] = "c_find" /\ pc'[t] = "c_parent"
          /\ job' = [job EXCEPT ![t].seen = row[p].closed_amount + ext[i].filled]
      BY <1>1, <1>2, <1>3 DEF SellFindParent, Goto
    <2> HIDE DEF p
    <2>2. /\ job'[t].id = i /\ job'[t].todo = job[t].todo /\ job'[t].cur = job[t].cur
          /\ job'[t].seen = row[p].closed_amount + ext[i].filled
      BY <1>1, <2>1 DEF Job
    <2> QED
      BY <2>1, <2>2 DEF Onward, Flows, p
  <1>4. CASE SellRollbackFind(t)
    <2>1. /\ pc[t] = "k_find" /\ pc'[t] = "k_preclose"
          /\ job' = [job EXCEPT ![t].seen = row[p].preclosed]
      BY <1>1, <1>2, <1>4 DEF SellRollbackFind, Goto
    <2> HIDE DEF p
    <2>2. /\ job'[t].id = i /\ job'[t].todo = job[t].todo /\ job'[t].cur = job[t].cur
          /\ job'[t].seen = row[p].preclosed
      BY <1>1, <2>1 DEF Job
    <2> QED
      BY <2>1, <2>2 DEF Onward, Flows, p
  <1> QED
    BY <1>3, <1>4

LEMMA WorkOnward ==
    ASSUME Sound, NEW t \in Tasks,
           \/ BuyRecord(t) \/ SellRecord(t) \/ SellPreclose(t) \/ BuyFilled(t) \/ SellFilled(t)
           \/ SellParent(t) \/ SellRollbackParent(t) \/ BuyRollbackRow(t) \/ SellRollbackRow(t)
           \/ BuyOutcome(t) \/ SellOutcome(t) \/ BuyIncome(t) \/ BuyFee(t) \/ BuyRollback(t)
           \/ SellIncome(t) \/ SellFee(t) \/ SellRollback(t)
    PROVE  Onward(t)
  <1>1. pc \in [Tasks -> Steps]
    BY DEF Sound, TypeOK
  <1>2. CASE \/ BuyRecord(t) \/ SellRecord(t) \/ BuyFilled(t) \/ SellFilled(t)
             \/ SellRollbackParent(t) \/ SellOutcome(t) \/ BuyIncome(t) \/ BuyRollback(t)
             \/ SellIncome(t) \/ SellFee(t) \/ SellRollback(t)
    <2>1. /\ UNCHANGED job /\ <<pc[t], pc'[t]>> \in Flows /\ pc[t] \notin {"c_find", "k_find"}
      BY <1>1, <1>2 DEF BuyRecord, SellRecord, BuyFilled, SellFilled, SellRollbackParent,
         SellOutcome, BuyIncome, BuyRollback, SellIncome, SellFee, SellRollback, Goto, Flows
    <2> QED
      BY <2>1, FlowsOnward
  <1>3. CASE \/ SellParent(t) \/ BuyRollbackRow(t) \/ SellRollbackRow(t) \/ BuyOutcome(t)
             \/ BuyFee(t)
    <2>1. pc[t] \in Ends /\ Continue(t, job[t].todo)
      BY <1>3 DEF SellParent, BuyRollbackRow, SellRollbackRow, BuyOutcome, BuyFee, Ends
    <2> QED
      BY <2>1, EndsOnward
  <1>4. CASE SellPreclose(t)
    <2>1. \/ pc[t] \in Ends /\ Continue(t, job[t].todo)
          \/ UNCHANGED job /\ <<pc[t], pc'[t]>> \in Flows /\ pc[t] \notin {"c_find", "k_find"}
      BY <1>1, <1>4 DEF SellPreclose, Goto, Flows, Ends
    <2> QED
      BY <2>1, EndsOnward, FlowsOnward
  <1> QED
    BY <1>2, <1>3, <1>4

LEMMA WorkMotion ==
    ASSUME Sound, Lineage, NEW t \in Tasks,
           BuyRecord(t) \/ SellRecord(t) \/ BuyOutcome(t) \/ SellOutcome(t) \/ SellPreclose(t)
           \/ BuyCheckStep(t) \/ SellCheckStep(t)
    PROVE  Works(t)
  <1>1. CASE BuyRecord(t) \/ SellRecord(t)
    <2>1. /\ pc[t] \in {"b_record", "s_record"} /\ UNCHANGED <<ext, posted>>
      BY <1>1 DEF BuyRecord, SellRecord
    <2>2. pc[t] \in Holding
      BY <2>1, StepNames
    <2>3. Fields(t) /\ Lines(t) /\ Onward(t)
      BY <1>1, <2>1, <2>2, RecordFields, NoLines, WorkOnward
    <2> QED
      BY <2>1, <2>2, <2>3 DEF Works
  <1>2. CASE \/ SellPreclose(t) \/ BuyFilled(t) \/ SellFilled(t) \/ SellParent(t)
             \/ SellRollbackParent(t) \/ BuyRollbackRow(t) \/ SellRollbackRow(t)
    <2>1. /\ pc[t] \in {"s_preclose", "f_row", "c_close", "c_parent", "k_preclose", "r_off", "k_off"}
          /\ UNCHANGED <<ext, posted>>
      BY <1>2 DEF SellPreclose, BuyFilled, SellFilled, SellParent, SellRollbackParent,
         BuyRollbackRow, SellRollbackRow
    <2>2. pc[t] \in Holding
      BY <2>1, StepNames
    <2>3. Fields(t) /\ Lines(t) /\ Onward(t)
      BY <1>2, <2>1, <2>2, RowFields, NoLines, WorkOnward
    <2> QED
      BY <2>1, <2>2, <2>3 DEF Works
  <1>3. CASE \/ BuyOutcome(t) \/ SellOutcome(t) \/ BuyIncome(t) \/ BuyFee(t) \/ BuyRollback(t)
             \/ SellIncome(t) \/ SellFee(t) \/ SellRollback(t)
    <2>1. /\ pc[t] \in {"b_out", "s_out", "f_income", "f_fee", "r_back", "c_income", "c_fee",
                        "k_back"}
          /\ UNCHANGED <<ext, row>>
      BY <1>3 DEF BuyOutcome, SellOutcome, BuyIncome, BuyFee, BuyRollback, SellIncome, SellFee,
         SellRollback
    <2>2. pc[t] \in Holding
      BY <2>1, StepNames
    <2>3. Fields(t) /\ Lines(t) /\ Onward(t)
      BY <1>3, <2>1, <2>2, NoFields, PostLines, WorkOnward
    <2> QED
      BY <2>1, <2>2, <2>3 DEF Works
  <1>4. CASE SellFindParent(t) \/ SellRollbackFind(t)
    <2>1. pc[t] \in {"c_find", "k_find"} /\ UNCHANGED <<ext, row, posted>>
      BY <1>4 DEF SellFindParent, SellRollbackFind
    <2>2. pc[t] \in Holding
      BY <2>1, StepNames
    <2>3. Fields(t) /\ Lines(t) /\ Onward(t)
      BY <1>4, <2>1, <2>2, NoFields, NoLines, FindOnward
    <2> QED
      BY <2>1, <2>2, <2>3 DEF Works
  <1> QED
    BY <1>1, <1>2, <1>3, <1>4 DEF BuyCheckStep, SellCheckStep

\* Every step is one of a task, as Motion tells, or of the exchange, a crash, or nothing.
LEMMA MotionKinds ==
    ASSUME Sound, Lineage, [Next]_vars
    PROVE  \/ \E t \in Tasks : StepSound(t) /\ Motion(t)
           \/ Crash /\ MaxFaults > 0
           \/ ExchangeNext
           \/ UNCHANGED vars
  <1>1. Sellers \subseteq Tasks /\ Buyers \subseteq Tasks /\ Checkers \subseteq Tasks
    BY TaskKinds
  <1>2. ASSUME NEW t \in Tasks, BuyCheckStep(t) \/ SellCheckStep(t)
        PROVE  StepSound(t) /\ Motion(t)
    <2>1. Works(t)
      BY <1>2, WorkMotion
    <2>2. StepSound(t)
      BY <1>2, FilledSound, PostSound, RowWriteSound, FindSound DEF BuyCheckStep, SellCheckStep
    <2> QED
      BY <2>1, <2>2 DEF Motion
  <1>3. ASSUME NEW t \in Buyers, RunBuyStrategies(t) \/ BuyCreateStep(t) \/ BuyLost(t)
        PROVE  StepSound(t) /\ Motion(t)
    <2>1. Starts(t) \/ Leaves(t) \/ Places(t) \/ Works(t)
      BY <1>1, <1>3, StartMotion, GiveUpMotion, PlaceMotion, WorkMotion DEF BuyCreateStep
    <2>2. StepSound(t)
      BY <1>1, <1>3, StartSound, AcceptedSound, ContinuesSound, RecordSound, OutcomeSound,
         LostSound DEF BuyCreateStep
    <2> QED
      BY <2>1, <2>2 DEF Motion
  <1>4. ASSUME NEW t \in Sellers,
               RunSellStrategies(t) \/ SellCreateStep(t) \/ SellLost(t) \/ SellCheckStep(t)
        PROVE  StepSound(t) /\ Motion(t)
    <2>1. CASE SellCheckStep(t)
      BY <1>1, <1>2, <2>1
    <2>2. CASE RunSellStrategies(t) \/ SellCreateStep(t) \/ SellLost(t)
      <3>1. Starts(t) \/ Leaves(t) \/ Places(t) \/ Works(t)
        BY <1>1, <1>4, <2>2, StartMotion, GiveUpMotion, PlaceMotion, WorkMotion DEF SellCreateStep
      <3>2. StepSound(t)
        BY <1>1, <2>2, StartSound, AcceptedSound, ContinuesSound, RecordSound, OutcomeSound,
           LostSound, PrecloseSound DEF SellCreateStep
      <3> QED
        BY <3>1, <3>2 DEF Motion
    <2> QED
      BY <1>4, <2>1, <2>2
  <1>5. ASSUME NEW t \in Checkers, CheckLimitOrders(t) \/ CheckStep(t) \/ FetchFails(t)
        PROVE  StepSound(t) /\ Motion(t)
    <2>1. CASE CheckLimitOrders(t)
      BY <1>1, <2>1, StartSound, StartMotion DEF Motion
    <2>2. CASE FetchNext(t) \/ FetchFails(t)
      <3>1. Turns(t) \/ Leaves(t)
        BY <2>2, TurnMotion
      <3>2. StepSound(t)
        BY <2>2, TurnSound DEF FetchNext, FetchFails
      <3> QED
        BY <3>1, <3>2 DEF Motion
    <2>3. CASE BuyCheckStep(t) \/ SellCheckStep(t)
      BY <1>1, <1>2, <2>3
    <2> QED
      BY <1>5, <2>1, <2>2, <2>3 DEF CheckStep
  <1>6. ASSUME NEW t \in Tasks, Throws(t)
        PROVE  StepSound(t) /\ Motion(t)
    BY <1>6, ContinuesSound, GiveUpMotion DEF Motion
  <1>7. CASE Crash
    BY <1>7, Faulty DEF Crash
  <1>8. CASE Next
    BY <1>1, <1>3, <1>4, <1>5, <1>6, <1>7, <1>8 DEF Next, Over
  <1> QED
    BY <1>8

\* What the exchange does to orders by itself.
Trades ==
    \A i \in Ids :
        /\ ext'[i].parent = ext[i].parent /\ ext'[i].amount = ext[i].amount
        /\ Placed(i)' <=> Placed(i)
        /\ ext[i].filled <= ext'[i].filled
        /\ ext[i].filled <= ext[i].amount => ext'[i].filled <= ext[i].amount
        /\ ext'[i].status = "gone" => ext'[i] = ext[i] \/ ext'[i].filled = 0

LEMMA ExchangeTrades ==
    ASSUME Sound, ExchangeNext
    PROVE  Trades
  <1>1. PICK i \in Ids : Fill(i) \/ CancelOnExchange(i) \/ Forget(i)
    BY DEF ExchangeNext
  <1>2. ext \in [Ids -> ExtOrder] /\ ext[i] \in ExtOrder /\ ext[i].filled \in Nat
        /\ ext[i].amount \in Nat
    BY DEF Sound, TypeOK, ExtOrder
  <1>3. \A k \in Ids : ext[k].filled \in Nat
    BY <1>2 DEF ExtOrder
  <1>4. \E x \in ExtOrder :
               /\ ext' = [ext EXCEPT ![i] = x]
               /\ x.parent = ext[i].parent /\ x.amount = ext[i].amount
               /\ x.status # "none" /\ ext[i].status # "none"
               /\ ext[i].filled <= x.filled
               /\ ext[i].filled <= ext[i].amount => x.filled <= ext[i].amount
               /\ x.status = "gone" => x.filled = 0
    <2>1. CASE Fill(i)
      <3>1. /\ ext[i].status = "open"
            /\ \E f \in (ext[i].filled + 1)..ext[i].amount :
                ext' = [ext EXCEPT ![i].filled = f,
                                   ![i].status = IF f = ext[i].amount THEN "closed" ELSE @]
        BY <2>1 DEF Fill
      <3>2. PICK f \in (ext[i].filled + 1)..ext[i].amount :
                ext' = [ext EXCEPT ![i].filled = f,
                                   ![i].status = IF f = ext[i].amount THEN "closed" ELSE @]
        BY <3>1
      <3>3. f \in Nat /\ ext[i].filled <= f /\ f <= ext[i].amount
        BY <1>2, <3>2
      <3> DEFINE x == [ext[i] EXCEPT !.filled = f,
                                     !.status = IF f = ext[i].amount THEN "closed" ELSE @]
      <3>4. ext' = [ext EXCEPT ![i] = x]
        BY <1>2, <3>2
      <3>5. /\ x \in ExtOrder /\ x.parent = ext[i].parent /\ x.amount = ext[i].amount
            /\ x.status \in {"open", "closed"} /\ x.filled = f
        BY <1>2, <3>1, <3>3 DEF ExtOrder
      <3> HIDE DEF x
      <3> QED
        BY <3>1, <3>3, <3>4, <3>5
    <2>2. CASE CancelOnExchange(i)
      <3> DEFINE x == [ext[i] EXCEPT !.status = "canceled"]
      <3>1. ext' = [ext EXCEPT ![i] = x] /\ ext[i].status = "open"
        BY <1>2, <2>2 DEF CancelOnExchange
      <3>2. /\ x \in ExtOrder /\ x.parent = ext[i].parent /\ x.amount = ext[i].amount
            /\ x.status = "canceled" /\ x.filled = ext[i].filled
        BY <1>2 DEF ExtOrder
      <3> HIDE DEF x
      <3>3. /\ ext[i].filled <= x.filled
            /\ ext[i].filled <= ext[i].amount => x.filled <= ext[i].amount
            /\ x.status = "gone" => x.filled = 0
        BY <1>2, <3>1, <3>2
      <3>4. x.status # "none" /\ ext[i].status # "none"
        BY <3>1, <3>2
      <3> QED
        BY <3>1, <3>2, <3>3, <3>4
    <2>3. CASE Forget(i)
      <3> DEFINE x == [ext[i] EXCEPT !.status = "gone"]
      <3>1. ext' = [ext EXCEPT ![i] = x] /\ ext[i].status = "canceled" /\ ext[i].filled = 0
        BY <1>2, <2>3 DEF Forget
      <3>2. /\ x \in ExtOrder /\ x.parent = ext[i].parent /\ x.amount = ext[i].amount
            /\ x.status = "gone" /\ x.filled = ext[i].filled
        BY <1>2 DEF ExtOrder
      <3> HIDE DEF x
      <3>3. /\ ext[i].filled <= x.filled
            /\ ext[i].filled <= ext[i].amount => x.filled <= ext[i].amount
            /\ x.status = "gone" => x.filled = 0
        BY <1>2, <3>1, <3>2
      <3>4. x.status # "none" /\ ext[i].status # "none"
        BY <3>1, <3>2
      <3> QED
        BY <3>1, <3>2, <3>3, <3>4
    <2> QED
      BY <1>1, <2>1, <2>2, <2>3
  <1>5. PICK x \in ExtOrder :
                 /\ ext' = [ext EXCEPT ![i] = x]
                 /\ x.parent = ext[i].parent /\ x.amount = ext[i].amount
                 /\ x.status # "none" /\ ext[i].status # "none"
                 /\ ext[i].filled <= x.filled
                 /\ ext[i].filled <= ext[i].amount => x.filled <= ext[i].amount
                 /\ x.status = "gone" => x.filled = 0
    BY <1>4
  <1>6. ext'[i] = x /\ \A k \in Ids \ {i} : ext'[k] = ext[k]
    BY <1>2, <1>5
  <1> QED
    BY <1>3, <1>5, <1>6 DEF Trades, Placed

\* A new order, and no other change on the exchange.
LEMMA PlacedOrder ==
    ASSUME Sound, RoomToOrder, NEW p, NEW amount, NEW full \in BOOLEAN,
           Accept(NextId, p, amount, full)
    PROVE  /\ NextId \in Ids /\ ~Placed(NextId) /\ ~row[NextId].stored
           /\ ext'[NextId].parent = p /\ ext'[NextId].amount = amount
           /\ ext'[NextId].filled = (IF full THEN amount ELSE 0)
           /\ ext'[NextId].status = (IF full THEN "closed" ELSE "open")
           /\ \A k \in Ids \ {NextId} : ext'[k] = ext[k]
  <1>1. NextId \in Ids /\ ~Placed(NextId)
    BY NextIdIsNew DEF Sound
  <1>2. ext \in [Ids -> ExtOrder] /\ ~row[NextId].stored
    BY <1>1 DEF Sound, TypeOK, OrdersSound
  <1> PICK n : n = NextId
    OBVIOUS
  <1> DEFINE x == [status |-> IF full THEN "closed" ELSE "open",
                   parent |-> p, amount |-> amount,
                   filled |-> IF full THEN amount ELSE 0]
  <1>3. ext' = [ext EXCEPT ![n] = x]
    BY DEF Accept
  <1>4. /\ x.parent = p /\ x.amount = amount /\ x.filled = (IF full THEN amount ELSE 0)
        /\ x.status = (IF full THEN "closed" ELSE "open")
    OBVIOUS
  <1> HIDE DEF x
  <1>5. ext'[n] = x /\ \A k \in Ids \ {n} : ext'[k] = ext[k]
    BY <1>1, <1>2, <1>3
  <1> QED
    BY <1>1, <1>2, <1>4, <1>5

\* Who stands at a step that belongs to buys, sells or checks.
LEMMA WhoStands ==
    ASSUME Sound, NEW t \in Tasks
    PROVE  /\ pc[t] \in {"buy"} \cup BuyCreation => t \in Buyers
           /\ pc[t] \in {"sell"} \cup SellCreation => t \in Sellers
           /\ pc[t] \in {"fetch"} \cup BuyFilling \cup BuyBacking \cup SellBacking => t \in Checkers
           /\ pc[t] \in SellFilling => t \notin Buyers
  <1>1. Shape(t, pc[t], job[t])
    BY DEF Sound, Shaped
  <1> QED
    BY <1>1, TaskKinds
       DEF Shape, Labels, BuyCreation, SellCreation, BuyFilling, SellFilling, BuyBacking,
       SellBacking

LEMMA LineageMoves ==
    ASSUME Sound, Sound', Lineage, NEW t \in Tasks, StepSound(t), Motion(t)
    PROVE  Lineage'
  <1>1. Evolves /\ Others(t) /\ Shape(t, pc[t], job[t]) /\ Shape(t, pc[t], job[t])'
    BY DEF StepSound, Sound, Shaped
  <1>2. ASSUME NEW i \in Ids, Placed(i)'
        PROVE  /\ ext'[i].amount > 0
               /\ ext'[i].parent # 0 =>
                    row'[ext'[i].parent].stored /\ ext'[ext'[i].parent].parent = 0
    <2>1. ASSUME NEW p \in 0..MaxOrders, p # 0, row[p].stored, ext[p].parent = 0
          PROVE  row'[p].stored /\ ext'[p].parent = 0
      BY <1>1, <2>1, OrderAssumption DEF Evolves, Ids, Sound, OrdersSound
    <2>2. CASE Placed(i)
      <3>1. ext[i].parent \in 0..MaxOrders
        BY DEF Sound, TypeOK, ExtOrder
      <3> QED
        BY <1>1, <2>1, <2>2, <3>1 DEF Evolves, Lineage
    <2>3. CASE ~Placed(i)
      <3>1. Places(t)
        <4>1. CASE UNCHANGED ext
          BY <1>2, <2>3, <4>1 DEF Placed
        <4> QED
          BY <4>1 DEF Motion, Starts, Leaves, Turns, Works
      <3>2. PICK p \in 0..MaxOrders, amount \in Nat, full \in BOOLEAN :
                /\ RoomToOrder /\ Accept(NextId, p, amount, full)
                /\ \/ pc[t] = "buy" /\ p = 0 /\ amount = BuyAmount
                   \/ /\ pc[t] = "sell"
                      /\ \E s \in job[t].todo :
                            p = s.id /\ amount \in 1..(row[p].amount1 - s.preclosed)
        BY <3>1 DEF Places
      <3>3. i = NextId /\ ext'[i].parent = p /\ ext'[i].amount = amount
        BY ZenonT(60), <1>2, <2>3, <3>2, PlacedOrder DEF Placed
      <3>4. amount > 0
        BY <3>2, OrderAssumption
      <3>5. p # 0 => row[p].stored /\ ext[p].parent = 0
        BY <1>1, <3>2, WhoStands DEF Shape, Lineage
      <3> QED
        BY <2>1, <3>3, <3>4, <3>5
    <2> QED
      BY <2>2, <2>3
  <1>3. ASSUME NEW u \in Sellers, NEW s \in job'[u].todo
        PROVE  ext'[s.id].parent = 0
    <2>1. u \in Tasks /\ s.id \in Ids /\ Shape(u, pc[u], job[u])
      BY <1>3, TaskKinds DEF Sound, Shaped, Shape
    <2>2. ASSUME s \in job[u].todo
          PROVE  ext'[s.id].parent = 0
      <3>1. ext[s.id].parent = 0 /\ Placed(s.id)
        BY <2>1, <2>2 DEF Lineage, Shape, Sound, OrdersSound
      <3> QED
        BY <1>1, <2>1, <3>1 DEF Evolves
    <2>3. CASE u # t
      BY <1>1, <1>3, <2>1, <2>2, <2>3 DEF Others
    <2>4. CASE u = t
      <3>1. CASE Starts(t)
        <4>1. s.id \in Sellable /\ UNCHANGED ext
          BY <1>3, <2>4, <3>1 DEF Starts
        <4>2. row[s.id].stored /\ row[s.id].parent = 0
          BY <4>1 DEF Sellable, BuyRows, IsBuy
        <4> QED
          BY <2>1, <4>1, <4>2 DEF Sound, OrdersSound
      <3>2. CASE ~Starts(t)
        <4>1. job'[t].todo \subseteq job[t].todo
          BY <3>2 DEF Motion, Leaves, Places, Turns, Works, Onward
        <4> QED
          BY <1>3, <2>2, <2>4, <4>1
      <3> QED
        BY <3>1, <3>2
    <2> QED
      BY <2>3, <2>4
  <1>4. ASSUME NEW u \in Tasks, pc'[u] \in SellCreation
        PROVE  ext'[job'[u].id].parent = job'[u].cur.id
    <2>1. ASSUME pc[u] \in SellCreation
          PROVE  ext'[job[u].id].parent = job[u].cur.id
      <3>1. ext[job[u].id].parent = job[u].cur.id /\ Placed(job[u].id) /\ job[u].id \in Ids
        BY <2>1, InHand, StepNames DEF Lineage, SellCreation
      <3> QED
        BY <1>1, <3>1 DEF Evolves
    <2>2. CASE u # t
      BY <1>1, <1>4, <2>1, <2>2 DEF Others
    <2>3. CASE u = t
      <3>1. CASE Works(t)
        <4>1. /\ pc[t] \in SellCreation
              /\ job'[t].id = job[t].id /\ job'[t].cur = job[t].cur
          BY <1>4, <2>3, <3>1 DEF Works, Onward, Flows, SellCreation
        <4> QED
          BY <2>1, <2>3, <4>1
      <3>2. CASE Places(t)
        <4>1. PICK p \in 0..MaxOrders, amount \in Nat, full \in BOOLEAN :
                /\ RoomToOrder /\ Accept(NextId, p, amount, full)
                /\ job'[t].id = NextId
                /\ \E s \in job[t].todo : p = s.id /\ job'[t].cur = s
          BY <1>4, <2>3, <3>2 DEF Places, SellCreation
        <4> QED
          BY <2>3, <4>1, PlacedOrder
      <3>3. CASE Starts(t) \/ Leaves(t) \/ Turns(t)
        BY <1>4, <2>3, <3>3 DEF Starts, Leaves, Turns, SellCreation
      <3> QED
        BY <3>1, <3>2, <3>3 DEF Motion
    <2> QED
      BY <2>2, <2>3
  <1> QED
    BY <1>2, <1>3, <1>4 DEF Lineage

\* What the other steps do to the tasks and the tables.
LEMMA OtherSteps ==
    ASSUME Sound, (Crash /\ MaxFaults > 0) \/ ExchangeNext \/ UNCHANGED vars
    PROVE  /\ UNCHANGED <<row, posted>> /\ Trades /\ Evolves
           /\ \/ UNCHANGED <<pc, job>>
              \/ /\ UNCHANGED ext /\ MaxFaults > 0
                 /\ \A t \in Tasks : pc'[t] = "idle" /\ job'[t] = NoJob
  <1>1. UNCHANGED ext => Trades
    <2>1. \A i \in Ids : ext[i].filled \in Nat
      BY DEF Sound, TypeOK, ExtOrder
    <2> QED
      BY <2>1 DEF Trades, Placed
  <1>2. CASE ExchangeNext
    BY <1>2, ExchangeTrades, ExchangeData DEF Sound
  <1>3. CASE UNCHANGED vars
    BY <1>1, <1>3, SameData DEF vars, Sound
  <1>4. CASE Crash /\ MaxFaults > 0
    BY <1>1, <1>4, SameData DEF Crash, Sound
  <1> QED
    BY <1>2, <1>3, <1>4

LEMMA InitLineage == Init => Lineage
  BY TaskKinds, NoJobType DEF Init, Lineage, Placed, NoExt, SellCreation

LEMMA NextLineage ==
    ASSUME Sound, Sound', Lineage, [Next]_vars
    PROVE  Lineage'
  <1>1. CASE \E t \in Tasks : StepSound(t) /\ Motion(t)
    BY <1>1, LineageMoves
  <1>2. CASE ~ \E t \in Tasks : StepSound(t) /\ Motion(t)
    <2>1. /\ UNCHANGED <<row, posted>> /\ Trades
          /\ \/ UNCHANGED <<pc, job>>
             \/ \A t \in Tasks : pc'[t] = "idle" /\ job'[t] = NoJob
      BY <1>2, MotionKinds, OtherSteps
    <2>2. \A i \in Ids : ext[i].parent # 0 => ext[i].parent \in Ids
      <3>1. \A i \in Ids : ext[i].parent \in 0..MaxOrders
        BY DEF Sound, TypeOK, ExtOrder
      <3> QED
        BY <3>1, OrderAssumption DEF Ids
    <2>3. ASSUME NEW i \in Ids, Placed(i)'
          PROVE  /\ ext'[i].amount > 0
                 /\ ext'[i].parent # 0 =>
                        row'[ext'[i].parent].stored /\ ext'[ext'[i].parent].parent = 0
      BY <2>1, <2>2, <2>3 DEF Lineage, Trades
    <2>4. ASSUME NEW u \in Sellers, NEW s \in job'[u].todo
          PROVE  ext'[s.id].parent = 0
      <3>1. u \in Tasks /\ s \in job[u].todo
        BY <2>1, <2>4, TaskKinds, NoJobType
      <3>2. s.id \in Ids
        BY <3>1 DEF Sound, Shaped, Shape
      <3> QED
        BY <2>1, <3>1, <3>2 DEF Lineage, Trades
    <2>5. ASSUME NEW u \in Tasks, pc'[u] \in SellCreation
          PROVE  ext'[job'[u].id].parent = job'[u].cur.id
      <3>1. pc[u] \in SellCreation /\ job'[u] = job[u]
        BY <2>1, <2>5 DEF SellCreation
      <3>2. job[u].id \in Ids
        BY <3>1, InHand, StepNames DEF SellCreation
      <3> QED
        BY <2>1, <3>1, <3>2 DEF Lineage, Trades
    <2> QED
      BY <2>3, <2>4, <2>5 DEF Lineage
  <1> QED
    BY <1>1, <1>2

-----------------------------------------------------------------------------
(* Who has an order in hand.                                               *)

\* One task has an order in hand, and a checker runs when no other task does.
OneHolder ==
    \A t, u \in Tasks : pc[t] \in Holding /\ pc[u] \in Holding /\ job[t].id = job[u].id => t = u

LEMMA HolderIsOne ==
    ASSUME Sound, Alone, ~Overlap
    PROVE  OneHolder
  <1> SUFFICES ASSUME NEW t \in Tasks, NEW u \in Tasks, pc[t] \in Holding, pc[u] \in Holding,
                      job[t].id = job[u].id
               PROVE  t = u
    BY DEF OneHolder
  <1>1. pc[t] # "idle" /\ pc[u] # "idle"
    BY StepNames
  <1>2. CASE t \in Checkers \/ u \in Checkers
    BY <1>1, <1>2 DEF Alone
  <1>3. CASE t \notin Checkers /\ u \notin Checkers
    BY <1>3, TaskKinds DEF Sound, Creators
  <1> QED
    BY <1>2, <1>3

LEMMA NextAloneFaults ==
    ASSUME Sound, Lineage, Alone, [Next]_vars
    PROVE  Alone'
  <1> SUFFICES ASSUME ~Overlap, NEW k \in Checkers, pc'[k] # "idle", NEW u \in Tasks \ {k},
                      pc'[u] # "idle"
               PROVE  FALSE
    BY DEF Alone
  <1>0. k \in Tasks
    BY TaskKinds
  <1>1. CASE \E t \in Tasks : StepSound(t) /\ Motion(t)
    <2> PICK t \in Tasks : StepSound(t) /\ Motion(t)
      BY <1>1
    <2>1. \A v \in Tasks \ {t} : pc'[v] = pc[v]
      BY DEF StepSound, Others
    <2>2. CASE pc[t] # "idle"
      BY <1>0, <2>1, <2>2 DEF Alone
    <2>3. CASE pc[t] = "idle"
      <3>1. Starts(t)
        BY <2>3, StepNames DEF Motion, Leaves, Places, Turns, Works
      <3>2. IF t \in Checkers THEN Idle(Tasks) ELSE Idle(Checkers)
        BY <3>1 DEF Starts
      <3>3. t = k \/ t = u
        BY <1>0, <2>1, <2>3 DEF Alone
      <3> QED
        BY <1>0, <2>1, <3>2, <3>3 DEF Idle
    <2> QED
      BY <2>2, <2>3
  <1>2. CASE ~ \E t \in Tasks : StepSound(t) /\ Motion(t)
    <2>1. \/ UNCHANGED pc
          \/ \A t \in Tasks : pc'[t] = "idle"
      BY <1>2, MotionKinds, OtherSteps
    <2> QED
      BY <1>0, <2>1 DEF Alone
  <1> QED
    BY <1>1, <1>2

-----------------------------------------------------------------------------
(* What was sold of a position, faults included.                           *)

\* Sell runs follow one another.
OneSeller == \A s, u \in Sellers : s = u

\* A sell order that a check will treat, or that is about to be settled, is unfilled.
Waiting ==
    \A t \in Tasks :
        /\ t \in Checkers => \A s \in job[t].todo : ext[s.id].parent # 0 => s.id \in Unfilled
        /\ pc[t] \in {"s_out", "s_preclose", "c_close"} => job[t].id \in Unfilled

\* What is written to closed_amount counts the order in hand once more.
Seen ==
    \A t \in Tasks :
        /\ pc[t] \in SellFilling => ext[job[t].id].status = "closed"
        /\ pc[t] = "c_parent" =>
            job[t].seen = row[ext[job[t].id].parent].closed_amount + ext[job[t].id].filled

\* The sell orders of p that are done with, and were counted in closed_amount if they filled.
Done(p, i) ==
    ext[i].parent = p /\ row[i].stored /\ i \notin Unfilled /\ ~At(SellFilling, i)

DoneOf(p) == [i \in Ids |-> IF Done(p, i) THEN ext[i].filled ELSE 0]

Counted == \A p \in BuyRows : row[p].closed_amount <= Total(DoneOf(p))

Closed == Alone /\ Closing /\ Waiting /\ Seen /\ Counted

LEMMA IdsFinite == IsFiniteSet(Ids)
  BY FS_Interval, OrderAssumption DEF Ids

LEMMA TotalGrows ==
    ASSUME NEW f, NEW e, \A i \in Ids : f[i] \in Int /\ e[i] \in Int /\ f[i] <= e[i]
    PROVE  Total(f) <= Total(e)
  BY IdsFinite, SumMonotone DEF Total

LEMMA TotalChanges ==
    ASSUME NEW f, NEW e, NEW x \in Ids, \A i \in Ids : f[i] \in Int /\ e[i] \in Int,
           \A i \in Ids \ {x} : e[i] = f[i]
    PROVE  Total(e) = Total(f) - f[x] + e[x]
  <1>1. \A y \in Ids : f[y] \in Int /\ e[y] \in Int
    OBVIOUS
  <1> QED
    BY <1>1, IdsFinite, SumChange DEF Total

LEMMA DoneType ==
    ASSUME Sound, NEW p
    PROVE  /\ \A i \in Ids : DoneOf(p)[i] \in Nat /\ DoneOf(p)[i] \in Int
           /\ Total(DoneOf(p)) \in Nat
  <1>1. \A i \in Ids : ext[i].filled \in Nat
    BY DEF Sound, TypeOK, ExtOrder
  <1>2. \A i \in Ids : DoneOf(p)[i] \in Nat
    BY <1>1 DEF DoneOf
  <1>3. Total(DoneOf(p)) \in Nat
    BY <1>2, IdsFinite, SumNat DEF Total
  <1> QED
    BY <1>2, <1>3

\* How a step of a task changes which orders are unfilled.
LEMMA UnfilledMoves ==
    ASSUME Sound, Sound', Lineage, NEW t \in Tasks, StepSound(t), Motion(t), NEW i \in Ids
    PROVE  /\ i \in Unfilled /\ ext[i].parent # 0 =>
                \/ i \in Unfilled'
                \/ Works(t) /\ pc[t] \in {"c_close", "k_off"} /\ i = job[t].id
           /\ i \in Unfilled' =>
                \/ i \in Unfilled
                \/ Works(t) /\ pc[t] \in {"b_record", "s_record"} /\ i = job[t].id
  <1>1. Unfilled = Unfilled' \/ Works(t)
    <2>1. CASE UNCHANGED row
      BY <2>1, SameUnfilled
    <2> QED
      BY <2>1 DEF Motion, Starts, Leaves, Places, Turns
  <1>2. ASSUME Works(t), row[i].stored
        PROVE  /\ i \in Unfilled /\ ext[i].parent # 0 =>
                    \/ i \in Unfilled'
                    \/ pc[t] \in {"c_close", "k_off"} /\ i = job[t].id
               /\ i \in Unfilled' => i \in Unfilled
    <2>1. Fields(t) /\ pc[t] \in Holding
      BY <1>2 DEF Works
    <2>2. /\ row'[i].stored /\ row'[i].amount1 = row[i].amount1
          /\ row'[i].filled = IF pc[t] \in {"f_row", "c_close"} /\ i = job[t].id
                              THEN ext[i].filled ELSE row[i].filled
          /\ row'[i].isActive => row[i].isActive
          /\ row[i].isActive /\ ~(pc[t] \in {"c_close", "r_off", "k_off"} /\ i = job[t].id)
                /\ ~(pc[t] = "c_parent" /\ i = ext[job[t].id].parent) => row'[i].isActive
      BY <1>2, <2>1 DEF Fields
    <2>3. row[i].amount1 = ext[i].amount /\ ext[i].amount \in Nat
      BY <1>2 DEF Sound, OrdersSound, TypeOK, ExtOrder
    <2>4. pc[t] \in {"f_row", "c_close"} /\ i = job[t].id => ext[i].filled = ext[i].amount
      BY DEF Sound, Shaped, Shape, OrdersSound
    <2>5. pc[t] = "c_parent" /\ i = ext[job[t].id].parent => ext[i].parent = 0
      <3>1. pc[t] = "c_parent" => job[t].id \in Ids /\ Placed(job[t].id)
        BY InHand, StepNames
      <3>2. 0 \notin Ids
        BY DEF Ids
      <3> QED
        BY <3>1, <3>2 DEF Lineage
    <2>6. pc[t] \in {"f_row", "r_off"} /\ i = job[t].id => ext[i].parent = 0
      BY <2>1, InHand DEF OfBuys, BuyFilling, BuyBacking
    <2> QED
      BY <1>2, <2>2, <2>3, <2>4, <2>5, <2>6 DEF Unfilled
  <1>3. ASSUME Works(t), ~row[i].stored
        PROVE  /\ i \notin Unfilled
               /\ i \in Unfilled' => pc[t] \in {"b_record", "s_record"} /\ i = job[t].id
    <2>1. Fields(t)
      BY <1>3 DEF Works
    <2> QED
      BY <1>3, <2>1 DEF Fields, Unfilled
  <1> QED
    BY <1>1, <1>2, <1>3

\* A stored order that is not unfilled stays so.
LEMMA StaysFilled ==
    ASSUME Sound, Sound', Lineage, NEW t \in Tasks, StepSound(t), Motion(t), NEW i \in Ids,
           row[i].stored, i \notin Unfilled
    PROVE  row'[i].stored /\ i \notin Unfilled'
  <1>1. row'[i].stored
    BY DEF StepSound, Evolves
  <1>2. CASE Works(t) /\ pc[t] \in {"b_record", "s_record"} /\ i = job[t].id
    BY <1>2, InHand DEF Works
  <1> QED
    BY <1>1, <1>2, UnfilledMoves

\* How the order in hand is come by.
LEMMA HandMoves ==
    ASSUME Sound, NEW t \in Tasks, Motion(t), pc'[t] \in Holding
    PROVE  \/ /\ Works(t) /\ pc[t] \in Holding /\ <<pc[t], pc'[t]>> \in Flows
              /\ job'[t].id = job[t].id /\ job'[t].todo = job[t].todo /\ job'[t].cur = job[t].cur
           \/ /\ Places(t) /\ pc'[t] \in {"b_record", "s_record"}
              /\ job'[t].id = NextId /\ ~Placed(NextId)
           \/ Turns(t)
  <1>1. CASE Works(t)
    BY <1>1, StepNames DEF Works, Onward
  <1>2. CASE Places(t)
    <2>1. /\ RoomToOrder
          /\ \/ pc'[t] \in {"b_record", "s_record"} /\ job'[t].id = NextId
             \/ pc'[t] = "idle"
      BY <1>2 DEF Places
    <2>2. ~Placed(NextId)
      BY <2>1, NextIdIsNew DEF Sound
    <2> QED
      BY <1>2, <2>1, <2>2, StepNames
  <1>3. CASE Starts(t) \/ Leaves(t)
    BY <1>3, StepNames DEF Starts, Leaves
  <1> QED
    BY <1>1, <1>2, <1>3 DEF Motion

LEMMA ClosingMoves ==
    ASSUME Sound, Sound', Lineage, Closing, NEW t \in Tasks, StepSound(t), Motion(t)
    PROVE  Closing'
  <1> DEFINE After == {"f_income", "f_fee", "c_income", "c_fee", "c_find", "c_parent"}
  <1> SUFFICES ASSUME NEW u \in Tasks, pc'[u] \in After
               PROVE  job'[u].id \notin Unfilled'
    BY DEF Closing
  <1>1. Others(t) /\ pc \in [Tasks -> Steps]
    BY DEF StepSound, Sound, TypeOK
  <1>2. ASSUME pc[u] \in After, job'[u].id = job[u].id
        PROVE  job'[u].id \notin Unfilled'
    <2>1. job[u].id \in Ids /\ row[job[u].id].stored /\ job[u].id \notin Unfilled
      BY <1>2, InHand, StepNames DEF Closing
    <2> QED
      BY <1>2, <2>1, StaysFilled
  <1>3. CASE u # t
    BY <1>1, <1>2, <1>3 DEF Others
  <1>4. CASE u = t
    <2>1. /\ Works(t) /\ <<pc[t], pc'[t]>> \in Flows /\ job'[t].id = job[t].id
      BY <1>4, HandMoves, StepNames DEF Turns
    <2>2. pc[t] \in After \cup {"f_row", "c_close"}
      BY <1>4, <2>1 DEF Flows
    <2>3. CASE pc[t] \in {"f_row", "c_close"}
      <3>1. /\ job[t].id \in Ids /\ row[job[t].id].stored
            /\ row[job[t].id].amount1 = ext[job[t].id].amount
            /\ ext[job[t].id].amount \in Nat
        BY <2>3, InHand, StepNames DEF Sound, TypeOK, ExtOrder
      <3>2. ext[job[t].id].filled = ext[job[t].id].amount
        BY <2>3, <3>1 DEF Sound, Shaped, Shape, OrdersSound
      <3>3. /\ row'[job[t].id].filled = ext[job[t].id].filled
            /\ row'[job[t].id].amount1 = row[job[t].id].amount1
        BY <2>1, <2>3, <3>1 DEF Works, Fields
      <3> QED
        BY <1>4, <2>1, <3>1, <3>2, <3>3 DEF Unfilled
    <2> QED
      BY <1>2, <1>4, <2>1, <2>2, <2>3
  <1> QED
    BY <1>3, <1>4

\* An order on the exchange stays as it is while a task moves.
LEMMA OrderStays ==
    ASSUME Sound, NEW t \in Tasks, Motion(t), NEW i \in Ids, Placed(i)
    PROVE  ext'[i] = ext[i]
  <1>1. CASE UNCHANGED ext
    BY <1>1
  <1>2. CASE Places(t)
    <2>1. PICK p \in 0..MaxOrders, amount \in Nat, full \in BOOLEAN :
              RoomToOrder /\ Accept(NextId, p, amount, full)
      BY <1>2 DEF Places
    <2> QED
      BY <2>1, PlacedOrder
  <1> QED
    BY <1>1, <1>2 DEF Motion, Starts, Leaves, Turns, Works

\* A checker with rows to treat is not idle.
LEMMA ListedBusy ==
    ASSUME Sound, NEW t \in Tasks, NEW s \in job[t].todo
    PROVE  pc[t] # "idle" /\ s.id \in Ids /\ Placed(s.id)
  BY NoJobType DEF Sound, Shaped, Shape, OrdersSound

LEMMA WaitingMoves ==
    ASSUME Sound, Sound', Lineage, Alone, OneHolder, ~Overlap, Waiting,
           NEW t \in Tasks, StepSound(t), Motion(t)
    PROVE  Waiting'
  <1>1. Others(t) /\ Evolves
    BY DEF StepSound
  <1>2. ASSUME NEW i \in Ids, i \in Unfilled, ext[i].parent # 0,
               ~(pc[t] \in {"c_close", "k_off"} /\ i = job[t].id)
        PROVE  i \in Unfilled'
    BY <1>2, UnfilledMoves
  <1>3. ASSUME NEW u \in Tasks, u \in Checkers, NEW s \in job'[u].todo, ext'[s.id].parent # 0
        PROVE  s.id \in Unfilled'
    <2>1. ASSUME s \in job[u].todo
          PROVE  s.id \in Unfilled'
      <3>1. pc[u] # "idle" /\ s.id \in Ids /\ Placed(s.id)
        BY <2>1, ListedBusy
      <3>2. ext[s.id].parent # 0 /\ s.id \in Unfilled
        BY <1>1, <1>3, <2>1, <3>1 DEF Evolves, Waiting
      <3>3. ~(pc[t] \in {"c_close", "k_off"} /\ s.id = job[t].id)
        <4>1. CASE u = t
          <5>1. pc[t] \in Holding => s.id # job[t].id
            BY <1>3, <2>1, <4>1 DEF Sound, Shaped, Shape
          <5> QED
            BY <5>1, StepNames
        <4>2. CASE u # t
          BY <1>3, <3>1, <4>2 DEF Alone
        <4> QED
          BY <4>1, <4>2
      <3> QED
        BY <1>2, <3>1, <3>2, <3>3
    <2>2. CASE u = t /\ Starts(t)
      <3>1. s.id \in Unfilled /\ UNCHANGED row
        BY <1>3, <2>2 DEF Starts
      <3> QED
        BY <3>1, SameUnfilled
    <2>3. CASE ~(u = t /\ Starts(t))
      <3>1. job'[u].todo \subseteq job[u].todo
        BY <1>1, <2>3 DEF Others, Motion, Leaves, Places, Turns, Works, Onward
      <3> QED
        BY <1>3, <2>1, <3>1
    <2> QED
      BY <2>2, <2>3
  <1>4. ASSUME NEW u \in Tasks, pc'[u] \in {"s_out", "s_preclose", "c_close"}
        PROVE  job'[u].id \in Unfilled'
    <2>1. ASSUME pc[u] \in {"s_out", "s_preclose", "c_close"},
                 pc[t] \in {"c_close", "k_off"} => job[u].id # job[t].id
          PROVE  job[u].id \in Unfilled'
      <3>1. job[u].id \in Ids /\ ext[job[u].id].parent # 0
        <4>1. job[u].id \in Ids /\ ext[job[u].id].parent \in Ids
          BY <2>1, InHand, StepNames DEF OfSells, SellCreation, SellFilling
        <4> QED
          BY <4>1 DEF Ids
      <3> QED
        BY <1>2, <2>1, <3>1 DEF Waiting
    <2>2. CASE u # t
      <3>1. pc[u] \in {"s_out", "s_preclose", "c_close"} /\ job'[u] = job[u]
        BY <1>1, <1>4, <2>2 DEF Others
      <3>2. pc[t] \in {"c_close", "k_off"} => job[u].id # job[t].id
        BY <2>2, <3>1, StepNames DEF OneHolder
      <3> QED
        BY <2>1, <3>1, <3>2
    <2>3. CASE u = t
      <3>1. CASE Works(t) /\ <<pc[t], pc'[t]>> \in Flows /\ job'[t].id = job[t].id
        <4>1. pc[t] \in {"s_record", "s_out", "s_preclose"}
          BY <1>4, <2>3, <3>1 DEF Flows
        <4>2. CASE pc[t] \in {"s_out", "s_preclose"}
          BY <2>1, <2>3, <3>1, <4>2
        <4>3. CASE pc[t] = "s_record"
          <5>1. /\ job[t].id \in Ids /\ ~row[job[t].id].stored /\ Placed(job[t].id)
                /\ ext[job[t].id].amount > 0
            BY <4>3, InHand, StepNames DEF Lineage
          <5>2. /\ row'[job[t].id].stored /\ row'[job[t].id].isActive
                /\ row'[job[t].id].filled = 0
            BY <3>1, <4>3, <5>1 DEF Works, Fields
          <5>3. row'[job[t].id].amount1 = ext'[job[t].id].amount
            BY <5>1, <5>2 DEF Sound, OrdersSound
          <5>4. ext'[job[t].id].amount = ext[job[t].id].amount
            BY <1>1, <5>1 DEF Evolves
          <5> QED
            BY <2>3, <3>1, <5>1, <5>2, <5>3, <5>4 DEF Unfilled
        <4> QED
          BY <4>1, <4>2, <4>3
      <3>2. CASE Turns(t)
        <4>1. PICK s \in job[t].todo : job'[t].id = s.id
          BY <3>2 DEF Turns
        <4>2. t \in Checkers /\ UNCHANGED row /\ ext[s.id].parent # 0
          BY <1>4, <2>3, <3>2, <4>1 DEF Turns
        <4> QED
          BY <2>3, <4>1, <4>2, SameUnfilled DEF Waiting
      <3>3. pc'[t] \in Holding /\ pc'[t] \notin {"b_record", "s_record"}
        BY <1>4, <2>3, StepNames
      <3> QED
        BY <3>1, <3>2, <3>3, HandMoves
    <2> QED
      BY <2>2, <2>3
  <1> QED
    BY <1>3, <1>4 DEF Waiting

LEMMA SeenMoves ==
    ASSUME Sound, Sound', Lineage, Alone, ~Overlap, OneSeller, Seen,
           NEW t \in Tasks, StepSound(t), Motion(t)
    PROVE  Seen'
  <1>1. Others(t) /\ Evolves
    BY DEF StepSound
  <1>2. ASSUME NEW u \in Tasks, pc[u] \in SellFilling
        PROVE  /\ job[u].id \in Ids /\ Placed(job[u].id) /\ ext'[job[u].id] = ext[job[u].id]
               /\ ext[job[u].id].status = "closed"
               /\ ext[job[u].id].parent \in Ids /\ row[ext[job[u].id].parent].stored
    <2>1. job[u].id \in Ids /\ Placed(job[u].id) /\ ext[job[u].id].parent \in Ids
      BY <1>2, InHand DEF Holding, OfSells
    <2>2. ext[job[u].id].parent # 0
      BY <2>1 DEF Ids
    <2> QED
      BY <1>2, <2>1, <2>2, OrderStays DEF Seen, Lineage
  <1>3. ASSUME NEW u \in Tasks, pc'[u] \in SellFilling
        PROVE  ext'[job'[u].id].status = "closed"
    <2>1. CASE pc[u] \in SellFilling /\ job'[u].id = job[u].id
      BY <1>2, <2>1
    <2>2. CASE pc'[u] \in {"c_close", "c_income"}
      BY <2>2 DEF Sound, Shaped, Shape
    <2>3. CASE u # t
      BY <1>1, <1>3, <2>1, <2>3 DEF Others
    <2>4. CASE u = t /\ pc'[u] \notin {"c_close", "c_income"}
      <3>1. <<pc[t], pc'[t]>> \in Flows /\ job'[t].id = job[t].id
        <4>1. pc'[t] \in {"c_fee", "c_find", "c_parent"}
          BY <1>3, <2>4 DEF SellFilling
        <4> QED
          BY <4>1, HandMoves, StepNames DEF Turns
      <3>2. pc[t] \in SellFilling
        BY <1>3, <2>4, <3>1 DEF Flows, SellFilling
      <3> QED
        BY <2>1, <2>4, <3>1, <3>2
    <2> QED
      BY <2>2, <2>3, <2>4
  <1>4. ASSUME NEW u \in Tasks, pc'[u] = "c_parent"
        PROVE  job'[u].seen = row'[ext'[job'[u].id].parent].closed_amount
                                + ext'[job'[u].id].filled
    <2>1. CASE u = t
      <3>1. Works(t) /\ <<pc[t], pc'[t]>> \in Flows /\ job'[t].id = job[t].id
        BY <1>4, <2>1, HandMoves, StepNames DEF Turns
      <3>2. pc[t] = "c_find"
        BY <1>4, <2>1, <3>1 DEF Flows
      <3>3. job'[t].seen = row[ext[job[t].id].parent].closed_amount + ext[job[t].id].filled
        BY <1>4, <2>1, <3>1, <3>2 DEF Works, Onward, Ends
      <3>4. /\ ext' = ext /\ ext[job[t].id].parent \in Ids
            /\ row[ext[job[t].id].parent].stored
        BY <1>2, <3>1, <3>2 DEF Works, SellFilling
      <3>5. row'[ext[job[t].id].parent].closed_amount = row[ext[job[t].id].parent].closed_amount
        BY <3>1, <3>2, <3>4 DEF Works, Fields
      <3> QED
        BY <2>1, <3>1, <3>3, <3>4, <3>5
    <2>2. CASE u # t
      <3>1. pc[u] = "c_parent" /\ job'[u] = job[u] /\ pc[u] \in SellFilling
        BY <1>1, <1>4, <2>2 DEF Others, SellFilling
      <3> DEFINE p == ext[job[u].id].parent
      <3>2. p \in Ids /\ row[p].stored /\ ext'[job[u].id] = ext[job[u].id]
        BY <1>2, <3>1
      <3>3. row'[p].closed_amount = row[p].closed_amount
        <4>1. CASE UNCHANGED row
          BY <4>1
        <4>2. CASE Works(t)
          <5>1. pc[t] # "c_parent"
            <6>1. ASSUME pc[t] = "c_parent" PROVE FALSE
              <7>1. t \notin Buyers /\ u \notin Buyers
                BY <3>1, <6>1, WhoStands DEF SellFilling
              <7>2. t \notin Checkers /\ u \notin Checkers
                BY <2>2, <3>1, <6>1 DEF Alone
              <7> QED
                BY <2>2, <7>1, <7>2, TaskKinds DEF OneSeller
            <6> QED
              BY <6>1
          <5> HIDE DEF p
          <5> QED
            BY <3>2, <4>2, <5>1 DEF Works, Fields
        <4> QED
          BY <4>1, <4>2 DEF Motion, Starts, Leaves, Places, Turns
      <3>4. job[u].seen = row[p].closed_amount + ext[job[u].id].filled
        BY <3>1 DEF Seen
      <3> QED
        BY <3>1, <3>2, <3>3, <3>4
    <2> QED
      BY <2>1, <2>2
  <1> QED
    BY <1>3, <1>4 DEF Seen

\* A sell order that is done with stays so.
LEMMA DoneStays ==
    ASSUME Sound, Sound', Lineage, OneHolder, Waiting, NEW t \in Tasks, StepSound(t), Motion(t),
           NEW p, NEW k \in Ids, Done(p, k), ext[k].parent # 0
    PROVE  Done(p, k)' /\ ext'[k] = ext[k]
  <1>1. Others(t)
    BY DEF StepSound
  <1>2. row[k].stored /\ k \notin Unfilled /\ ~At(SellFilling, k) /\ ext[k].parent = p
    BY DEF Done
  <1>3. row'[k].stored /\ k \notin Unfilled' /\ ext'[k] = ext[k]
    BY <1>2, StaysFilled, OrderStays DEF Sound, OrdersSound
  <1>4. ASSUME NEW u \in Tasks, pc'[u] \in SellFilling, job'[u].id = k
        PROVE  FALSE
    <2>1. CASE u # t
      BY <1>1, <1>2, <1>4, <2>1 DEF Others, At
    <2>2. CASE u = t
      <3>1. CASE <<pc[t], pc'[t]>> \in Flows /\ job'[t].id = job[t].id
        <4>1. pc[t] \in SellFilling \/ pc[t] = "s_preclose"
          BY <1>4, <2>2, <3>1 DEF Flows, SellFilling
        <4> QED
          BY <1>2, <1>4, <2>2, <3>1, <4>1 DEF At, Waiting
      <3>2. CASE Turns(t)
        BY <1>2, <1>4, <2>2, <3>2 DEF Turns, Waiting
      <3>3. pc'[t] \in Holding /\ pc'[t] \notin {"b_record", "s_record"}
        BY <1>4, <2>2, StepNames DEF SellFilling
      <3> QED
        BY <3>1, <3>2, <3>3, HandMoves
    <2> QED
      BY <2>1, <2>2
  <1> QED
    BY <1>2, <1>3, <1>4 DEF Done, At

\* The order in hand is done with, and had not been counted, when its parent is written.
LEMMA DoneNow ==
    ASSUME Sound, Sound', Lineage, Closing, OneHolder, NEW t \in Tasks, StepSound(t),
           Works(t), pc[t] = "c_parent", NEW i, i = job[t].id, NEW p, p = ext[i].parent
    PROVE  /\ i \in Ids /\ p \in Ids /\ ext' = ext /\ ~Done(p, i) /\ Done(p, i)'
           /\ row'[p].closed_amount = job[t].seen /\ row[p].stored
  <1>1. Others(t) /\ ext' = ext /\ pc[t] \in Holding
    BY StepNames DEF StepSound, Works
  <1>2. i \in Ids /\ p \in Ids /\ row[i].stored /\ Placed(i)
    BY <1>1, InHand DEF OfSells, SellFilling
  <1>3. row[p].stored
    <2>1. p # 0
      BY <1>2 DEF Ids
    <2> QED
      BY <1>2, <2>1 DEF Lineage
  <1>4. row'[p].closed_amount = job[t].seen
    BY <1>2, <1>3 DEF Works, Fields
  <1>5. At(SellFilling, i)
    BY DEF At, SellFilling
  <1>6. row'[i].stored /\ i \notin Unfilled'
    BY <1>2, StaysFilled DEF Closing, Motion
  <1>7. ASSUME NEW u \in Tasks, pc'[u] \in SellFilling, job'[u].id = i
        PROVE  FALSE
    <2>1. CASE u = t
      <3>1. pc'[t] \in {"idle", "sell", "fetch"}
        BY DEF Works, Onward, Flows
      <3> QED
        BY <1>7, <2>1, <3>1 DEF SellFilling
    <2>2. CASE u # t
      <3>1. pc[u] \in SellFilling /\ job[u].id = i
        BY <1>1, <1>7, <2>2 DEF Others
      <3> QED
        BY <1>1, <2>2, <3>1 DEF OneHolder, Holding, OfSells
    <2> QED
      BY <2>1, <2>2
  <1> QED
    BY <1>1, <1>2, <1>3, <1>4, <1>5, <1>6, <1>7 DEF Done, At

\* What DoneOf and its total are after a step.
LEMMA DoneNext ==
    ASSUME Sound', NEW p
    PROVE  /\ (Total(DoneOf(p)))' = Total(DoneOf(p)')
           /\ \A i \in Ids : /\ DoneOf(p)'[i] \in Nat
                             /\ DoneOf(p)'[i] = IF Done(p, i)' THEN ext'[i].filled ELSE 0
  <1>1. \A i \in Ids : ext'[i].filled \in Nat
    BY DEF Sound, TypeOK, ExtOrder
  <1>2. \A i \in Ids : DoneOf(p)'[i] = IF Done(p, i)' THEN ext'[i].filled ELSE 0
    BY DEF DoneOf, Ids
  <1>3. (Total(DoneOf(p)))' = Total(DoneOf(p)')
    BY DEF Total, Ids
  <1> QED
    BY <1>1, <1>2, <1>3

LEMMA CountedMoves ==
    ASSUME Sound, Sound', Lineage, Closing, OneHolder, Waiting, Seen, Counted,
           NEW t \in Tasks, StepSound(t), Motion(t)
    PROVE  Counted'
  <1> SUFFICES ASSUME NEW p \in Ids, row'[p].stored, row'[p].parent = 0
               PROVE  row'[p].closed_amount <= (Total(DoneOf(p)))'
    BY DEF Counted, BuyRows, IsBuy, Ids
  <1> DEFINE D == DoneOf(p)
             E == DoneOf(p)'
  <1>1. /\ (Total(DoneOf(p)))' = Total(E)
        /\ \A i \in Ids : E[i] \in Nat /\ E[i] = IF Done(p, i)' THEN ext'[i].filled ELSE 0
    BY DoneNext
  <1>2. /\ \A i \in Ids : D[i] \in Nat /\ D[i] = IF Done(p, i) THEN ext[i].filled ELSE 0
        /\ Total(D) \in Nat
    BY DoneType DEF DoneOf
  <1>3. \A i \in Ids : ext[i].filled \in Nat
    BY DEF Sound, TypeOK, ExtOrder
  <1>4. ASSUME NEW k \in Ids
        PROVE  D[k] <= E[k]
    <2>1. CASE Done(p, k) /\ ext[k].parent # 0
      BY <1>1, <1>2, <1>3, <2>1, DoneStays
    <2>2. CASE ~Done(p, k)
      BY <1>1, <1>2, <2>2
    <2>3. p # 0
      BY DEF Ids
    <2> QED
      BY <2>1, <2>2, <2>3 DEF Done
  <1>5. Total(E) \in Nat
    BY <1>1, IdsFinite, SumNat DEF Total
  <1> HIDE DEF D, E
  <1>6. Total(D) <= Total(E)
    BY <1>1, <1>2, <1>4, TotalGrows
  <1>7. CASE ~row[p].stored
    <2>1. row'[p] # row[p]
      BY <1>7
    <2>2. Works(t)
      BY <2>1 DEF Motion, Starts, Leaves, Places, Turns
    <2>3. row'[p].closed_amount = 0
      BY <1>7, <2>1, <2>2 DEF Works, Fields
    <2> QED
      BY <1>1, <1>5, <2>3
  <1>8. CASE row[p].stored /\ row'[p].closed_amount = row[p].closed_amount
    <2>1. row[p].closed_amount \in Int
      BY DEF Sound, TypeOK, OrderRow
    <2>2. row[p].parent = 0
      <3>1. Placed(p) /\ row[p].parent = ext[p].parent /\ row'[p].parent = ext'[p].parent
        BY <1>8 DEF Sound, OrdersSound
      <3> QED
        BY <3>1, OrderStays
    <2>3. row[p].closed_amount <= Total(D)
      BY <1>8, <2>2 DEF Counted, BuyRows, IsBuy, D
    <2> QED
      BY <1>1, <1>2, <1>5, <1>6, <1>8, <2>1, <2>3
  <1>9. CASE row[p].stored /\ row'[p].closed_amount # row[p].closed_amount
    <2>1. Works(t)
      BY <1>9 DEF Motion, Starts, Leaves, Places, Turns
    <2>2. pc[t] = "c_parent" /\ p = ext[job[t].id].parent
      BY <1>9, <2>1 DEF Works, Fields
    <2> PICK i : i = job[t].id
      OBVIOUS
    <2>3. /\ i \in Ids /\ ext' = ext /\ ~Done(p, i) /\ Done(p, i)'
          /\ row'[p].closed_amount = job[t].seen
      BY <2>1, <2>2, DoneNow
    <2>4. job[t].seen = row[p].closed_amount + ext[i].filled
      BY <2>2 DEF Seen
    <2>5. row[p].closed_amount \in Int /\ row[p].closed_amount <= Total(D)
      <3>1. row[p].parent = 0
        <4>1. Placed(p) /\ row[p].parent = ext[p].parent /\ row'[p].parent = ext'[p].parent
          BY <1>9 DEF Sound, OrdersSound
        <4> QED
          BY <4>1, OrderStays
      <3> QED
        BY <1>9, <3>1 DEF Counted, BuyRows, IsBuy, Sound, TypeOK, OrderRow, D
    <2> DEFINE F == [k \in Ids |-> IF k = i THEN ext[i].filled ELSE D[k]]
    <2>6. /\ \A k \in Ids : D[k] \in Int /\ F[k] \in Int
          /\ \A k \in Ids \ {i} : F[k] = D[k]
      BY <1>2, <1>3, <2>3
    <2>7. D[i] = 0 /\ F[i] = ext[i].filled /\ E[i] = ext[i].filled
      BY <1>1, <1>2, <2>3
    <2>8. \A k \in Ids : F[k] <= E[k] /\ E[k] \in Int
      BY <1>1, <1>3, <1>4, <2>3, <2>7
    <2> HIDE DEF F
    <2>9. Total(F) = Total(D) - D[i] + F[i]
      BY ZenonT(60), <2>3, <2>6, TotalChanges
    <2>10. Total(F) <= Total(E)
      BY <2>6, <2>8, TotalGrows
    <2> QED
      BY <1>1, <1>2, <1>3, <1>5, <2>3, <2>4, <2>5, <2>7, <2>9, <2>10
  <1> QED
    BY <1>7, <1>8, <1>9

\* What a crash or the exchange does to all this.
LEMMA ClosedStays ==
    ASSUME Sound, Sound', Lineage, Closing, Waiting, Seen, Counted,
           UNCHANGED <<row, posted>>, Trades, Evolves,
           \/ UNCHANGED <<pc, job>>
           \/ \A t \in Tasks : pc'[t] = "idle" /\ job'[t] = NoJob
    PROVE  Closing' /\ Waiting' /\ Seen' /\ Counted'
  <1>1. Unfilled' = Unfilled
    BY SameUnfilled
  <1>2. ASSUME NEW u \in Tasks, pc'[u] # "idle"
        PROVE  pc[u] = pc'[u] /\ job'[u] = job[u]
    BY <1>2
  <1>3. Closing'
    <2> SUFFICES ASSUME NEW u \in Tasks,
                        pc'[u] \in {"f_income", "f_fee", "c_income", "c_fee", "c_find", "c_parent"}
                 PROVE  job'[u].id \notin Unfilled'
      BY DEF Closing
    <2> QED
      BY <1>1, <1>2 DEF Closing
  <1>4. Waiting'
    <2>1. ASSUME NEW u \in Tasks, u \in Checkers, NEW s \in job'[u].todo, ext'[s.id].parent # 0
          PROVE  s.id \in Unfilled'
      <3>1. s \in job[u].todo
        BY <2>1, NoJobType
      <3>2. s.id \in Ids
        BY <3>1, ListedBusy
      <3> QED
        BY <1>1, <2>1, <3>1, <3>2 DEF Waiting, Trades
    <2>2. ASSUME NEW u \in Tasks, pc'[u] \in {"s_out", "s_preclose", "c_close"}
          PROVE  job'[u].id \in Unfilled'
      BY <1>1, <1>2, <2>2 DEF Waiting
    <2> QED
      BY <2>1, <2>2 DEF Waiting
  <1>5. Seen'
    <2> SUFFICES ASSUME NEW u \in Tasks, pc'[u] \in SellFilling
                 PROVE  /\ ext'[job'[u].id].status = "closed"
                        /\ pc'[u] = "c_parent" =>
                             job'[u].seen = row'[ext'[job'[u].id].parent].closed_amount
                                              + ext'[job'[u].id].filled
      BY DEF Seen, SellFilling
    <2>1. pc[u] = pc'[u] /\ job'[u] = job[u]
      BY <1>2 DEF SellFilling
    <2> PICK i : i = job[u].id
      OBVIOUS
    <2>2. i \in Ids /\ ext[i].status = "closed"
      BY <2>1, InHand DEF Seen, Holding, OfSells
    <2>3. ext'[i].status = "closed" /\ ext'[i].parent = ext[i].parent
          /\ ext'[i].amount = ext[i].amount
      BY <2>2 DEF Trades, Evolves
    <2>4. ext[i].filled = ext[i].amount /\ ext'[i].filled = ext'[i].amount
      BY <2>2, <2>3 DEF Sound, OrdersSound
    <2> QED
      BY <2>1, <2>3, <2>4 DEF Seen
  <1>6. Counted'
    <2> SUFFICES ASSUME NEW p \in Ids, row[p].stored, row[p].parent = 0
                 PROVE  row[p].closed_amount <= (Total(DoneOf(p)))'
      BY DEF Counted, BuyRows, IsBuy, Ids
    <2> DEFINE D == DoneOf(p)
               E == DoneOf(p)'
    <2>1. /\ (Total(DoneOf(p)))' = Total(E)
          /\ \A i \in Ids : E[i] \in Nat /\ E[i] = IF Done(p, i)' THEN ext'[i].filled ELSE 0
      BY DoneNext
    <2>2. /\ \A i \in Ids : D[i] \in Nat /\ D[i] = IF Done(p, i) THEN ext[i].filled ELSE 0
          /\ Total(D) \in Nat
      BY DoneType DEF DoneOf
    <2>3. ASSUME NEW k \in Ids
          PROVE  D[k] <= E[k]
      <3>1. At(SellFilling, k)' => At(SellFilling, k)
        BY <1>2 DEF At, SellFilling
      <3>2. Done(p, k) => Done(p, k)'
        BY <1>1, <3>1 DEF Done, Trades
      <3>3. ext[k].filled <= ext'[k].filled
        BY DEF Trades
      <3> QED
        BY <2>1, <2>2, <3>2, <3>3
    <2>4. Total(E) \in Nat
      BY <2>1, IdsFinite, SumNat DEF Total
    <2> HIDE DEF E
    <2>5. row[p].closed_amount <= Total(D) /\ row[p].closed_amount \in Int
      BY DEF Counted, BuyRows, IsBuy, Sound, TypeOK, OrderRow
    <2> HIDE DEF D
    <2>6. Total(D) <= Total(E)
      BY <2>1, <2>2, <2>3, TotalGrows
    <2> QED
      BY <2>1, <2>2, <2>4, <2>5, <2>6
  <1> QED
    BY <1>3, <1>4, <1>5, <1>6

LEMMA InitClosed == Init => Closed
  <1> SUFFICES ASSUME Init PROVE Closed
    OBVIOUS
  <1>1. Alone /\ Closing
    BY InitDues
  <1>2. \A t \in Tasks : pc[t] = "idle" /\ job[t] = NoJob
    BY DEF Init
  <1>3. Waiting /\ Seen
    BY <1>2, NoJobType DEF Waiting, Seen, SellFilling
  <1>4. BuyRows = {}
    BY DEF Init, BuyRows, NoRow
  <1> QED
    BY <1>1, <1>3, <1>4 DEF Closed, Counted

LEMMA NextClosed ==
    ASSUME Sound, Sound', Lineage, Closed, ~Overlap, OneSeller, [Next]_vars
    PROVE  Closed'
  <1>1. Alone' /\ OneHolder
    BY NextAloneFaults, HolderIsOne DEF Closed
  <1>2. CASE \E t \in Tasks : StepSound(t) /\ Motion(t)
    BY <1>1, <1>2, ClosingMoves, WaitingMoves, SeenMoves, CountedMoves DEF Closed
  <1>3. CASE ~ \E t \in Tasks : StepSound(t) /\ Motion(t)
    BY <1>1, <1>3, MotionKinds, OtherSteps, ClosedStays DEF Closed
  <1> QED
    BY <1>2, <1>3

LEMMA LineageInvariant == Spec => []Lineage
  <1>1. Init => Lineage
    BY InitLineage
  <1>2. Sound /\ Sound' /\ Lineage /\ [Next]_vars => Lineage'
    BY NextLineage
  <1> QED
    BY <1>1, <1>2, SoundInvariant, PTL DEF Spec

\* What the sell orders of p have filled.
FilledOf(p) == [i \in Ids |-> IF ext[i].parent = p /\ row[i].stored THEN ext[i].filled ELSE 0]

LEMMA DoneIsFilled ==
    ASSUME Sound, NEW p
    PROVE  Total(DoneOf(p)) <= Total(FilledOf(p)) /\ Total(FilledOf(p)) \in Nat
  <1>1. \A i \in Ids : ext[i].filled \in Nat
    BY DEF Sound, TypeOK, ExtOrder
  <1>2. \A i \in Ids : /\ FilledOf(p)[i] \in Nat /\ DoneOf(p)[i] \in Nat
                       /\ DoneOf(p)[i] <= FilledOf(p)[i]
    BY <1>1 DEF FilledOf, DoneOf, Done
  <1>3. Total(DoneOf(p)) <= Total(FilledOf(p))
    BY <1>2, TotalGrows
  <1>4. Total(FilledOf(p)) \in Nat
    BY <1>2, IdsFinite, SumNat DEF Total
  <1> QED
    BY <1>3, <1>4

LEMMA SoldIsFilled ==
    ASSUME Sound, NEW p \in Ids
    PROVE  SoldOnExchange(p) = Total(FilledOf(p))
  <1> DEFINE C == Children(p)
             F == [i \in C |-> ext[i].filled]
             G == FilledOf(p)
  <1>1. SoldOnExchange(p) = SumFunctionOnSet(F, C)
    BY DEF SoldOnExchange, Sum
  <1>2. \A i \in Ids : i \in C <=> ext[i].parent = p /\ row[i].stored
    <2>1. p # 0
      BY DEF Ids
    <2> QED
      BY <2>1 DEF Children, SellRows, IsBuy, Sound, OrdersSound
  <1>3. C \in SUBSET Ids /\ \A i \in Ids : ext[i].filled \in Nat
    BY DEF Children, SellRows, Sound, TypeOK, ExtOrder
  <1>4. /\ \A i \in C : F[i] \in Int /\ G[i] = F[i]
        /\ \A i \in Ids \ C : G[i] = 0
    BY <1>2, <1>3 DEF FilledOf
  <1> HIDE DEF C, F, G
  <1>5. SumFunctionOnSet(F, C) = Total(G)
    BY <1>3, <1>4, IdsFinite, SumPadded DEF Total
  <1> QED
    BY <1>1, <1>5 DEF G

LEMMA ClosedInvariant ==
    ASSUME ~Overlap, OneSeller
    PROVE  Spec => []Closed
  <1>1. Init => Closed
    BY InitClosed
  <1>2. Sound /\ Sound' /\ Lineage /\ Closed /\ [Next]_vars => Closed'
    BY NextClosed
  <1> QED
    BY <1>1, <1>2, SoundInvariant, LineageInvariant, PTL DEF Spec

\* closed_amount never exceeds what the sell orders have sold: a sell order is counted in
\* its position when CloseOrderService.check writes the parent, and once only, since a
\* check takes up none whose row has been closed, faults and crashes included.
THEOREM ClosedOnlyIfSold ==
    ASSUME ~Overlap, OneSeller
    PROVE  Spec => []NeverOverclosed
  <1>1. Sound /\ Closed => NeverOverclosed
    <2> SUFFICES ASSUME Sound, Closed, NEW p \in BuyRows
                 PROVE  row[p].closed_amount <= SoldOnExchange(p)
      BY DEF NeverOverclosed
    <2>1. p \in Ids /\ SoldOnExchange(p) = Total(FilledOf(p)) /\ Total(DoneOf(p)) \in Nat
      BY SoldIsFilled, DoneType DEF BuyRows
    <2>2. row[p].closed_amount <= Total(DoneOf(p)) /\ row[p].closed_amount \in Int
      BY <2>1 DEF Closed, Counted, Sound, TypeOK, OrderRow
    <2>3. Total(DoneOf(p)) <= Total(FilledOf(p)) /\ Total(FilledOf(p)) \in Nat
      BY <2>1, DoneIsFilled
    <2> QED
      BY <2>1, <2>2, <2>3
  <1> QED
    BY <1>1, SoundInvariant, ClosedInvariant, PTL

-----------------------------------------------------------------------------
(* Without faults: the rows and the log while the orders go their way.      *)

\* A placed order is recorded, and what its creation and its filling post follows.
Recorded == \A i \in Ids : Placed(i) /\ ~row[i].stored => At({"b_record", "s_record"}, i)

PaidOut == \A i \in Ids : row[i].stored /\ posted[i].out = 0 => At({"b_out", "s_out"}, i)

PaidIn ==
    \A i \in Ids : row[i].stored /\ row[i].filled > 0 =>
        posted[i].in > 0 \/ At({"f_income", "c_income"}, i)

\* A rollback pays first.
PaidBack ==
    \A t \in Tasks : pc[t] \in {"r_off", "k_find", "k_preclose", "k_off"} =>
        posted[job[t].id].back > 0

\* An order fills up to its amount, and vanishes only if nothing of it filled.
Filling ==
    \A i \in Ids : /\ ext[i].filled <= ext[i].amount
                   /\ ext[i].status = "gone" => ext[i].filled = 0

\* A closed position was given back or its sell orders have filled as much.
Whole ==
    \A p \in BuyRows : ~row[p].isActive =>
        posted[p].back > 0 \/ ext[p].amount <= Total(FilledOf(p))

Paid == Recorded /\ PaidOut /\ PaidIn /\ PaidBack /\ Filling /\ Whole

LEMMA HoldingWorks ==
    ASSUME MaxFaults = 0, NEW t \in Tasks, Motion(t), pc[t] \in Holding
    PROVE  Works(t)
  BY StepNames DEF Motion, Starts, Leaves, Places, Turns

\* What was posted is not taken back.
LEMMA PostsGrow ==
    ASSUME Sound, Sound', NEW t \in Tasks, Motion(t), NEW i \in Ids
    PROVE  /\ posted[i].out \in Nat /\ posted'[i].out \in Nat /\ posted[i].out <= posted'[i].out
           /\ posted[i].in \in Nat /\ posted'[i].in \in Nat /\ posted[i].in <= posted'[i].in
           /\ posted[i].back \in Nat /\ posted'[i].back \in Nat
           /\ posted[i].back <= posted'[i].back
  <1>1. /\ posted[i].out \in Nat /\ posted[i].in \in Nat /\ posted[i].back \in Nat
        /\ posted'[i].out \in Nat /\ posted'[i].in \in Nat /\ posted'[i].back \in Nat
    BY DEF Sound, TypeOK, Postings
  <1>2. CASE UNCHANGED posted
    BY <1>1, <1>2
  <1>3. CASE Works(t) /\ i = job[t].id
    BY <1>1, <1>3 DEF Works, Lines, One
  <1>4. CASE Works(t) /\ i # job[t].id
    BY <1>1, <1>4 DEF Works, Lines
  <1> QED
    BY <1>2, <1>3, <1>4 DEF Motion, Starts, Leaves, Places, Turns

\* An order in the hand of another task stays there.
LEMMA AtOthers ==
    ASSUME NEW t \in Tasks, Others(t), NEW L, NEW i, At(L, i), ~(pc[t] \in L /\ job[t].id = i)
    PROVE  \E u \in Tasks : pc'[u] \in L /\ job'[u].id = i
  <1>1. PICK u \in Tasks : pc[u] \in L /\ job[u].id = i
    BY DEF At
  <1>2. pc'[u] = pc[u] /\ job'[u] = job[u]
    BY <1>1 DEF Others
  <1> QED
    BY <1>1, <1>2

LEMMA RecordedMoves ==
    ASSUME MaxFaults = 0, Sound, Sound', Recorded, NEW t \in Tasks, StepSound(t), Motion(t)
    PROVE  Recorded'
  <1> SUFFICES ASSUME NEW i \in Ids, Placed(i)', ~row'[i].stored
               PROVE  \E u \in Tasks : pc'[u] \in {"b_record", "s_record"} /\ job'[u].id = i
    BY DEF Recorded, At
  <1>1. Others(t) /\ Evolves
    BY DEF StepSound
  <1>2. CASE Placed(i)
    <2>1. ~row[i].stored /\ At({"b_record", "s_record"}, i)
      BY <1>1, <1>2 DEF Evolves, Recorded
    <2>2. CASE pc[t] \in {"b_record", "s_record"} /\ job[t].id = i
      <3>1. Works(t)
        BY <2>2, HoldingWorks, StepNames
      <3>2. row'[i].stored
        BY <2>1, <2>2, <3>1 DEF Works, Fields
      <3> QED
        BY <3>2
    <2> QED
      BY <1>1, <2>1, <2>2, AtOthers
  <1>3. CASE ~Placed(i)
    <2>1. Places(t)
      BY <1>3 DEF Motion, Starts, Leaves, Turns, Works, Placed
    <2>2. /\ i = NextId
          /\ pc'[t] \in {"b_record", "s_record"} /\ job'[t].id = NextId
      <3>1. PICK p \in 0..MaxOrders, amount \in Nat, full \in BOOLEAN :
                RoomToOrder /\ Accept(NextId, p, amount, full)
        BY <2>1 DEF Places
      <3>2. i = NextId
        BY <1>3, <3>1, PlacedOrder DEF Placed
      <3>3. pc'[t] \in {"b_record", "s_record"} /\ job'[t].id = NextId
        BY <2>1 DEF Places
      <3> QED
        BY <3>2, <3>3
    <2> QED
      BY <2>2
  <1> QED
    BY <1>2, <1>3

LEMMA PaidOutMoves ==
    ASSUME MaxFaults = 0, Sound, Sound', PaidOut, NEW t \in Tasks, StepSound(t), Motion(t)
    PROVE  PaidOut'
  <1> SUFFICES ASSUME NEW i \in Ids, row'[i].stored, posted'[i].out = 0
               PROVE  \E u \in Tasks : pc'[u] \in {"b_out", "s_out"} /\ job'[u].id = i
    BY DEF PaidOut, At
  <1>1. Others(t) /\ posted[i].out = 0
    BY PostsGrow DEF StepSound
  <1>2. CASE row[i].stored
    <2>1. At({"b_out", "s_out"}, i)
      BY <1>1, <1>2 DEF PaidOut
    <2>2. CASE pc[t] \in {"b_out", "s_out"} /\ job[t].id = i
      <3>1. Works(t)
        BY <2>2, HoldingWorks, StepNames
      <3>2. posted'[i].out = 1
        BY <1>1, <2>2, <3>1 DEF Works, Lines, One
      <3> QED
        BY <3>2
    <2> QED
      BY <1>1, <2>1, <2>2, AtOthers
  <1>3. CASE ~row[i].stored
    <2>1. Works(t) /\ pc[t] \in {"b_record", "s_record"} /\ i = job[t].id
      <3>1. Works(t)
        BY <1>3 DEF Motion, Starts, Leaves, Places, Turns
      <3> QED
        BY <1>3, <3>1 DEF Works, Fields
    <2>2. pc'[t] \in {"b_out", "s_out"} /\ job'[t].id = i
      BY <2>1 DEF Works, Onward, Flows, Ends
    <2> QED
      BY <2>2
  <1> QED
    BY <1>2, <1>3

LEMMA PaidInMoves ==
    ASSUME MaxFaults = 0, Sound, Sound', PaidIn, NEW t \in Tasks, StepSound(t), Motion(t)
    PROVE  PaidIn'
  <1> SUFFICES ASSUME NEW i \in Ids, row'[i].stored, row'[i].filled > 0, posted'[i].in = 0
               PROVE  \E u \in Tasks : pc'[u] \in {"f_income", "c_income"} /\ job'[u].id = i
    <2>1. \A i \in Ids : posted'[i].in \in Nat
      BY PostsGrow
    <2> QED
      BY <2>1 DEF PaidIn, At
  <1>1. Others(t) /\ posted[i].in = 0
    BY PostsGrow DEF StepSound
  <1>2. CASE row[i].stored /\ row'[i].filled = row[i].filled
    <2>1. At({"f_income", "c_income"}, i)
      BY <1>1, <1>2 DEF PaidIn
    <2>2. CASE pc[t] \in {"f_income", "c_income"} /\ job[t].id = i
      <3>1. Works(t)
        BY <2>2, HoldingWorks, StepNames
      <3>2. posted'[i].in = 1
        BY <1>1, <2>2, <3>1 DEF Works, Lines, One
      <3> QED
        BY <3>2
    <2> QED
      BY <1>1, <2>1, <2>2, AtOthers
  <1>3. CASE ~(row[i].stored /\ row'[i].filled = row[i].filled)
    <2>1. Works(t)
      BY <1>3 DEF Motion, Starts, Leaves, Places, Turns
    <2>2. pc[t] \in {"f_row", "c_close"} /\ i = job[t].id
      <3>1. CASE row[i].stored
        BY <1>3, <2>1, <3>1 DEF Works, Fields
      <3>2. CASE ~row[i].stored
        BY <2>1, <3>2 DEF Works, Fields
      <3> QED
        BY <3>1, <3>2
    <2>3. pc'[t] \in {"f_income", "c_income"} /\ job'[t].id = i
      BY <2>1, <2>2 DEF Works, Onward, Flows, Ends
    <2> QED
      BY <2>3
  <1> QED
    BY <1>2, <1>3

LEMMA PaidBackMoves ==
    ASSUME Sound, Sound', PaidBack, NEW t \in Tasks, StepSound(t), Motion(t)
    PROVE  PaidBack'
  <1> DEFINE After == {"r_off", "k_find", "k_preclose", "k_off"}
  <1> SUFFICES ASSUME NEW u \in Tasks, pc'[u] \in After
               PROVE  posted'[job'[u].id].back > 0
    BY DEF PaidBack
  <1>1. ASSUME pc[u] \in After, job'[u].id = job[u].id
        PROVE  posted'[job'[u].id].back > 0
    <2>1. job[u].id \in Ids /\ posted[job[u].id].back > 0
      BY <1>1, InHand, StepNames DEF PaidBack
    <2> QED
      BY <1>1, <2>1, PostsGrow
  <1>2. CASE u # t
    BY <1>1, <1>2 DEF StepSound, Others
  <1>3. CASE u = t
    <2>1. /\ Works(t) /\ pc[t] \in Holding /\ <<pc[t], pc'[t]>> \in Flows
          /\ job'[t].id = job[t].id
      BY <1>3, HandMoves, StepNames DEF Turns
    <2>2. pc[t] \in After \cup {"r_back", "k_back"}
      BY <1>3, <2>1 DEF Flows
    <2>3. CASE pc[t] \in {"r_back", "k_back"}
      <3>1. job[t].id \in Ids /\ posted[job[t].id].back \in Nat
        BY <2>1, InHand, PostsGrow
      <3>2. posted'[job[t].id].back = posted[job[t].id].back + 1
        BY <2>1, <2>3 DEF Works, Lines, One
      <3> QED
        BY <1>3, <2>1, <3>1, <3>2
    <2> QED
      BY <1>1, <1>3, <2>1, <2>2, <2>3
  <1> QED
    BY <1>2, <1>3

LEMMA FillingMoves ==
    ASSUME Sound, Filling, NEW t \in Tasks, Motion(t)
    PROVE  Filling'
  <1> SUFFICES ASSUME NEW i \in Ids
               PROVE  /\ ext'[i].filled <= ext'[i].amount
                      /\ ext'[i].status = "gone" => ext'[i].filled = 0
    BY DEF Filling
  <1>1. CASE Placed(i)
    BY <1>1, OrderStays DEF Filling
  <1>2. CASE ~Placed(i)
    <2>1. CASE UNCHANGED ext
      BY <2>1 DEF Filling
    <2>2. CASE Places(t)
      <3>1. PICK p \in 0..MaxOrders, amount \in Nat, full \in BOOLEAN :
                RoomToOrder /\ Accept(NextId, p, amount, full)
        BY <2>2 DEF Places
      <3>2. /\ ext'[NextId].status # "gone" /\ ext'[NextId].filled <= ext'[NextId].amount
            /\ \A k \in Ids \ {NextId} : ext'[k] = ext[k]
        <4>1. /\ ext'[NextId].filled = (IF full THEN amount ELSE 0)
              /\ ext'[NextId].amount = amount
              /\ ext'[NextId].status = (IF full THEN "closed" ELSE "open")
              /\ \A k \in Ids \ {NextId} : ext'[k] = ext[k]
          BY <3>1, PlacedOrder
        <4> QED
          BY <4>1
      <3> QED
        BY <3>2 DEF Filling
    <2> QED
      BY <2>1, <2>2 DEF Motion, Starts, Leaves, Turns, Works
  <1> QED
    BY <1>1, <1>2

\* What the sell orders of a position have filled only grows.
LEMMA FilledGrows ==
    ASSUME Sound, Sound', NEW p,
           \A i \in Ids : row[i].stored =>
                /\ row'[i].stored /\ ext'[i].parent = ext[i].parent
                /\ ext[i].filled <= ext'[i].filled
    PROVE  Total(FilledOf(p)) <= (Total(FilledOf(p)))'
  <1> DEFINE F == FilledOf(p)
             G == FilledOf(p)'
  <1>1. \A i \in Ids : ext[i].filled \in Nat /\ ext'[i].filled \in Nat
    BY DEF Sound, TypeOK, ExtOrder
  <1>2. /\ (Total(FilledOf(p)))' = Total(G)
        /\ \A i \in Ids : G[i] = IF ext'[i].parent = p /\ row'[i].stored THEN ext'[i].filled ELSE 0
    BY DEF Total, FilledOf, Ids
  <1>3. \A i \in Ids : F[i] = IF ext[i].parent = p /\ row[i].stored THEN ext[i].filled ELSE 0
    BY DEF FilledOf
  <1>4. \A i \in Ids : F[i] \in Int /\ G[i] \in Int /\ F[i] <= G[i]
    BY <1>1, <1>2, <1>3
  <1> HIDE DEF F, G
  <1>5. Total(F) <= Total(G)
    BY <1>4, TotalGrows
  <1> QED
    BY <1>2, <1>5 DEF F

\* Totals after a step.
LEMMA FilledNext ==
    ASSUME Sound', NEW p
    PROVE  (Total(DoneOf(p)))' <= (Total(FilledOf(p)))'
           /\ (Total(DoneOf(p)))' \in Nat /\ (Total(FilledOf(p)))' \in Nat
  <1> DEFINE D == DoneOf(p)'
             G == FilledOf(p)'
  <1>1. \A i \in Ids : ext'[i].filled \in Nat
    BY DEF Sound, TypeOK, ExtOrder
  <1>2. /\ (Total(FilledOf(p)))' = Total(G)
        /\ \A i \in Ids : G[i] = IF ext'[i].parent = p /\ row'[i].stored THEN ext'[i].filled ELSE 0
    BY DEF Total, FilledOf, Ids
  <1>3. /\ (Total(DoneOf(p)))' = Total(D)
        /\ \A i \in Ids : D[i] = IF Done(p, i)' THEN ext'[i].filled ELSE 0
    BY DoneNext
  <1>4. \A i \in Ids : D[i] \in Nat /\ G[i] \in Nat /\ D[i] <= G[i]
    BY <1>1, <1>2, <1>3 DEF Done
  <1> HIDE DEF D, G
  <1>5. Total(D) <= Total(G)
    BY <1>4, TotalGrows
  <1>6. Total(D) \in Nat /\ Total(G) \in Nat
    BY <1>4, IdsFinite, SumNat DEF Total
  <1> QED
    BY <1>2, <1>3, <1>5, <1>6

LEMMA WholeMoves ==
    ASSUME Sound, Sound', Lineage, Seen', Counted', Closing, OneHolder, PaidBack, Whole,
           NEW t \in Tasks, StepSound(t), Motion(t)
    PROVE  Whole'
  <1> SUFFICES ASSUME NEW p \in Ids, row'[p].stored, row'[p].parent = 0, ~row'[p].isActive
               PROVE  posted'[p].back > 0 \/ ext'[p].amount <= (Total(FilledOf(p)))'
    BY DEF Whole, BuyRows, IsBuy, Ids
  <1>1. row[p].stored
    <2>1. CASE UNCHANGED row
      BY <2>1
    <2>2. CASE Works(t)
      BY <2>2 DEF Works, Fields
    <2> QED
      BY <2>1, <2>2 DEF Motion, Starts, Leaves, Places, Turns
  <1>2. /\ Placed(p) /\ ext'[p] = ext[p] /\ ext[p].amount \in Nat
        /\ ext[p].parent = 0 /\ row[p].parent = 0
    <2>1. Placed(p) /\ row[p].parent = ext[p].parent /\ row'[p].parent = ext'[p].parent
      BY <1>1 DEF Sound, OrdersSound
    <2> QED
      BY <2>1, OrderStays DEF Sound, TypeOK, ExtOrder
  <1>3. Total(FilledOf(p)) <= (Total(FilledOf(p)))'
    <2> SUFFICES ASSUME NEW i \in Ids, row[i].stored
                 PROVE  /\ row'[i].stored /\ ext'[i].parent = ext[i].parent
                        /\ ext[i].filled <= ext'[i].filled
      BY FilledGrows
    <2>1. ext'[i] = ext[i] /\ row'[i].stored
      BY OrderStays DEF StepSound, Evolves, Sound, OrdersSound
    <2>2. ext[i].filled \in Nat
      BY DEF Sound, TypeOK, ExtOrder
    <2> QED
      BY <2>1, <2>2
  <1>4. Total(FilledOf(p)) \in Nat /\ (Total(FilledOf(p)))' \in Nat
    BY DoneIsFilled, FilledNext
  <1>5. CASE ~row[p].isActive
    <2>1. posted[p].back > 0 \/ ext[p].amount <= Total(FilledOf(p))
      BY <1>1, <1>2, <1>5 DEF Whole, BuyRows, IsBuy
    <2>2. posted[p].back > 0 => posted'[p].back > 0
      BY PostsGrow
    <2> QED
      BY <1>2, <1>3, <1>4, <2>1, <2>2
  <1>6. CASE row[p].isActive
    <2>1. Works(t)
      BY <1>6 DEF Motion, Starts, Leaves, Places, Turns
    <2>2. \/ pc[t] \in {"c_close", "r_off", "k_off"} /\ p = job[t].id
          \/ pc[t] = "c_parent" /\ p = ext[job[t].id].parent /\ ext[p].amount = job[t].seen
      BY <1>1, <1>6, <2>1 DEF Works, Fields
    <2>3. CASE pc[t] \in {"c_close", "k_off"} /\ p = job[t].id
      <3>1. ext[p].parent \in Ids
        BY <2>3, InHand, StepNames DEF OfSells, SellFilling, SellBacking
      <3> QED
        BY <1>2, <3>1 DEF Ids
    <2>4. CASE pc[t] = "r_off" /\ p = job[t].id
      <3>1. posted[p].back > 0
        BY <2>4 DEF PaidBack
      <3> QED
        BY <3>1, PostsGrow
    <2>5. CASE pc[t] = "c_parent" /\ p = ext[job[t].id].parent /\ ext[p].amount = job[t].seen
      <3>1. row'[p].closed_amount = job[t].seen
        BY <2>1, <2>5, DoneNow
      <3>2. row'[p].closed_amount <= (Total(DoneOf(p)))'
        <4>1. \A q \in Ids : row'[q].stored /\ row'[q].parent = 0 =>
                    row'[q].closed_amount <= (Total(DoneOf(q)))'
          BY DEF Counted, BuyRows, IsBuy, Ids
        <4> QED
          BY <4>1
      <3> QED
        BY <1>2, <1>4, <2>5, <3>1, <3>2, FilledNext
    <2> QED
      BY <2>2, <2>3, <2>4, <2>5
  <1> QED
    BY <1>5, <1>6

LEMMA InitPaid == Init => Paid
  <1> SUFFICES ASSUME Init PROVE Paid
    OBVIOUS
  <1>1. /\ \A i \in Ids : ~Placed(i) /\ ~row[i].stored /\ ext[i].status = "none"
                            /\ ext[i].filled = 0 /\ ext[i].amount = 0
        /\ \A t \in Tasks : pc[t] = "idle"
    BY DEF Init, Placed, NoExt, NoRow
  <1>2. BuyRows = {}
    BY <1>1 DEF BuyRows
  <1> QED
    BY <1>1, <1>2 DEF Paid, Recorded, PaidOut, PaidIn, PaidBack, Filling, Whole

\* Without faults only the exchange moves besides the tasks.
LEMMA QuietSteps ==
    ASSUME MaxFaults = 0, Sound, Lineage, [Next]_vars
    PROVE  \/ \E t \in Tasks : StepSound(t) /\ Motion(t)
           \/ Trades /\ Evolves /\ UNCHANGED <<row, posted, pc, job>>
  BY MotionKinds, OtherSteps

LEMMA NextPaid ==
    ASSUME MaxFaults = 0, ~Overlap, Sound, Sound', Lineage, Closed, Closed', Paid, [Next]_vars
    PROVE  Paid'
  <1>1. OneHolder
    BY HolderIsOne DEF Closed
  <1>2. CASE \E t \in Tasks : StepSound(t) /\ Motion(t)
    BY <1>1, <1>2, RecordedMoves, PaidOutMoves, PaidInMoves, PaidBackMoves, FillingMoves,
       WholeMoves DEF Closed, Paid
  <1>3. CASE Trades /\ Evolves /\ UNCHANGED <<row, posted, pc, job>>
    <2>1. \A L, i : At(L, i)' <=> At(L, i)
      BY <1>3 DEF At
    <2>2. Recorded' /\ PaidOut' /\ PaidIn' /\ PaidBack'
      BY <1>3, <2>1 DEF Paid, Recorded, PaidOut, PaidIn, PaidBack, Trades
    <2>3. Filling'
      BY <1>3 DEF Paid, Filling, Trades
    <2>4. Whole'
      <3> SUFFICES ASSUME NEW p \in Ids, row[p].stored, row[p].parent = 0, ~row[p].isActive
                   PROVE  posted[p].back > 0 \/ ext'[p].amount <= (Total(FilledOf(p)))'
        BY <1>3 DEF Whole, BuyRows, IsBuy, Ids
      <3>1. Total(FilledOf(p)) <= (Total(FilledOf(p)))'
        BY <1>3, FilledGrows DEF Trades
      <3>2. posted[p].back > 0 \/ ext[p].amount <= Total(FilledOf(p))
        BY DEF Paid, Whole, BuyRows, IsBuy
      <3>3. Total(FilledOf(p)) \in Nat /\ (Total(FilledOf(p)))' \in Nat
        BY DoneIsFilled, FilledNext
      <3>4. ext'[p].amount = ext[p].amount /\ ext[p].amount \in Nat
        BY <1>3 DEF Trades, Sound, TypeOK, ExtOrder
      <3> QED
        BY <3>1, <3>2, <3>3, <3>4
    <2> QED
      BY <2>2, <2>3, <2>4 DEF Paid
  <1> QED
    BY <1>2, <1>3, QuietSteps

LEMMA PaidInvariant ==
    ASSUME MaxFaults = 0, ~Overlap, OneSeller
    PROVE  Spec => []Paid
  <1>1. Init => Paid
    BY InitPaid
  <1>2. Sound /\ Sound' /\ Lineage /\ Closed /\ Closed' /\ Paid /\ [Next]_vars => Paid'
    BY NextPaid
  <1> QED
    BY <1>1, <1>2, SoundInvariant, LineageInvariant, ClosedInvariant, PTL DEF Spec

LEMMA TruthfulInvariant ==
    ASSUME MaxFaults = 0
    PROVE  Spec => []Truthful
  <1>1. Init => Truthful
    BY InitTruthful
  <1>2. Sound /\ Truthful /\ [Next]_vars => Truthful'
    BY NextTruthful
  <1> QED
    BY <1>1, <1>2, SoundInvariant, PTL DEF Spec

\* A credited position is closed only when all of it has been sold: closed_amount, which
\* the test in CloseOrderService.check compares with the position, counts only sold parts.
THEOREM ClosedOnlyWhenSold ==
    ASSUME MaxFaults = 0, ~Overlap, OneSeller
    PROVE  Spec => []ClosedWhenSold
  <1>1. Sound /\ Paid /\ PostedOnce => ClosedWhenSold
    <2> SUFFICES ASSUME Sound, Paid, PostedOnce, NEW p \in BuyRows, ~row[p].isActive,
                        posted[p].in > 0
                 PROVE  SoldOnExchange(p) >= ext[p].amount
      BY DEF ClosedWhenSold
    <2>1. p \in Ids /\ SoldOnExchange(p) = Total(FilledOf(p))
      BY SoldIsFilled DEF BuyRows
    <2>2. posted[p].back = 0
      <3>1. posted[p].in \in Nat /\ posted[p].back \in Nat
        BY <2>1 DEF Sound, TypeOK, Postings
      <3>2. posted[p].in + posted[p].back <= 1
        BY <2>1 DEF PostedOnce
      <3> QED
        BY <3>1, <3>2
    <2>3. ext[p].amount <= Total(FilledOf(p))
      BY <2>2 DEF Paid, Whole
    <2>4. Total(FilledOf(p)) \in Nat /\ ext[p].amount \in Nat
      BY <2>1, DoneIsFilled DEF Sound, TypeOK, ExtOrder
    <2> QED
      BY <2>1, <2>3, <2>4
  <1> QED
    BY <1>1, SoundInvariant, PaidInvariant, OrdersPostedOnce, PTL

-----------------------------------------------------------------------------
(* Without faults: what a position has on offer.                            *)

\* A position is bought for BuyAmount, and credited before a part of it is offered.
Bought ==
    \A i \in Ids : Placed(i) =>
        /\ ext[i].parent = 0 => ext[i].amount = BuyAmount
        /\ ext[i].parent # 0 => posted[ext[i].parent].in > 0 /\ ext[i].amount <= BuyAmount

\* The positions a sell run has still to write preclosed of.
Chosen(t) == job[t].todo \cup IF pc[t] \in SellCreation THEN {job[t].cur} ELSE {}

\* What the run has read of them still holds.
Fresh ==
    \A t \in Sellers :
        /\ \A s \in Chosen(t) : posted[s.id].in > 0 /\ s.preclosed = row[s.id].preclosed
        /\ pc[t] \in SellCreation =>
            /\ \A s \in job[t].todo : s.id # job[t].cur.id
            /\ job[t].cur.preclosed + ext[job[t].id].amount <= BuyAmount

SeenOffer ==
    \A t \in Tasks : pc[t] = "k_preclose" =>
        job[t].seen = row[ext[job[t].id].parent].preclosed

\* The sell orders preclosed stands for: from the write in create to the one in rollback.
Offers(p, i) ==
    /\ ext[i].parent = p /\ Placed(i) /\ ~At(SellCreation, i)
    /\ posted[i].back = 0 \/ At({"k_find", "k_preclose"}, i)

OfferedOf(p) == [i \in Ids |-> IF Offers(p, i) THEN ext[i].amount ELSE 0]

Offered ==
    \A p \in BuyRows : row[p].preclosed = Total(OfferedOf(p)) /\ row[p].preclosed <= BuyAmount

Offering == Bought /\ Fresh /\ SeenOffer /\ Offered

LEMMA OfferedType ==
    ASSUME Sound, NEW p
    PROVE  /\ \A i \in Ids : OfferedOf(p)[i] \in Nat /\ OfferedOf(p)[i] \in Int
           /\ Total(OfferedOf(p)) \in Nat
  <1>1. \A i \in Ids : ext[i].amount \in Nat
    BY DEF Sound, TypeOK, ExtOrder
  <1>2. \A i \in Ids : OfferedOf(p)[i] \in Nat
    BY <1>1 DEF OfferedOf
  <1>3. Total(OfferedOf(p)) \in Nat
    BY <1>2, IdsFinite, SumNat DEF Total
  <1> QED
    BY <1>2, <1>3

\* What a seller knows of a position it is about to sell from.
LEMMA SellerRoom ==
    ASSUME Sound, Lineage, Offering, NEW t \in Sellers, NEW s \in job[t].todo
    PROVE  /\ s.id \in BuyRows /\ posted[s.id].in > 0 /\ row[s.id].amount1 = BuyAmount
           /\ s.preclosed \in Nat
  <1>1. t \in Tasks
    BY TaskKinds
  <1>2. s.id \in Ids /\ Placed(s.id) /\ row[s.id].stored
    BY <1>1, ListedBusy DEF Sound, Shaped, Shape
  <1>3. ext[s.id].parent = 0 /\ row[s.id].parent = 0 /\ row[s.id].amount1 = ext[s.id].amount
    BY <1>2 DEF Lineage, Sound, OrdersSound
  <1>4. ext[s.id].amount = BuyAmount
    BY <1>2, <1>3 DEF Offering, Bought
  <1>5. s.id \in BuyRows
    BY <1>2, <1>3 DEF BuyRows, IsBuy
  <1>6. posted[s.id].in > 0 /\ s.preclosed = row[s.id].preclosed
    BY DEF Offering, Fresh, Chosen
  <1>7. row[s.id].preclosed \in Nat
    BY <1>5, OfferedType DEF Offering, Offered
  <1> QED
    BY <1>3, <1>4, <1>5, <1>6, <1>7

LEMMA BoughtMoves ==
    ASSUME Sound, Sound', Lineage, Offering, NEW t \in Tasks, StepSound(t), Motion(t)
    PROVE  Bought'
  <1> SUFFICES ASSUME NEW i \in Ids, Placed(i)'
               PROVE  /\ ext'[i].parent = 0 => ext'[i].amount = BuyAmount
                      /\ ext'[i].parent # 0 =>
                            posted'[ext'[i].parent].in > 0 /\ ext'[i].amount <= BuyAmount
    BY DEF Bought
  <1>1. ASSUME NEW p \in 0..MaxOrders, p # 0, posted[p].in > 0
        PROVE  posted'[p].in > 0
    <2>1. p \in Ids
      BY <1>1, OrderAssumption DEF Ids
    <2> QED
      BY <1>1, <2>1, PostsGrow
  <1>2. CASE Placed(i)
    <2>1. ext'[i] = ext[i] /\ ext[i].parent \in 0..MaxOrders
      BY <1>2, OrderStays DEF Sound, TypeOK, ExtOrder
    <2> QED
      BY <1>1, <1>2, <2>1 DEF Offering, Bought
  <1>3. CASE ~Placed(i)
    <2>1. Places(t)
      BY <1>3 DEF Motion, Starts, Leaves, Turns, Works, Placed
    <2>2. PICK p \in 0..MaxOrders, amount \in Nat, full \in BOOLEAN :
              /\ RoomToOrder /\ Accept(NextId, p, amount, full)
              /\ \/ pc[t] = "buy" /\ p = 0 /\ amount = BuyAmount
                 \/ /\ pc[t] = "sell"
                    /\ \E s \in job[t].todo :
                          p = s.id /\ amount \in 1..(row[p].amount1 - s.preclosed)
      BY <2>1 DEF Places
    <2>3. i = NextId /\ ext'[i].parent = p /\ ext'[i].amount = amount
      BY ZenonT(60), <1>3, <2>2, PlacedOrder DEF Placed
    <2>4. CASE pc[t] = "buy" /\ p = 0 /\ amount = BuyAmount
      BY <2>3, <2>4
    <2>5. CASE pc[t] = "sell"
      <3>1. t \in Sellers
        BY <2>5, WhoStands
      <3>2. PICK s \in job[t].todo : p = s.id /\ amount \in 1..(row[p].amount1 - s.preclosed)
        BY <2>2, <2>5
      <3>3. posted[p].in > 0 /\ row[p].amount1 = BuyAmount /\ s.preclosed \in Nat /\ p # 0
        BY <3>1, <3>2, SellerRoom DEF BuyRows, Ids
      <3>4. amount <= BuyAmount
        BY <3>2, <3>3, OrderAssumption
      <3> QED
        BY <1>1, <2>3, <3>3, <3>4
    <2> QED
      BY <2>2, <2>4, <2>5
  <1> QED
    BY <1>2, <1>3

\* preclosed is written at two steps only.
LEMMA PrecloseStays ==
    ASSUME NEW t \in Tasks, Motion(t), NEW q \in Ids, row[q].stored,
           ~(pc[t] = "s_preclose" /\ q = job[t].cur.id),
           ~(pc[t] = "k_preclose" /\ q = ext[job[t].id].parent)
    PROVE  row'[q].preclosed = row[q].preclosed
  <1>1. CASE UNCHANGED row
    BY <1>1
  <1>2. CASE Works(t)
    BY <1>2 DEF Works, Fields
  <1> QED
    BY <1>1, <1>2 DEF Motion, Starts, Leaves, Places, Turns

\* A chosen position is in the table.
LEMMA ChosenStored ==
    ASSUME Sound, Lineage, NEW t \in Sellers, NEW s \in Chosen(t)
    PROVE  s.id \in Ids /\ row[s.id].stored /\ pc[t] # "idle"
  <1>1. t \in Tasks
    BY TaskKinds
  <1>2. CASE s \in job[t].todo
    BY <1>1, <1>2, ListedBusy DEF Sound, Shaped, Shape
  <1>3. CASE s \notin job[t].todo
    <2>1. pc[t] \in SellCreation /\ s = job[t].cur
      BY <1>3 DEF Chosen
    <2>2. pc[t] \in Holding /\ pc[t] # "idle"
      BY <2>1, StepNames DEF SellCreation
    <2>3. s.id \in Ids /\ ext[job[t].id].parent = s.id /\ Placed(job[t].id) /\ job[t].id \in Ids
      BY <1>1, <2>1, <2>2, InHand DEF Lineage, Sound, Shaped, Shape
    <2>4. s.id # 0
      BY <2>3 DEF Ids
    <2> QED
      BY <2>2, <2>3, <2>4 DEF Lineage
  <1> QED
    BY <1>2, <1>3

LEMMA FreshMoves ==
    ASSUME MaxFaults = 0, ~Overlap, OneSeller, Sound, Sound', Lineage, Alone, PaidIn, Offering,
           NEW t \in Tasks, StepSound(t), Motion(t)
    PROVE  Fresh'
  <1>1. Others(t) /\ \A i \in Ids : Placed(i) => ext'[i] = ext[i]
    BY OrderStays DEF StepSound
  <1> SUFFICES ASSUME NEW u \in Sellers
               PROVE  /\ \A s \in Chosen(u)' :
                            posted'[s.id].in > 0 /\ s.preclosed = row'[s.id].preclosed
                      /\ pc'[u] \in SellCreation =>
                            /\ \A s \in job'[u].todo : s.id # job'[u].cur.id
                            /\ job'[u].cur.preclosed + ext'[job'[u].id].amount <= BuyAmount
    BY DEF Fresh
  <1>2. u \in Tasks /\ u \notin Checkers
    BY TaskKinds
  <1>3. ASSUME NEW s \in Chosen(u),
               ~(pc[t] = "s_preclose" /\ s.id = job[t].cur.id), ~(pc[t] = "k_preclose")
        PROVE  posted'[s.id].in > 0 /\ s.preclosed = row'[s.id].preclosed
    <2>1. s.id \in Ids /\ row[s.id].stored
      BY ChosenStored
    <2>2. posted[s.id].in > 0 /\ s.preclosed = row[s.id].preclosed
      BY DEF Offering, Fresh
    <2>3. posted'[s.id].in > 0
      BY <2>1, <2>2, PostsGrow
    <2> QED
      BY <1>3, <2>1, <2>2, <2>3, PrecloseStays
  <1>4. pc[u] \in SellCreation => Placed(job[u].id) /\ job[u].id \in Ids
    BY <1>2, InHand, StepNames DEF SellCreation
  <1>5. CASE u # t
    <2>1. pc'[u] = pc[u] /\ job'[u] = job[u]
      BY <1>1, <1>2, <1>5 DEF Others
    <2>2. ASSUME NEW s \in Chosen(u)'
          PROVE  posted'[s.id].in > 0 /\ s.preclosed = row'[s.id].preclosed
      <3>1. s \in Chosen(u)
        BY <2>1 DEF Chosen
      <3>2. pc[u] # "idle"
        BY <3>1, ChosenStored
      <3>3. pc[t] # "s_preclose"
        BY <1>5, WhoStands DEF OneSeller, SellCreation
      <3>4. pc[t] # "k_preclose"
        <4>1. ASSUME pc[t] = "k_preclose" PROVE FALSE
          <5>1. t \in Checkers
            BY <4>1, WhoStands DEF SellBacking
          <5> QED
            BY <1>2, <1>5, <3>2, <4>1, <5>1 DEF Alone
        <4> QED
          BY <4>1
      <3> QED
        BY <1>3, <3>1, <3>3, <3>4
    <2> QED
      BY <1>1, <1>4, <2>1, <2>2 DEF Offering, Fresh
  <1>6. CASE u = t /\ Starts(t)
    <2>1. pc'[u] \notin SellCreation /\ Chosen(u)' = job'[u].todo
      BY <1>6 DEF Starts, SellCreation, Chosen
    <2>2. UNCHANGED <<row, posted>> /\ Idle(Checkers)
      BY <1>2, <1>6 DEF Starts
    <2>3. ASSUME NEW s \in job'[u].todo
          PROVE  posted'[s.id].in > 0 /\ s.preclosed = row'[s.id].preclosed
      <3>1. s.id \in Ids /\ s.preclosed = row[s.id].preclosed /\ s.id \in Sellable
        BY <1>6, <2>3 DEF Starts
      <3>2. /\ row[s.id].stored /\ row[s.id].parent = 0
            /\ row[s.id].filled = row[s.id].amount1
        BY <3>1 DEF Sellable, BuyRows, IsBuy
      <3>3. /\ Placed(s.id) /\ ext[s.id].parent = 0
            /\ row[s.id].amount1 = ext[s.id].amount /\ ext[s.id].amount > 0
        BY <3>1, <3>2 DEF Sound, OrdersSound, Lineage
      <3>4. ~At({"f_income", "c_income"}, s.id)
        <4>1. ASSUME NEW v \in Tasks, pc[v] \in {"f_income", "c_income"}, job[v].id = s.id
              PROVE  FALSE
          <5>1. CASE pc[v] = "f_income"
            BY <2>2, <5>1, WhoStands DEF BuyFilling, Idle
          <5>2. CASE pc[v] = "c_income"
            <6>1. ext[s.id].parent \in Ids
              BY <4>1, <5>2, InHand, StepNames DEF OfSells, SellFilling
            <6> QED
              BY <3>3, <6>1 DEF Ids
          <5> QED
            BY <4>1, <5>1, <5>2
        <4> QED
          BY <4>1 DEF At
      <3>5. posted[s.id].in > 0
        BY <3>1, <3>2, <3>3, <3>4 DEF PaidIn
      <3> QED
        BY <2>2, <3>1, <3>5
    <2> QED
      BY <2>1, <2>3
  <1>7. CASE u = t /\ Places(t)
    <2>1. PICK p \in 0..MaxOrders, amount \in Nat, full \in BOOLEAN :
              /\ RoomToOrder /\ Accept(NextId, p, amount, full)
              /\ UNCHANGED <<row, posted>> /\ pc'[t] = "s_record" /\ job'[t].id = NextId
              /\ \E s \in job[t].todo : /\ p = s.id /\ job'[t].cur = s
                                        /\ amount \in 1..(row[p].amount1 - s.preclosed)
                                        /\ job'[t].todo = job[t].todo \ {s}
      <3>1. pc[t] # "buy"
        BY <1>2, <1>7, WhoStands, TaskKinds
      <3> QED
        BY <1>7, <3>1 DEF Places
    <2>2. PICK s \in job[t].todo : /\ p = s.id /\ job'[t].cur = s
                                   /\ amount \in 1..(row[p].amount1 - s.preclosed)
                                   /\ job'[t].todo = job[t].todo \ {s}
      BY <2>1
    <2>3. Chosen(u)' \subseteq job[u].todo
      BY <1>7, <2>2 DEF Chosen
    <2>4. \A r \in Chosen(u)' : posted'[r.id].in > 0 /\ r.preclosed = row'[r.id].preclosed
      BY <2>1, <2>3 DEF Offering, Fresh, Chosen
    <2>5. ext'[NextId].amount = amount
      <3>1. RoomToOrder /\ Accept(NextId, p, amount, full)
        BY <2>1
      <3> QED
        BY <3>1, PlacedOrder
    <2>6. \A r \in job'[u].todo : r.id # job'[u].cur.id
      BY <1>2, <1>7, <2>2 DEF Sound, Shaped, Shape
    <2>7. s.preclosed + amount <= BuyAmount
      <3>1. row[p].amount1 = BuyAmount /\ s.preclosed \in Nat
        BY <1>7, <2>2, SellerRoom
      <3> QED
        BY <2>2, <3>1, OrderAssumption
    <2> QED
      BY <1>7, <2>1, <2>2, <2>4, <2>5, <2>6, <2>7
  <1>8. CASE u = t /\ ~Starts(t) /\ ~Places(t)
    <2>1. Leaves(t) \/ Works(t)
      BY <1>2, <1>8 DEF Motion, Turns
    <2>2. /\ job'[t].todo \subseteq job[t].todo
          /\ pc'[t] \in SellCreation =>
                /\ pc[t] \in SellCreation /\ pc[t] # "s_preclose"
                /\ job'[t].id = job[t].id /\ job'[t].todo = job[t].todo
                /\ job'[t].cur = job[t].cur
      BY <2>1 DEF Leaves, Works, Onward, Flows, SellCreation
    <2>3. pc[t] # "k_preclose"
      BY <1>2, <1>8, WhoStands DEF SellBacking
    <2>4. ASSUME NEW s \in Chosen(u)'
          PROVE  posted'[s.id].in > 0 /\ s.preclosed = row'[s.id].preclosed
      <3>1. s \in Chosen(u)
        BY <1>8, <2>2 DEF Chosen
      <3>2. pc[t] = "s_preclose" => s.id # job[t].cur.id
        <4>1. pc[t] = "s_preclose" => s \in job[t].todo
          BY <1>8, <2>2 DEF Chosen
        <4> QED
          BY <1>8, <4>1 DEF Offering, Fresh, SellCreation
      <3> QED
        BY <1>3, <2>3, <3>1, <3>2
    <2>5. ASSUME pc'[u] \in SellCreation
          PROVE  /\ \A s \in job'[u].todo : s.id # job'[u].cur.id
                 /\ job'[u].cur.preclosed + ext'[job'[u].id].amount <= BuyAmount
      BY <1>1, <1>4, <1>8, <2>2, <2>5 DEF Offering, Fresh
    <2> QED
      BY <2>4, <2>5
  <1> QED
    BY <1>5, <1>6, <1>7, <1>8

LEMMA SeenOfferMoves ==
    ASSUME ~Overlap, Sound, Sound', Lineage, Alone, SeenOffer,
           NEW t \in Tasks, StepSound(t), Motion(t)
    PROVE  SeenOffer'
  <1>1. Others(t)
    BY DEF StepSound
  <1> SUFFICES ASSUME NEW u \in Tasks, pc'[u] = "k_preclose"
               PROVE  job'[u].seen = row'[ext'[job'[u].id].parent].preclosed
    BY DEF SeenOffer
  <1>2. CASE u # t
    <2>1. pc[u] = "k_preclose" /\ job'[u] = job[u]
      BY <1>1, <1>2 DEF Others
    <2>2. u \in Checkers
      BY <2>1, WhoStands DEF SellBacking
    <2>3. pc[t] = "idle"
      BY <1>2, <2>1, <2>2 DEF Alone
    <2>4. UNCHANGED <<ext, row>>
      BY <2>3, StepNames DEF Motion, Starts, Leaves, Places, Turns, Works
    <2> QED
      BY <2>1, <2>4 DEF SeenOffer
  <1>3. CASE u = t
    <2>1. Works(t) /\ pc[t] \in Holding /\ <<pc[t], pc'[t]>> \in Flows /\ job'[t].id = job[t].id
      BY <1>3, HandMoves, StepNames DEF Turns
    <2>2. pc[t] = "k_find"
      BY <1>3, <2>1 DEF Flows
    <2> PICK p : p = ext[job[t].id].parent
      OBVIOUS
    <2>3. job'[t].seen = row[p].preclosed /\ ext' = ext
      BY <1>3, <2>1, <2>2 DEF Works, Onward, Ends
    <2>4. p \in Ids /\ Placed(job[t].id) /\ job[t].id \in Ids
      BY <2>1, <2>2, InHand DEF OfSells, SellBacking
    <2>5. row[p].stored
      <3>1. p # 0
        BY <2>4 DEF Ids
      <3> QED
        BY <2>4, <3>1 DEF Lineage
    <2>6. row'[p].preclosed = row[p].preclosed
      BY <2>2, <2>4, <2>5, PrecloseStays
    <2> QED
      BY <1>3, <2>1, <2>3, <2>6
  <1> QED
    BY <1>2, <1>3

\* What is being created or about to be given back was not settled yet.
LEMMA NotYetSettled ==
    ASSUME ~Overlap, Sound, Dues, NEW t \in Tasks, pc[t] \in SellCreation \cup {"k_back"}
    PROVE  posted[job[t].id].in = 0 /\ posted[job[t].id].back = 0
  <1> PICK i : i = job[t].id
    OBVIOUS
  <1>1. i \in Ids
    BY InHand, StepNames DEF SellCreation
  <1>2. posted[i].in \in Nat /\ posted[i].back \in Nat
    BY <1>1 DEF Sound, TypeOK, Postings
  <1>3. SellerDue(i) \/ CheckerDue(i)
    <2>1. CASE pc[t] \in SellCreation
      <3>1. t \in Sellers
        BY <2>1, WhoStands
      <3> QED
        BY <2>1, <3>1 DEF SellerDue
    <2>2. CASE pc[t] = "k_back"
      <3>1. t \in Checkers
        BY <2>2, WhoStands DEF SellBacking
      <3> QED
        BY <2>2, <3>1 DEF CheckerDue
    <2> QED
      BY <2>1, <2>2
  <1>4. /\ One(SellerDue(i)) \in 0..1 /\ One(CheckerDue(i)) \in 0..1
        /\ One(SellerDue(i)) = 1 \/ One(CheckerDue(i)) = 1
    BY <1>3 DEF One
  <1>5. posted[i].in + posted[i].back + One(SellerDue(i)) + One(CheckerDue(i)) <= 1
    BY <1>1 DEF Dues, Limit
  <1> HIDE DEF One
  <1> QED
    BY <1>2, <1>4, <1>5

\* Where the order in hand is before and after a step.
LEMMA AtInHand ==
    ASSUME OneHolder, NEW t \in Tasks, Others(t), Works(t), NEW i, i = job[t].id,
           NEW L \in SUBSET Holding
    PROVE  /\ At(L, i) <=> pc[t] \in L
           /\ (\E u \in Tasks : pc'[u] \in L /\ job'[u].id = i) <=> pc'[t] \in L
  <1>1. pc[t] \in Holding
    BY DEF Works
  <1>2. pc'[t] \in Holding => job'[t].id = i
    BY StepNames DEF Works, Onward
  <1>3. ASSUME NEW u \in Tasks, u # t, pc[u] \in L
        PROVE  job[u].id # i
    BY <1>1, <1>3 DEF OneHolder
  <1>4. At(L, i) <=> pc[t] \in L
    BY <1>3 DEF At
  <1>5. ASSUME NEW u \in Tasks, u # t, pc'[u] \in L
        PROVE  job'[u].id # i
    BY <1>3, <1>5 DEF Others
  <1>6. (\E u \in Tasks : pc'[u] \in L /\ job'[u].id = i) <=> pc'[t] \in L
    BY <1>2, <1>5
  <1> QED
    BY <1>4, <1>6

\* Where another order is.
LEMMA AtElsewhere ==
    ASSUME NEW t \in Tasks, Others(t), NEW L, NEW i,
           ~(pc[t] \in L /\ job[t].id = i), ~(pc'[t] \in L /\ job'[t].id = i)
    PROVE  At(L, i) <=> \E u \in Tasks : pc'[u] \in L /\ job'[u].id = i
  <1>1. \A u \in Tasks \ {t} : pc'[u] = pc[u] /\ job'[u] = job[u]
    BY DEF Others
  <1> QED
    BY <1>1 DEF At

\* A sell order stays counted in preclosed, or not, except at the two writes.
LEMMA OffersStay ==
    ASSUME MaxFaults = 0, ~Overlap, Sound, Sound', OneHolder, Dues, PaidBack, PaidBack',
           NEW t \in Tasks, StepSound(t), Motion(t), NEW p \in Ids, NEW i \in Ids,
           ~(pc[t] \in {"s_preclose", "k_preclose"} /\ i = job[t].id)
    PROVE  /\ Offers(p, i)' <=> Offers(p, i)
           /\ Offers(p, i) => ext'[i] = ext[i]
  <1> DEFINE K == {"k_find", "k_preclose"}
             Later(L) == \E u \in Tasks : pc'[u] \in L /\ job'[u].id = i
  <1>1. /\ Others(t) /\ SellCreation \in SUBSET Holding /\ K \in SUBSET Holding /\ p # 0
        /\ Evolves
    BY StepNames DEF StepSound, SellCreation, Ids
  <1>2. Offers(p, i)' <=> /\ ext'[i].parent = p /\ Placed(i)' /\ ~Later(SellCreation)
                          /\ posted'[i].back = 0 \/ Later(K)
    BY DEF Offers, At
  <1>3. Placed(i) => ext'[i] = ext[i]
    BY OrderStays
  <1>4. CASE ~Placed(i)
    <2>1. ASSUME Placed(i)', ext'[i].parent = p
          PROVE  Later(SellCreation)
      <3>1. Places(t)
        BY <1>4, <2>1 DEF Motion, Starts, Leaves, Turns, Works, Placed
      <3>2. PICK q \in 0..MaxOrders, amount \in Nat, full \in BOOLEAN :
                /\ RoomToOrder /\ Accept(NextId, q, amount, full)
                /\ \/ pc[t] = "buy" /\ q = 0
                   \/ pc[t] = "sell"
        BY <3>1 DEF Places
      <3>3. i = NextId /\ q = p
        BY <1>4, <2>1, <3>2, PlacedOrder DEF Placed
      <3>4. pc'[t] = "s_record" /\ job'[t].id = NextId
        BY <1>1, <3>1, <3>2, <3>3 DEF Places
      <3> QED
        BY <3>3, <3>4 DEF SellCreation
    <2> QED
      BY <1>2, <1>4, <2>1 DEF Offers
  <1>5. CASE Placed(i) /\ (~Works(t) \/ i # job[t].id)
    <2>1. posted'[i].back = posted[i].back
      BY <1>5 DEF Motion, Starts, Leaves, Places, Turns, Works, Lines
    <2>2. ASSUME NEW L \in {SellCreation, K}
          PROVE  At(L, i) <=> Later(L)
      <3>1. ~(pc[t] \in L /\ job[t].id = i)
        BY <1>1, <1>5, <2>2, HoldingWorks
      <3>2. ~(pc'[t] \in L /\ job'[t].id = i)
        <4>1. ASSUME pc'[t] \in L, job'[t].id = i
              PROVE  FALSE
          <5>1. pc'[t] \in Holding
            BY <1>1, <2>2, <4>1
          <5>2. CASE Works(t) /\ job'[t].id = job[t].id
            BY <1>5, <4>1, <5>2
          <5>3. CASE ~Placed(NextId) /\ job'[t].id = NextId
            BY <1>5, <4>1, <5>3
          <5>4. CASE Turns(t)
            BY <2>2, <4>1, <5>4 DEF Turns, SellCreation
          <5> QED
            BY <5>1, <5>2, <5>3, <5>4, HandMoves
        <4> QED
          BY <4>1
      <3> QED
        BY <1>1, <3>1, <3>2, AtElsewhere
    <2>3. (At(SellCreation, i) <=> Later(SellCreation)) /\ (At(K, i) <=> Later(K))
      BY <2>2
    <2> QED
      BY <1>1, <1>2, <1>3, <1>5, <2>1, <2>3 DEF Offers, Evolves
  <1>6. CASE Placed(i) /\ Works(t) /\ i = job[t].id
    <2>1. /\ At(SellCreation, i) <=> pc[t] \in SellCreation
          /\ At(K, i) <=> pc[t] \in K
          /\ Later(SellCreation) <=> pc'[t] \in SellCreation
          /\ Later(K) <=> pc'[t] \in K
      BY <1>1, <1>6, AtInHand
    <2>2. /\ pc[t] \in Holding /\ (ext[i].parent = p => pc[t] \in OfSells)
          /\ posted[i].back \in Nat /\ posted'[i].back \in Nat
          /\ posted'[i].back = posted[i].back + One(pc[t] \in {"r_back", "k_back"})
      BY <1>1, <1>6, InHand, PostsGrow DEF Works, Lines, Holding
    <2>3. \/ <<pc[t], pc'[t]>> \in Flows
          \/ pc[t] \in Ends /\ pc'[t] \in {"idle", "sell", "fetch"}
      BY <1>6 DEF Works, Onward
    <2>4. ASSUME ext[i].parent = p
          PROVE  /\ Later(SellCreation) <=> At(SellCreation, i)
                 /\ ~At(SellCreation, i) =>
                    (posted'[i].back = 0 \/ Later(K) <=> posted[i].back = 0 \/ At(K, i))
      <3>1. CASE pc[t] \in {"s_record", "s_out"}
        <4>1. pc'[t] \in SellCreation /\ pc[t] \in SellCreation
          BY <2>3, <3>1 DEF Flows, Ends, SellCreation
        <4> QED
          BY <2>1, <4>1
      <3>2. CASE pc[t] \in SellFilling
        <4>1. pc'[t] \notin SellCreation /\ pc'[t] \notin K /\ pc[t] \notin K
              /\ pc[t] \notin SellCreation /\ pc[t] \notin {"r_back", "k_back"}
          BY <2>3, <3>2 DEF Flows, Ends, SellCreation, SellFilling
        <4>2. posted'[i].back = posted[i].back
          BY <2>2, <4>1 DEF One
        <4> QED
          BY <2>1, <4>1, <4>2
      <3>3. CASE pc[t] = "k_back"
        <4>1. posted[i].back = 0
          BY <1>6, <3>3, NotYetSettled
        <4>2. pc'[t] = "k_find"
          BY <2>3, <3>3 DEF Flows, Ends
        <4> QED
          BY <2>1, <3>3, <4>1, <4>2 DEF SellCreation
      <3>4. CASE pc[t] = "k_find"
        <4>1. pc'[t] = "k_preclose"
          BY <2>3, <3>4 DEF Flows, Ends
        <4> QED
          BY <2>1, <3>4, <4>1 DEF SellCreation
      <3>5. CASE pc[t] = "k_off"
        <4>1. posted[i].back > 0
          BY <1>6, <3>5 DEF PaidBack
        <4>2. pc'[t] \notin SellCreation /\ pc'[t] \notin K
          BY <2>3, <3>5 DEF Flows, Ends, SellCreation
        <4>3. posted'[i].back = posted[i].back
          BY <2>2, <3>5 DEF One
        <4> QED
          BY <2>1, <2>2, <3>5, <4>1, <4>2, <4>3 DEF SellCreation
      <3> QED
        BY <1>6, <2>2, <2>4, <3>1, <3>2, <3>3, <3>4, <3>5
           DEF OfSells, SellCreation, SellBacking
    <2> QED
      BY <1>1, <1>2, <1>3, <1>6, <2>4 DEF Offers, Evolves
  <1> QED
    BY <1>4, <1>5, <1>6

\* The two writes: the order in hand begins and ceases to count.
LEMMA OffersSwitch ==
    ASSUME MaxFaults = 0, ~Overlap, Sound, Sound', OneHolder, Dues, PaidBack,
           NEW t \in Tasks, StepSound(t), Works(t), pc[t] \in {"s_preclose", "k_preclose"},
           NEW i, i = job[t].id, NEW p, p = ext[i].parent
    PROVE  /\ i \in Ids /\ p \in Ids /\ Placed(i) /\ ext' = ext
           /\ pc[t] = "s_preclose" => ~Offers(p, i) /\ Offers(p, i)'
           /\ pc[t] = "k_preclose" => Offers(p, i) /\ ~Offers(p, i)'
  <1> DEFINE K == {"k_find", "k_preclose"}
             Later(L) == \E u \in Tasks : pc'[u] \in L /\ job'[u].id = i
  <1>1. /\ Others(t) /\ SellCreation \in SUBSET Holding /\ K \in SUBSET Holding /\ ext' = ext
        /\ pc[t] \in Holding
    BY StepNames DEF StepSound, SellCreation, Works
  <1>2. i \in Ids /\ Placed(i) /\ p \in Ids
    BY <1>1, InHand DEF OfSells, SellCreation, SellBacking
  <1>3. Offers(p, i)' <=> /\ ext'[i].parent = p /\ Placed(i)' /\ ~Later(SellCreation)
                          /\ posted'[i].back = 0 \/ Later(K)
    BY DEF Offers, At
  <1>4. /\ At(SellCreation, i) <=> pc[t] \in SellCreation
        /\ At(K, i) <=> pc[t] \in K
        /\ Later(SellCreation) <=> pc'[t] \in SellCreation
        /\ Later(K) <=> pc'[t] \in K
    BY <1>1, AtInHand
  <1>5. pc'[t] \notin SellCreation /\ pc'[t] \notin K
    BY DEF Works, Onward, Flows, Ends, SellCreation
  <1>6. posted'[i].back = posted[i].back /\ posted[i].back \in Nat
    <2>1. posted'[i].back = posted[i].back + One(pc[t] \in {"r_back", "k_back"})
          /\ posted[i].back \in Nat
      BY <1>2, PostsGrow DEF Works, Lines, Motion
    <2> QED
      BY <2>1 DEF One
  <1>7. pc[t] = "s_preclose" => posted[i].back = 0
    BY NotYetSettled DEF SellCreation
  <1>8. pc[t] = "k_preclose" => posted[i].back > 0
    BY DEF PaidBack
  <1>9. ext'[i].parent = p /\ Placed(i)'
    BY <1>1, <1>2 DEF Placed
  <1>10. CASE pc[t] = "s_preclose"
    BY <1>1, <1>2, <1>3, <1>4, <1>5, <1>6, <1>7, <1>9, <1>10 DEF Offers, SellCreation
  <1>11. CASE pc[t] = "k_preclose"
    BY <1>1, <1>2, <1>3, <1>4, <1>5, <1>6, <1>8, <1>9, <1>11 DEF Offers, SellCreation
  <1> QED
    BY <1>1, <1>2, <1>10, <1>11

LEMMA OfferedNext ==
    ASSUME Sound', NEW p
    PROVE  /\ (Total(OfferedOf(p)))' = Total(OfferedOf(p)')
           /\ \A i \in Ids : /\ OfferedOf(p)'[i] \in Nat
                             /\ OfferedOf(p)'[i] = IF Offers(p, i)' THEN ext'[i].amount ELSE 0
  <1>1. \A i \in Ids : ext'[i].amount \in Nat
    BY DEF Sound, TypeOK, ExtOrder
  <1>2. \A i \in Ids : OfferedOf(p)'[i] = IF Offers(p, i)' THEN ext'[i].amount ELSE 0
    BY DEF OfferedOf, Ids
  <1>3. (Total(OfferedOf(p)))' = Total(OfferedOf(p)')
    BY DEF Total, Ids
  <1> QED
    BY <1>1, <1>2, <1>3

LEMMA TotalSame ==
    ASSUME NEW f, NEW e, \A i \in Ids : f[i] \in Int /\ e[i] = f[i]
    PROVE  Total(e) = Total(f)
  BY IdsFinite, SumSame DEF Total

LEMMA OfferedMoves ==
    ASSUME MaxFaults = 0, ~Overlap, Sound, Sound', Lineage, OneHolder, Dues, PaidBack, PaidBack',
           Offering, NEW t \in Tasks, StepSound(t), Motion(t)
    PROVE  Offered'
  <1> SUFFICES ASSUME NEW p \in Ids, row'[p].stored, row'[p].parent = 0
               PROVE  /\ row'[p].preclosed = (Total(OfferedOf(p)))'
                      /\ row'[p].preclosed <= BuyAmount
    BY DEF Offered, BuyRows, IsBuy, Ids
  <1> DEFINE D == OfferedOf(p)
             E == OfferedOf(p)'
  <1>1. /\ (Total(OfferedOf(p)))' = Total(E)
        /\ \A i \in Ids : E[i] \in Nat /\ E[i] = IF Offers(p, i)' THEN ext'[i].amount ELSE 0
    BY OfferedNext
  <1>2. /\ \A i \in Ids : D[i] \in Nat /\ D[i] = IF Offers(p, i) THEN ext[i].amount ELSE 0
        /\ Total(D) \in Nat
    BY OfferedType DEF OfferedOf
  <1>3. p # 0 /\ \A i \in Ids : ext[i].amount \in Nat
    BY DEF Ids, Sound, TypeOK, ExtOrder
  <1>4. CASE ~row[p].stored
    <2>1. Works(t) /\ row'[p].preclosed = 0
      <3>1. Works(t)
        BY <1>4 DEF Motion, Starts, Leaves, Places, Turns
      <3> QED
        BY <1>4, <3>1 DEF Works, Fields
    <2>2. ASSUME NEW i \in Ids
          PROVE  E[i] = 0
      <3>1. ~Offers(p, i)'
        BY <1>3, <1>4, <2>1 DEF Offers, Works, Lineage, Placed
      <3> QED
        BY <1>1, <3>1
    <2> HIDE DEF E
    <2>3. Total(E) = 0
      BY <2>2, IdsFinite, SumZero DEF Total
    <2> QED
      BY <1>1, <2>1, <2>3, OrderAssumption
  <1>5. ASSUME row[p].stored
        PROVE  row[p].preclosed = Total(D) /\ row[p].preclosed <= BuyAmount
    <2>1. Placed(p) /\ row[p].parent = ext[p].parent /\ row'[p].parent = ext'[p].parent
      BY <1>5 DEF Sound, OrdersSound
    <2>2. row[p].parent = 0
      BY <2>1, OrderStays
    <2> QED
      BY <1>5, <2>2 DEF Offering, Offered, BuyRows, IsBuy
  <1>6. ASSUME NEW k \in Ids, ~(pc[t] \in {"s_preclose", "k_preclose"} /\ k = job[t].id)
        PROVE  E[k] = D[k]
    BY <1>1, <1>2, <1>6, OffersStay
  <1> HIDE DEF D, E
  <1>7. CASE /\ row[p].stored /\ pc[t] \in {"s_preclose", "k_preclose"}
             /\ ext[job[t].id].parent = p
    <2> PICK i : i = job[t].id
      OBVIOUS
    <2>1. Works(t)
      BY <1>7, HoldingWorks, StepNames
    <2>2. /\ i \in Ids /\ Placed(i) /\ ext' = ext
          /\ pc[t] = "s_preclose" => ~Offers(p, i) /\ Offers(p, i)'
          /\ pc[t] = "k_preclose" => Offers(p, i) /\ ~Offers(p, i)'
      BY <1>7, <2>1, OffersSwitch
    <2>3. \A k \in Ids : D[k] \in Int /\ E[k] \in Int
      BY <1>1, <1>2
    <2>4. Total(E) = Total(D) - D[i] + E[i]
      BY ZenonT(60), <1>6, <2>2, <2>3, TotalChanges
    <2>5. CASE pc[t] = "s_preclose"
      <3>1. t \in Sellers /\ pc[t] \in SellCreation /\ job[t].cur.id = p
        BY <1>7, <2>5, WhoStands DEF SellCreation, Lineage
      <3>2. /\ job[t].cur.preclosed = row[p].preclosed
            /\ job[t].cur.preclosed + ext[i].amount <= BuyAmount
        BY <3>1 DEF Offering, Fresh, Chosen
      <3>3. row'[p].preclosed = job[t].cur.preclosed + ext[i].amount
        BY <1>7, <2>1, <2>5, <3>1 DEF Works, Fields
      <3>4. D[i] = 0 /\ E[i] = ext[i].amount
        BY <1>1, <1>2, <2>2, <2>5
      <3> QED
        BY <1>1, <1>2, <1>3, <1>5, <1>7, <2>2, <2>4, <3>2, <3>3, <3>4
    <2>6. CASE pc[t] = "k_preclose"
      <3>1. job[t].seen = row[p].preclosed
        BY <1>7, <2>6 DEF Offering, SeenOffer
      <3>2. row'[p].preclosed = job[t].seen - ext[i].amount
        BY <1>7, <2>1, <2>6 DEF Works, Fields
      <3>3. D[i] = ext[i].amount /\ E[i] = 0
        BY <1>1, <1>2, <2>2, <2>6
      <3> QED
        BY <1>1, <1>2, <1>3, <1>5, <1>7, <2>2, <2>4, <3>1, <3>2, <3>3, OrderAssumption
    <2> QED
      BY <1>7, <2>5, <2>6
  <1>8. CASE /\ row[p].stored
             /\ ~(pc[t] \in {"s_preclose", "k_preclose"} /\ ext[job[t].id].parent = p)
    <2>1. row'[p].preclosed = row[p].preclosed
      <3>1. pc[t] = "s_preclose" => ext[job[t].id].parent = job[t].cur.id
        BY DEF Lineage, SellCreation
      <3> QED
        BY <1>8, <3>1, PrecloseStays
    <2>2. ASSUME NEW k \in Ids, pc[t] \in {"s_preclose", "k_preclose"}, k = job[t].id
          PROVE  E[k] = D[k]
      <3>1. Works(t)
        BY <2>2, HoldingWorks, StepNames
      <3>2. ~Offers(p, k) /\ ~Offers(p, k)'
        BY <1>8, <2>2, <3>1 DEF Offers, Works
      <3> QED
        BY <1>1, <1>2, <3>2
    <2>3. \A k \in Ids : D[k] \in Int /\ E[k] = D[k]
      BY <1>2, <1>6, <2>2
    <2>4. Total(E) = Total(D)
      BY <2>3, TotalSame
    <2> QED
      BY <1>1, <1>5, <1>8, <2>1, <2>4
  <1> QED
    BY <1>4, <1>7, <1>8

LEMMA InitOffering == Init => Offering
  <1> SUFFICES ASSUME Init PROVE Offering
    OBVIOUS
  <1>1. /\ \A i \in Ids : ~Placed(i) /\ ~row[i].stored
        /\ \A t \in Tasks : pc[t] = "idle" /\ job[t] = NoJob
    BY DEF Init, Placed, NoExt, NoRow
  <1>2. BuyRows = {}
    BY <1>1 DEF BuyRows
  <1>3. \A t \in Sellers : Chosen(t) = {} /\ pc[t] \notin SellCreation
    BY <1>1, TaskKinds, NoJobType DEF Chosen, SellCreation
  <1> QED
    BY <1>1, <1>2, <1>3 DEF Offering, Bought, Fresh, SeenOffer, Offered

LEMMA NextOffering ==
    ASSUME MaxFaults = 0, ~Overlap, OneSeller, Sound, Sound', Lineage, Closed, Dues, Paid, Paid',
           Offering, [Next]_vars
    PROVE  Offering'
  <1>1. OneHolder
    BY HolderIsOne DEF Closed
  <1>2. CASE \E t \in Tasks : StepSound(t) /\ Motion(t)
    <2> PICK t \in Tasks : StepSound(t) /\ Motion(t)
      BY <1>2
    <2>1. Bought'
      BY BoughtMoves
    <2>2. Fresh'
      BY FreshMoves DEF Closed, Paid
    <2>3. SeenOffer'
      BY SeenOfferMoves DEF Closed, Offering
    <2>4. Offered'
      BY <1>1, OfferedMoves DEF Paid
    <2> QED
      BY <2>1, <2>2, <2>3, <2>4 DEF Offering
  <1>3. CASE Trades /\ Evolves /\ UNCHANGED <<row, posted, pc, job>>
    <2>1. \A i \in Ids : /\ ext'[i].parent = ext[i].parent /\ ext'[i].amount = ext[i].amount
                         /\ Placed(i)' <=> Placed(i)
      BY <1>3 DEF Trades
    <2>2. \A t \in Tasks : pc[t] \in Holding => job[t].id \in Ids
      BY InHand
    <2>3. Bought'
      BY <1>3, <2>1 DEF Offering, Bought
    <2>4. Fresh'
      <3> SUFFICES ASSUME NEW u \in Sellers
                   PROVE  /\ \A s \in Chosen(u)' :
                                posted'[s.id].in > 0 /\ s.preclosed = row'[s.id].preclosed
                          /\ pc'[u] \in SellCreation =>
                                /\ \A s \in job'[u].todo : s.id # job'[u].cur.id
                                /\ job'[u].cur.preclosed + ext'[job'[u].id].amount <= BuyAmount
        BY DEF Fresh
      <3>1. Chosen(u)' = Chosen(u) /\ u \in Tasks
        BY <1>3, TaskKinds DEF Chosen
      <3>2. pc[u] \in SellCreation => job[u].id \in Ids
        BY <2>2, <3>1, StepNames DEF SellCreation
      <3> QED
        BY <1>3, <2>1, <3>1, <3>2 DEF Offering, Fresh
    <2>5. SeenOffer'
      <3> SUFFICES ASSUME NEW u \in Tasks, pc[u] = "k_preclose"
                   PROVE  job[u].seen = row[ext'[job[u].id].parent].preclosed
        BY <1>3 DEF SeenOffer
      <3>1. job[u].id \in Ids
        BY <2>2, StepNames
      <3> QED
        BY <2>1, <3>1 DEF Offering, SeenOffer
    <2>6. Offered'
      <3> SUFFICES ASSUME NEW p \in Ids, row[p].stored, row[p].parent = 0
                   PROVE  /\ row[p].preclosed = (Total(OfferedOf(p)))'
                          /\ row[p].preclosed <= BuyAmount
        BY <1>3 DEF Offered, BuyRows, IsBuy, Ids
      <3> DEFINE D == OfferedOf(p)
                 E == OfferedOf(p)'
      <3>1. /\ (Total(OfferedOf(p)))' = Total(E)
            /\ \A i \in Ids : E[i] = IF Offers(p, i)' THEN ext'[i].amount ELSE 0
        BY OfferedNext
      <3>2. \A i \in Ids : D[i] \in Int /\ D[i] = IF Offers(p, i) THEN ext[i].amount ELSE 0
        BY OfferedType DEF OfferedOf
      <3>3. ASSUME NEW i \in Ids
            PROVE  Offers(p, i)' <=> Offers(p, i)
        BY <1>3, <2>1 DEF Offers, At
      <3>4. \A i \in Ids : E[i] = D[i]
        BY <2>1, <3>1, <3>2, <3>3
      <3>5. row[p].preclosed = Total(D) /\ row[p].preclosed <= BuyAmount
        BY DEF Offering, Offered, BuyRows, IsBuy
      <3> HIDE DEF D, E
      <3>6. Total(E) = Total(D)
        BY <3>2, <3>4, TotalSame
      <3> QED
        BY <3>1, <3>5, <3>6
    <2> QED
      BY <2>3, <2>4, <2>5, <2>6 DEF Offering
  <1> QED
    BY <1>2, <1>3, QuietSteps

LEMMA OfferingInvariant ==
    ASSUME MaxFaults = 0, ~Overlap, OneSeller
    PROVE  Spec => []Offering
  <1>1. Init => Offering
    BY InitOffering
  <1>2. Spec => []Dues
    BY DuesInvariant DEF Single
  <1>3. Sound /\ Sound' /\ Lineage /\ Closed /\ Dues /\ Paid /\ Paid' /\ Offering /\ [Next]_vars
            => Offering'
    BY NextOffering
  <1> QED
    BY <1>1, <1>2, <1>3, SoundInvariant, LineageInvariant, ClosedInvariant, PaidInvariant, PTL
       DEF Spec

-----------------------------------------------------------------------------
LEMMA OffersAtRest ==
    ASSUME Sound, Paid, Idle(Tasks), NEW p \in Ids
    PROVE  \A i \in Ids : Offers(p, i) <=> i \in Children(p) /\ posted[i].back = 0
  <1>1. \A L : \A i \in Ids : L \subseteq Holding => ~At(L, i)
    BY StepNames DEF Idle, At
  <1>2. ASSUME NEW i \in Ids
        PROVE  Offers(p, i) <=> i \in Children(p) /\ posted[i].back = 0
    <2>1. ~At(SellCreation, i) /\ ~At({"k_find", "k_preclose"}, i)
          /\ ~At({"b_record", "s_record"}, i)
      BY <1>1, StepNames DEF SellCreation
    <2>2. Placed(i) <=> row[i].stored
      BY <2>1 DEF Paid, Recorded, Sound, OrdersSound
    <2>3. row[i].stored => row[i].parent = ext[i].parent
      BY DEF Sound, OrdersSound
    <2>4. p # 0
      BY DEF Ids
    <2> QED
      BY <2>1, <2>2, <2>3, <2>4 DEF Offers, Children, SellRows, IsBuy
  <1> QED
    BY <1>2

\* At rest preclosed is what the position has put in sell orders that were not rolled back.
THEOREM PreclosedIsExact ==
    ASSUME MaxFaults = 0, ~Overlap, OneSeller
    PROVE  Spec => []PreclosedExact
  <1>1. Sound /\ Paid /\ Offering => PreclosedExact
    <2> SUFFICES ASSUME Sound, Paid, Offering, Idle(Tasks), NEW p \in BuyRows
                 PROVE  row[p].preclosed = InSells(p)
      BY DEF PreclosedExact
    <2> DEFINE C == {i \in Children(p) : posted[i].back = 0}
               F == [i \in C |-> row[i].amount1]
               D == OfferedOf(p)
    <2>1. InSells(p) = SumFunctionOnSet(F, C)
      BY DEF InSells, Sum
    <2>2. p \in Ids /\ p # 0 /\ C \in SUBSET Ids
      BY DEF BuyRows, Children, SellRows, Ids
    <2>4. \A i \in Ids : Offers(p, i) <=> i \in C
      BY <2>2, OffersAtRest
    <2>5. \A i \in C : ext[i].amount \in Int /\ row[i].amount1 = ext[i].amount
      BY <2>2 DEF Children, SellRows, Sound, OrdersSound, TypeOK, ExtOrder
    <2>6. /\ \A i \in C : F[i] \in Int /\ D[i] = F[i]
          /\ \A i \in Ids \ C : D[i] = 0
      BY <2>2, <2>4, <2>5 DEF OfferedOf
    <2>7. row[p].preclosed = Total(D)
      BY DEF Offering, Offered
    <2> HIDE DEF C, F, D
    <2>8. SumFunctionOnSet(F, C) = Total(D)
      BY <2>2, <2>6, IdsFinite, SumPadded DEF Total
    <2> QED
      BY <2>1, <2>7, <2>8
  <1> QED
    BY <1>1, SoundInvariant, PaidInvariant, OfferingInvariant, PTL

\* What the exchange has sold or may sell for an order.
Exposed(i) == IF ext[i].status \in {"open", "closed"} THEN ext[i].amount ELSE ext[i].filled

LEMMA ExposedBound ==
    ASSUME Sound, Paid, Truthful, Offering, NEW p \in Ids, NEW i \in Ids, ext[i].parent = p,
           Placed(i), ~At(SellCreation, i)
    PROVE  Exposed(i) <= OfferedOf(p)[i]
  <1>1. /\ ext[i].amount \in Nat /\ ext[i].filled \in Nat /\ posted[i].back \in Nat
        /\ ext[i].filled <= ext[i].amount /\ p # 0
    BY DEF Sound, TypeOK, ExtOrder, Postings, Paid, Filling, Ids
  <1>2. CASE posted[i].back = 0
    BY <1>1, <1>2 DEF Exposed, OfferedOf, Offers
  <1>3. CASE posted[i].back # 0
    <2>1. ext[i].status = "gone" /\ ext[i].filled = 0
      BY <1>1, <1>3 DEF Truthful, Paid, Filling
    <2>2. OfferedOf(p)[i] \in Nat
      BY OfferedType
    <2> QED
      BY <2>1, <2>2 DEF Exposed
  <1> QED
    BY <1>2, <1>3

\* The parts of a position that are sold or still on sale never exceed what was bought:
\* preclosed counts them from the write that follows the order, one run sells at a time,
\* and what it read of preclosed still holds when it orders.
THEOREM NothingOversold ==
    ASSUME MaxFaults = 0, ~Overlap, OneSeller
    PROVE  Spec => []NoOversell
  <1>1. Sound /\ Lineage /\ Paid /\ Truthful /\ Offering => NoOversell
    <2> SUFFICES ASSUME Sound, Lineage, Paid, Truthful, Offering,
                        NEW p \in Ids, Placed(p), ext[p].parent = 0
                 PROVE  OnExchange(p) <= ext[p].filled
      BY DEF NoOversell
    <2> DEFINE S == {i \in Ids : ext[i].parent = p /\ Placed(i)}
               X == [i \in S |-> Exposed(i)]
               G == [i \in Ids |-> IF i \in S THEN Exposed(i) ELSE 0]
               D == OfferedOf(p)
    <2>1. OnExchange(p) = SumFunctionOnSet(X, S)
      BY DEF OnExchange, Sum, Exposed
    <2>2. /\ S \in SUBSET Ids /\ p # 0
          /\ \A i \in Ids : ext[i].amount \in Nat /\ ext[i].filled \in Nat
          /\ \A i \in Ids : Exposed(i) \in Nat
      BY DEF Ids, Sound, TypeOK, ExtOrder, Exposed
    <2>3. /\ \A i \in S : X[i] \in Int /\ G[i] = X[i]
          /\ \A i \in Ids \ S : G[i] = 0
          /\ \A i \in Ids : G[i] \in Nat
      BY <2>2
    <2>4. ASSUME NEW i \in Ids, i \in S, ~At(SellCreation, i)
          PROVE  G[i] <= D[i]
      BY <2>4, ExposedBound
    <2>5. \A i \in S : ext[i].parent = p /\ Placed(i) /\ G[i] <= ext[i].amount
      BY <2>2 DEF Exposed, Paid, Filling
    <2>6. \A i \in Ids : i \in S <=> ext[i].parent = p /\ Placed(i)
      OBVIOUS
    <2>7. /\ \A i \in Ids : D[i] \in Nat /\ D[i] = IF Offers(p, i) THEN ext[i].amount ELSE 0
          /\ Total(D) \in Nat
      BY OfferedType DEF OfferedOf
    <2> HIDE DEF S, X, G, D
    <2>8. OnExchange(p) = Total(G)
      BY <2>1, <2>2, <2>3, IdsFinite, SumPadded DEF Total
    <2>9. Total(G) \in Nat
      BY <2>3, IdsFinite, SumNat DEF Total
    <2>10. CASE S = {}
      <3>1. Total(G) = 0
        BY <2>3, <2>10, IdsFinite, SumZero DEF Total
      <3> QED
        BY <2>2, <2>8, <3>1
    <2>11. ASSUME S # {}
           PROVE  /\ ext[p].filled = BuyAmount
                  /\ row[p].preclosed = Total(D) /\ row[p].preclosed <= BuyAmount
      <3> PICK i \in S : TRUE
        BY <2>11
      <3>1. i \in Ids /\ ext[i].parent = p /\ Placed(i)
        BY <2>2, <2>5
      <3>2. row[p].stored /\ posted[p].in > 0
        BY <2>2, <3>1 DEF Lineage, Offering, Bought
      <3>3. ext[p].filled = ext[p].amount /\ ext[p].amount = BuyAmount
        BY <3>2 DEF Truthful, Sound, OrdersSound, Offering, Bought
      <3>4. p \in BuyRows
        BY <3>2 DEF BuyRows, IsBuy, Sound, OrdersSound
      <3> QED
        BY <3>3, <3>4 DEF Offering, Offered, D
    <2>12. CASE S # {} /\ \A i \in S : ~At(SellCreation, i)
      <3>1. \A i \in Ids : G[i] <= D[i] /\ G[i] \in Int /\ D[i] \in Int
        BY <2>3, <2>4, <2>7, <2>12
      <3>2. Total(G) <= Total(D)
        BY <3>1, TotalGrows
      <3> QED
        BY <2>7, <2>8, <2>9, <2>11, <2>12, <3>2, OrderAssumption
    <2>13. CASE \E i \in S : At(SellCreation, i)
      <3>1. PICK i \in S, t \in Tasks : pc[t] \in SellCreation /\ job[t].id = i
        BY <2>13 DEF At
      <3>2. i \in Ids /\ t \in Sellers /\ job[t].cur.id = p /\ ext[i].parent = p
        BY <2>2, <2>5, <3>1, WhoStands DEF Lineage
      <3>3. row[p].preclosed + ext[i].amount <= BuyAmount
        BY <3>1, <3>2 DEF Offering, Fresh, Chosen
      <3>4. ASSUME NEW k \in Ids, k # i
            PROVE  ~At(SellCreation, k)
        BY <3>1, <3>2, <3>4, WhoStands DEF At, OneSeller
      <3>5. D[i] = 0
        <4>1. ~Offers(p, i)
          BY <3>1 DEF Offers, At
        <4> QED
          BY <2>7, <3>2, <4>1
      <3> DEFINE F == [k \in Ids |-> IF k = i THEN ext[i].amount ELSE D[k]]
      <3>6. /\ \A k \in Ids : F[k] \in Int /\ D[k] \in Int
            /\ \A k \in Ids \ {i} : F[k] = D[k]
            /\ F[i] = ext[i].amount
        BY <2>2, <2>7, <3>2
      <3>7. \A k \in Ids : G[k] <= F[k] /\ G[k] \in Int
        BY <2>2, <2>3, <2>4, <2>5, <2>7, <3>1, <3>4, <3>6
      <3> HIDE DEF F
      <3>8. Total(F) = Total(D) - D[i] + F[i]
        BY <3>2, <3>6, TotalChanges
      <3>9. Total(G) <= Total(F)
        BY <3>6, <3>7, TotalGrows
      <3> QED
        BY <2>2, <2>7, <2>8, <2>9, <2>11, <3>1, <3>2, <3>3, <3>5, <3>6, <3>8, <3>9,
           OrderAssumption
    <2> QED
      BY <2>10, <2>12, <2>13
  <1> QED
    BY <1>1, SoundInvariant, LineageInvariant, PaidInvariant, TruthfulInvariant,
       OfferingInvariant, PTL

-----------------------------------------------------------------------------
\* At rest in_orders of the balance is what credited positions have not yet offered.
THEOREM InOrdersAreExact ==
    ASSUME MaxFaults = 0, ~Overlap, OneSeller
    PROVE  Spec => []InOrdersExact
  <1>1. Sound /\ PostedOnce /\ Lineage /\ Paid /\ Offering => InOrdersExact
    <2> SUFFICES ASSUME Sound, PostedOnce, Lineage, Paid, Offering, Idle(Tasks)
                 PROVE  InOrders - OtherInOrders =
                            Sum({p \in BuyRows : posted[p].in > 0},
                                LAMBDA p : row[p].amount1 - row[p].preclosed)
      BY DEF InOrdersExact
    <2> DEFINE C == {p \in BuyRows : posted[p].in > 0}
               \* What credited positions brought in, and what was offered of each.
               a == [p \in Ids |-> IF p \in C THEN row[p].amount1 ELSE 0]
               e == [p \in Ids |-> Total(OfferedOf(p))]
               d == [p \in Ids |-> IF p \in C THEN row[p].amount1 - row[p].preclosed ELSE 0]
               \* What sell orders that were not rolled back took out.
               w == [i \in Ids |-> IF i \in SellRows /\ posted[i].back = 0
                                   THEN row[i].amount1 ELSE 0]
               part == [p \in Ids |-> OfferedOf(p)]
               class == [i \in Ids |-> row[i].parent]
               In == [p \in BuyRows |-> posted[p].in * row[p].amount1]
               Out == [i \in SellRows |-> (posted[i].out - posted[i].back) * row[i].amount1]
               Left == [p \in C |-> row[p].amount1 - row[p].preclosed]
    <2>1. ASSUME NEW i \in Ids
          PROVE  /\ row[i].amount1 \in Nat /\ row[i].preclosed \in Int
                 /\ posted[i].in \in Nat /\ posted[i].out \in Nat /\ posted[i].back \in Nat
                 /\ posted[i].in + posted[i].back <= 1 /\ posted[i].out <= 1
      BY DEF Sound, TypeOK, OrderRow, Postings, PostedOnce
    <2>2. ASSUME NEW i \in SellRows
          PROVE  i \in Ids /\ posted[i].out = 1
      <3>1. ~At({"b_out", "s_out"}, i)
        BY StepNames DEF Idle, At
      <3>2. i \in Ids /\ posted[i].out # 0
        BY <3>1 DEF SellRows, Paid, PaidOut
      <3> QED
        BY <2>1, <3>2
    <2>3. C \in SUBSET Ids /\ BuyRows \in SUBSET Ids /\ SellRows \in SUBSET Ids
          /\ C \in SUBSET BuyRows
      BY DEF BuyRows, SellRows
    \* The lines of sell orders.
    <2>4. SumFunctionOnSet(Out, SellRows) = Total(w)
      <3>1. ASSUME NEW i \in SellRows
            PROVE  Out[i] \in Int /\ w[i] = Out[i]
        <4>1. i \in Ids /\ posted[i].out = 1 /\ (posted[i].back = 0 \/ posted[i].back = 1)
          BY <2>1, <2>2
        <4>2. w[i] = IF posted[i].back = 0 THEN row[i].amount1 ELSE 0
          BY <4>1
        <4>3. Out[i] = (1 - posted[i].back) * row[i].amount1
          BY <4>1
        <4> QED
          BY <2>1, <4>1, <4>2, <4>3
      <3>2. \A i \in Ids \ SellRows : w[i] = 0
        OBVIOUS
      <3> HIDE DEF Out, w
      <3>3. SumFunctionOnSet(w, Ids) = SumFunctionOnSet(Out, SellRows)
        BY <2>3, <3>1, <3>2, IdsFinite, SumPadded
      <3> QED
        BY <3>3 DEF Total
    \* The lines of buy orders.
    <2>5. SumFunctionOnSet(In, BuyRows) = Total(a)
      <3>1. ASSUME NEW p \in BuyRows
            PROVE  In[p] \in Int /\ a[p] = In[p]
        <4>1. p \in Ids /\ (posted[p].in = 0 \/ posted[p].in = 1)
          BY <2>1, <2>3
        <4>2. a[p] = IF posted[p].in > 0 THEN row[p].amount1 ELSE 0
          BY <4>1
        <4>3. In[p] = posted[p].in * row[p].amount1
          OBVIOUS
        <4> QED
          BY <2>1, <4>1, <4>2, <4>3
      <3>2. \A p \in Ids \ BuyRows : a[p] = 0
        OBVIOUS
      <3> HIDE DEF In, a
      <3>3. SumFunctionOnSet(a, Ids) = SumFunctionOnSet(In, BuyRows)
        BY <2>3, <3>1, <3>2, IdsFinite, SumPadded
      <3> QED
        BY <3>3 DEF Total
    \* An order that was not rolled back is offered of its parent, and of no other.
    <2>6. ASSUME NEW p \in Ids, NEW i \in Ids
          PROVE  OfferedOf(p)[i] = IF row[i].parent = p THEN w[i] ELSE 0
      <3>1. Offers(p, i) <=> i \in Children(p) /\ posted[i].back = 0
        BY OffersAtRest
      <3>2. i \in Children(p) <=> i \in SellRows /\ row[i].parent = p
        BY DEF Children
      <3>3. i \in SellRows => row[i].amount1 = ext[i].amount
        BY DEF SellRows, Sound, OrdersSound
      <3>4. OfferedOf(p)[i] = IF Offers(p, i) THEN ext[i].amount ELSE 0
        BY DEF OfferedOf
      <3> QED
        BY <3>1, <3>2, <3>3, <3>4
    <2>7. ASSUME NEW i \in Ids
          PROVE  w[i] \in Int /\ (w[i] = 0 \/ row[i].parent \in C)
      <3>1. w[i] \in Int
        BY <2>1
      <3>2. CASE i \in SellRows
        <4>1. Placed(i) /\ row[i].parent = ext[i].parent /\ row[i].parent # 0
          BY <3>2 DEF SellRows, IsBuy, Sound, OrdersSound
        <4>2. PICK p : p = row[i].parent
          OBVIOUS
        <4>3. p \in Ids
          BY <4>1, <4>2, OrderAssumption DEF Sound, TypeOK, ExtOrder, Ids
        <4>4. row[p].stored /\ ext[p].parent = 0 /\ posted[p].in > 0
          BY <4>1, <4>2, <4>3 DEF Lineage, Offering, Bought
        <4>5. p \in BuyRows
          BY <4>3, <4>4 DEF BuyRows, IsBuy, Sound, OrdersSound
        <4> QED
          BY <3>1, <4>2, <4>4, <4>5
      <3>3. CASE i \notin SellRows
        BY <3>1, <3>3
      <3> QED
        BY <3>2, <3>3
    <2>8. Total(e) = Total(w)
      <3>1. \A i \in Ids : w[i] \in Int /\ (w[i] = 0 \/ class[i] \in Ids)
        BY <2>3, <2>7
      <3>2. \A p \in Ids : \A i \in Ids : part[p][i] = IF class[i] = p THEN w[i] ELSE 0
        <4> HIDE DEF w
        <4> QED
          BY <2>6
      <3>3. \A p \in Ids : e[p] = SumFunctionOnSet(part[p], Ids)
        BY DEF Total
      <3> HIDE DEF e, w, part, class
      <3>4. SumFunctionOnSet(e, Ids) = SumFunctionOnSet(w, Ids)
        BY <3>1, <3>2, <3>3, IdsFinite, SumByClass
      <3> QED
        BY <3>4 DEF Total
    <2>9. ASSUME NEW p \in Ids
          PROVE  a[p] \in Int /\ e[p] \in Int /\ d[p] = a[p] - e[p]
      <3>1. a[p] \in Int /\ e[p] = Total(OfferedOf(p)) /\ e[p] \in Int
        BY <2>1, OfferedType
      <3>2. CASE p \in C
        <4>1. e[p] = row[p].preclosed
          BY <2>3, <3>1, <3>2 DEF Offering, Offered
        <4>2. a[p] = row[p].amount1 /\ d[p] = row[p].amount1 - row[p].preclosed
          BY <3>2
        <4> HIDE DEF a, e, d
        <4> QED
          BY <3>1, <4>1, <4>2
      <3>3. CASE p \notin C
        <4>1. ASSUME NEW i \in Ids
              PROVE  OfferedOf(p)[i] = 0
          <5> HIDE DEF w
          <5>1. row[i].parent = p => w[i] = 0
            BY <2>7, <3>3
          <5> QED
            BY <2>6, <5>1
        <4>2. Total(OfferedOf(p)) = 0
          BY <4>1, IdsFinite, SumZero DEF Total
        <4>3. a[p] = 0 /\ d[p] = 0
          BY <3>3
        <4> HIDE DEF a, e, d
        <4> QED
          BY <3>1, <4>2, <4>3
      <3> QED
        BY <3>2, <3>3
    <2>10. Total(d) = Total(a) - Total(e)
      <3> HIDE DEF a, d, e
      <3> QED
        BY <2>9, IdsFinite, SumMinus DEF Total
    <2>11. SumFunctionOnSet(Left, C) = Total(d)
      <3>1. ASSUME NEW p \in C
            PROVE  Left[p] \in Int /\ d[p] = Left[p]
        <4>1. p \in Ids
          BY <2>3
        <4>2. Left[p] = row[p].amount1 - row[p].preclosed
          OBVIOUS
        <4> QED
          BY <2>1, <4>1, <4>2
      <3>2. \A p \in Ids \ C : d[p] = 0
        OBVIOUS
      <3> HIDE DEF Left, d, C
      <3>3. SumFunctionOnSet(d, Ids) = SumFunctionOnSet(Left, C)
        BY <2>3, <3>1, <3>2, IdsFinite, SumPadded
      <3> QED
        BY <3>3 DEF Total
    <2>12. InOrders = OtherInOrders + SumFunctionOnSet(In, BuyRows)
                          - SumFunctionOnSet(Out, SellRows)
      BY DEF InOrders, Sum
    <2>13. Sum(C, LAMBDA p : row[p].amount1 - row[p].preclosed) = SumFunctionOnSet(Left, C)
      BY DEF Sum
    <2>14. Total(a) \in Int /\ Total(e) \in Int /\ OtherInOrders \in Int
      <3> HIDE DEF a, e
      <3> QED
        BY <2>9, IdsFinite, SumType, OrderAssumption DEF Total
    <2> HIDE DEF a, d, e, w, In, Out, Left
    <2>15. InOrders - OtherInOrders = Total(d)
      BY <2>4, <2>5, <2>8, <2>10, <2>12, <2>14
    <2> QED
      BY <2>11, <2>13, <2>15
  <1>2. Spec => []PostedOnce
    BY OrdersPostedOnce
  <1> QED
    BY <1>1, <1>2, SoundInvariant, LineageInvariant, PaidInvariant, OfferingInvariant, PTL

-----------------------------------------------------------------------------
(* The lines of the log, read order by order, are a history of Positions.   *)

\* The sell orders of a position whose amount has gone out and not come back.
Held(q) == {i \in Children(q) : posted[i].out > posted[i].in + posted[i].back}

HeldFn(q) == [i \in Ids |-> IF i \in Held(q) THEN row[i].amount1 ELSE 0]
SoldFn(q) == [i \in Ids |-> IF i \in Children(q) THEN posted[i].in * row[i].amount1 ELSE 0]

BoughtOf(q) == IF q \in BuyRows THEN posted[q].in * row[q].amount1 ELSE 0

\* The sums of Positions, taken over all orders.
SumsOverIds ==
    \A q \in Ids : Book!Total(Parts(q)) = Total(HeldFn(q)) /\ SoldOf(q) = Total(SoldFn(q))

LEMMA BookSums == Sound => SumsOverIds
  <1> SUFFICES ASSUME Sound, NEW q \in Ids
               PROVE  /\ Book!Total(Parts(q)) = Total(HeldFn(q))
                      /\ SoldOf(q) = Total(SoldFn(q))
    BY DEF SumsOverIds
  <1>1. ASSUME NEW i \in Ids
        PROVE  row[i].amount1 \in Int /\ posted[i].in * row[i].amount1 \in Int
    <2>1. row[i].amount1 \in Nat /\ posted[i].in \in Nat
      BY DEF Sound, TypeOK, OrderRow, Postings
    <2> QED
      BY <2>1
  <1>2. Held(q) \in SUBSET Ids /\ Children(q) \in SUBSET Ids
    BY DEF Held, Children, SellRows
  <1>3. Book!Total(Parts(q)) = Total(HeldFn(q))
    <2> DEFINE f == [i \in Held(q) |-> row[i].amount1]
               P == {<<i, row[i].amount1>> : i \in Held(q)}
               g == [x \in P |-> x[2]]
    <2>1. Book!Total(Parts(q)) = SumFunctionOnSet(g, P)
      <3>1. Parts(q) = P
        BY DEF Parts, Held
      <3>2. Book!Total(Parts(q)) = Book!Total(P)
        BY <3>1
      <3>3. Book!Total(P) = SumFunctionOnSet(g, P)
        BY DEF Book!Total, Book!SumFunctionOnSet, Book!FoldFunctionOnSet, Book!MapThenFoldSet,
           SumFunctionOnSet, FoldFunctionOnSet, MapThenFoldSet
      <3> QED
        BY <3>2, <3>3
    <2>2. /\ P = {<<i, f[i]>> : i \in Held(q)} /\ \A i \in Held(q) : f[i] \in Int
          /\ \A x \in P : g[x] = x[2]
      BY <1>1, <1>2
    <2>3. /\ \A i \in Held(q) : f[i] \in Int /\ HeldFn(q)[i] = f[i]
          /\ \A i \in Ids \ Held(q) : HeldFn(q)[i] = 0
      BY <1>1, <1>2 DEF HeldFn
    <2>4. IsFiniteSet(Held(q))
      BY <1>2, IdsFinite, FS_Subset
    <2> HIDE DEF f, g, P
    <2>5. SumFunctionOnSet(g, P) = SumFunctionOnSet(f, Held(q))
      BY <2>2, <2>4, SumOfPairs
    <2>6. SumFunctionOnSet(HeldFn(q), Ids) = SumFunctionOnSet(f, Held(q))
      BY <1>2, <2>3, IdsFinite, SumPadded
    <2> QED
      BY <2>1, <2>5, <2>6 DEF Total
  <1>4. SoldOf(q) = Total(SoldFn(q))
    <2> DEFINE f == [i \in Children(q) |-> posted[i].in * row[i].amount1]
    <2>1. SoldOf(q) = SumFunctionOnSet(f, Children(q))
      BY DEF SoldOf, Sum
    <2>2. /\ \A i \in Children(q) : f[i] \in Int /\ SoldFn(q)[i] = f[i]
          /\ \A i \in Ids \ Children(q) : SoldFn(q)[i] = 0
      BY <1>1, <1>2 DEF SoldFn
    <2> HIDE DEF f
    <2>3. SumFunctionOnSet(SoldFn(q), Ids) = SumFunctionOnSet(f, Children(q))
      BY <1>2, <2>2, IdsFinite, SumPadded
    <2> QED
      BY <2>1, <2>3 DEF Total
  <1> QED
    BY <1>3, <1>4

LEMMA BookSumsNext == Sound' => SumsOverIds'
  BY BookSums, PTL

ShownBought == [q \in Ids |-> IF q \in BuyRows THEN posted[q].in * row[q].amount1 ELSE 0]
ShownOffered == [q \in Ids |-> Parts(q)]
ShownSold == [q \in Ids |-> SoldOf(q)]

LEMMA OneChange ==
    ASSUME NEW D, NEW F, F = [q \in D |-> F[q]], NEW G, G = [q \in D |-> G[q]], NEW p \in D,
           \A q \in D \ {p} : G[q] = F[q], NEW v, G[p] = v
    PROVE  G = [F EXCEPT ![p] = v]
  OBVIOUS

LEMMA NoChange ==
    ASSUME NEW D, NEW F, F = [q \in D |-> F[q]], NEW G, G = [q \in D |-> G[q]],
           \A q \in D : G[q] = F[q]
    PROVE  G = F
  OBVIOUS

\* A step of the book at one position, in terms of what is shown of it.
LEMMA BookStep ==
    ASSUME NEW p \in Ids,
           \A q \in Ids \ {p} : /\ BoughtOf(q)' = BoughtOf(q) /\ Parts(q)' = Parts(q)
                                /\ SoldOf(q)' = SoldOf(q),
           \/ /\ BoughtOf(p) = 0 /\ BoughtOf(p)' \in 1..BuyAmount
              /\ Parts(p)' = Parts(p) /\ SoldOf(p)' = SoldOf(p)
           \/ /\ BoughtOf(p)' = BoughtOf(p) /\ SoldOf(p)' = SoldOf(p)
              /\ \E x \in Ids \X (1..BuyAmount) :
                    /\ x \notin Parts(p) /\ Parts(p)' = Parts(p) \cup {x}
                    /\ Book!Total(Parts(p) \cup {x}) + SoldOf(p) <= BoughtOf(p)
           \/ /\ BoughtOf(p)' = BoughtOf(p) /\ SoldOf(p)' = SoldOf(p)
              /\ \E x \in Parts(p) : Parts(p)' = Parts(p) \ {x}
           \/ /\ BoughtOf(p)' = BoughtOf(p)
              /\ \E x \in Parts(p) : /\ Parts(p)' = Parts(p) \ {x}
                                     /\ SoldOf(p)' = SoldOf(p) + x[2]
    PROVE  Book!Next
  <1> PICK B, O, S : B = ShownBought /\ O = ShownOffered /\ S = ShownSold
    OBVIOUS
  <1> PICK Bn, On, Sn : Bn = ShownBought' /\ On = ShownOffered' /\ Sn = ShownSold'
    OBVIOUS
  <1>1. /\ B = [q \in Ids |-> B[q]] /\ O = [q \in Ids |-> O[q]] /\ S = [q \in Ids |-> S[q]]
        /\ \A q \in Ids : B[q] = BoughtOf(q) /\ O[q] = Parts(q) /\ S[q] = SoldOf(q)
    BY DEF ShownBought, ShownOffered, ShownSold, BoughtOf
  <1>2. /\ Bn = [q \in Ids |-> Bn[q]] /\ On = [q \in Ids |-> On[q]] /\ Sn = [q \in Ids |-> Sn[q]]
        /\ \A q \in Ids : Bn[q] = BoughtOf(q)' /\ On[q] = Parts(q)' /\ Sn[q] = SoldOf(q)'
    BY DEF ShownBought, ShownOffered, ShownSold, BoughtOf
  <1>3. ASSUME BoughtOf(p)' = BoughtOf(p)
        PROVE  ShownBought' = ShownBought
    <2>1. \A q \in Ids : Bn[q] = B[q]
      BY <1>1, <1>2, <1>3
    <2> QED
      BY <1>1, <1>2, <2>1, NoChange
  <1>4. ASSUME Parts(p)' = Parts(p)
        PROVE  ShownOffered' = ShownOffered
    <2>1. \A q \in Ids : On[q] = O[q]
      BY <1>1, <1>2, <1>4
    <2> QED
      BY <1>1, <1>2, <2>1, NoChange
  <1>5. ASSUME SoldOf(p)' = SoldOf(p)
        PROVE  ShownSold' = ShownSold
    <2>1. \A q \in Ids : Sn[q] = S[q]
      BY <1>1, <1>2, <1>5
    <2> QED
      BY <1>1, <1>2, <2>1, NoChange
  <1>6. ASSUME NEW v, Parts(p)' = v
        PROVE  ShownOffered' = [ShownOffered EXCEPT ![p] = v]
    <2>1. (\A q \in Ids \ {p} : On[q] = O[q]) /\ On[p] = v
      BY <1>1, <1>2, <1>6
    <2> QED
      BY <1>1, <1>2, <2>1, OneChange
  <1>7. CASE /\ BoughtOf(p) = 0 /\ BoughtOf(p)' \in 1..BuyAmount
             /\ Parts(p)' = Parts(p) /\ SoldOf(p)' = SoldOf(p)
    <2> PICK n \in 1..BuyAmount : n = BoughtOf(p)'
      BY <1>7
    <2>1. (\A q \in Ids \ {p} : Bn[q] = B[q]) /\ Bn[p] = n
      BY <1>1, <1>2
    <2>2. ShownBought' = [ShownBought EXCEPT ![p] = n] /\ ShownBought[p] = 0
      BY <1>1, <1>2, <1>7, <2>1, OneChange
    <2>3. UNCHANGED <<ShownOffered, ShownSold>>
      BY <1>4, <1>5, <1>7
    <2>4. Book!Buy(p)
      BY <2>2, <2>3 DEF Book!Buy, ShownBought, ShownOffered, ShownSold
    <2> QED
      BY <2>4 DEF Book!Next
  <1>8. CASE /\ BoughtOf(p)' = BoughtOf(p) /\ SoldOf(p)' = SoldOf(p)
             /\ \E x \in Ids \X (1..BuyAmount) :
                    /\ x \notin Parts(p) /\ Parts(p)' = Parts(p) \cup {x}
                    /\ Book!Total(Parts(p) \cup {x}) + SoldOf(p) <= BoughtOf(p)
    <2> PICK x \in Ids \X (1..BuyAmount) :
                    /\ x \notin Parts(p) /\ Parts(p)' = Parts(p) \cup {x}
                    /\ Book!Total(Parts(p) \cup {x}) + SoldOf(p) <= BoughtOf(p)
      BY <1>8
    <2>1. ShownOffered' = [ShownOffered EXCEPT ![p] = Parts(p) \cup {x}]
      BY <1>6
    <2>2. ShownOffered[p] = Parts(p) /\ ShownBought[p] = BoughtOf(p) /\ ShownSold[p] = SoldOf(p)
      BY <1>1
    <2>3. UNCHANGED <<ShownBought, ShownSold>>
      BY <1>3, <1>5, <1>8
    <2>4. /\ x \in Book!Part /\ x \notin ShownOffered[p]
          /\ Book!Total(ShownOffered[p] \cup {x}) + ShownSold[p] <= ShownBought[p]
          /\ ShownOffered' = [ShownOffered EXCEPT ![p] = @ \cup {x}]
      BY <2>1, <2>2 DEF Book!Part
    <2>5. Book!Offer(p)
      BY <2>3, <2>4 DEF Book!Offer, ShownBought, ShownOffered, ShownSold
    <2> QED
      BY <2>5 DEF Book!Next
  <1>9. CASE /\ BoughtOf(p)' = BoughtOf(p) /\ SoldOf(p)' = SoldOf(p)
             /\ \E x \in Parts(p) : Parts(p)' = Parts(p) \ {x}
    <2> PICK x \in Parts(p) : Parts(p)' = Parts(p) \ {x}
      BY <1>9
    <2>1. ShownOffered' = [ShownOffered EXCEPT ![p] = Parts(p) \ {x}]
      BY <1>6
    <2>2. x \in ShownOffered[p] /\ ShownOffered' = [ShownOffered EXCEPT ![p] = @ \ {x}]
      BY <1>1, <2>1
    <2>3. UNCHANGED <<ShownBought, ShownSold>>
      BY <1>3, <1>5, <1>9
    <2>4. Book!Withdraw(p)
      BY <2>2, <2>3 DEF Book!Withdraw, ShownBought, ShownOffered, ShownSold
    <2> QED
      BY <2>4 DEF Book!Next
  <1>10. CASE /\ BoughtOf(p)' = BoughtOf(p)
              /\ \E x \in Parts(p) : /\ Parts(p)' = Parts(p) \ {x}
                                     /\ SoldOf(p)' = SoldOf(p) + x[2]
    <2> PICK x \in Parts(p) : Parts(p)' = Parts(p) \ {x} /\ SoldOf(p)' = SoldOf(p) + x[2]
      BY <1>10
    <2>1. ShownOffered' = [ShownOffered EXCEPT ![p] = Parts(p) \ {x}]
      BY <1>6
    <2>2. x \in ShownOffered[p] /\ ShownOffered' = [ShownOffered EXCEPT ![p] = @ \ {x}]
      BY <1>1, <2>1
    <2>3. UNCHANGED ShownBought
      BY <1>3, <1>10
    <2>4. (\A q \in Ids \ {p} : Sn[q] = S[q]) /\ Sn[p] = S[p] + x[2]
      BY <1>1, <1>2
    <2>5. ShownSold' = [ShownSold EXCEPT ![p] = S[p] + x[2]]
      BY <1>1, <1>2, <2>4, OneChange
    <2>6. ShownSold' = [ShownSold EXCEPT ![p] = @ + x[2]]
      BY <2>5
    <2>7. Book!Sell(p)
      BY <2>2, <2>3, <2>6 DEF Book!Sell, ShownBought, ShownOffered, ShownSold
    <2> QED
      BY <2>7 DEF Book!Next
  <1> QED
    BY <1>7, <1>8, <1>9, <1>10

LEMMA InitBook == Init => Book!Init
  <1> SUFFICES ASSUME Init
               PROVE  Book!Init
    OBVIOUS
  <1>1. BuyRows = {} /\ SellRows = {}
    BY DEF Init, BuyRows, SellRows, NoRow
  <1>2. \A q \in Ids : Children(q) = {}
    BY <1>1 DEF Children
  <1>3. \A q \in Ids : Parts(q) = {} /\ SoldOf(q) = 0
    BY <1>2, SumEmpty DEF Parts, SoldOf, Sum
  <1> QED
    BY <1>1, <1>3 DEF Book!Init

\* A step that leaves rows and lines alone leaves the book alone.
LEMMA BookStays ==
    ASSUME UNCHANGED <<row, posted>>
    PROVE  UNCHANGED Book!vars
  BY DEF Book!vars, Parts, SoldOf, Sum, Children, SellRows, BuyRows, IsBuy

Keeps(i) ==
    /\ i \in Ids
    /\ \A k \in Ids : row[k].stored =>
          row'[k].stored /\ row'[k].parent = row[k].parent /\ row'[k].amount1 = row[k].amount1
    /\ \A k \in Ids \ {i} : (row'[k].stored <=> row[k].stored) /\ posted'[k] = posted[k]
    /\ ~row[i].stored => posted'[i].out = 0 /\ posted'[i].in = 0 /\ posted'[i].back = 0

SameLines(i) ==
    /\ posted'[i].out = posted[i].out /\ posted'[i].in = posted[i].in
    /\ posted'[i].back = posted[i].back

LEMMA WorkKeeps ==
    ASSUME Sound, Sound', NEW t \in Tasks, Works(t)
    PROVE  Keeps(job[t].id)
  <1> PICK i : i = job[t].id
    OBVIOUS
  <1>1. i \in Ids /\ Shape(t, pc[t], job[t])
    BY DEF Works, Sound, Shaped, Shape
  <1>2. ASSUME NEW k \in Ids, ~row[k].stored, k # i
        PROVE  row'[k].stored <=> row[k].stored
    BY <1>2 DEF Works, Fields
  <1>3. CASE ~row[i].stored
    <2>1. pc[t] \in {"b_record", "s_record"}
      BY <1>1, <1>3 DEF Works, Shape
    <2>2. posted[i].out = 0 /\ posted[i].in = 0 /\ posted[i].back = 0
      BY <1>1, <1>3, <2>1 DEF Sound, OrdersSound, Creators
    <2> QED
      BY <1>1, <1>2, <2>1, <2>2 DEF Keeps, Works, Fields, Lines, One
  <1>4. CASE row[i].stored
    BY <1>1, <1>2, <1>4 DEF Keeps, Works, Fields, Lines
  <1> QED
    BY <1>3, <1>4

\* An order whose lines do not change, or that is not a sell order of q, is the same to q.
LEMMA SameToPosition ==
    ASSUME Sound, Sound', NEW i, Keeps(i), NEW q \in Ids, NEW k \in Ids,
           k = i /\ row[i].stored /\ row[i].parent = q => SameLines(i)
    PROVE  /\ (k \in Held(q))' <=> k \in Held(q)
           /\ k \in Held(q) => row'[k].amount1 = row[k].amount1
           /\ SoldFn(q)'[k] = SoldFn(q)[k]
  <1>1. posted[k].in \in Nat /\ row'[k].amount1 \in Nat /\ posted'[k].in \in Nat
    BY DEF Sound, TypeOK, Postings, OrderRow
  <1>2. /\ k \in Children(q) <=> row[k].stored /\ row[k].parent # 0 /\ row[k].parent = q
        /\ (k \in Children(q))' <=> row'[k].stored /\ row'[k].parent # 0 /\ row'[k].parent = q
    BY DEF Children, SellRows, IsBuy
  <1>3. /\ k \in Held(q) <=> k \in Children(q) /\ posted[k].out > posted[k].in + posted[k].back
        /\ (k \in Held(q))' <=>
                (k \in Children(q))' /\ posted'[k].out > posted'[k].in + posted'[k].back
        /\ SoldFn(q)[k] = IF k \in Children(q) THEN posted[k].in * row[k].amount1 ELSE 0
        /\ SoldFn(q)'[k] = IF (k \in Children(q))' THEN posted'[k].in * row'[k].amount1 ELSE 0
    BY DEF Held, SoldFn
  <1>4. CASE row[k].stored
    <2>1. row'[k].stored /\ row'[k].parent = row[k].parent /\ row'[k].amount1 = row[k].amount1
      BY <1>4 DEF Keeps
    <2>2. row[k].parent = q => /\ posted'[k].out = posted[k].out /\ posted'[k].in = posted[k].in
                               /\ posted'[k].back = posted[k].back
      BY <1>4 DEF Keeps, SameLines
    <2> QED
      BY <1>2, <1>3, <1>4, <2>1, <2>2
  <1>5. CASE ~row[k].stored
    <2>1. k # i => ~row'[k].stored
      BY <1>5 DEF Keeps
    <2>2. k = i => posted'[k].out = 0 /\ posted'[k].in = 0 /\ posted'[k].back = 0
      BY <1>5 DEF Keeps
    <2> QED
      BY <1>1, <1>2, <1>3, <1>5, <2>1, <2>2
  <1> QED
    BY <1>4, <1>5

SoldType == \A q \in Ids : \A k \in Ids : SoldFn(q)[k] \in Int /\ HeldFn(q)[k] \in Int

LEMMA SoldTypeHolds == Sound => SoldType
  <1> SUFFICES ASSUME Sound, NEW q \in Ids, NEW k \in Ids
               PROVE  SoldFn(q)[k] \in Int /\ HeldFn(q)[k] \in Int
    BY DEF SoldType
  <1>1. row[k].amount1 \in Nat /\ posted[k].in \in Nat
    BY DEF Sound, TypeOK, OrderRow, Postings
  <1>2. posted[k].in * row[k].amount1 \in Int
    BY <1>1
  <1> QED
    BY <1>1, <1>2 DEF SoldFn, HeldFn

LEMMA SoldTypeNext == Sound' => SoldType'
  BY SoldTypeHolds, PTL

\* A position that does not own the order is not touched.
LEMMA OtherPositions ==
    ASSUME Sound, Sound', NEW i, Keeps(i), NEW q \in Ids,
           row[i].stored /\ row[i].parent = q => SameLines(i)
    PROVE  Parts(q)' = Parts(q) /\ SoldOf(q)' = SoldOf(q)
  <1>1. \A k \in Ids : /\ (k \in Held(q))' <=> k \in Held(q)
                       /\ k \in Held(q) => row'[k].amount1 = row[k].amount1
                       /\ SoldFn(q)'[k] = SoldFn(q)[k]
    BY SameToPosition
  <1>2. /\ Parts(q) = {<<k, row[k].amount1>> : k \in Held(q)} /\ Held(q) \subseteq Ids
        /\ Parts(q)' = {<<k, row'[k].amount1>> : k \in Held(q)'} /\ Held(q)' \subseteq Ids
    BY DEF Parts, Held, Children, SellRows
  <1>3. Parts(q)' = Parts(q)
    BY <1>1, <1>2
  <1> PICK F, G : F = SoldFn(q) /\ G = SoldFn(q)'
    OBVIOUS
  <1>4. \A k \in Ids : F[k] \in Int /\ G[k] = F[k]
    BY <1>1, SoldTypeHolds DEF SoldType
  <1>5. Total(G) = Total(F)
    BY <1>4, IdsFinite, SumSame DEF Total
  <1>6. SoldOf(q) = Total(F) /\ SoldOf(q)' = Total(G)
    BY BookSums, BookSumsNext DEF SumsOverIds, Total
  <1> QED
    BY <1>3, <1>5, <1>6

LEMMA OtherBought ==
    ASSUME Sound, Sound', NEW i, Keeps(i), NEW q \in Ids,
           q = i /\ row[i].stored /\ row[i].parent = 0 => posted'[i].in = posted[i].in
    PROVE  BoughtOf(q)' = BoughtOf(q)
  <1>1. row'[q].amount1 \in Nat
    BY DEF Sound, TypeOK, OrderRow
  <1>2. /\ q \in BuyRows <=> row[q].stored /\ row[q].parent = 0
        /\ (q \in BuyRows)' <=> row'[q].stored /\ row'[q].parent = 0
    BY DEF BuyRows, IsBuy
  <1>3. CASE row[q].stored
    BY <1>2, <1>3 DEF Keeps, BoughtOf
  <1>4. CASE ~row[q].stored
    <2>1. ~row'[q].stored \/ posted'[q].in = 0
      BY <1>4 DEF Keeps
    <2> QED
      BY <1>1, <1>2, <1>4, <2>1 DEF BoughtOf
  <1> QED
    BY <1>3, <1>4

LEMMA BookSame ==
    ASSUME \A q \in Ids : Parts(q)' = Parts(q) /\ SoldOf(q)' = SoldOf(q),
           \A q \in Ids : BoughtOf(q)' = BoughtOf(q)
    PROVE  UNCHANGED Book!vars
  <1>0. PICK B, O, S, Bn, On, Sn :
            /\ B = ShownBought /\ O = ShownOffered /\ S = ShownSold
            /\ Bn = ShownBought' /\ On = ShownOffered' /\ Sn = ShownSold'
    OBVIOUS
  <1>1. /\ B = [q \in Ids |-> B[q]] /\ O = [q \in Ids |-> O[q]] /\ S = [q \in Ids |-> S[q]]
        /\ \A q \in Ids : B[q] = BoughtOf(q) /\ O[q] = Parts(q) /\ S[q] = SoldOf(q)
    BY <1>0 DEF ShownBought, ShownOffered, ShownSold, BoughtOf
  <1>2. /\ Bn = [q \in Ids |-> Bn[q]] /\ On = [q \in Ids |-> On[q]] /\ Sn = [q \in Ids |-> Sn[q]]
        /\ \A q \in Ids : Bn[q] = BoughtOf(q)' /\ On[q] = Parts(q)' /\ Sn[q] = SoldOf(q)'
    BY <1>0 DEF ShownBought, ShownOffered, ShownSold, BoughtOf
  <1>3. \A q \in Ids : Bn[q] = B[q] /\ On[q] = O[q] /\ Sn[q] = S[q]
    BY <1>1, <1>2
  <1>4. Bn = B /\ On = O /\ Sn = S
    BY <1>1, <1>2, <1>3, NoChange
  <1> QED
    BY <1>0, <1>4 DEF Book!vars, ShownBought, ShownOffered, ShownSold

\* The outcome of a sell order offers a part of its position.
LEMMA OfferBook ==
    ASSUME ~Overlap, OneSeller, Sound, Sound', Lineage, Dues, PostedOnce, PostedOnce', Offering,
           NEW t \in Tasks, Works(t), pc[t] = "s_out", NEW i, i = job[t].id, NEW p, p = ext[i].parent
    PROVE  Book!Next
  <1>1. /\ i \in Ids /\ p \in Ids /\ row[i].stored /\ Placed(i) /\ Shape(t, pc[t], job[t])
        /\ posted[i].out = 0 /\ t \in Sellers
    <2>1. Shape(t, pc[t], job[t]) /\ posted[i].out = 0 /\ pc[t] \in SellCreation
      BY DEF Sound, Shaped, Creators, SellCreation
    <2> QED
      BY <2>1, StepNames, WhoStands DEF Shape, OfSells, SellCreation
  <1>2. posted[i].in = 0 /\ posted[i].back = 0
    BY NotYetSettled DEF SellCreation
  <1>3. Keeps(i) /\ row[i].parent = p /\ row[i].amount1 = ext[i].amount /\ p # 0 /\ p # i
    BY <1>1, WorkKeeps DEF Sound, OrdersSound, Ids, Lineage
  <1>4. posted'[i].out = 1 /\ posted'[i].in = 0 /\ posted'[i].back = 0
    BY <1>1, <1>2 DEF Works, Lines, One
  <1>5. /\ ext[i].amount \in 1..BuyAmount /\ p = job[t].cur.id /\ row[p].stored
        /\ ext[p].parent = 0 /\ posted[p].in > 0
    <2>1. ext[i].amount \in Nat /\ BuyAmount \in Nat
      BY <1>1, OrderAssumption DEF Sound, TypeOK, ExtOrder
    <2> QED
      BY <1>1, <1>3, <2>1 DEF Lineage, Offering, Bought, SellCreation
  <1>6. row'[i].stored /\ row'[i].parent = p /\ row'[i].amount1 = ext[i].amount
    BY <1>1, <1>3 DEF Keeps
  <1>7. i \in Children(p) /\ (i \in Children(p))'
    BY <1>1, <1>3, <1>6 DEF Children, SellRows, IsBuy
  <1>8. i \notin Held(p) /\ (i \in Held(p))'
    BY <1>2, <1>1, <1>4, <1>7 DEF Held
  <1>9. \A k \in Ids \ {i} : /\ (k \in Held(p))' <=> k \in Held(p)
                             /\ k \in Held(p) => row'[k].amount1 = row[k].amount1
                             /\ SoldFn(p)'[k] = SoldFn(p)[k]
    BY <1>1, <1>3, SameToPosition
  <1> DEFINE x == <<i, ext[i].amount>>
  <1>10. x \notin Parts(p) /\ Parts(p)' = Parts(p) \cup {x}
    <2>1. /\ Parts(p) = {<<k, row[k].amount1>> : k \in Held(p)} /\ Held(p) \subseteq Ids
          /\ Parts(p)' = {<<k, row'[k].amount1>> : k \in Held(p)'} /\ Held(p)' \subseteq Ids
      BY DEF Parts, Held, Children, SellRows
    <2>2. Held(p)' = Held(p) \cup {i}
      BY <1>8, <1>9, <2>1
    <2> QED
      BY <1>6, <1>8, <1>9, <2>1, <2>2
  <1>11. SoldOf(p)' = SoldOf(p)
    <2> PICK F, G : F = SoldFn(p) /\ G = SoldFn(p)'
      OBVIOUS
    <2>1. F[i] = 0 /\ G[i] = 0
      <3>1. row[i].amount1 \in Nat /\ row'[i].amount1 \in Nat
        BY <1>1 DEF Sound, TypeOK, OrderRow
      <3> QED
        BY <1>1, <1>2, <1>4, <3>1 DEF SoldFn
    <2>2. \A k \in Ids : F[k] \in Int /\ G[k] = F[k]
      BY <1>1, <1>9, <2>1, SoldTypeHolds DEF SoldType
    <2>3. Total(G) = Total(F)
      BY <2>2, IdsFinite, SumSame DEF Total
    <2> QED
      BY <1>1, <2>3, BookSums, BookSumsNext DEF SumsOverIds, Total
  <1>12. BoughtOf(p)' = BoughtOf(p) /\ BoughtOf(p) = BuyAmount
    <2>1. BoughtOf(p)' = BoughtOf(p)
      BY <1>1, <1>3, OtherBought
    <2>2. posted[p].in = 1
      <3>1. posted[p].in \in Nat /\ posted[p].back \in Nat
        BY <1>1 DEF Sound, TypeOK, Postings
      <3> QED
        BY <1>1, <1>5, <3>1 DEF PostedOnce
    <2>3. p \in BuyRows /\ row[p].amount1 = BuyAmount
      BY <1>1, <1>5 DEF BuyRows, IsBuy, Sound, OrdersSound, Offering, Bought
    <2> QED
      BY <2>1, <2>2, <2>3, OrderAssumption DEF BoughtOf
  <1>13. Total(HeldFn(p)') + SoldOf(p) <= BuyAmount
    <2>0. PICK F, G, D : F = SoldFn(p)' /\ G = HeldFn(p)' /\ D = OfferedOf(p)
      OBVIOUS
    <2> DEFINE H == [k \in Ids |-> F[k] + G[k]]
               X == [k \in Ids |-> IF k = i THEN ext[i].amount ELSE D[k]]
    <2>1. \A k \in Ids : F[k] \in Int /\ G[k] \in Int /\ D[k] \in Nat
      <3>1. \A k \in Ids : D[k] \in Nat
        BY <1>1, <2>0, OfferedType
      <3>2. \A k \in Ids : F[k] \in Int /\ G[k] \in Int
        BY <1>1, <2>0, SoldTypeNext DEF SoldType
      <3> QED
        BY <3>1, <3>2
    <2>2. ASSUME NEW k \in Ids
          PROVE  H[k] \in Int /\ X[k] \in Int /\ H[k] <= X[k]
      <3>1. /\ row'[k].amount1 \in Nat /\ posted'[k].in \in Nat /\ posted'[k].back \in Nat
            /\ posted'[k].out \in Nat /\ posted'[k].out <= 1
            /\ posted'[k].in + posted'[k].back <= 1
        BY DEF Sound, TypeOK, OrderRow, Postings, PostedOnce
      <3>2. /\ F[k] = IF (k \in Children(p))' THEN posted'[k].in * row'[k].amount1 ELSE 0
            /\ G[k] = IF (k \in Held(p))' THEN row'[k].amount1 ELSE 0
        BY <2>0 DEF SoldFn, HeldFn
      <3>3. (k \in Held(p))' <=>
                (k \in Children(p))' /\ posted'[k].out > posted'[k].in + posted'[k].back
        BY DEF Held
      <3>4. CASE k = i
        <4>1. F[k] = 0 /\ G[k] = ext[i].amount
          <5>1. /\ posted'[k].in = 0 /\ row'[k].amount1 = ext[i].amount
                /\ (k \in Held(p))' /\ (k \in Children(p))'
            BY <1>4, <1>6, <1>7, <1>8, <3>4
          <5> QED
            BY <3>1, <3>2, <5>1
        <4> QED
          BY <1>5, <3>4, <4>1
      <3>5. CASE k # i /\ (k \in Children(p))' /\ posted'[k].back = 0
        <4>1. row'[k].stored /\ row'[k].parent = p
          BY <3>5 DEF Children, SellRows
        <4>2. row[k].stored /\ posted'[k] = posted[k]
          BY <1>3, <3>5, <4>1 DEF Keeps
        <4>3. row[k].parent = p /\ row'[k].amount1 = row[k].amount1
          BY <1>3, <4>1, <4>2 DEF Keeps
        <4>4. ext[k].parent = p /\ Placed(k) /\ row[k].amount1 = ext[k].amount
          BY <4>2, <4>3 DEF Sound, OrdersSound
        <4>5. ~At(SellCreation, k)
          BY <1>1, <3>5, WhoStands DEF At, OneSeller
        <4>6. D[k] = ext[k].amount
          BY <2>0, <3>5, <4>2, <4>4, <4>5 DEF OfferedOf, Offers
        <4>7. posted'[k].in = 0 \/ posted'[k].in = 1
          BY <3>1
        <4>8. CASE posted'[k].in = 0
          BY <2>1, <3>1, <3>2, <3>5, <4>3, <4>4, <4>6, <4>8
        <4>9. CASE posted'[k].in = 1
          <5>1. ~(k \in Held(p))'
            BY <3>1, <3>3, <3>5, <4>9
          <5> QED
            BY <2>1, <3>1, <3>2, <3>5, <4>3, <4>4, <4>6, <4>9, <5>1
        <4> QED
          BY <4>7, <4>8, <4>9
      <3>6. CASE k # i /\ ~((k \in Children(p))' /\ posted'[k].back = 0)
        <4>1. F[k] = 0 /\ G[k] = 0
          <5>1. CASE ~(k \in Children(p))'
            BY <3>2, <3>3, <5>1
          <5>2. CASE posted'[k].back # 0
            <6>1. posted'[k].back = 1 /\ posted'[k].in = 0
              BY <3>1, <5>2
            <6>2. ~(k \in Held(p))'
              BY <3>1, <3>3, <6>1
            <6> QED
              BY <3>1, <3>2, <6>1, <6>2
          <5> QED
            BY <3>6, <5>1, <5>2
        <4> QED
          BY <2>1, <3>6, <4>1
      <3> QED
        BY <3>4, <3>5, <3>6
    <2>3. \A k \in Ids : G[k] = H[k] - F[k]
      BY <2>1
    <2>4. X[i] = ext[i].amount /\ \A k \in Ids \ {i} : X[k] = D[k]
      BY <1>1
    <2> HIDE DEF H, X
    <2>5. Total(G) = Total(H) - Total(F)
      BY <2>1, <2>2, <2>3, IdsFinite, SumMinus DEF Total
    <2>6. Total(H) <= Total(X) /\ Total(H) \in Int /\ Total(F) \in Int
      BY <2>1, <2>2, IdsFinite, SumMonotone, SumType DEF Total
    <2>7. Total(X) = Total(D) - D[i] + X[i]
      <3>1. \A k \in Ids : D[k] \in Int /\ X[k] \in Int
        BY <2>1, <2>2
      <3>2. \A k \in Ids \ {i} : X[k] = D[k]
        BY <2>4
      <3> QED
        BY ZenonT(60), <1>1, <3>1, <3>2, TotalChanges
    <2>8. D[i] = 0
      <3>1. At(SellCreation, i)
        BY DEF At, SellCreation
      <3> QED
        BY <1>1, <2>0, <3>1 DEF OfferedOf, Offers
    <2>9. Total(D) = job[t].cur.preclosed /\ job[t].cur.preclosed + ext[i].amount <= BuyAmount
      <3>1. p \in BuyRows
        BY <1>1, <1>5 DEF BuyRows, IsBuy, Sound, OrdersSound
      <3>2. row[p].preclosed = Total(D)
        BY <2>0, <3>1 DEF Offering, Offered
      <3>3. job[t].cur \in Chosen(t) /\ pc[t] \in SellCreation
        BY DEF Chosen, SellCreation
      <3> QED
        BY <1>1, <1>5, <3>2, <3>3 DEF Offering, Fresh
    <2>10. Total(F) = SoldOf(p)
      BY <1>1, <1>11, <2>0, BookSumsNext DEF SumsOverIds, Total
    <2>11. Total(D) \in Int /\ ext[i].amount \in Int /\ BuyAmount \in Int
      BY <1>1, <1>5, <2>0, OfferedType, OrderAssumption
    <2>12. Total(X) <= BuyAmount /\ Total(X) \in Int
      BY <2>4, <2>7, <2>8, <2>9, <2>11
    <2> QED
      BY <2>0, <2>5, <2>6, <2>10, <2>11, <2>12
  <1>14. Book!Total(Parts(p) \cup {x}) + SoldOf(p) <= BoughtOf(p)
    <2>1. Book!Total(Parts(p)') = Total(HeldFn(p)')
      BY <1>1, BookSumsNext DEF SumsOverIds, Total
    <2> QED
      BY <1>10, <1>12, <1>13, <2>1
  <1>15. \A q \in Ids \ {p} : /\ BoughtOf(q)' = BoughtOf(q) /\ Parts(q)' = Parts(q)
                              /\ SoldOf(q)' = SoldOf(q)
    BY <1>1, <1>3, OtherBought, OtherPositions
  <1>16. x \in Ids \X (1..BuyAmount)
    BY <1>1, <1>5
  <1> HIDE DEF x
  <1> QED
    BY <1>1, <1>10, <1>11, <1>12, <1>14, <1>15, <1>16, BookStep

\* The order in hand is settled: it was held, and is so no more.
LEMMA Released ==
    ASSUME ~Overlap, Sound, Sound', Paid, Lineage, Offering, OneHolder, PostedOnce, PostedOnce',
           NEW t \in Tasks, Works(t), pc[t] \in {"c_income", "k_back"},
           NEW i, i = job[t].id, NEW p, p = ext[i].parent
    PROVE  /\ i \in Ids /\ p \in Ids /\ Keeps(i) /\ row[i].stored /\ row[i].parent = p /\ p # 0
           /\ posted[i].in = 0 /\ row[i].amount1 \in Nat /\ row'[i].amount1 = row[i].amount1
           /\ i \in Children(p) /\ (i \in Children(p))'
           /\ <<i, row[i].amount1>> \in Parts(p)
           /\ Parts(p)' = Parts(p) \ {<<i, row[i].amount1>>}
           /\ \A k \in Ids \ {i} : SoldFn(p)'[k] = SoldFn(p)[k]
           /\ \A q \in Ids : BoughtOf(q)' = BoughtOf(q)
           /\ \A q \in Ids \ {p} : Parts(q)' = Parts(q) /\ SoldOf(q)' = SoldOf(q)
  <1>1. i \in Ids /\ p \in Ids /\ row[i].stored /\ Placed(i)
    <2>1. Shape(t, pc[t], job[t])
      BY DEF Sound, Shaped
    <2> QED
      BY <2>1, StepNames DEF Shape, OfSells, SellFilling, SellBacking
  <1>2. Keeps(i) /\ row[i].parent = p /\ row[i].amount1 = ext[i].amount /\ p # 0
    BY <1>1, WorkKeeps DEF Sound, OrdersSound, Ids
  <1>3. /\ posted[i].in \in Nat /\ posted[i].back \in Nat /\ posted[i].out \in Nat
        /\ posted'[i].in \in Nat /\ posted'[i].back \in Nat
        /\ posted[i].out <= 1 /\ posted'[i].in + posted'[i].back <= 1
        /\ row[i].amount1 \in Nat
    BY <1>1 DEF Sound, TypeOK, Postings, OrderRow, PostedOnce
  <1>4. /\ posted'[i].in = posted[i].in + One(pc[t] \in {"f_income", "c_income"})
        /\ posted'[i].back = posted[i].back + One(pc[t] \in {"r_back", "k_back"})
        /\ posted'[i].out = posted[i].out
    <2>1. pc[t] \notin {"b_out", "s_out"}
      BY StepNames
    <2> QED
      BY <1>3, <2>1 DEF Works, Lines, One
  <1>5. /\ posted[i].in = 0 /\ posted[i].back = 0
        /\ posted'[i].in + posted'[i].back = 1
    BY <1>3, <1>4 DEF One
  <1>6. posted[i].out = 1
    <2>1. ~At({"b_out", "s_out"}, i)
      <3>1. \A u \in Tasks : pc[u] \in {"b_out", "s_out"} /\ job[u].id = i => u = t
        BY StepNames DEF OneHolder, Works
      <3> QED
        BY <3>1 DEF At
    <2> QED
      BY <1>1, <1>3, <2>1 DEF Paid, PaidOut
  <1>7. row'[i].stored /\ row'[i].parent = p /\ row'[i].amount1 = row[i].amount1
    BY <1>1, <1>2 DEF Keeps
  <1>8. i \in Children(p) /\ (i \in Children(p))'
    BY <1>1, <1>2, <1>7 DEF Children, SellRows, IsBuy
  <1>9. i \in Held(p) /\ ~(i \in Held(p))'
    BY <1>4, <1>5, <1>6, <1>8 DEF Held
  <1>10. \A k \in Ids \ {i} : /\ (k \in Held(p))' <=> k \in Held(p)
                              /\ k \in Held(p) => row'[k].amount1 = row[k].amount1
                              /\ SoldFn(p)'[k] = SoldFn(p)[k]
    BY <1>1, <1>2, SameToPosition
  <1>11. /\ <<i, row[i].amount1>> \in Parts(p)
         /\ Parts(p)' = Parts(p) \ {<<i, row[i].amount1>>}
    <2>1. /\ Parts(p) = {<<k, row[k].amount1>> : k \in Held(p)} /\ Held(p) \subseteq Ids
          /\ Parts(p)' = {<<k, row'[k].amount1>> : k \in Held(p)'} /\ Held(p)' \subseteq Ids
      BY DEF Parts, Held, Children, SellRows
    <2>2. Held(p)' = Held(p) \ {i}
      BY <1>9, <1>10, <2>1
    <2> QED
      BY <1>9, <1>10, <2>1, <2>2
  <1>12. \A q \in Ids : BoughtOf(q)' = BoughtOf(q)
    BY <1>1, <1>2, OtherBought
  <1>13. \A q \in Ids \ {p} : Parts(q)' = Parts(q) /\ SoldOf(q)' = SoldOf(q)
    BY <1>1, <1>2, OtherPositions
  <1> QED
    BY <1>1, <1>2, <1>3, <1>5, <1>7, <1>8, <1>10, <1>11, <1>12, <1>13

\* A refund withdraws a part.
LEMMA WithdrawBook ==
    ASSUME ~Overlap, Sound, Sound', Paid, Lineage, Offering, OneHolder, PostedOnce, PostedOnce',
           NEW t \in Tasks, Works(t), pc[t] = "k_back"
    PROVE  Book!Next
  <1> PICK i, p : i = job[t].id /\ p = ext[i].parent
    OBVIOUS
  <1>1. /\ i \in Ids /\ p \in Ids /\ row[i].amount1 \in Nat /\ posted[i].in = 0
        /\ <<i, row[i].amount1>> \in Parts(p) /\ row'[i].amount1 = row[i].amount1
        /\ Parts(p)' = Parts(p) \ {<<i, row[i].amount1>>}
        /\ \A k \in Ids \ {i} : SoldFn(p)'[k] = SoldFn(p)[k]
        /\ \A q \in Ids : BoughtOf(q)' = BoughtOf(q)
        /\ \A q \in Ids \ {p} : Parts(q)' = Parts(q) /\ SoldOf(q)' = SoldOf(q)
    BY Released
  <1>2. posted'[i].in = 0
    <2>1. pc[t] \notin {"f_income", "c_income"}
      BY StepNames
    <2> QED
      BY <1>1, <2>1 DEF Works, Lines, One
  <1>3. SoldOf(p)' = SoldOf(p)
    <2>0. PICK F, G : F = SoldFn(p) /\ G = SoldFn(p)'
      OBVIOUS
    <2>1. F[i] = 0 /\ G[i] = 0
      BY <1>1, <1>2, <2>0 DEF SoldFn
    <2>2. \A k \in Ids : F[k] \in Int /\ G[k] = F[k]
      BY <1>1, <2>0, <2>1, SoldTypeHolds DEF SoldType
    <2>3. Total(G) = Total(F)
      BY <2>2, IdsFinite, SumSame DEF Total
    <2> QED
      BY <1>1, <2>0, <2>3, BookSums, BookSumsNext DEF SumsOverIds, Total
  <1> QED
    BY <1>1, <1>3, BookStep

\* An income of a sell order sells a part.
LEMMA SellBook ==
    ASSUME ~Overlap, Sound, Sound', Paid, Lineage, Offering, OneHolder, PostedOnce, PostedOnce',
           NEW t \in Tasks, Works(t), pc[t] = "c_income"
    PROVE  Book!Next
  <1> PICK i, p : i = job[t].id /\ p = ext[i].parent
    OBVIOUS
  <1>1. /\ i \in Ids /\ p \in Ids /\ row[i].amount1 \in Nat /\ posted[i].in = 0
        /\ i \in Children(p) /\ (i \in Children(p))' /\ row'[i].amount1 = row[i].amount1
        /\ <<i, row[i].amount1>> \in Parts(p)
        /\ Parts(p)' = Parts(p) \ {<<i, row[i].amount1>>}
        /\ \A k \in Ids \ {i} : SoldFn(p)'[k] = SoldFn(p)[k]
        /\ \A q \in Ids : BoughtOf(q)' = BoughtOf(q)
        /\ \A q \in Ids \ {p} : Parts(q)' = Parts(q) /\ SoldOf(q)' = SoldOf(q)
    BY Released
  <1>2. posted'[i].in = 1
    BY <1>1 DEF Works, Lines, One
  <1>0. PICK n \in Nat : n = row[i].amount1
    BY <1>1
  <1>3. SoldOf(p)' = SoldOf(p) + n
    <2>0. PICK F, G : F = SoldFn(p) /\ G = SoldFn(p)'
      OBVIOUS
    <2>1. F[i] = 0 /\ G[i] = n
      BY <1>0, <1>1, <1>2, <2>0 DEF SoldFn
    <2>2. \A k \in Ids : F[k] \in Int /\ G[k] \in Int
      BY <1>1, <2>0, SoldTypeHolds, SoldTypeNext DEF SoldType
    <2>3. \A k \in Ids \ {i} : G[k] = F[k]
      BY <1>1, <2>0
    <2>4. Total(G) = Total(F) - F[i] + G[i]
      <3>1. i \in Ids
        BY <1>1
      <3> QED
        BY <2>2, <2>3, <3>1, TotalChanges
    <2>5. Total(F) \in Int
      BY <2>2, IdsFinite, SumType DEF Total
    <2>6. SoldOf(p) = Total(F) /\ SoldOf(p)' = Total(G)
      BY <1>1, <2>0, BookSums, BookSumsNext DEF SumsOverIds, Total
    <2> QED
      BY <2>1, <2>4, <2>5, <2>6
  <1> PICK x : x = <<i, n>>
    OBVIOUS
  <1>4. /\ x \in Parts(p) /\ Parts(p)' = Parts(p) \ {x} /\ SoldOf(p)' = SoldOf(p) + x[2]
        /\ BoughtOf(p)' = BoughtOf(p)
    BY <1>0, <1>1, <1>3
  <1> QED
    BY <1>1, <1>4, BookStep

\* An income of a buy order buys a position.
LEMMA BuyBook ==
    ASSUME Sound, Sound', Offering, PostedOnce, PostedOnce',
           NEW t \in Tasks, Works(t), pc[t] = "f_income"
    PROVE  Book!Next
  <1> PICK i : i = job[t].id
    OBVIOUS
  <1>1. i \in Ids /\ row[i].stored /\ Placed(i) /\ ext[i].parent = 0
    <2>1. Shape(t, pc[t], job[t])
      BY DEF Sound, Shaped
    <2> QED
      BY <2>1, StepNames DEF Shape, OfBuys, BuyFilling
  <1>2. Keeps(i) /\ row[i].parent = 0 /\ row[i].amount1 = BuyAmount
    BY <1>1, WorkKeeps DEF Sound, OrdersSound, Offering, Bought
  <1>3. row'[i].stored /\ row'[i].parent = 0 /\ row'[i].amount1 = BuyAmount
    BY <1>1, <1>2 DEF Keeps
  <1>4. posted[i].in = 0 /\ posted'[i].in = 1
    <2>1. /\ posted[i].in \in Nat /\ posted'[i].back \in Nat
          /\ posted'[i].in + posted'[i].back <= 1
      BY <1>1 DEF Sound, TypeOK, Postings, PostedOnce
    <2>2. posted'[i].in = posted[i].in + 1
      BY DEF Works, Lines, One
    <2> QED
      BY <2>1, <2>2
  <1>5. BoughtOf(i) = 0 /\ BoughtOf(i)' \in 1..BuyAmount
    <2>1. i \in BuyRows /\ (i \in BuyRows)'
      BY <1>1, <1>2, <1>3 DEF BuyRows, IsBuy
    <2> QED
      BY <1>2, <1>3, <1>4, <2>1, OrderAssumption DEF BoughtOf
  <1>6. \A q \in Ids : Parts(q)' = Parts(q) /\ SoldOf(q)' = SoldOf(q)
    <2>1. \A q \in Ids : row[i].parent # q
      BY <1>2 DEF Ids
    <2> QED
      BY <1>1, <1>2, <2>1, OtherPositions
  <1>7. \A q \in Ids \ {i} : BoughtOf(q)' = BoughtOf(q)
    BY <1>1, <1>2, OtherBought
  <1> QED
    BY <1>1, <1>5, <1>6, <1>7, BookStep

\* Every other step leaves the book alone.
LEMMA QuietBook ==
    ASSUME Sound, Sound', NEW t \in Tasks, Works(t),
           pc[t] \notin {"f_income", "s_out", "c_income", "k_back"}
    PROVE  UNCHANGED Book!vars
  <1> PICK i : i = job[t].id
    OBVIOUS
  <1>1. i \in Ids /\ Keeps(i) /\ pc[t] \in Holding
    BY WorkKeeps DEF Keeps, Works
  <1>2. ext[i].parent # 0 \/ pc[t] \notin {"b_out", "r_back"} => SameLines(i)
    <2>1. /\ posted[i].in \in Nat /\ posted[i].back \in Nat /\ posted[i].out \in Nat
      BY <1>1 DEF Sound, TypeOK, Postings
    <2>2. pc[t] \in {"b_out", "r_back"} => ext[i].parent = 0
      <3>1. Shape(t, pc[t], job[t])
        BY DEF Sound, Shaped
      <3> QED
        BY <3>1 DEF Shape, OfBuys, BuyCreation, BuyBacking
    <2> QED
      BY <2>1, <2>2 DEF SameLines, Works, Lines, One
  <1>3. posted'[i].in = posted[i].in
    <2>1. posted[i].in \in Nat
      BY <1>1 DEF Sound, TypeOK, Postings
    <2> QED
      BY <2>1 DEF Works, Lines, One
  <1>4. \A q \in Ids : Parts(q)' = Parts(q) /\ SoldOf(q)' = SoldOf(q)
    <2>1. ASSUME NEW q \in Ids, row[i].stored, row[i].parent = q
          PROVE  SameLines(i)
      BY <1>1, <1>2, <2>1 DEF Sound, OrdersSound, Ids
    <2> QED
      BY <1>1, <2>1, OtherPositions
  <1>5. \A q \in Ids : BoughtOf(q)' = BoughtOf(q)
    BY <1>1, <1>3, OtherBought
  <1> QED
    BY <1>4, <1>5, BookSame

LEMMA WorkBook ==
    ASSUME ~Overlap, OneSeller, Sound, Sound', Lineage, Dues, Paid, Offering, OneHolder,
           PostedOnce, PostedOnce', NEW t \in Tasks, Works(t)
    PROVE  Book!Next \/ UNCHANGED Book!vars
  <1>1. CASE pc[t] = "s_out"
    BY <1>1, OfferBook
  <1>2. CASE pc[t] = "c_income"
    BY <1>2, SellBook
  <1>3. CASE pc[t] = "k_back"
    BY <1>3, WithdrawBook
  <1>4. CASE pc[t] = "f_income"
    BY <1>4, BuyBook
  <1>5. CASE pc[t] \notin {"f_income", "s_out", "c_income", "k_back"}
    BY <1>5, QuietBook
  <1> QED
    BY <1>1, <1>2, <1>3, <1>4, <1>5

\* The order services keep the promise of Positions: what is bought, on offer and sold of
\* each position, by the lines of the log, changes only as Positions allows. No part is
\* offered that the position has not left, and none is sold or withdrawn twice.
THEOREM PositionsImplemented ==
    ASSUME MaxFaults = 0, ~Overlap, OneSeller
    PROVE  Spec => ImplementsPositions
  <1>1. Init => Book!Init
    BY InitBook
  <1>2. ASSUME Sound, Sound', Lineage, Alone, Dues, Paid, Offering, PostedOnce, PostedOnce',
               [Next]_vars
        PROVE  [Book!Next]_Book!vars
    <2>1. CASE UNCHANGED <<row, posted>>
      BY <2>1, BookStays
    <2>2. CASE \E t \in Tasks : StepSound(t) /\ Motion(t)
      <3> PICK t \in Tasks : StepSound(t) /\ Motion(t)
        BY <2>2
      <3>1. Works(t) \/ UNCHANGED <<row, posted>>
        BY DEF Motion, Starts, Leaves, Places, Turns
      <3>2. OneHolder
        BY <1>2, HolderIsOne
      <3> QED
        BY <1>2, <2>1, <3>1, <3>2, WorkBook
    <2> QED
      BY <1>2, <2>1, <2>2, QuietSteps
  <1>3. Spec => []Dues
    BY DuesInvariant DEF Single
  <1>4. Spec => []PostedOnce
    BY OrdersPostedOnce
  <1>5. Closed => Alone
    BY DEF Closed
  <1> QED
    BY <1>1, <1>2, <1>3, <1>4, <1>5, SoundInvariant, LineageInvariant, ClosedInvariant,
       PaidInvariant, OfferingInvariant, PTL DEF Spec, ImplementsPositions, Book!Spec
=============================================================================
