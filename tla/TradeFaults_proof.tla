-------------------------- MODULE TradeFaults_proof --------------------------
(***************************************************************************)
(* Proofs about what faults do to TradeService, any number of them: how often *)
(* an order is settled or rolled back, and by how many orders preclosed is    *)
(* wrong. Each is bounded by a sum over the orders of what may be wrong with  *)
(* one of them: no step of the code raises a term, and a fault raises one     *)
(* term by one, that of the order whose rollback, or whose creation, it cuts  *)
(* short. As in TradePositions_proof checks wait for the runs.                *)
(***************************************************************************)
EXTENDS TradePositions_proof

-----------------------------------------------------------------------------
(* Steps and faults.                                                       *)

\* Steps a task comes to only from the step before it, with the order it has in hand.
Late == Holding \ {"f_row", "c_close", "r_back", "k_back"}

\* A task takes up orders, places one, or is done with a query.
Quits(t) == pc[t] \notin Holding /\ (Starts(t) \/ Leaves(t) \/ Places(t) \/ Turns(t))

\* A fault makes a task drop the order in hand.
Drops(t) == pc[t] \in Holding /\ Leaves(t) /\ faults' = faults + 1

\* A crash: every task drops what it has.
Restarts ==
    /\ UNCHANGED <<ext, row, posted>> /\ faults' = faults + 1
    /\ \A t \in Tasks : pc'[t] = "idle" /\ job'[t] = NoJob

\* The exchange moves, or nothing does.
Rests == UNCHANGED <<row, posted, pc, job, faults>> /\ Trades

\* What a step does to the tasks, and whether it is a fault.
FaultKinds ==
    \/ \E t \in Tasks : StepSound(t) /\ Works(t) /\ Flow(t) /\ faults' = faults
    \/ \E t \in Tasks : StepSound(t) /\ Quits(t) /\ faults' \in {faults, faults + 1}
    \/ \E t \in Tasks : StepSound(t) /\ Drops(t)
    \/ Restarts /\ Evolves
    \/ Rests /\ Evolves

LEMMA WorksUnfailing ==
    ASSUME Sound, Lineage, NEW t \in Tasks,
           \/ t \in Buyers /\ BuyCreateStep(t) /\ ~(BuyAccepted(t) \/ BuyRefused(t))
           \/ t \in Sellers /\ SellCreateStep(t) /\ ~(SellAccepted(t) \/ SellRefused(t))
           \/ BuyCheckStep(t) \/ SellCheckStep(t)
    PROVE  Works(t) /\ Flow(t) /\ faults' = faults /\ StepSound(t)
  <1>1. Works(t)
    BY WorkMotion DEF BuyCreateStep, SellCreateStep
  <1>2. CASE BuyCheckStep(t) \/ SellCheckStep(t)
    <2>1. StepSound(t) /\ Flow(t)
      BY <1>2, FilledSound, PostSound, RowWriteSound, FindSound, RowFlow, PostFlow
         DEF BuyCheckStep, SellCheckStep
    <2>2. CASE BuyCheckStep(t)
      BY <1>1, <2>1, <2>2
         DEF BuyCheckStep, BuyFilled, BuyIncome, BuyFee, BuyRollback, BuyRollbackRow
    <2>3. CASE SellCheckStep(t)
      BY <1>1, <2>1, <2>3
         DEF SellCheckStep, SellFilled, SellIncome, SellFee, SellFindParent, SellParent,
         SellRollback, SellRollbackFind, SellRollbackParent, SellRollbackRow
    <2> QED
      BY <1>2, <2>2, <2>3
  <1>3. CASE \/ t \in Buyers /\ (BuyRecord(t) \/ BuyOutcome(t))
             \/ t \in Sellers /\ (SellRecord(t) \/ SellOutcome(t) \/ SellPreclose(t))
    <2>1. StepSound(t) /\ Flow(t)
      BY <1>3, RecordSound, OutcomeSound, PrecloseSound, RecordFlow, PostFlow, RowFlow
    <2>2. faults' = faults
      BY <1>3 DEF BuyRecord, BuyOutcome, SellRecord, SellOutcome, SellPreclose
    <2> QED
      BY <1>1, <2>1, <2>2
  <1> QED
    BY <1>2, <1>3 DEF BuyCreateStep, SellCreateStep

LEMMA QuitsUnworked ==
    ASSUME Sound, Lineage, NEW t \in Tasks,
           \/ t \in Buyers /\ (RunBuyStrategies(t) \/ BuyAccepted(t) \/ BuyRefused(t)
                               \/ BuyLost(t))
           \/ t \in Sellers /\ (RunSellStrategies(t) \/ SellAccepted(t) \/ SellRefused(t)
                                \/ SellLost(t))
           \/ t \in Checkers /\ (CheckLimitOrders(t) \/ FetchNext(t) \/ FetchFails(t))
    PROVE  Quits(t) /\ StepSound(t) /\ faults' \in {faults, faults + 1}
  <1>1. pc[t] \in {"idle", "buy", "sell", "fetch"}
    BY DEF RunBuyStrategies, BuyAccepted, BuyRefused, BuyLost, RunSellStrategies, SellAccepted,
       SellRefused, SellLost, CheckLimitOrders, FetchNext, FetchFails
  <1>2. pc[t] \notin Holding
    BY <1>1, StepNames
  <1>3. CASE t \in Buyers
    <2>0. RunBuyStrategies(t) \/ BuyAccepted(t) \/ BuyRefused(t) \/ BuyLost(t)
      BY <1>3, TaskKinds
    <2>1. Starts(t) \/ Leaves(t) \/ Places(t)
      BY <1>3, <2>0, StartMotion, GiveUpMotion, PlaceMotion
    <2>2. StepSound(t)
      BY <1>3, <2>0, StartSound, AcceptedSound, ContinuesSound, LostSound
    <2>3. faults' \in {faults, faults + 1}
      BY <2>0 DEF RunBuyStrategies, BuyAccepted, BuyRefused, BuyLost, AcceptLost
    <2> QED
      BY <1>2, <2>1, <2>2, <2>3 DEF Quits
  <1>4. CASE t \in Sellers
    <2>0. RunSellStrategies(t) \/ SellAccepted(t) \/ SellRefused(t) \/ SellLost(t)
      BY <1>4, TaskKinds
    <2>1. Starts(t) \/ Leaves(t) \/ Places(t)
      BY <1>4, <2>0, StartMotion, GiveUpMotion, PlaceMotion
    <2>2. StepSound(t)
      BY <1>4, <2>0, StartSound, AcceptedSound, ContinuesSound, LostSound
    <2>3. faults' \in {faults, faults + 1}
      BY <2>0 DEF RunSellStrategies, SellAccepted, SellRefused, SellLost, AcceptLost
    <2> QED
      BY <1>2, <2>1, <2>2, <2>3 DEF Quits
  <1>5. CASE t \in Checkers
    <2>0. CheckLimitOrders(t) \/ FetchNext(t) \/ FetchFails(t)
      BY <1>5, TaskKinds
    <2>1. Starts(t) \/ Leaves(t) \/ Turns(t)
      BY <1>5, <2>0, StartMotion, TurnMotion
    <2>2. StepSound(t)
      BY <1>5, <2>0, StartSound, TurnSound DEF FetchNext, FetchFails
    <2>3. faults' \in {faults, faults + 1}
      BY <2>0 DEF CheckLimitOrders, FetchNext, FetchFails, CheckBuy, CheckSell, CheckBuyUnanswered,
         CheckSellUnanswered
    <2> QED
      BY <1>2, <2>1, <2>2, <2>3 DEF Quits
  <1> QED
    BY <1>3, <1>4, <1>5, TaskKinds

LEMMA NextFaultKinds ==
    ASSUME Sound, Lineage, [Next]_vars
    PROVE  FaultKinds
  <1>1. Sellers \subseteq Tasks /\ Buyers \subseteq Tasks /\ Checkers \subseteq Tasks
    BY TaskKinds
  <1>2. ASSUME NEW t \in Buyers, RunBuyStrategies(t) \/ BuyCreateStep(t) \/ BuyLost(t)
        PROVE  FaultKinds
    BY <1>1, <1>2, WorksUnfailing, QuitsUnworked DEF FaultKinds, BuyCreateStep
  <1>3. ASSUME NEW t \in Sellers,
               RunSellStrategies(t) \/ SellCreateStep(t) \/ SellLost(t) \/ SellCheckStep(t)
        PROVE  FaultKinds
    BY <1>1, <1>3, WorksUnfailing, QuitsUnworked DEF FaultKinds, SellCreateStep
  <1>4. ASSUME NEW t \in Checkers, CheckLimitOrders(t) \/ CheckStep(t) \/ FetchFails(t)
        PROVE  FaultKinds
    BY <1>1, <1>4, WorksUnfailing, QuitsUnworked DEF FaultKinds, CheckStep
  <1>5. ASSUME NEW t \in Tasks, Throws(t)
        PROVE  FaultKinds
    <2>1. StepSound(t) /\ Leaves(t)
      BY <1>5, ContinuesSound, GiveUpMotion
    <2>2. pc[t] \in Steps /\ pc[t] \notin {"idle", "buy", "sell", "fetch"} /\ faults' = faults + 1
      BY <1>5 DEF Throws, Sound, TypeOK
    <2>3. pc[t] \in Holding
      BY <2>2, StepNames DEF Steps
    <2> QED
      BY <2>1, <2>2, <2>3 DEF FaultKinds, Drops
  <1>6. CASE Crash
    <2>1. Evolves
      BY <1>6, Faulty, OtherSteps DEF Crash
    <2> QED
      BY <1>6, <2>1 DEF Crash, FaultKinds, Restarts
  <1>7. CASE ExchangeNext
    <2>1. Evolves /\ Trades
      BY <1>7, OtherSteps
    <2>2. UNCHANGED <<row, posted, pc, job, faults>>
      BY <1>7 DEF ExchangeNext, Fill, CancelOnExchange, Forget
    <2> QED
      BY <2>1, <2>2 DEF FaultKinds, Rests
  <1>8. CASE UNCHANGED vars
    <2>1. Evolves /\ Trades
      BY <1>8, OtherSteps
    <2>2. UNCHANGED <<row, posted, pc, job, faults>>
      BY <1>8 DEF vars
    <2> QED
      BY <2>1, <2>2 DEF FaultKinds, Rests
  <1> QED
    BY <1>2, <1>3, <1>4, <1>5, <1>6, <1>7, <1>8 DEF Next, Over


\* No order in the table gets to a later step, and at most order x leaves the steps Q,
\* through a fault.
Frees(Q, x) ==
    /\ \A L \in SUBSET Late, i \in Ids : row[i].stored /\ At(L, i)' => At(L, i)
    /\ \A L \in SUBSET Q, i \in Ids : At(L, i) /\ ~(i = x /\ faults' = faults + 1) => At(L, i)'

\* The orders at the steps Q are one order.
OneAt(Q) == \A t, u \in Tasks : pc[t] \in Q /\ pc[u] \in Q => job[t].id = job[u].id

LEMMA FreesOne ==
    ASSUME Sound, Sound', FaultKinds, NEW Q \in SUBSET Late, OneAt(Q),
           ~ \E t \in Tasks : StepSound(t) /\ Works(t) /\ Flow(t) /\ faults' = faults
    PROVE  /\ UNCHANGED <<row, posted>> /\ Evolves /\ faults' \in {faults, faults + 1}
           /\ \E x \in Ids : Frees(Q, x)
  <1>0. 1 \in Ids
    BY OrderAssumption DEF Ids
  <1>1. ASSUME NEW t \in Tasks, StepSound(t), Quits(t), faults' \in {faults, faults + 1}
        PROVE  /\ UNCHANGED <<row, posted>> /\ Evolves /\ faults' \in {faults, faults + 1}
               /\ \E x \in Ids : Frees(Q, x)
    <2>1. Others(t) /\ Evolves /\ UNCHANGED <<row, posted>> /\ pc[t] \notin Q
      BY <1>1 DEF StepSound, Quits, Starts, Leaves, Places, Turns, Late
    <2>2. pc'[t] \in Late => ~row[job'[t].id].stored
      <3>1. CASE Places(t)
        <4>1. pc'[t] \in Late => pc'[t] \in {"b_record", "s_record"}
          BY <3>1, StepNames DEF Places, Late
        <4>2. pc'[t] \in {"b_record", "s_record"} => ~row'[job'[t].id].stored
          BY DEF Sound, Shaped, Shape
        <4> QED
          BY <2>1, <4>1, <4>2
      <3>2. CASE Starts(t) \/ Leaves(t) \/ Turns(t)
        BY <3>2, StepNames DEF Starts, Leaves, Turns, Late
      <3> QED
        BY <1>1, <3>1, <3>2 DEF Quits
    <2>3. ASSUME NEW L \in SUBSET Late, NEW i \in Ids, row[i].stored, At(L, i)'
          PROVE  At(L, i)
      <3>1. PICK u \in Tasks : pc'[u] \in L /\ job'[u].id = i
        BY <2>3 DEF At
      <3>2. u # t
        BY <2>2, <2>3, <3>1
      <3> QED
        BY <2>1, <3>1, <3>2 DEF Others, At
    <2>4. ASSUME NEW L \in SUBSET Q, NEW i \in Ids, At(L, i)
          PROVE  At(L, i)'
      BY <2>1, <2>4 DEF Others, At
    <2> QED
      BY <1>0, <1>1, <2>1, <2>3, <2>4 DEF Frees
  <1>2. ASSUME NEW t \in Tasks, StepSound(t), Drops(t)
        PROVE  /\ UNCHANGED <<row, posted>> /\ Evolves /\ faults' \in {faults, faults + 1}
               /\ \E x \in Ids : Frees(Q, x)
    <2>1. /\ Others(t) /\ Evolves /\ UNCHANGED <<row, posted>> /\ pc[t] \in Holding
          /\ pc'[t] \notin Late /\ faults' = faults + 1
      BY <1>2, StepNames DEF StepSound, Drops, Leaves, Late
    <2>2. job[t].id \in Ids
      BY <2>1, InHand
    <2>3. ASSUME NEW L \in SUBSET Late, NEW i \in Ids, At(L, i)'
          PROVE  At(L, i)
      BY <2>1, <2>3 DEF Others, At
    <2>4. ASSUME NEW L \in SUBSET Q, NEW i \in Ids, At(L, i), i # job[t].id
          PROVE  At(L, i)'
      BY <2>1, <2>4 DEF Others, At
    <2>5. Frees(Q, job[t].id)
      BY <2>1, <2>3, <2>4 DEF Frees
    <2> QED
      BY <2>1, <2>2, <2>5
  <1>3. CASE Restarts /\ Evolves
    <2>1. PICK x \in Ids : \A t \in Tasks : pc[t] \in Q => job[t].id = x
      <3>1. CASE \E t \in Tasks : pc[t] \in Q
        <4>1. PICK t \in Tasks : pc[t] \in Q
          BY <3>1
        <4>2. job[t].id \in Ids
          BY <4>1, InHand DEF Late
        <4> QED
          BY <4>1, <4>2 DEF OneAt
      <3> QED
        BY <1>0, <3>1
    <2>2. Frees(Q, x)
      <3>1. \A L \in SUBSET Late, i \in Ids : ~At(L, i)'
        BY <1>3, StepNames DEF Restarts, At, Late
      <3>2. \A L \in SUBSET Q, i \in Ids : At(L, i) => i = x
        BY <2>1 DEF At
      <3>3. faults' = faults + 1
        BY <1>3 DEF Restarts
      <3> QED
        BY <3>1, <3>2, <3>3 DEF Frees
    <2> QED
      BY <1>3, <2>1, <2>2 DEF Restarts
  <1>4. CASE Rests /\ Evolves
    <2>1. \A L, i : At(L, i)' <=> At(L, i)
      BY <1>4 DEF Rests, At
    <2> QED
      BY <1>0, <1>4, <2>1 DEF Rests, Frees
  <1> QED
    BY <1>1, <1>2, <1>3, <1>4 DEF FaultKinds

LEMMA TotalRises ==
    ASSUME NEW f, NEW e, NEW x \in Ids, \A i \in Ids : f[i] \in Int /\ e[i] \in Int,
           \A i \in Ids \ {x} : e[i] <= f[i], e[x] <= f[x] + 1
    PROVE  Total(e) <= Total(f) + 1
  <1> DEFINE g == [i \in Ids |-> IF i = x THEN f[i] + 1 ELSE f[i]]
  <1>1. /\ \A i \in Ids : f[i] \in Int /\ g[i] \in Int /\ e[i] \in Int /\ e[i] <= g[i]
        /\ \A i \in Ids \ {x} : g[i] = f[i]
        /\ g[x] = f[x] + 1
    OBVIOUS
  <1> HIDE DEF g
  <1>2. Total(g) = Total(f) - f[x] + g[x]
    <2>1. \A i \in Ids : f[i] \in Int /\ g[i] \in Int
      BY <1>1
    <2>2. \A i \in Ids \ {x} : g[i] = f[i]
      BY <1>1
    <2> QED
      BY <2>1, <2>2, TotalChanges
  <1>3. Total(e) <= Total(g)
    <2>1. \A i \in Ids : e[i] \in Int /\ g[i] \in Int /\ e[i] <= g[i]
      BY <1>1
    <2> QED
      BY <2>1, TotalGrows
  <1>4. Total(e) \in Int /\ Total(f) \in Int
    BY IdsFinite, SumType DEF Total
  <1> QED
    BY <1>1, <1>2, <1>3, <1>4

\* A sum over the orders that no step raises but a fault, by one.
LEMMA WithinFaults ==
    ASSUME Sound, NEW f, NEW e, NEW x \in Ids, \A i \in Ids : f[i] \in Int /\ e[i] \in Int,
           faults' \in {faults, faults + 1},
           \A i \in Ids : ~(i = x /\ faults' = faults + 1) => e[i] <= f[i],
           e[x] <= f[x] + 1, Total(f) <= faults
    PROVE  Total(e) <= faults'
  <1>1. faults \in Nat /\ Total(e) \in Int /\ Total(f) \in Int
    BY IdsFinite, SumType DEF Total, Sound, TypeOK
  <1>2. CASE faults' = faults + 1
    <2>1. \A i \in Ids \ {x} : e[i] <= f[i]
      OBVIOUS
    <2>2. Total(e) <= Total(f) + 1
      BY <2>1, TotalRises
    <2> QED
      BY <1>1, <1>2, <2>2
  <1>3. CASE faults' = faults
    <2>1. \A i \in Ids : f[i] \in Int /\ e[i] \in Int /\ e[i] <= f[i]
      BY <1>1, <1>3
    <2>2. Total(e) <= Total(f)
      BY <2>1, TotalGrows
    <2> QED
      BY <1>1, <1>3, <2>2
  <1> QED
    BY <1>2, <1>3

-----------------------------------------------------------------------------
(* What is in hand, and what is in a check's list, faults included.         *)

\* What is sold, or about to be, is of a position that filled.
Grounded ==
    /\ \A i \in Ids : Placed(i) /\ ext[i].parent # 0 => ext[i].parent \notin Unfilled
    /\ \A t \in Sellers : \A s \in job[t].todo : s.id \notin Unfilled

\* An order that a check will treat, or that is not yet settled or closed, is unfilled.
Pending ==
    \A t \in Tasks :
        /\ t \in Checkers => \A s \in job[t].todo : s.id \in Unfilled
        /\ pc[t] \in {"s_out", "s_preclose", "f_row", "c_close"} \cup BuyBacking \cup SellBacking
              => job[t].id \in Unfilled

LEMMA GroundedMoves ==
    ASSUME Sound, Sound', Lineage, Grounded, NEW t \in Tasks, StepSound(t), Motion(t)
    PROVE  Grounded'
  <1>1. Others(t) /\ \A i \in Ids : Placed(i) => ext'[i] = ext[i]
    BY OrderStays DEF StepSound
  <1>2. ASSUME NEW u \in Sellers, NEW s \in job[u].todo
        PROVE  s.id \in Ids /\ row[s.id].stored /\ s.id \notin Unfilled'
    <2>1. u \in Tasks /\ s.id \in Ids /\ row[s.id].stored
      BY TaskKinds DEF Sound, Shaped, Shape
    <2> QED
      BY <2>1, StaysFilled DEF Grounded
  <1>3. ASSUME NEW i \in Ids, Placed(i)', ext'[i].parent # 0
        PROVE  ext'[i].parent \notin Unfilled'
    <2>1. CASE Placed(i)
      <3>1. ext'[i] = ext[i] /\ ext[i].parent \in 0..MaxOrders
        BY <1>1, <2>1 DEF Sound, TypeOK, ExtOrder
      <3>2. ext[i].parent \in Ids /\ row[ext[i].parent].stored
        BY <1>3, <2>1, <3>1, OrderAssumption DEF Ids, Lineage
      <3> QED
        BY <1>3, <2>1, <3>1, <3>2, StaysFilled DEF Grounded
    <2>2. CASE ~Placed(i)
      <3>1. Places(t)
        BY <1>3, <2>2 DEF Motion, Starts, Leaves, Turns, Works, Placed
      <3>2. PICK p \in 0..MaxOrders, amount \in Nat, full \in BOOLEAN :
                /\ RoomToOrder /\ Accept(NextId, p, amount, full)
                /\ \/ pc[t] = "buy" /\ p = 0
                   \/ pc[t] = "sell" /\ \E s \in job[t].todo : p = s.id
        BY <3>1 DEF Places
      <3>3. i = NextId /\ ext'[i].parent = p
        BY ZenonT(60), <1>3, <2>2, <3>2, PlacedOrder DEF Placed
      <3>4. pc[t] = "sell" => t \in Sellers
        BY WhoStands
      <3> QED
        BY <1>2, <1>3, <3>2, <3>3, <3>4
    <2> QED
      BY <2>1, <2>2
  <1>4. ASSUME NEW u \in Sellers, NEW s \in job'[u].todo
        PROVE  s.id \notin Unfilled'
    <2>1. u \in Tasks /\ u \notin Checkers
      BY TaskKinds
    <2>2. CASE u = t /\ Starts(t)
      <3>1. s.id \in Sellable /\ UNCHANGED row
        BY <1>4, <2>2 DEF Starts
      <3>2. s.id \in Ids /\ row[s.id].filled = row[s.id].amount1 /\ row[s.id].amount1 \in Nat
        BY <3>1 DEF Sellable, BuyRows, Sound, TypeOK, OrderRow
      <3> QED
        BY <3>1, <3>2 DEF Unfilled
    <2>3. CASE ~(u = t /\ Starts(t))
      <3>1. job'[u].todo \subseteq job[u].todo
        BY <1>1, <2>1, <2>3 DEF Others, Motion, Leaves, Places, Turns, Works, Onward
      <3> QED
        BY <1>2, <1>4, <3>1
    <2> QED
      BY <2>2, <2>3
  <1> QED
    BY <1>3, <1>4 DEF Grounded

\* An order leaves the unfilled ones by a write of the task that has it in hand.
LEMMA UnfilledLeaves ==
    ASSUME Sound, Sound', Lineage, Grounded, NEW t \in Tasks, StepSound(t), Motion(t),
           NEW i \in Ids, i \in Unfilled,
           ~(pc[t] \in {"f_row", "c_close", "r_off", "k_off"} /\ i = job[t].id)
    PROVE  i \in Unfilled'
  <1>1. CASE UNCHANGED row
    BY <1>1, SameUnfilled
  <1>2. CASE Works(t)
    <2>1. Fields(t) /\ pc[t] \in Holding /\ row[i].stored
      BY <1>2 DEF Works, Unfilled
    <2>2. ~(pc[t] = "c_parent" /\ i = ext[job[t].id].parent)
      <3>1. pc[t] = "c_parent" => job[t].id \in Ids /\ Placed(job[t].id)
        BY InHand, StepNames
      <3>2. 0 \notin Ids
        BY DEF Ids
      <3> QED
        BY <3>1, <3>2 DEF Grounded
    <2>3. /\ row'[i].stored /\ row'[i].amount1 = row[i].amount1 /\ row'[i].filled = row[i].filled
          /\ row[i].isActive => row'[i].isActive
      BY <2>1, <2>2 DEF Fields
    <2> QED
      BY <2>3 DEF Unfilled
  <1> QED
    BY <1>1, <1>2 DEF Motion, Starts, Leaves, Places, Turns

LEMMA PendingMoves ==
    ASSUME Sound, Sound', Lineage, Alone, OneHolder, ~Overlap, Grounded, Pending,
           NEW t \in Tasks, StepSound(t), Motion(t)
    PROVE  Pending'
  <1> DEFINE After == {"s_out", "s_preclose", "f_row", "c_close"} \cup BuyBacking \cup SellBacking
             Last  == {"f_row", "c_close", "r_off", "k_off"}
  <1>1. Others(t) /\ Evolves
    BY DEF StepSound
  <1>2. After \subseteq Holding /\ Last \subseteq Holding
    BY StepNames
  <1>3. ASSUME NEW u \in Tasks, u \in Checkers, NEW s \in job'[u].todo
        PROVE  s.id \in Unfilled'
    <2>1. ASSUME s \in job[u].todo
          PROVE  s.id \in Unfilled'
      <3>1. pc[u] # "idle" /\ s.id \in Ids /\ s.id \in Unfilled
        BY <1>3, <2>1, ListedBusy DEF Pending
      <3>2. ~(pc[t] \in Last /\ s.id = job[t].id)
        <4>1. CASE u = t
          <5>1. pc[t] \in Holding => s.id # job[t].id
            BY <1>3, <2>1, <4>1 DEF Sound, Shaped, Shape
          <5> QED
            BY <1>2, <5>1
        <4>2. CASE u # t
          <5>1. pc[t] = "idle"
            BY <1>3, <3>1, <4>2 DEF Alone
          <5> QED
            BY <5>1
        <4> QED
          BY <4>1, <4>2
      <3> QED
        BY <3>1, <3>2, UnfilledLeaves
    <2>2. CASE u = t /\ Starts(t)
      <3>1. s.id \in Unfilled /\ UNCHANGED row
        BY <1>3, <2>2 DEF Starts
      <3> QED
        BY <3>1, SameUnfilled
    <2>3. CASE ~(u = t /\ Starts(t))
      <3>1. job'[u].todo \subseteq job[u].todo
        BY <1>1, <2>3 DEF Others, Motion, Leaves, Places, Turns, Works, Onward
      <3> QED
        BY <1>3, <2>1, <3>1
    <2> QED
      BY <2>2, <2>3
  <1>4. ASSUME NEW u \in Tasks, pc'[u] \in After
        PROVE  job'[u].id \in Unfilled'
    <2>1. ASSUME pc[u] \in After, pc[t] \in Last => job[u].id # job[t].id
          PROVE  job[u].id \in Unfilled'
      <3>1. job[u].id \in Ids /\ job[u].id \in Unfilled
        BY <1>2, <2>1, InHand DEF Pending
      <3> QED
        BY <2>1, <3>1, UnfilledLeaves
    <2>2. CASE u # t
      <3>1. pc[u] \in After /\ job'[u] = job[u]
        BY <1>1, <1>4, <2>2 DEF Others
      <3>2. pc[t] \in Last => job[u].id # job[t].id
        BY <1>2, <2>2, <3>1 DEF OneHolder
      <3> QED
        BY <2>1, <3>1, <3>2
    <2>3. CASE u = t
      <3>1. CASE Works(t) /\ <<pc[t], pc'[t]>> \in Flows /\ job'[t].id = job[t].id
        <4>1. pc[t] \in (After \ Last) \cup {"s_record"}
          BY <1>4, <2>3, <3>1 DEF Flows, BuyBacking, SellBacking
        <4>2. CASE pc[t] \in After \ Last
          BY <2>1, <2>3, <3>1, <4>2
        <4>3. CASE pc[t] = "s_record"
          <5>1. /\ job[t].id \in Ids /\ ~row[job[t].id].stored /\ Placed(job[t].id)
                /\ ext[job[t].id].amount > 0
            BY <4>3, InHand, StepNames DEF Lineage
          <5>2. /\ row'[job[t].id].stored /\ row'[job[t].id].isActive
                /\ row'[job[t].id].filled = 0
            BY <3>1, <4>3, <5>1 DEF Works, Fields
          <5>3. row'[job[t].id].amount1 = ext'[job[t].id].amount
            BY <5>1, <5>2 DEF Sound, OrdersSound
          <5>4. ext'[job[t].id].amount = ext[job[t].id].amount
            BY <1>1, <5>1 DEF Evolves
          <5> QED
            BY <2>3, <3>1, <5>1, <5>2, <5>3, <5>4 DEF Unfilled
        <4> QED
          BY <4>1, <4>2, <4>3
      <3>2. CASE Turns(t)
        <4>1. PICK s \in job[t].todo : job'[t].id = s.id
          BY <3>2 DEF Turns
        <4>2. t \in Checkers /\ UNCHANGED row
          BY <3>2 DEF Turns
        <4> QED
          BY <2>3, <4>1, <4>2, SameUnfilled DEF Pending
      <3>3. pc'[t] \in Holding /\ pc'[t] \notin {"b_record", "s_record"}
        BY <1>2, <1>4, <2>3, StepNames
      <3> QED
        BY <3>1, <3>2, <3>3, HandMoves
    <2> QED
      BY <2>2, <2>3
  <1> QED
    BY <1>3, <1>4 DEF Pending

-----------------------------------------------------------------------------
(* How often an order is settled or rolled back.                           *)

Crediting == {"f_income", "c_income"}

\* The rest of a rollback, once the amount was given back.
GivenBack == {"r_off", "k_find", "k_preclose", "k_off"}

\* An order is credited once, and its fee taken once, for it is unfilled until then.
SettledOnce ==
    \A i \in Ids :
        /\ posted[i].in + One(i \in Unfilled \/ At(Crediting, i)) <= 1
        /\ posted[i].fee + One(At(FeeSteps, i)) <= posted[i].in

\* A settlement or a rollback of order i is still to come.
Owed(i) == (i \in Unfilled /\ ~At(GivenBack, i)) \/ At(Crediting, i)

\* How often order i was settled or rolled back, or will be if no fault happens.
Endings(i) == posted[i].in + posted[i].back + One(Owed(i))

Repeated(i) == IF Endings(i) > 1 THEN Endings(i) - 1 ELSE 0

RepeatsOf == [i \in Ids |-> Repeated(i)]

Repeats == Total(RepeatsOf) <= faults

LEMMA LateSteps ==
    /\ GivenBack \subseteq Late /\ Crediting \subseteq Late /\ FeeSteps \subseteq Late
    /\ Late \subseteq Holding /\ {"k_find", "k_preclose"} \subseteq Late /\ {"k_off"} \subseteq Late
    /\ SellCreation \subseteq Late
  BY StepNames DEF GivenBack, Crediting, FeeSteps, Late, SellCreation

\* Of an order not in the table nothing was posted, and no task is at a later step with it.
Untouched ==
    \A i \in Ids : ~row[i].stored =>
        /\ posted[i].in = 0 /\ posted[i].back = 0 /\ posted[i].fee = 0 /\ i \notin Unfilled
        /\ ~At(GivenBack, i) /\ ~At(Crediting, i) /\ ~At(FeeSteps, i)
        /\ ~At({"k_find", "k_preclose"}, i) /\ ~At({"k_off"}, i)

LEMMA NotStored == Sound => Untouched
  <1> SUFFICES ASSUME Sound, NEW i \in Ids, ~row[i].stored
               PROVE  /\ posted[i].in = 0 /\ posted[i].back = 0 /\ posted[i].fee = 0
                      /\ i \notin Unfilled
                      /\ ~At(GivenBack, i) /\ ~At(Crediting, i) /\ ~At(FeeSteps, i)
                      /\ ~At({"k_find", "k_preclose"}, i) /\ ~At({"k_off"}, i)
    BY DEF Untouched
  <1>1. \A t \in Tasks :
            pc[t] \in GivenBack \cup Crediting \cup FeeSteps => row[job[t].id].stored
    BY StepNames DEF Sound, Shaped, Shape, GivenBack, Crediting, FeeSteps
  <1>2. ~At(GivenBack, i) /\ ~At(Crediting, i) /\ ~At(FeeSteps, i)
        /\ ~At({"k_find", "k_preclose"}, i) /\ ~At({"k_off"}, i)
    BY <1>1 DEF At, GivenBack
  <1> QED
    BY <1>2 DEF Sound, OrdersSound, Unfilled

LEMMA NotStoredNext == Sound' => Untouched'
  BY NotStored, PTL

LEMMA PostingTypes ==
    ASSUME Sound, NEW i \in Ids
    PROVE  /\ posted[i].out \in Nat /\ posted[i].in \in Nat /\ posted[i].fee \in Nat
           /\ posted[i].back \in Nat
  BY DEF Sound, TypeOK, Postings

\* What a step of the code posts, and where the order in hand is before and after it.
LEMMA WorkOnOrder ==
    ASSUME Sound, OneHolder, NEW t \in Tasks, StepSound(t), Works(t), Flow(t),
           NEW i, i = job[t].id
    PROVE  /\ i \in Ids /\ pc[t] \in Holding
           /\ posted'[i].in = posted[i].in + One(pc[t] \in Crediting)
           /\ posted'[i].back = posted[i].back + One(pc[t] \in {"r_back", "k_back"})
           /\ posted'[i].fee <= posted[i].fee + One(pc[t] \in FeeSteps)
           /\ \A L \in SUBSET Holding : (At(L, i) <=> pc[t] \in L) /\ (At(L, i)' <=> pc'[t] \in L)
           /\ pc'[t] \in Holding => <<pc[t], pc'[t]>> \in Flows
           /\ pc'[t] \notin Holding => pc[t] \in Ends
  <1>1. i \in Ids /\ pc[t] \in Holding /\ Others(t)
    BY InHand DEF Works, StepSound
  <1>2. /\ posted'[i].in = posted[i].in + One(pc[t] \in Crediting)
        /\ posted'[i].back = posted[i].back + One(pc[t] \in {"r_back", "k_back"})
        /\ posted'[i].fee <= posted[i].fee + One(pc[t] \in FeeSteps)
    BY <1>1, PostsOf, PostingTypes DEF One, Crediting, FeeSteps
  <1>3. ASSUME NEW L \in SUBSET Holding
        PROVE  (At(L, i) <=> pc[t] \in L) /\ (At(L, i)' <=> pc'[t] \in L)
    BY <1>1, AtInHand DEF At
  <1>4. /\ pc'[t] \in Holding => <<pc[t], pc'[t]>> \in Flows
        /\ pc'[t] \notin Holding => pc[t] \in Ends
    BY <1>1, FlowFacts
  <1> QED
    BY <1>1, <1>2, <1>3, <1>4

\* Other orders are where they were, and as they were but for the parent's row.
LEMMA WorkElsewhere ==
    ASSUME Sound, Sound', Lineage, NEW t \in Tasks, StepSound(t), Works(t), NEW i \in Ids,
           i # job[t].id
    PROVE  /\ posted'[i] = posted[i] /\ (i \in Unfilled' => i \in Unfilled)
           /\ \A L \in SUBSET Holding : At(L, i)' <=> At(L, i)
           /\ row'[i].stored <=> row[i].stored
  <1>1. posted'[i] = posted[i] /\ (row'[i].stored <=> row[i].stored)
    BY DEF Works, Lines, Fields
  <1>2. i \in Unfilled' => i \in Unfilled
    BY UnfilledMoves DEF Motion
  <1>3. ASSUME NEW L \in SUBSET Holding
        PROVE  At(L, i)' <=> At(L, i)
    <2>1. ~(pc'[t] \in L /\ job'[t].id = i)
      BY StepNames DEF Works, Onward
    <2> QED
      BY <2>1, AtElsewhere DEF At, StepSound
  <1> QED
    BY <1>1, <1>2, <1>3

\* The step that settles an order, or closes its row, does so for good.
LEMMA WorkUnfilled ==
    ASSUME Sound, Sound', Lineage, Pending, Closing, Closing', NEW t \in Tasks, StepSound(t),
           Works(t), Flow(t), NEW i, i = job[t].id
    PROVE  /\ i \in Unfilled' => i \in Unfilled \/ pc[t] \in {"b_record", "s_record"}
           /\ pc[t] \in {"r_off", "k_off", "f_row", "c_close"} => i \notin Unfilled'
           /\ pc[t] \in {"f_row", "c_close"} \cup BuyBacking \cup SellBacking => i \in Unfilled
           /\ pc[t] \in Crediting => i \notin Unfilled
  <1>1. i \in Unfilled' => i \in Unfilled \/ pc[t] \in {"b_record", "s_record"}
    BY DEF Flow
  <1>2. pc[t] \in {"r_off", "k_off", "f_row", "c_close"} => i \notin Unfilled'
    BY DEF Flow
  <1> QED
    BY <1>1, <1>2 DEF Pending, Closing, Crediting

LEMMA SettledWorks ==
    ASSUME Sound, Sound', Lineage, OneHolder, Pending, Closing, Closing', SettledOnce,
           NEW t \in Tasks, StepSound(t), Works(t), Flow(t), NEW i \in Ids
    PROVE  /\ posted'[i].in + One(i \in Unfilled' \/ At(Crediting, i)') <= 1
           /\ posted'[i].fee + One(At(FeeSteps, i)') <= posted'[i].in
  <1> DEFINE U  == i \in Unfilled
             V  == i \in Unfilled'
             C  == At(Crediting, i)
             Cn == At(Crediting, i)'
             F  == At(FeeSteps, i)
             Fn == At(FeeSteps, i)'
  <1>1. /\ posted[i].in \in Nat /\ posted[i].fee \in Nat
        /\ posted'[i].in \in Nat /\ posted'[i].fee \in Nat
    BY DEF Sound, TypeOK, Postings
  <1>2. posted[i].in + One(U \/ C) <= 1 /\ posted[i].fee + One(F) <= posted[i].in
    BY DEF SettledOnce
  <1>3. Crediting \subseteq Holding /\ FeeSteps \subseteq Holding
    BY LateSteps
  <1>4. CASE i # job[t].id
    <2>1. posted'[i] = posted[i] /\ (V => U) /\ (Cn <=> C) /\ (Fn <=> F)
      BY <1>3, <1>4, WorkElsewhere
    <2> HIDE DEF U, V, C, Cn, F, Fn
    <2>2. /\ posted'[i].in + One(V \/ Cn) <= 1
          /\ posted'[i].fee + One(Fn) <= posted'[i].in
      BY <1>1, <1>2, <2>1 DEF One
    <2> QED
      BY <2>2 DEF V, Cn, Fn
  <1>5. CASE i = job[t].id
    <2>1. /\ pc[t] \in Holding
          /\ posted'[i].in = posted[i].in + One(pc[t] \in Crediting)
          /\ posted'[i].fee <= posted[i].fee + One(pc[t] \in FeeSteps)
          /\ C <=> pc[t] \in Crediting
          /\ Cn <=> pc'[t] \in Crediting
          /\ F <=> pc[t] \in FeeSteps
          /\ Fn <=> pc'[t] \in FeeSteps
      BY <1>3, <1>5, WorkOnOrder
    <2>2. /\ V => U \/ pc[t] \in {"b_record", "s_record"}
          /\ pc[t] \in {"f_row", "c_close"} => U /\ ~V
          /\ pc[t] \in Crediting => ~U
      BY <1>5, WorkUnfilled
    <2>3. /\ pc'[t] \in Crediting => pc[t] \in {"f_row", "c_close"}
          /\ pc'[t] \in FeeSteps => pc[t] \in Crediting
          /\ pc[t] \in Crediting => pc[t] \notin {"b_record", "s_record"} /\ pc[t] \notin FeeSteps
          /\ pc[t] \in {"b_record", "s_record"} => pc[t] \notin FeeSteps
      <3>1. /\ pc'[t] \in Crediting => <<pc[t], pc'[t]>> \in Flows
            /\ pc'[t] \in FeeSteps => <<pc[t], pc'[t]>> \in Flows
        BY <1>3, <1>5, WorkOnOrder
      <3> QED
        BY <3>1 DEF Flows, Crediting, FeeSteps
    <2>4. pc[t] \in {"b_record", "s_record"} => posted[i].in = 0
      BY <1>5, <2>1, InHand DEF Sound, OrdersSound
    <2> HIDE DEF U, V, C, Cn, F, Fn
    <2>5. posted'[i].in + One(V \/ Cn) <= 1
      <3>1. CASE pc[t] \in Crediting
        BY <1>1, <1>2, <2>1, <2>2, <2>3, <3>1 DEF One, Crediting
      <3>2. CASE pc[t] \notin Crediting
        BY <1>1, <1>2, <2>1, <2>2, <2>3, <2>4, <3>2 DEF One
      <3> QED
        BY <3>1, <3>2
    <2>6. posted'[i].fee + One(Fn) <= posted'[i].in
      BY <1>1, <1>2, <2>1, <2>3 DEF One
    <2> QED
      BY <2>5, <2>6 DEF V, Cn, Fn
  <1> QED
    BY <1>4, <1>5

\* No step of the code makes an order end more often, but for the first time.
LEMMA EndingsWork ==
    ASSUME Sound, Sound', Lineage, OneHolder, Pending, Closing, Closing',
           NEW t \in Tasks, StepSound(t), Works(t), Flow(t), NEW i \in Ids
    PROVE  Endings(i)' <= Endings(i) \/ Endings(i)' <= 1
  <1> DEFINE U  == i \in Unfilled
             V  == i \in Unfilled'
             C  == At(Crediting, i)
             Cn == At(Crediting, i)'
             G  == At(GivenBack, i)
             Gn == At(GivenBack, i)'
             n  == posted[i].in + posted[i].back
             m  == posted'[i].in + posted'[i].back
  <1>1. /\ posted[i].in \in Nat /\ posted[i].back \in Nat
        /\ posted'[i].in \in Nat /\ posted'[i].back \in Nat
    BY DEF Sound, TypeOK, Postings
  <1>2. Endings(i) = n + One((U /\ ~G) \/ C) /\ Endings(i)' = m + One((V /\ ~Gn) \/ Cn)
    BY DEF Endings, Owed
  <1>3. Crediting \subseteq Holding /\ GivenBack \subseteq Holding
    BY LateSteps
  <1>4. CASE i # job[t].id
    <2>1. posted'[i] = posted[i] /\ (V => U) /\ (Cn <=> C) /\ (Gn <=> G)
      BY <1>3, <1>4, WorkElsewhere
    <2>2. m = n /\ n \in Nat
      BY <1>1, <2>1
    <2> HIDE DEF U, V, C, Cn, G, Gn, n, m
    <2> QED
      BY <1>2, <2>1, <2>2 DEF One
  <1>5. CASE i = job[t].id
    <2>1. /\ pc[t] \in Holding
          /\ posted'[i].in = posted[i].in + One(pc[t] \in Crediting)
          /\ posted'[i].back = posted[i].back + One(pc[t] \in {"r_back", "k_back"})
          /\ C <=> pc[t] \in Crediting
          /\ Cn <=> pc'[t] \in Crediting
          /\ G <=> pc[t] \in GivenBack
          /\ Gn <=> pc'[t] \in GivenBack
      BY <1>3, <1>5, WorkOnOrder
    <2>2. /\ V => U \/ pc[t] \in {"b_record", "s_record"}
          /\ pc[t] \in {"r_off", "k_off", "f_row", "c_close"} => ~V
          /\ pc[t] \in {"f_row", "c_close"} \cup BuyBacking \cup SellBacking => U
          /\ pc[t] \in Crediting => ~U
      BY <1>5, WorkUnfilled
    <2>3. /\ pc'[t] \in Crediting => pc[t] \in {"f_row", "c_close"}
          /\ pc[t] \in Crediting => pc'[t] \in FeeSteps
          /\ pc[t] \in {"r_back", "k_back", "k_find", "k_preclose"} => pc'[t] \in GivenBack
          /\ pc'[t] \in GivenBack => pc[t] \in {"r_back", "k_back", "k_find", "k_preclose"}
      <3>1. /\ pc'[t] \in Holding => <<pc[t], pc'[t]>> \in Flows
            /\ pc'[t] \notin Holding => pc[t] \in Ends
        BY <1>5, WorkOnOrder
      <3>2. /\ pc'[t] \in Crediting \cup GivenBack => <<pc[t], pc'[t]>> \in Flows
            /\ pc[t] \in Crediting \cup {"r_back", "k_back", "k_find", "k_preclose"}
                  => <<pc[t], pc'[t]>> \in Flows
        BY <1>3, <3>1, StepNames DEF Ends, Crediting
      <3>3. /\ pc'[t] \in Crediting => pc[t] \in {"f_row", "c_close"}
            /\ pc'[t] \in GivenBack => pc[t] \in {"r_back", "k_back", "k_find", "k_preclose"}
        BY <3>2 DEF Flows, Crediting, GivenBack
      <3>4. pc[t] \in Crediting => pc'[t] \in FeeSteps
        BY <3>2 DEF Flows, Crediting, FeeSteps
      <3>5. pc[t] \in {"r_back", "k_back", "k_find", "k_preclose"} => pc'[t] \in GivenBack
        BY <3>2 DEF Flows, GivenBack
      <3> QED
        BY <3>3, <3>4, <3>5
    <2> HIDE DEF U, V, C, Cn, G, Gn
    <2>4. CASE pc[t] \in {"b_record", "s_record"}
      <3>1. posted[i].in = 0 /\ posted[i].back = 0
        BY <1>5, <2>1, <2>4, InHand DEF Sound, OrdersSound
      <3>2. posted'[i].in = 0 /\ posted'[i].back = 0
        BY <2>1, <2>4, <3>1 DEF One, Crediting
      <3> QED
        BY <1>2, <3>2 DEF One
    <2>5. CASE pc[t] \in Crediting
      <3>1. m = n + 1 /\ n \in Nat
        BY <1>1, <2>1, <2>5 DEF One, Crediting
      <3>2. ~V /\ ~Cn /\ C
        BY <2>1, <2>2, <2>3, <2>5 DEF Crediting, FeeSteps
      <3> HIDE DEF n, m
      <3> QED
        BY <1>2, <3>1, <3>2 DEF One
    <2>6. CASE pc[t] \in {"r_back", "k_back"}
      <3>1. m = n + 1 /\ n \in Nat
        BY <1>1, <2>1, <2>6 DEF One, Crediting
      <3>2. U /\ ~G /\ Gn /\ ~Cn
        BY <2>1, <2>2, <2>3, <2>6 DEF GivenBack, Crediting, BuyBacking, SellBacking
      <3> HIDE DEF n, m
      <3> QED
        BY <1>2, <3>1, <3>2 DEF One
    <2>7. CASE pc[t] \notin {"b_record", "s_record", "r_back", "k_back"} \cup Crediting
      <3>1. m = n /\ n \in Nat
        BY <1>1, <2>1, <2>7 DEF One
      <3>2. (V /\ ~Gn) \/ Cn => (U /\ ~G) \/ C
        BY <2>1, <2>2, <2>3, <2>7 DEF GivenBack, Crediting
      <3> HIDE DEF n, m
      <3> QED
        BY <1>2, <3>1, <3>2 DEF One
    <2> QED
      BY <2>4, <2>5, <2>6, <2>7
  <1> QED
    BY <1>4, <1>5

LEMMA OneBacking ==
    ASSUME Sound, Alone, ~Overlap
    PROVE  OneAt(GivenBack)
  <1> SUFFICES ASSUME NEW t \in Tasks, NEW u \in Tasks, pc[t] \in GivenBack, pc[u] \in GivenBack
               PROVE  t = u
    BY DEF OneAt
  <1>1. t \in Checkers /\ pc[u] # "idle"
    BY WhoStands DEF GivenBack, BuyBacking, SellBacking
  <1>2. pc[t] # "idle"
    BY DEF GivenBack
  <1> QED
    BY <1>1, <1>2 DEF Alone

\* Any other step leaves what was posted, and at most one rollback, cut short, is to be done
\* again.
LEMMA EndingsElse ==
    ASSUME Sound, Sound', UNCHANGED <<row, posted>>, NEW x \in Ids, Frees(GivenBack, x),
           NEW i \in Ids
    PROVE  /\ Endings(i)' <= Endings(i) + 1
           /\ ~(i = x /\ faults' = faults + 1) => Endings(i)' <= Endings(i)
           /\ At(Crediting, i)' => At(Crediting, i)
           /\ At(FeeSteps, i)' => At(FeeSteps, i)
  <1> DEFINE U  == i \in Unfilled
             C  == At(Crediting, i)
             Cn == At(Crediting, i)'
             G  == At(GivenBack, i)
             Gn == At(GivenBack, i)'
             n  == posted[i].in + posted[i].back
             e  == Endings(i)
             en == Endings(i)'
             Faulty1 == i = x /\ faults' = faults + 1
  <1>1. n \in Nat
    BY PostingTypes
  <1>2. i \in Unfilled' <=> U
    BY SameUnfilled
  <1>3. /\ e = n + One((U /\ ~G) \/ C)
        /\ en = n + One((U /\ ~Gn) \/ Cn)
    BY <1>2 DEF Endings, Owed
  <1>4. /\ row[i].stored => (Cn => C) /\ (At(FeeSteps, i)' => At(FeeSteps, i))
        /\ G /\ ~Faulty1 => Gn
    BY LateSteps DEF Frees
  <1>5. ~row[i].stored => ~Cn /\ ~At(FeeSteps, i)' /\ ~U
    BY NotStored, NotStoredNext, <1>2 DEF Untouched
  <1> HIDE DEF U, C, Cn, G, Gn, n, e, en, Faulty1
  <1>6. en <= e + 1 /\ (~Faulty1 => en <= e)
    BY <1>1, <1>3, <1>4, <1>5 DEF One
  <1> QED
    BY <1>4, <1>5, <1>6 DEF C, Cn, e, en, Faulty1

LEMMA RepeatsType ==
    ASSUME Sound
    PROVE  \A i \in Ids : Endings(i) \in Nat /\ Repeated(i) \in Nat /\ RepeatsOf[i] = Repeated(i)
  <1> SUFFICES ASSUME NEW i \in Ids
               PROVE  Endings(i) \in Nat /\ Repeated(i) \in Nat
    BY DEF RepeatsOf
  <1>1. Endings(i) \in Nat
    BY PostingTypes DEF Endings, One
  <1> QED
    BY <1>1 DEF Repeated

TypedRepeats ==
    \A i \in Ids : Endings(i) \in Nat /\ Repeated(i) \in Nat /\ RepeatsOf[i] = Repeated(i)

LEMMA RepeatsTyped == Sound => TypedRepeats
  BY RepeatsType DEF TypedRepeats

LEMMA RepeatsTypedNext == Sound' => TypedRepeats'
  BY RepeatsTyped, PTL

LEMMA RepeatsNext ==
    ASSUME ~Overlap, Sound, Sound', Lineage, Alone, Closing, Closing', Pending, SettledOnce,
           Repeats, [Next]_vars
    PROVE  SettledOnce' /\ Repeats'
  <1> DEFINE f == RepeatsOf
             e == RepeatsOf'
  <1>1. OneHolder /\ FaultKinds
    BY HolderIsOne, NextFaultKinds
  <1>2. TypedRepeats /\ TypedRepeats'
    BY RepeatsTyped, RepeatsTypedNext
  <1>3. \A i \in Ids : f[i] \in Int /\ e[i] \in Int
    BY <1>2 DEF TypedRepeats
  <1>4. ASSUME NEW i \in Ids
        PROVE  /\ Endings(i)' <= Endings(i) \/ Endings(i)' <= 1 => e[i] <= f[i]
               /\ Endings(i)' <= Endings(i) + 1 => e[i] <= f[i] + 1
    <2>1. /\ Endings(i) \in Nat /\ Endings(i)' \in Nat
          /\ f[i] = IF Endings(i) > 1 THEN Endings(i) - 1 ELSE 0
          /\ e[i] = IF Endings(i)' > 1 THEN Endings(i)' - 1 ELSE 0
      BY <1>2 DEF TypedRepeats, Repeated
    <2> HIDE DEF f, e
    <2> QED
      BY <2>1
  <1>5. CASE \E t \in Tasks : StepSound(t) /\ Works(t) /\ Flow(t) /\ faults' = faults
    <2> PICK t \in Tasks : StepSound(t) /\ Works(t) /\ Flow(t) /\ faults' = faults
      BY <1>5
    <2>1. SettledOnce'
      BY <1>1, SettledWorks DEF SettledOnce
    <2>2. \A i \in Ids : e[i] <= f[i]
      BY <1>1, <1>4, EndingsWork
    <2> HIDE DEF e, f
    <2>3. Total(e) <= Total(f) /\ Total(e) \in Int /\ Total(f) \in Int
      BY <1>3, <2>2, TotalGrows, IdsFinite, SumType DEF Total
    <2>4. Total(e) <= faults'
      <3>1. faults \in Nat /\ Total(f) <= faults
        BY DEF Repeats, Sound, TypeOK, f
      <3> QED
        BY <2>3, <3>1
    <2> QED
      BY <2>1, <2>4 DEF Repeats, e, Total, Ids
  <1>6. CASE ~ \E t \in Tasks : StepSound(t) /\ Works(t) /\ Flow(t) /\ faults' = faults
    <2>1. /\ UNCHANGED <<row, posted>> /\ faults' \in {faults, faults + 1}
          /\ \E x \in Ids : Frees(GivenBack, x)
      <3>1. OneAt(GivenBack) /\ GivenBack \in SUBSET Late
        BY OneBacking, LateSteps
      <3> QED
        BY <1>1, <1>6, <3>1, FreesOne
    <2> PICK x \in Ids : Frees(GivenBack, x)
      BY <2>1
    <2>2. ASSUME NEW i \in Ids
          PROVE  /\ Endings(i)' <= Endings(i) + 1
                 /\ ~(i = x /\ faults' = faults + 1) => Endings(i)' <= Endings(i)
                 /\ At(Crediting, i)' => At(Crediting, i)
                 /\ At(FeeSteps, i)' => At(FeeSteps, i)
      BY <2>1, EndingsElse
    <2>3. SettledOnce'
      <3> SUFFICES ASSUME NEW i \in Ids
                   PROVE  /\ posted[i].in + One(i \in Unfilled \/ At(Crediting, i)') <= 1
                          /\ posted[i].fee + One(At(FeeSteps, i)') <= posted[i].in
        BY <2>1, SameUnfilled DEF SettledOnce
      <3>1. /\ posted[i].in \in Nat /\ posted[i].fee \in Nat
            /\ posted[i].in + One(i \in Unfilled \/ At(Crediting, i)) <= 1
            /\ posted[i].fee + One(At(FeeSteps, i)) <= posted[i].in
        BY PostingTypes DEF SettledOnce
      <3> QED
        BY <2>2, <3>1 DEF One
    <2>4. /\ \A i \in Ids : ~(i = x /\ faults' = faults + 1) => e[i] <= f[i]
          /\ e[x] <= f[x] + 1
      BY <1>4, <2>2
    <2>5. Total(f) <= faults
      BY DEF Repeats
    <2> HIDE DEF e, f
    <2>6. Total(e) <= faults'
      BY <1>3, <2>1, <2>4, <2>5, WithinFaults
    <2> QED
      BY <2>3, <2>6 DEF Repeats, e, Total, Ids
  <1> QED
    BY <1>5, <1>6

\* While no task goes on, what is in hand stays so, or is dropped.
LEMMA HandsStay ==
    ASSUME Sound, Closing, Grounded, Pending, UNCHANGED row, Trades,
           \/ UNCHANGED <<pc, job>>
           \/ \A t \in Tasks : pc'[t] = "idle" /\ job'[t] = NoJob
    PROVE  Closing' /\ Grounded' /\ Pending'
  <1>1. Unfilled' = Unfilled
    BY SameUnfilled
  <1>2. ASSUME NEW u \in Tasks, pc'[u] # "idle"
        PROVE  pc[u] = pc'[u] /\ job'[u] = job[u]
    BY <1>2
  <1>3. ASSUME NEW u \in Tasks
        PROVE  job'[u].todo \subseteq job[u].todo
    BY NoJobType
  <1>4. Closing'
    <2> SUFFICES ASSUME NEW u \in Tasks,
                        pc'[u] \in {"f_income", "f_fee", "c_income", "c_fee", "c_find", "c_parent"}
                 PROVE  job'[u].id \notin Unfilled'
      BY DEF Closing
    <2> QED
      BY <1>1, <1>2 DEF Closing
  <1>5. Grounded'
    <2>1. ASSUME NEW i \in Ids, Placed(i)', ext'[i].parent # 0
          PROVE  ext'[i].parent \notin Unfilled'
      BY <1>1, <2>1 DEF Grounded, Trades
    <2>2. ASSUME NEW u \in Sellers, NEW s \in job'[u].todo
          PROVE  s.id \notin Unfilled'
      BY <1>1, <1>3, <2>2, TaskKinds DEF Grounded
    <2> QED
      BY <2>1, <2>2 DEF Grounded
  <1>6. Pending'
    <2>1. ASSUME NEW u \in Tasks, u \in Checkers, NEW s \in job'[u].todo
          PROVE  s.id \in Unfilled'
      BY <1>1, <1>3, <2>1 DEF Pending
    <2>2. ASSUME NEW u \in Tasks,
                 pc'[u] \in {"s_out", "s_preclose", "f_row", "c_close"}
                               \cup BuyBacking \cup SellBacking
          PROVE  job'[u].id \in Unfilled'
      <3>1. pc'[u] # "idle"
        BY <2>2 DEF BuyBacking, SellBacking
      <3> QED
        BY <1>1, <1>2, <2>2, <3>1 DEF Pending
    <2> QED
      BY <2>1, <2>2 DEF Pending
  <1> QED
    BY <1>4, <1>5, <1>6

\* What is in hand, and how often an order ended: the inductive invariant.
Carried == Alone /\ Closing /\ Grounded /\ Pending

Charged == Carried /\ SettledOnce /\ Repeats

LEMMA InitCharged == Init => Charged
  <1> SUFFICES ASSUME Init PROVE Charged
    OBVIOUS
  <1>1. Alone /\ Closing
    BY InitDues
  <1>2. /\ \A t \in Tasks : pc[t] = "idle" /\ job[t].todo = {}
        /\ \A i \in Ids : ~Placed(i) /\ ~row[i].stored
        /\ faults = 0
    BY NoJobType DEF Init, Placed, NoExt, NoRow
  <1>3. Grounded /\ Pending
    <2>1. Grounded
      BY <1>2, TaskKinds DEF Grounded
    <2>2. Pending
      BY <1>2 DEF Pending, BuyBacking, SellBacking
    <2> QED
      BY <2>1, <2>2
  <1>4. ASSUME NEW i \in Ids
        PROVE  /\ posted[i].in = 0 /\ posted[i].back = 0 /\ posted[i].fee = 0
               /\ i \notin Unfilled /\ ~At(Crediting, i) /\ ~At(FeeSteps, i)
    BY <1>2 DEF Init, Unfilled, At, Crediting, FeeSteps
  <1>5. SettledOnce
    BY <1>4 DEF SettledOnce, One
  <1>6. \A i \in Ids : RepeatsOf[i] = 0
    BY <1>4 DEF RepeatsOf, Repeated, Endings, Owed, One
  <1>7. Total(RepeatsOf) = 0
    <2> PICK f : f = RepeatsOf
      OBVIOUS
    <2> QED
      BY <1>6, IdsFinite, SumZero DEF Total
  <1> QED
    BY <1>1, <1>2, <1>3, <1>5, <1>7 DEF Charged, Carried, Repeats

LEMMA NextCarried ==
    ASSUME ~Overlap, Sound, Sound', Lineage, Carried, [Next]_vars
    PROVE  Carried'
  <1>1. Alone' /\ OneHolder
    BY NextAloneFaults, HolderIsOne DEF Carried
  <1>2. CASE \E t \in Tasks : StepSound(t) /\ Motion(t)
    BY <1>1, <1>2, ClosingMoves, GroundedMoves, PendingMoves DEF Carried
  <1>3. CASE ~ \E t \in Tasks : StepSound(t) /\ Motion(t)
    BY <1>1, <1>3, MotionKinds, OtherSteps, HandsStay DEF Carried
  <1> QED
    BY <1>2, <1>3

LEMMA CarriedInvariant ==
    ASSUME ~Overlap
    PROVE  Spec => []Carried
  <1>1. Init => Carried
    BY InitCharged DEF Charged
  <1>2. Sound /\ Sound' /\ Lineage /\ Carried /\ [Next]_vars => Carried'
    BY NextCarried
  <1> QED
    BY <1>1, <1>2, SoundInvariant, LineageInvariant, PTL DEF Spec

LEMMA ChargedInvariant ==
    ASSUME ~Overlap
    PROVE  Spec => []Charged
  <1>1. Init => Charged
    BY InitCharged
  <1>2. Sound /\ Sound' /\ Lineage /\ Carried /\ Carried' /\ Charged /\ [Next]_vars => Charged'
    BY RepeatsNext DEF Charged, Carried
  <1> QED
    BY <1>1, <1>2, SoundInvariant, LineageInvariant, CarriedInvariant, PTL DEF Spec

\* However many faults there are, an order's placing and its filling are posted once, and
\* the orders that end more than once do so once more per fault at most: a rollback cut
\* short before its last write leaves the row to the next check, which settles it or
\* rolls it back again.
THEOREM RepeatsAreBounded ==
    ASSUME ~Overlap
    PROVE  Spec => []RepeatsBounded
  <1>1. Sound /\ Charged => RepeatsBounded
    <2> SUFFICES ASSUME Sound, Charged PROVE RepeatsBounded
      OBVIOUS
    <2> DEFINE R == {i \in Ids : posted[i].in + posted[i].back > 1}
               F == [i \in R |-> posted[i].in + posted[i].back - 1]
               e == [i \in Ids |-> IF i \in R THEN posted[i].in + posted[i].back - 1 ELSE 0]
               f == RepeatsOf
    <2>1. \A i \in Ids : /\ posted[i].out <= 1 /\ posted[i].in <= 1
                         /\ posted[i].fee <= posted[i].in
      <3> SUFFICES ASSUME NEW i \in Ids
                   PROVE  posted[i].out <= 1 /\ posted[i].in <= 1 /\ posted[i].fee <= posted[i].in
        OBVIOUS
      <3>1. /\ posted[i].in + One(i \in Unfilled \/ At(Crediting, i)) <= 1
            /\ posted[i].fee + One(At(FeeSteps, i)) <= posted[i].in
        BY DEF Charged, SettledOnce
      <3>2. posted[i].in \in Nat /\ posted[i].fee \in Nat /\ posted[i].out <= 1
        BY PostingTypes DEF Sound, Creators
      <3> QED
        BY <3>1, <3>2 DEF One
    <2>2. \A i \in Ids : posted[i].in \in Nat /\ posted[i].back \in Nat
      BY PostingTypes
    <2>3. ASSUME NEW i \in Ids
          PROVE  e[i] \in Int /\ f[i] \in Int /\ e[i] <= f[i]
      <3> DEFINE n == posted[i].in + posted[i].back
      <3>1. n \in Nat /\ Endings(i) = n + One(Owed(i)) /\ e[i] = IF n > 1 THEN n - 1 ELSE 0
        BY <2>2 DEF Endings
      <3>2. f[i] = IF Endings(i) > 1 THEN Endings(i) - 1 ELSE 0
        BY DEF RepeatsOf, Repeated
      <3> HIDE DEF n, e, f
      <3> QED
        BY <3>1, <3>2 DEF One
    <2>4. /\ \A i \in R : F[i] \in Int /\ e[i] = F[i]
          /\ \A i \in Ids \ R : e[i] = 0
          /\ R \in SUBSET Ids
      BY <2>2
    <2>5. Sum(R, LAMBDA i : posted[i].in + posted[i].back - 1) = SumFunctionOnSet(F, R)
      BY DEF Sum
    <2>6. Total(f) <= faults /\ faults \in Nat
      BY DEF Charged, Repeats, Sound, TypeOK
    <2> HIDE DEF R, F, e, f
    <2>7. Total(e) = SumFunctionOnSet(F, R)
      BY <2>4, IdsFinite, SumPadded DEF Total
    <2>8. Total(e) <= Total(f) /\ Total(e) \in Int /\ Total(f) \in Int
      BY <2>3, TotalGrows, IdsFinite, SumType DEF Total
    <2>9. SumFunctionOnSet(F, R) <= faults
      BY <2>6, <2>7, <2>8
    <2> QED
      BY <2>1, <2>5, <2>9 DEF RepeatsBounded, R
  <1> QED
    BY <1>1, SoundInvariant, ChargedInvariant, PTL

-----------------------------------------------------------------------------
(* What preclosed has missed, or holds too much.                           *)

\* What a sell run has read of the positions it chose still holds.
Read ==
    \A t \in Sellers :
        /\ \A s \in Chosen(t) : s.preclosed = row[s.id].preclosed
        /\ pc[t] \in SellCreation => \A s \in job[t].todo : s.id # job[t].cur.id

\* An order is given back after its creation, and before the rest of its rollback.
Backed ==
    \A i \in Ids :
        /\ At(SellCreation, i) => posted[i].back = 0
        /\ At({"k_find", "k_preclose"}, i) \/ At({"k_off"}, i) => posted[i].back > 0

Absolute(n) == IF n < 0 THEN -n ELSE n

\* preclosed should hold order i: until the write in its rollback.
Kept(i) == posted[i].back = 0 \/ At({"k_find", "k_preclose"}, i)

\* It should not, and nobody will write it again for order i.
Dropped(i) == i \notin Unfilled \/ At({"k_off"}, i)

\* How wrong preclosed is, or will be if no fault happens, when it holds order i n times.
\* An order that was given back, and is still unfilled, is rolled back once more or settled.
Off(i, n) ==
    IF ~row[i].stored \/ ext[i].parent = 0 \/ At(SellCreation, i) THEN 0
    ELSE IF Kept(i) THEN Absolute(n - 1)
    ELSE IF Dropped(i) THEN Absolute(n)
    ELSE IF n > 0 THEN n ELSE 1 - n

OffOf(e) == [i \in Ids |-> Off(i, e[i])]

ShareOf(e, p) == [i \in Ids |-> IF ext[i].parent = p THEN e[i] * ext[i].amount ELSE 0]

\* preclosed holds order i e[i] times: once, more often or less than not at all.
Holds(e) ==
    /\ \A i \in Ids : ~row[i].stored \/ At(SellCreation, i) => e[i] = 0
    /\ \A p \in BuyRows : row[p].preclosed = Total(ShareOf(e, p))
    /\ Total(OffOf(e)) <= faults

Gaps == \E e \in [Ids -> Int] : Holds(e)

LEMMA Times ==
    ASSUME NEW a \in Int, NEW b \in Nat
    PROVE  /\ a * b \in Int /\ 0 * b = 0
           /\ (a + 1) * b = a * b + b /\ (a - 1) * b = a * b - b
  OBVIOUS

LEMMA ReadMoves ==
    ASSUME ~Overlap, OneSeller, Sound, Sound', Lineage, Alone, Read,
           NEW t \in Tasks, StepSound(t), Motion(t)
    PROVE  Read'
  <1> SUFFICES ASSUME NEW u \in Sellers
               PROVE  /\ \A s \in Chosen(u)' : s.preclosed = row'[s.id].preclosed
                      /\ pc'[u] \in SellCreation => \A s \in job'[u].todo : s.id # job'[u].cur.id
    BY DEF Read
  <1>1. Others(t) /\ u \in Tasks /\ u \notin Checkers
    BY TaskKinds DEF StepSound
  <1>2. ASSUME NEW s \in Chosen(u),
               ~(pc[t] = "s_preclose" /\ s.id = job[t].cur.id), ~(pc[t] = "k_preclose")
        PROVE  s.preclosed = row'[s.id].preclosed
    BY <1>2, ChosenStored, PrecloseStays DEF Read
  <1>3. CASE u # t
    <2>1. pc'[u] = pc[u] /\ job'[u] = job[u]
      BY <1>1, <1>3 DEF Others
    <2>2. ASSUME NEW s \in Chosen(u)'
          PROVE  s.preclosed = row'[s.id].preclosed
      <3>1. s \in Chosen(u)
        BY <2>1 DEF Chosen
      <3>2. pc[u] # "idle"
        BY <3>1, ChosenStored
      <3>3. pc[t] # "s_preclose"
        BY <1>3, WhoStands DEF OneSeller, SellCreation
      <3>4. pc[t] # "k_preclose"
        <4>1. ASSUME pc[t] = "k_preclose" PROVE FALSE
          <5>1. t \in Checkers
            BY <4>1, WhoStands DEF SellBacking
          <5> QED
            BY <1>1, <1>3, <3>2, <4>1, <5>1 DEF Alone
        <4> QED
          BY <4>1
      <3> QED
        BY <1>2, <3>1, <3>3, <3>4
    <2> QED
      BY <2>1, <2>2 DEF Read
  <1>4. CASE u = t /\ Starts(t)
    <2>1. pc'[u] \notin SellCreation /\ Chosen(u)' = job'[u].todo
      BY <1>4 DEF Starts, SellCreation, Chosen
    <2> QED
      BY <1>4, <2>1 DEF Starts
  <1>5. CASE u = t /\ Places(t)
    <2>1. pc[t] # "buy"
      BY <1>1, <1>5, WhoStands, TaskKinds
    <2>2. /\ UNCHANGED row
          /\ \/ pc'[t] = "idle" /\ job'[t].todo = {}
             \/ \E s \in job[t].todo : job'[t].cur = s /\ job'[t].todo = job[t].todo \ {s}
      BY <1>5, <2>1 DEF Places
    <2>3. Chosen(u)' \subseteq job[u].todo
      BY <1>5, <2>2 DEF Chosen, SellCreation
    <2>4. pc'[u] \in SellCreation => \A r \in job'[u].todo : r.id # job'[u].cur.id
      BY <1>1, <1>5, <2>2 DEF Sound, Shaped, Shape
    <2> QED
      BY <2>2, <2>3, <2>4 DEF Read, Chosen
  <1>6. CASE u = t /\ ~Starts(t) /\ ~Places(t)
    <2>1. Leaves(t) \/ Works(t)
      BY <1>1, <1>6 DEF Motion, Turns
    <2>2. /\ job'[t].todo \subseteq job[t].todo
          /\ pc'[t] \in SellCreation =>
                /\ pc[t] \in SellCreation /\ pc[t] # "s_preclose"
                /\ job'[t].todo = job[t].todo /\ job'[t].cur = job[t].cur
      BY <2>1 DEF Leaves, Works, Onward, Flows, SellCreation
    <2>3. pc[t] # "k_preclose"
      BY <1>1, <1>6, WhoStands DEF SellBacking
    <2>4. ASSUME NEW s \in Chosen(u)'
          PROVE  s.preclosed = row'[s.id].preclosed
      <3>1. s \in Chosen(u)
        BY <1>6, <2>2 DEF Chosen
      <3>2. pc[t] = "s_preclose" => s.id # job[t].cur.id
        <4>1. pc[t] = "s_preclose" => s \in job[t].todo
          BY <1>6, <2>2 DEF Chosen
        <4> QED
          BY <1>6, <4>1 DEF Read, SellCreation
      <3> QED
        BY <1>2, <2>3, <3>1, <3>2
    <2>5. pc'[u] \in SellCreation => \A s \in job'[u].todo : s.id # job'[u].cur.id
      BY <1>6, <2>2 DEF Read
    <2> QED
      BY <2>4, <2>5
  <1> QED
    BY <1>3, <1>4, <1>5, <1>6

LEMMA ReadStays ==
    ASSUME Sound, Read, SeenOffer, UNCHANGED row, Trades,
           \/ UNCHANGED <<pc, job>>
           \/ \A t \in Tasks : pc'[t] = "idle" /\ job'[t] = NoJob
    PROVE  Read' /\ SeenOffer'
  <1>1. ASSUME NEW u \in Tasks, pc'[u] # "idle"
        PROVE  pc[u] = pc'[u] /\ job'[u] = job[u]
    BY <1>1
  <1>2. Read'
    <2> SUFFICES ASSUME NEW u \in Sellers
                 PROVE  /\ \A s \in Chosen(u)' : s.preclosed = row[s.id].preclosed
                        /\ pc'[u] \in SellCreation =>
                              \A s \in job'[u].todo : s.id # job'[u].cur.id
      BY DEF Read
    <2>1. u \in Tasks
      BY TaskKinds
    <2>2. CASE pc'[u] # "idle"
      BY <1>1, <2>1, <2>2 DEF Read, Chosen
    <2>3. CASE pc'[u] = "idle"
      <3>1. Chosen(u)' \subseteq Chosen(u) /\ pc'[u] \notin SellCreation
        BY <2>1, <2>3, NoJobType DEF Chosen, SellCreation
      <3> QED
        BY <3>1 DEF Read
    <2> QED
      BY <2>2, <2>3
  <1>3. SeenOffer'
    <2> SUFFICES ASSUME NEW u \in Tasks, pc'[u] = "k_preclose"
                 PROVE  job'[u].seen = row[ext'[job'[u].id].parent].preclosed
      BY DEF SeenOffer
    <2>1. pc[u] = "k_preclose" /\ job'[u] = job[u]
      BY <1>1
    <2>2. job[u].id \in Ids
      BY <2>1, InHand, StepNames
    <2>3. ext'[job[u].id].parent = ext[job[u].id].parent
      BY <2>2 DEF Trades
    <2> QED
      BY <2>1, <2>3 DEF SeenOffer
  <1> QED
    BY <1>2, <1>3

\* The steps between which preclosed and the rollbacks of an order differ.
Between == SellCreation \cup {"k_find", "k_preclose", "k_off"}

LEMMA BetweenSteps ==
    /\ Between \subseteq Late /\ SellCreation \subseteq Between
    /\ {"k_find", "k_preclose"} \subseteq Between /\ {"k_off"} \subseteq Between
    /\ Between \subseteq Holding
  BY LateSteps DEF Between

LEMMA OneBetween ==
    ASSUME Sound, Alone, ~Overlap, OneSeller
    PROVE  OneAt(Between)
  <1> SUFFICES ASSUME NEW t \in Tasks, NEW u \in Tasks, pc[t] \in Between, pc[u] \in Between
               PROVE  t = u
    BY DEF OneAt
  <1>1. pc[t] # "idle" /\ pc[u] # "idle"
    BY BetweenSteps, StepNames
  <1>2. /\ t \in Sellers \/ t \in Checkers
        /\ u \in Sellers \/ u \in Checkers
    BY WhoStands DEF Between, SellBacking
  <1> QED
    BY <1>1, <1>2 DEF Alone, OneSeller

LEMMA BackedWorks ==
    ASSUME Sound, Sound', Lineage, OneHolder, Backed, NEW t \in Tasks, StepSound(t), Works(t),
           Flow(t), NEW i \in Ids
    PROVE  /\ At(SellCreation, i)' => posted'[i].back = 0
           /\ At({"k_find", "k_preclose"}, i)' \/ At({"k_off"}, i)' => posted'[i].back > 0
  <1>1. /\ SellCreation \subseteq Holding /\ {"k_find", "k_preclose"} \subseteq Holding
        /\ {"k_off"} \subseteq Holding
    BY LateSteps
  <1>2. posted[i].back \in Nat
    BY PostingTypes
  <1>3. CASE i # job[t].id
    <2>1. posted'[i] = posted[i] /\ \A L \in SUBSET Holding : At(L, i)' <=> At(L, i)
      BY <1>3, WorkElsewhere
    <2> QED
      BY <1>1, <2>1 DEF Backed
  <1>4. CASE i = job[t].id
    <2>1. /\ posted'[i].back = posted[i].back + One(pc[t] \in {"r_back", "k_back"})
          /\ \A L \in SUBSET Holding : (At(L, i) <=> pc[t] \in L) /\ (At(L, i)' <=> pc'[t] \in L)
          /\ pc'[t] \in Holding => <<pc[t], pc'[t]>> \in Flows
          /\ pc[t] \in Holding
      BY <1>4, WorkOnOrder
    <2>2. /\ pc'[t] \in SellCreation => pc[t] \in {"s_record", "s_out"}
          /\ pc'[t] \in {"k_find", "k_preclose", "k_off"}
                => pc[t] \in {"k_back", "k_find", "k_preclose"}
      BY <2>1, StepNames DEF Flows, SellCreation
    <2>3. ASSUME pc'[t] \in SellCreation
          PROVE  posted'[i].back = 0
      <3>1. pc[t] \in {"s_record", "s_out"} /\ At(SellCreation, i)
        BY <1>1, <2>1, <2>2, <2>3 DEF SellCreation
      <3>2. posted[i].back = 0
        BY <3>1 DEF Backed
      <3> QED
        BY <2>1, <3>1, <3>2 DEF One
    <2>4. ASSUME pc'[t] \in {"k_find", "k_preclose", "k_off"}
          PROVE  posted'[i].back > 0
      <3>1. CASE pc[t] = "k_back"
        BY <1>2, <2>1, <3>1 DEF One
      <3>2. CASE pc[t] \in {"k_find", "k_preclose"}
        <4>1. posted[i].back > 0
          BY <1>1, <2>1, <3>2 DEF Backed
        <4> QED
          BY <1>2, <2>1, <3>2, <4>1 DEF One
      <3> QED
        BY <2>2, <2>4, <3>1, <3>2
    <2> QED
      BY <1>1, <2>1, <2>3, <2>4
  <1> QED
    BY <1>3, <1>4

LEMMA BackedElse ==
    ASSUME Sound, Sound', Backed, UNCHANGED <<row, posted>>, NEW x \in Ids, Frees(Between, x)
    PROVE  Backed'
  <1> SUFFICES ASSUME NEW i \in Ids
               PROVE  /\ At(SellCreation, i)' => posted[i].back = 0
                      /\ At({"k_find", "k_preclose"}, i)' \/ At({"k_off"}, i)'
                            => posted[i].back > 0
    BY DEF Backed
  <1>1. CASE row[i].stored
    <2>1. /\ At(SellCreation, i)' => At(SellCreation, i)
          /\ At({"k_find", "k_preclose"}, i)' => At({"k_find", "k_preclose"}, i)
          /\ At({"k_off"}, i)' => At({"k_off"}, i)
      BY <1>1, LateSteps DEF Frees
    <2> QED
      BY <2>1 DEF Backed
  <1>2. CASE ~row[i].stored
    BY <1>2, NotStored, NotStoredNext DEF Untouched
  <1> QED
    BY <1>1, <1>2

\* No step of the code makes preclosed more wrong about an order.
LEMMA OffWorks ==
    ASSUME Sound, Sound', Lineage, OneHolder, Pending, Closing, Closing', Backed,
           NEW t \in Tasks, StepSound(t), Works(t), Flow(t), NEW i, i = job[t].id,
           NEW n \in Int, ~row[i].stored \/ At(SellCreation, i) => n = 0,
           NEW m, m = n + One(pc[t] = "s_preclose") - One(pc[t] = "k_preclose")
    PROVE  /\ Off(i, m)' <= Off(i, n)
           /\ ~row'[i].stored \/ At(SellCreation, i)' => m = 0
  <1> DEFINE S  == At(SellCreation, i)
             Sn == At(SellCreation, i)'
             K  == At({"k_find", "k_preclose"}, i)
             Kn == At({"k_find", "k_preclose"}, i)'
             O  == At({"k_off"}, i)
             On == At({"k_off"}, i)'
             U  == i \in Unfilled
             V  == i \in Unfilled'
             P  == ext[i].parent
             B  == posted[i].back
             Bn == posted'[i].back
             Better == Off(i, m)' <= Off(i, n) /\ (~row'[i].stored \/ Sn => m = 0)
  <1>1. /\ i \in Ids /\ pc[t] \in Holding /\ B \in Nat /\ ext' = ext
    BY InHand, PostingTypes DEF Works
  <1>2. /\ SellCreation \subseteq Holding /\ {"k_find", "k_preclose"} \subseteq Holding
        /\ {"k_off"} \subseteq Holding
    BY LateSteps
  <1>3. /\ Bn = B + One(pc[t] \in {"r_back", "k_back"})
        /\ \A L \in SUBSET Holding : (At(L, i) <=> pc[t] \in L) /\ (At(L, i)' <=> pc'[t] \in L)
        /\ pc'[t] \in Holding => <<pc[t], pc'[t]>> \in Flows
        /\ pc'[t] \notin Holding => pc[t] \in Ends
    BY WorkOnOrder
  <1>4. /\ S <=> pc[t] \in SellCreation
        /\ Sn <=> pc'[t] \in SellCreation
        /\ K <=> pc[t] \in {"k_find", "k_preclose"}
        /\ Kn <=> pc'[t] \in {"k_find", "k_preclose"}
        /\ O <=> pc[t] = "k_off"
        /\ On <=> pc'[t] = "k_off"
    BY <1>2, <1>3
  <1>5. /\ V => U \/ pc[t] \in {"b_record", "s_record"}
        /\ pc[t] \in {"r_off", "k_off", "f_row", "c_close"} => ~V
        /\ pc[t] \in SellBacking => U
    BY WorkUnfilled
  <1>6. /\ row[i].stored <=> pc[t] \notin {"b_record", "s_record"}
        /\ row'[i].stored
        /\ pc[t] \in OfBuys => P = 0
    BY <1>1 DEF Sound, Shaped, Shape, Works, Fields
  <1>7. /\ S => B = 0
        /\ K \/ O => B > 0
    BY <1>1 DEF Backed
  <1>8. Off(i, n) = IF ~row[i].stored \/ P = 0 \/ S THEN 0
                    ELSE IF B = 0 \/ K THEN Absolute(n - 1)
                    ELSE IF ~U \/ O THEN Absolute(n)
                    ELSE IF n > 0 THEN n ELSE 1 - n
    BY DEF Off, Kept, Dropped
  <1>9. Off(i, m)' = IF P = 0 \/ Sn THEN 0
                     ELSE IF Bn = 0 \/ Kn THEN Absolute(m - 1)
                     ELSE IF ~V \/ On THEN Absolute(m)
                     ELSE IF m > 0 THEN m ELSE 1 - m
    BY <1>1, <1>6 DEF Off, Kept, Dropped
  <1>10. ASSUME pc[t] \in OfBuys
         PROVE  Better
    <2>1. pc[t] # "s_preclose" /\ pc[t] # "k_preclose"
      BY <1>10 DEF OfBuys, BuyCreation, BuyFilling, BuyBacking
    <2>2. pc'[t] \notin SellCreation
      BY <1>2, <1>3, <1>10 DEF OfBuys, BuyCreation, BuyFilling, BuyBacking, Flows, SellCreation
    <2> QED
      BY <1>4, <1>6, <1>8, <1>9, <1>10, <2>1, <2>2
  <1>11. ASSUME pc[t] \in {"s_record", "s_out"}
         PROVE  Better
    <2>1. pc'[t] \in SellCreation
      BY <1>3, <1>11 DEF Ends, Flows, SellCreation
    <2>2. n = 0 /\ m = 0
      BY <1>4, <1>11 DEF SellCreation, One
    <2> QED
      BY <1>4, <1>6, <1>8, <1>9, <1>11, <2>1, <2>2 DEF SellCreation
  <1>12. ASSUME pc[t] = "s_preclose"
         PROVE  Better
    <2>1. pc'[t] \notin SellCreation
      BY <1>2, <1>3, <1>12 DEF Flows, SellCreation
    <2>2. n = 0 /\ m = 1 /\ Bn = 0 /\ S
      BY <1>3, <1>4, <1>7, <1>12 DEF SellCreation, One
    <2> HIDE DEF S, Sn, K, Kn, O, On, U, V, P, B, Bn
    <2> QED
      BY <1>4, <1>6, <1>8, <1>9, <2>1, <2>2 DEF Absolute
  <1>13. ASSUME pc[t] \in SellFilling
         PROVE  Better
    <2>1. pc'[t] \notin SellCreation \cup {"k_find", "k_preclose", "k_off"}
      BY <1>2, <1>3, <1>13, StepNames DEF Flows, SellFilling, SellCreation
    <2>2. m = n /\ Bn = B /\ (V => U)
      BY <1>1, <1>3, <1>5, <1>13 DEF SellFilling, One
    <2>3. ~S /\ ~K /\ ~O /\ row[i].stored
      BY <1>4, <1>6, <1>13 DEF SellFilling, SellCreation
    <2> HIDE DEF S, Sn, K, Kn, O, On, U, V, P, B, Bn
    <2> QED
      BY <1>4, <1>6, <1>8, <1>9, <2>1, <2>2, <2>3 DEF Absolute
  <1>14. ASSUME pc[t] \in SellBacking
         PROVE  Better
    <2>1. pc[t] \in {"k_back", "k_find", "k_preclose", "k_off"} /\ U /\ row[i].stored /\ ~S /\ ~Sn
      <3>1. pc[t] \in {"k_back", "k_find", "k_preclose", "k_off"} /\ U
        BY <1>5, <1>14 DEF SellBacking
      <3>2. pc'[t] \notin SellCreation
        BY <1>2, <1>3, <3>1 DEF Flows, SellCreation
      <3> QED
        BY <1>4, <1>6, <3>1, <3>2 DEF SellCreation
    <2>2. /\ pc[t] = "k_back" => pc'[t] = "k_find"
          /\ pc[t] = "k_find" => pc'[t] = "k_preclose"
          /\ pc[t] = "k_preclose" => pc'[t] = "k_off"
          /\ pc[t] = "k_off" => pc'[t] \notin Holding
      BY <1>3, <2>1 DEF Flows, Ends
    <2>3. /\ Bn = B + One(pc[t] = "k_back")
          /\ m = n - One(pc[t] = "k_preclose")
      BY <1>1, <1>3, <2>1 DEF One
    <2>4. "k_off" \in Holding /\ "k_find" \in Holding /\ "k_preclose" \in Holding
      BY StepNames
    <2> HIDE DEF S, Sn, K, Kn, O, On, U, V, P, B, Bn
    <2>5. ASSUME pc[t] = "k_back" PROVE Better
      BY <1>1, <1>4, <1>6, <1>8, <1>9, <2>1, <2>2, <2>3, <2>5 DEF Absolute, One
    <2>6. ASSUME pc[t] = "k_find" PROVE Better
      BY <1>1, <1>4, <1>6, <1>8, <1>9, <2>1, <2>2, <2>3, <2>6 DEF Absolute, One
    <2>7. ASSUME pc[t] = "k_preclose" PROVE Better
      <3>1. ~Kn /\ On /\ Bn > 0 /\ K /\ m = n - 1
        BY <1>1, <1>4, <1>7, <2>2, <2>3, <2>7 DEF One
      <3> QED
        BY <1>6, <1>8, <1>9, <2>1, <3>1 DEF Absolute
    <2>8. ASSUME pc[t] = "k_off" PROVE Better
      <3>1. ~Kn /\ ~V /\ Bn > 0 /\ B > 0 /\ m = n /\ ~K /\ O
        BY <1>1, <1>4, <1>5, <1>7, <2>2, <2>3, <2>4, <2>8 DEF One
      <3> QED
        BY <1>4, <1>6, <1>8, <1>9, <2>1, <2>8, <3>1 DEF Absolute
    <2> QED
      BY <2>1, <2>5, <2>6, <2>7, <2>8
  <1>15. pc[t] \in OfBuys \cup {"s_record", "s_out", "s_preclose"} \cup SellFilling \cup SellBacking
    BY <1>1 DEF Holding, OfSells, SellCreation
  <1> QED
    BY <1>10, <1>11, <1>12, <1>13, <1>14, <1>15

LEMMA OffElsewhere ==
    ASSUME Sound, Sound', Lineage, NEW t \in Tasks, StepSound(t), Works(t), NEW i \in Ids,
           i # job[t].id, NEW n \in Int, ~row[i].stored \/ At(SellCreation, i) => n = 0
    PROVE  /\ Off(i, n)' <= Off(i, n)
           /\ ~row'[i].stored \/ At(SellCreation, i)' => n = 0
  <1>1. /\ SellCreation \subseteq Holding /\ {"k_find", "k_preclose"} \subseteq Holding
        /\ {"k_off"} \subseteq Holding
    BY LateSteps
  <1>2. /\ posted'[i] = posted[i] /\ (i \in Unfilled' => i \in Unfilled)
        /\ row'[i].stored <=> row[i].stored
        /\ At(SellCreation, i)' <=> At(SellCreation, i)
        /\ At({"k_find", "k_preclose"}, i)' <=> At({"k_find", "k_preclose"}, i)
        /\ At({"k_off"}, i)' <=> At({"k_off"}, i)
        /\ ext' = ext
    BY <1>1, WorkElsewhere DEF Works
  <1>3. posted[i].back \in Nat
    BY PostingTypes
  <1> QED
    BY <1>2, <1>3 DEF Off, Kept, Dropped, Absolute

\* A fault makes preclosed more wrong by one about one order: one that was recorded and not
\* entered, or given back and not taken off.
LEMMA OffElse ==
    ASSUME Sound, Sound', Backed, UNCHANGED <<row, posted>>, Evolves, NEW x \in Ids,
           Frees(Between, x), NEW i \in Ids, NEW n \in Int,
           ~row[i].stored \/ At(SellCreation, i) => n = 0
    PROVE  /\ Off(i, n)' <= Off(i, n) + 1
           /\ ~(i = x /\ faults' = faults + 1) => Off(i, n)' <= Off(i, n)
           /\ ~row'[i].stored \/ At(SellCreation, i)' => n = 0
  <1> DEFINE S  == At(SellCreation, i)
             Sn == At(SellCreation, i)'
             K  == At({"k_find", "k_preclose"}, i)
             Kn == At({"k_find", "k_preclose"}, i)'
             O  == At({"k_off"}, i)
             On == At({"k_off"}, i)'
             U  == i \in Unfilled
             B  == posted[i].back
             P  == ext[i].parent
             X  == Off(i, n)
             Y  == Off(i, n)'
             Faulty1 == i = x /\ faults' = faults + 1
             Less == /\ Y <= X + 1
                     /\ ~Faulty1 => Y <= X
                     /\ ~row[i].stored \/ Sn => n = 0
  <1>1. CASE ~row[i].stored
    <2>1. X = 0 /\ Y = 0
      BY <1>1 DEF Off
    <2> QED
      BY <1>1, <2>1
  <1>2. ASSUME row[i].stored
        PROVE  Less
    <2>1. /\ Sn => S
          /\ Kn => K
          /\ On => O
      BY <1>2, LateSteps DEF Frees
    <2>2. ~Faulty1 => (S => Sn) /\ (K => Kn) /\ (O => On)
      BY BetweenSteps DEF Frees
    <2>3. /\ S => B = 0 /\ n = 0
          /\ K \/ O => B > 0
          /\ B \in Nat
      BY PostingTypes DEF Backed
    <2>4. (i \in Unfilled' <=> U) /\ ext'[i].parent = P
      BY <1>2, SameUnfilled DEF Evolves, Sound, OrdersSound
    <2>5. /\ X = IF P = 0 \/ S THEN 0
                 ELSE IF B = 0 \/ K THEN Absolute(n - 1)
                 ELSE IF ~U \/ O THEN Absolute(n)
                 ELSE IF n > 0 THEN n ELSE 1 - n
          /\ Y = IF P = 0 \/ Sn THEN 0
                 ELSE IF B = 0 \/ Kn THEN Absolute(n - 1)
                 ELSE IF ~U \/ On THEN Absolute(n)
                 ELSE IF n > 0 THEN n ELSE 1 - n
      BY <1>2, <2>4 DEF Off, Kept, Dropped
    <2> HIDE DEF S, Sn, K, Kn, O, On, U, B, P, X, Y, Faulty1
    <2>6. CASE P = 0 \/ S \/ Sn
      BY <2>1, <2>2, <2>3, <2>5, <2>6 DEF Absolute
    <2>7. CASE ~(P = 0 \/ S \/ Sn)
      BY <2>1, <2>2, <2>3, <2>5, <2>7 DEF Absolute
    <2> QED
      BY <2>6, <2>7
  <1> QED
    BY <1>1, <1>2

LEMMA OffType ==
    ASSUME Sound, NEW e \in [Ids -> Int]
    PROVE  \A i \in Ids : OffOf(e)[i] \in Nat /\ OffOf(e)[i] = Off(i, e[i])
  BY DEF OffOf, Off, Absolute

LEMMA OffTypeNext ==
    ASSUME NEW e \in [Ids -> Int]
    PROVE  /\ \A i \in Ids : OffOf(e)'[i] \in Nat /\ OffOf(e)'[i] = Off(i, e[i])'
           /\ (Total(OffOf(e)))' = Total(OffOf(e)')
  <1>1. \A i \in Ids : Off(i, e[i])' \in Nat
    BY DEF Off, Absolute
  <1>2. OffOf(e)' = [i \in Ids |-> Off(i, e[i])']
    BY DEF OffOf, Ids
  <1>3. (Total(OffOf(e)))' = Total(OffOf(e)')
    BY DEF Total, Ids
  <1> QED
    BY <1>1, <1>2, <1>3

LEMMA ShareType ==
    ASSUME Sound, NEW e \in [Ids -> Int], NEW p
    PROVE  \A i \in Ids :
              /\ ShareOf(e, p)[i] \in Int
              /\ ShareOf(e, p)[i] = IF ext[i].parent = p THEN e[i] * ext[i].amount ELSE 0
  <1>1. \A i \in Ids : ext[i].amount \in Nat /\ e[i] \in Int
    BY DEF Sound, TypeOK, ExtOrder
  <1>2. \A i \in Ids : e[i] * ext[i].amount \in Int
    BY <1>1, Times
  <1> QED
    BY <1>2 DEF ShareOf

LEMMA ShareTypeNext ==
    ASSUME Sound', NEW e \in [Ids -> Int], NEW p
    PROVE  /\ \A i \in Ids :
                /\ ShareOf(e, p)'[i] \in Int
                /\ ShareOf(e, p)'[i] = IF ext'[i].parent = p THEN e[i] * ext'[i].amount ELSE 0
           /\ (Total(ShareOf(e, p)))' = Total(ShareOf(e, p)')
  <1>1. \A i \in Ids : ext'[i].amount \in Nat /\ e[i] \in Int
    BY DEF Sound, TypeOK, ExtOrder
  <1>2. \A i \in Ids : e[i] * ext'[i].amount \in Int
    BY <1>1, Times
  <1>3. ShareOf(e, p)' = [i \in Ids |-> IF ext'[i].parent = p THEN e[i] * ext'[i].amount ELSE 0]
    BY DEF ShareOf, Ids
  <1>4. (Total(ShareOf(e, p)))' = Total(ShareOf(e, p)')
    BY DEF Total, Ids
  <1> QED
    BY <1>2, <1>3, <1>4

\* g differs from e at i alone.
Only(i, e, g) == \A k \in Ids \ {i} : g[k] = e[k]

Integral(e) == \A k \in Ids : e[k] \in Int

LEMMA TotalOnly ==
    ASSUME NEW e, NEW g, NEW i \in Ids, Integral(e), Integral(g), Only(i, e, g)
    PROVE  Total(g) = Total(e) - e[i] + g[i]
  <1>1. \A k \in Ids : e[k] \in Int /\ g[k] \in Int
    BY DEF Integral
  <1>2. \A k \in Ids \ {i} : g[k] = e[k]
    BY DEF Only
  <1> QED
    BY ZenonT(60), <1>1, <1>2, TotalChanges

\* The two writes of preclosed enter and take off the order in hand, and no other write does.
LEMMA SharesWork ==
    ASSUME Sound, Sound', Lineage, Read, SeenOffer, NEW t \in Tasks, StepSound(t), Works(t),
           NEW e \in [Ids -> Int], Holds(e), NEW i, i = job[t].id,
           NEW m, m = e[i] + One(pc[t] = "s_preclose") - One(pc[t] = "k_preclose"),
           NEW g \in [Ids -> Int], g[i] = m, Only(i, e, g),
           NEW p \in Ids, row'[p].stored, row'[p].parent = 0
    PROVE  row'[p].preclosed = (Total(ShareOf(g, p)))'
  <1> DEFINE D == ShareOf(e, p)
             E == ShareOf(g, p)'
             Writes == pc[t] \in {"s_preclose", "k_preclose"} /\ ext[i].parent = p
  <1>1. /\ (Total(ShareOf(g, p)))' = Total(E)
        /\ \A k \in Ids : /\ E[k] \in Int
                          /\ E[k] = IF ext[k].parent = p THEN g[k] * ext[k].amount ELSE 0
    BY ShareTypeNext DEF Works
  <1>2. \A k \in Ids : /\ D[k] \in Int
                       /\ D[k] = IF ext[k].parent = p THEN e[k] * ext[k].amount ELSE 0
    BY ShareType
  <1>3. /\ p # 0 /\ i \in Ids /\ Placed(i) /\ pc[t] \in Holding /\ e[i] \in Int
        /\ \A k \in Ids : ext[k].amount \in Nat
    <2>1. pc[t] \in Holding
      BY DEF Works
    <2>2. i \in Ids /\ Placed(i)
      BY <2>1, InHand
    <2>3. \A k \in Ids : ext[k].amount \in Nat
      BY DEF Sound, TypeOK, ExtOrder
    <2>4. p # 0
      BY DEF Ids
    <2> QED
      BY <2>1, <2>2, <2>3, <2>4
  <1> HIDE DEF D, E
  <1>4. CASE ~row[p].stored
    <2>1. row'[p].preclosed = 0
      BY <1>4 DEF Works, Fields
    <2>2. ASSUME NEW k \in Ids
          PROVE  E[k] = 0
      <3>1. CASE ext[k].parent = p
        <4>1. ~Placed(k)
          BY <1>3, <1>4, <3>1 DEF Lineage
        <4>2. k # i /\ ~row[k].stored
          BY <1>3, <4>1 DEF Sound, OrdersSound
        <4>3. g[k] = 0
          BY <4>2 DEF Holds, Only
        <4> QED
          BY <1>1, <1>3, <3>1, <4>3, Times
      <3> QED
        BY <1>1, <3>1
    <2>3. Total(E) = 0
      BY <2>2, IdsFinite, SumZero DEF Total
    <2> QED
      BY <1>1, <2>1, <2>3
  <1>5. ASSUME row[p].stored
        PROVE  row[p].preclosed = Total(D)
    <2>1. Placed(p) /\ row[p].parent = ext[p].parent /\ row'[p].parent = ext'[p].parent
      BY <1>5 DEF Sound, OrdersSound
    <2>2. row[p].parent = 0
      BY <2>1 DEF Works
    <2> QED
      BY <1>5, <2>2 DEF Holds, BuyRows, IsBuy, D
  <1>6. CASE row[p].stored /\ Writes
    <2>1. \A k \in Ids : D[k] \in Int /\ E[k] \in Int
      BY <1>1, <1>2
    <2>2. \A k \in Ids \ {i} : E[k] = D[k]
      BY <1>1, <1>2 DEF Only
    <2>3. Total(E) = Total(D) - D[i] + E[i]
      <3>1. Integral(D) /\ Integral(E) /\ Only(i, D, E)
        BY <2>1, <2>2 DEF Integral, Only
      <3> QED
        BY <1>3, <3>1, TotalOnly
    <2>4. Total(D) \in Int /\ ext[i].amount \in Nat /\ D[i] \in Int
      BY <1>2, <1>3, IdsFinite, SumType DEF Total
    <2>5. CASE pc[t] = "s_preclose"
      <3>1. t \in Sellers /\ pc[t] \in SellCreation /\ job[t].cur.id = p
        BY <1>6, <2>5, WhoStands DEF SellCreation, Lineage
      <3>2. job[t].cur.preclosed = row[p].preclosed
        BY <3>1 DEF Read, Chosen
      <3>3. row'[p].preclosed = job[t].cur.preclosed + ext[i].amount
        BY <1>6, <2>5, <3>1 DEF Works, Fields
      <3>4. m = e[i] + 1
        BY <1>3, <2>5 DEF One
      <3>5. E[i] = D[i] + ext[i].amount
        <4>1. (e[i] + 1) * ext[i].amount = e[i] * ext[i].amount + ext[i].amount
          BY <1>3, Times
        <4> QED
          BY <1>1, <1>2, <1>3, <1>6, <3>4, <4>1
      <3> QED
        BY <1>1, <1>5, <1>6, <2>3, <2>4, <3>2, <3>3, <3>5
    <2>6. CASE pc[t] = "k_preclose"
      <3>1. job[t].seen = row[p].preclosed
        BY <1>6, <2>6 DEF SeenOffer
      <3>2. row'[p].preclosed = job[t].seen - ext[i].amount
        BY <1>6, <2>6 DEF Works, Fields
      <3>3. m = e[i] - 1
        BY <1>3, <2>6 DEF One
      <3>4. E[i] = D[i] - ext[i].amount
        <4>1. (e[i] - 1) * ext[i].amount = e[i] * ext[i].amount - ext[i].amount
          BY <1>3, Times
        <4> QED
          BY <1>1, <1>2, <1>3, <1>6, <3>3, <4>1
      <3> QED
        BY <1>1, <1>5, <1>6, <2>3, <2>4, <3>1, <3>2, <3>4
    <2> QED
      BY <1>6, <2>5, <2>6
  <1>7. CASE row[p].stored /\ ~Writes
    <2>1. row'[p].preclosed = row[p].preclosed
      <3>1. pc[t] = "s_preclose" => ext[job[t].id].parent = job[t].cur.id
        BY DEF Lineage, SellCreation
      <3>2. Motion(t)
        BY DEF Motion
      <3> QED
        BY <1>7, <3>1, <3>2, PrecloseStays
    <2>2. ext[i].parent = p => m = e[i]
      BY <1>3, <1>7 DEF One
    <2>3. \A k \in Ids : D[k] \in Int /\ E[k] = D[k]
      BY <1>1, <1>2, <2>2 DEF Only
    <2>4. Total(E) = Total(D)
      BY <2>3, TotalSame
    <2> QED
      BY <1>1, <1>5, <1>7, <2>1, <2>4
  <1> QED
    BY <1>4, <1>6, <1>7

LEMMA GapsWork ==
    ASSUME Sound, Sound', Lineage, OneHolder, Pending, Closing, Closing', Backed, Read,
           SeenOffer, NEW t \in Tasks, StepSound(t), Works(t), Flow(t), faults' = faults,
           NEW e \in [Ids -> Int], Holds(e)
    PROVE  Gaps'
  <1> PICK i : i = job[t].id
    OBVIOUS
  <1> PICK m : m = e[i] + One(pc[t] = "s_preclose") - One(pc[t] = "k_preclose")
    OBVIOUS
  <1>1. i \in Ids /\ e[i] \in Int /\ m \in Int
    BY InHand DEF Works, One
  <1> PICK g \in [Ids -> Int] : g[i] = m /\ \A k \in Ids \ {i} : g[k] = e[k]
    <2>1. [e EXCEPT ![i] = m] \in [Ids -> Int]
      BY <1>1
    <2>2. /\ [e EXCEPT ![i] = m][i] = m
          /\ \A k \in Ids \ {i} : [e EXCEPT ![i] = m][k] = e[k]
      BY <1>1
    <2> QED
      BY <2>1, <2>2
  <1>2. g[i] = m /\ \A k \in Ids \ {i} : g[k] = e[k]
    OBVIOUS
  <1>3. ASSUME NEW k \in Ids
        PROVE  /\ Off(k, g[k])' <= Off(k, e[k])
               /\ ~row'[k].stored \/ At(SellCreation, k)' => g[k] = 0
    <2>1. e[k] \in Int /\ (~row[k].stored \/ At(SellCreation, k) => e[k] = 0)
      BY DEF Holds
    <2>2. CASE k = i
      <3>1. /\ Off(i, m)' <= Off(i, e[i])
            /\ ~row'[i].stored \/ At(SellCreation, i)' => m = 0
        BY <2>1, <2>2, OffWorks
      <3> QED
        BY <1>2, <2>2, <3>1
    <2>3. CASE k # i
      <3> PICK n : n = e[k]
        OBVIOUS
      <3>1. g[k] = n
        BY <1>2, <2>3
      <3>2. /\ Off(k, n)' <= Off(k, n)
            /\ ~row'[k].stored \/ At(SellCreation, k)' => n = 0
        BY <2>1, <2>3, OffElsewhere
      <3> QED
        BY <3>1, <3>2
    <2> QED
      BY <2>2, <2>3
  <1>4. (Total(OffOf(g)))' <= faults'
    <2> DEFINE f == OffOf(e)
               h == OffOf(g)'
    <2>1. /\ \A k \in Ids : f[k] \in Int /\ f[k] = Off(k, e[k])
          /\ \A k \in Ids : h[k] \in Int /\ h[k] = Off(k, g[k])'
          /\ (Total(OffOf(g)))' = Total(h)
      BY OffType, OffTypeNext
    <2>2. Total(f) <= faults /\ faults \in Nat
      BY DEF Holds, Sound, TypeOK
    <2> HIDE DEF f, h
    <2>3. Total(h) <= Total(f) /\ Total(h) \in Int /\ Total(f) \in Int
      BY <1>3, <2>1, TotalGrows, IdsFinite, SumType DEF Total
    <2> QED
      BY <2>1, <2>2, <2>3
  <1>5. \A p \in BuyRows' : row'[p].preclosed = (Total(ShareOf(g, p)))'
    <2> SUFFICES ASSUME NEW p \in Ids, row'[p].stored, row'[p].parent = 0
                 PROVE  row'[p].preclosed = (Total(ShareOf(g, p)))'
      BY DEF BuyRows, IsBuy, Ids
    <2>1. Only(i, e, g)
      BY <1>2 DEF Only
    <2> QED
      BY <1>2, <2>1, SharesWork
  <1>6. Holds(g)'
    BY <1>3, <1>4, <1>5 DEF Holds, Ids
  <1> QED
    BY <1>2, <1>6 DEF Gaps, Ids

\* Any other step leaves preclosed as it is.
LEMMA GapsElse ==
    ASSUME Sound, Sound', Backed, UNCHANGED <<row, posted>>, Evolves,
           faults' \in {faults, faults + 1}, NEW x \in Ids, Frees(Between, x),
           NEW e \in [Ids -> Int], Holds(e)
    PROVE  Gaps'
  <1>1. ASSUME NEW k \in Ids
        PROVE  /\ Off(k, e[k])' <= Off(k, e[k]) + 1
               /\ ~(k = x /\ faults' = faults + 1) => Off(k, e[k])' <= Off(k, e[k])
               /\ ~row'[k].stored \/ At(SellCreation, k)' => e[k] = 0
    <2> PICK n \in Int : n = e[k]
      OBVIOUS
    <2>1. ~row[k].stored \/ At(SellCreation, k) => n = 0
      BY DEF Holds
    <2>2. /\ Off(k, n)' <= Off(k, n) + 1
          /\ ~(k = x /\ faults' = faults + 1) => Off(k, n)' <= Off(k, n)
          /\ ~row'[k].stored \/ At(SellCreation, k)' => n = 0
      BY <2>1, OffElse
    <2> QED
      BY <2>2
  <1>2. (Total(OffOf(e)))' <= faults'
    <2> DEFINE f == OffOf(e)
               h == OffOf(e)'
    <2>1. /\ \A k \in Ids : f[k] \in Int /\ f[k] = Off(k, e[k])
          /\ \A k \in Ids : h[k] \in Int /\ h[k] = Off(k, e[k])'
          /\ (Total(OffOf(e)))' = Total(h)
      BY OffType, OffTypeNext
    <2>2. Total(f) <= faults
      BY DEF Holds
    <2> HIDE DEF f, h
    <2>3. /\ \A k \in Ids : f[k] \in Int /\ h[k] \in Int
          /\ \A k \in Ids : ~(k = x /\ faults' = faults + 1) => h[k] <= f[k]
          /\ h[x] <= f[x] + 1
      BY <1>1, <2>1
    <2>4. Total(h) <= faults'
      BY <2>2, <2>3, WithinFaults
    <2> QED
      BY <2>1, <2>4
  <1>3. \A p \in BuyRows' : row'[p].preclosed = (Total(ShareOf(e, p)))'
    <2> SUFFICES ASSUME NEW p \in Ids, row[p].stored, row[p].parent = 0
                 PROVE  row[p].preclosed = (Total(ShareOf(e, p)))'
      BY DEF BuyRows, IsBuy, Ids
    <2> DEFINE D == ShareOf(e, p)
               E == ShareOf(e, p)'
    <2>1. /\ (Total(ShareOf(e, p)))' = Total(E)
          /\ \A k \in Ids : E[k] = IF ext'[k].parent = p THEN e[k] * ext'[k].amount ELSE 0
      BY ShareTypeNext
    <2>2. \A k \in Ids : /\ D[k] \in Int
                         /\ D[k] = IF ext[k].parent = p THEN e[k] * ext[k].amount ELSE 0
      BY ShareType
    <2>3. row[p].preclosed = Total(D)
      BY DEF Holds, BuyRows, IsBuy
    <2>4. \A k \in Ids : ext[k].amount \in Nat /\ ext'[k].amount \in Nat
      BY DEF Sound, TypeOK, ExtOrder
    <2> HIDE DEF D, E
    <2>5. ASSUME NEW k \in Ids
          PROVE  E[k] = D[k]
      <3>1. CASE row[k].stored
        <4>1. ext'[k].parent = ext[k].parent /\ ext'[k].amount = ext[k].amount
          BY <3>1 DEF Evolves, Sound, OrdersSound
        <4> QED
          BY <2>1, <2>2, <4>1
      <3>2. CASE ~row[k].stored
        <4>1. e[k] = 0
          BY <3>2 DEF Holds
        <4>2. 0 * ext[k].amount = 0 /\ 0 * ext'[k].amount = 0
          BY <2>4, Times
        <4> QED
          BY <2>1, <2>2, <4>1, <4>2
      <3> QED
        BY <3>1, <3>2
    <2>6. Total(E) = Total(D)
      BY <2>2, <2>5, TotalSame
    <2> QED
      BY <2>1, <2>3, <2>6
  <1>4. Holds(e)'
    BY <1>1, <1>2, <1>3 DEF Holds, Ids
  <1> QED
    BY <1>4 DEF Gaps, Ids

\* The strengthening that makes Gaps inductive.
Wrong == Backed /\ Read /\ SeenOffer /\ Gaps

LEMMA InitWrong == Init => Wrong
  <1> SUFFICES ASSUME Init PROVE Wrong
    OBVIOUS
  <1>1. /\ \A t \in Tasks : pc[t] = "idle" /\ job[t].todo = {}
        /\ \A i \in Ids : ~row[i].stored
        /\ faults = 0
    BY NoJobType DEF Init, NoRow
  <1>2. \A L : \A i \in Ids : L \subseteq Holding => ~At(L, i)
    BY <1>1, StepNames DEF At
  <1>3. Backed
    BY <1>2, LateSteps DEF Backed
  <1>4. Read /\ SeenOffer
    BY <1>1, TaskKinds DEF Read, Chosen, SeenOffer, SellCreation
  <1>5. Gaps
    <2> PICK e \in [Ids -> Int] : \A i \in Ids : e[i] = 0
      <3>1. [i \in Ids |-> 0] \in [Ids -> Int] /\ \A j \in Ids : [i \in Ids |-> 0][j] = 0
        OBVIOUS
      <3> QED
        BY <3>1
    <2>1. \A i \in Ids : OffOf(e)[i] = 0
      BY <1>1 DEF OffOf, Off
    <2>2. Total(OffOf(e)) = 0
      <3> PICK f : f = OffOf(e)
        OBVIOUS
      <3> QED
        BY <2>1, IdsFinite, SumZero DEF Total
    <2>3. BuyRows = {}
      BY <1>1 DEF BuyRows
    <2>4. Holds(e)
      BY <1>1, <2>2, <2>3 DEF Holds
    <2> QED
      BY <2>4 DEF Gaps
  <1> QED
    BY <1>3, <1>4, <1>5 DEF Wrong

LEMMA ReadNext ==
    ASSUME ~Overlap, OneSeller, Sound, Sound', Lineage, Alone, Read, SeenOffer, [Next]_vars
    PROVE  Read' /\ SeenOffer'
  <1>1. CASE \E t \in Tasks : StepSound(t) /\ Motion(t)
    BY <1>1, ReadMoves, SeenOfferMoves
  <1>2. CASE ~ \E t \in Tasks : StepSound(t) /\ Motion(t)
    <2>1. /\ UNCHANGED row /\ Trades
          /\ \/ UNCHANGED <<pc, job>>
             \/ \A t \in Tasks : pc'[t] = "idle" /\ job'[t] = NoJob
      BY <1>2, MotionKinds, OtherSteps
    <2> QED
      BY <2>1, ReadStays
  <1> QED
    BY <1>1, <1>2

LEMMA GapsNext ==
    ASSUME ~Overlap, OneSeller, Sound, Sound', Lineage, Carried, Carried', Wrong, [Next]_vars
    PROVE  Backed' /\ Gaps'
  <1>1. OneHolder /\ FaultKinds /\ OneAt(Between) /\ Between \in SUBSET Late
    BY HolderIsOne, NextFaultKinds, OneBetween, BetweenSteps DEF Carried
  <1>2. PICK e \in [Ids -> Int] : Holds(e)
    BY DEF Wrong, Gaps
  <1>3. CASE \E t \in Tasks : StepSound(t) /\ Works(t) /\ Flow(t) /\ faults' = faults
    <2> PICK t \in Tasks : StepSound(t) /\ Works(t) /\ Flow(t) /\ faults' = faults
      BY <1>3
    <2>1. Backed'
      BY <1>1, BackedWorks DEF Backed, Wrong
    <2>2. Gaps'
      BY <1>1, <1>2, GapsWork DEF Wrong, Carried
    <2> QED
      BY <2>1, <2>2
  <1>4. CASE ~ \E t \in Tasks : StepSound(t) /\ Works(t) /\ Flow(t) /\ faults' = faults
    <2>1. /\ UNCHANGED <<row, posted>> /\ Evolves /\ faults' \in {faults, faults + 1}
          /\ \E x \in Ids : Frees(Between, x)
      BY <1>1, <1>4, FreesOne
    <2> PICK x \in Ids : Frees(Between, x)
      BY <2>1
    <2>2. Backed'
      BY <2>1, BackedElse DEF Wrong
    <2>3. Gaps'
      BY <1>2, <2>1, GapsElse DEF Wrong
    <2> QED
      BY <2>2, <2>3
  <1> QED
    BY <1>3, <1>4

LEMMA WrongInvariant ==
    ASSUME ~Overlap, OneSeller
    PROVE  Spec => []Wrong
  <1>1. Init => Wrong
    BY InitWrong
  <1>2. Sound /\ Sound' /\ Lineage /\ Carried /\ Carried' /\ Wrong /\ [Next]_vars => Wrong'
    BY ReadNext, GapsNext DEF Wrong, Carried
  <1> QED
    BY <1>1, <1>2, SoundInvariant, LineageInvariant, CarriedInvariant, PTL DEF Spec

\* With no task at work, how often preclosed holds an order too much or too little.
GapOf(e) == [i \in SellRows |-> e[i] - One(posted[i].back = 0)]

LEMMA GapsAtRest ==
    ASSUME Sound, Idle(Tasks), NEW e \in [Ids -> Int], Holds(e), NEW i \in Ids
    PROVE  /\ i \in SellRows => GapOf(e)[i] \in Int /\ Absolute(GapOf(e)[i]) <= Off(i, e[i])
           /\ ~row[i].stored => e[i] = 0
           /\ row[i].stored => row[i].parent = ext[i].parent /\ row[i].amount1 = ext[i].amount
           /\ ext[i].amount \in Nat /\ e[i] \in Int
  <1>1. \A L : L \subseteq Holding => ~At(L, i)
    BY StepNames DEF Idle, At
  <1>2. ~At(SellCreation, i) /\ ~At({"k_find", "k_preclose"}, i) /\ ~At({"k_off"}, i)
    BY <1>1, LateSteps
  <1>3. /\ row[i].stored => row[i].parent = ext[i].parent /\ row[i].amount1 = ext[i].amount
        /\ ext[i].amount \in Nat /\ e[i] \in Int
        /\ ~row[i].stored => e[i] = 0
    BY DEF Sound, OrdersSound, TypeOK, ExtOrder, Holds
  <1>4. ASSUME i \in SellRows
        PROVE  GapOf(e)[i] \in Int /\ Absolute(GapOf(e)[i]) <= Off(i, e[i])
    <2> DEFINE n == e[i]
               g == GapOf(e)[i]
               b == posted[i].back = 0
               u == i \in Unfilled
               o == Off(i, e[i])
    <2>1. row[i].stored /\ ext[i].parent # 0
      BY <1>3, <1>4 DEF SellRows, IsBuy
    <2>2. /\ g = n - One(b) /\ n \in Int
          /\ o = IF b THEN Absolute(n - 1)
                 ELSE IF ~u THEN Absolute(n)
                 ELSE IF n > 0 THEN n ELSE 1 - n
      BY <1>2, <1>3, <1>4, <2>1 DEF GapOf, Off, Kept, Dropped
    <2> HIDE DEF n, g, b, u, o
    <2> QED
      BY <2>2 DEF Absolute, One, g, o
  <1> QED
    BY <1>3, <1>4

\* At rest, however many faults there were, preclosed is what the position has in sell orders
\* that were not rolled back, but for one order per fault that it misses or holds too much.
THEOREM PreclosedGapsAreBounded ==
    ASSUME ~Overlap, OneSeller
    PROVE  Spec => []PreclosedGapsBounded
  <1>1. Sound /\ Wrong => PreclosedGapsBounded
    <2> SUFFICES ASSUME Sound, Wrong, Idle(Tasks)
                 PROVE  \E gap \in [SellRows -> -faults..faults] :
                          /\ \A p \in BuyRows :
                               row[p].preclosed =
                                   InSells(p) + Sum(Children(p), LAMBDA i : gap[i] * row[i].amount1)
                          /\ Sum(SellRows, LAMBDA i : IF gap[i] < 0 THEN -gap[i] ELSE gap[i])
                               <= faults
      BY DEF PreclosedGapsBounded
    <2>1. PICK e \in [Ids -> Int] : Holds(e)
      BY DEF Wrong, Gaps
    <2> PICK gap : gap = GapOf(e)
      OBVIOUS
    <2>2. /\ SellRows \in SUBSET Ids /\ DOMAIN gap = SellRows
          /\ gap = [i \in SellRows |-> gap[i]]
      BY DEF GapOf, SellRows
    <2>3. ASSUME NEW i \in Ids
          PROVE  /\ i \in SellRows => gap[i] \in Int /\ Absolute(gap[i]) <= Off(i, e[i])
                 /\ i \in SellRows => gap[i] = e[i] - One(posted[i].back = 0)
                 /\ ~row[i].stored => e[i] = 0
                 /\ row[i].stored => row[i].parent = ext[i].parent
                                     /\ row[i].amount1 = ext[i].amount
                 /\ ext[i].amount \in Nat /\ e[i] \in Int
      BY <2>1, GapsAtRest DEF GapOf
    <2>4. /\ \A i \in Ids : OffOf(e)[i] \in Nat /\ OffOf(e)[i] = Off(i, e[i])
          /\ Total(OffOf(e)) <= faults /\ faults \in Nat
      BY <2>1, OffType DEF Holds, Sound, TypeOK
    <2>5. Sum(SellRows, LAMBDA i : IF gap[i] < 0 THEN -gap[i] ELSE gap[i]) <= faults
      <3> DEFINE F == [i \in SellRows |-> IF gap[i] < 0 THEN -gap[i] ELSE gap[i]]
                 D == [i \in Ids |-> IF i \in SellRows THEN Absolute(gap[i]) ELSE 0]
                 O == OffOf(e)
                 Y == Sum(SellRows, LAMBDA i : IF gap[i] < 0 THEN -gap[i] ELSE gap[i])
      <3>1. Y = SumFunctionOnSet(F, SellRows)
        BY DEF Sum
      <3>2. /\ \A i \in SellRows : F[i] \in Int /\ D[i] = F[i]
            /\ \A i \in Ids \ SellRows : D[i] = 0
        BY <2>2, <2>3 DEF Absolute
      <3>3. \A i \in Ids : D[i] \in Int /\ O[i] \in Int /\ D[i] <= O[i]
        BY <2>2, <2>3, <2>4 DEF Absolute
      <3>4. Total(O) <= faults
        BY <2>4
      <3> HIDE DEF F, D, O, Y
      <3>5. SumFunctionOnSet(F, SellRows) = Total(D)
        BY <2>2, <3>2, IdsFinite, SumPadded DEF Total
      <3>6. Total(D) <= Total(O) /\ Total(D) \in Int /\ Total(O) \in Int
        BY <3>3, TotalGrows, IdsFinite, SumType DEF Total
      <3>7. Y <= faults
        BY <2>4, <3>1, <3>4, <3>5, <3>6
      <3> QED
        BY <3>7 DEF Y
    <2>6. gap \in [SellRows -> -faults..faults]
      <3>1. ASSUME NEW i \in SellRows
            PROVE  gap[i] \in -faults..faults
        <4> PICK f : f = OffOf(e)
          OBVIOUS
        <4>1. f[i] <= Total(f) /\ Total(f) \in Nat
          BY <2>2, <2>4, IdsFinite, SumNat DEF Total
        <4>2. gap[i] \in Int /\ Absolute(gap[i]) <= f[i] /\ f[i] \in Nat
          BY <2>2, <2>3, <2>4
        <4> QED
          BY <2>4, <4>1, <4>2 DEF Absolute
      <3> QED
        BY <2>2, <3>1
    <2>7. ASSUME NEW p \in BuyRows
          PROVE  row[p].preclosed =
                     InSells(p) + Sum(Children(p), LAMBDA i : gap[i] * row[i].amount1)
      <3> DEFINE C == {i \in Children(p) : posted[i].back = 0}
                 F == [i \in C |-> row[i].amount1]
                 G == [i \in Children(p) |-> gap[i] * row[i].amount1]
                 A == [i \in Ids |-> IF i \in C THEN row[i].amount1 ELSE 0]
                 B == [i \in Ids |-> IF i \in Children(p) THEN gap[i] * row[i].amount1 ELSE 0]
                 S == ShareOf(e, p)
                 Y == Sum(Children(p), LAMBDA i : gap[i] * row[i].amount1)
      <3>1. InSells(p) = SumFunctionOnSet(F, C) /\ Y = SumFunctionOnSet(G, Children(p))
        BY DEF InSells, Sum
      <3>2. /\ p \in Ids /\ p # 0 /\ C \in SUBSET Ids /\ Children(p) \in SUBSET Ids
            /\ Children(p) \subseteq SellRows
            /\ \A i \in Ids : i \in Children(p) <=> row[i].stored /\ ext[i].parent = p
        BY <2>3 DEF BuyRows, Children, SellRows, IsBuy, Ids
      <3>3. \A i \in Children(p) : /\ row[i].amount1 \in Nat /\ gap[i] \in Int
                                   /\ gap[i] * row[i].amount1 \in Int
        <4>1. \A i \in Children(p) : row[i].amount1 \in Nat /\ gap[i] \in Int
          BY <2>3, <3>2
        <4> QED
          BY <4>1, Times
      <3>4. /\ \A i \in C : F[i] \in Int /\ A[i] = F[i]
            /\ \A i \in Ids \ C : A[i] = 0
            /\ \A i \in Children(p) : G[i] \in Int /\ B[i] = G[i]
            /\ \A i \in Ids \ Children(p) : B[i] = 0
        BY <3>2, <3>3
      <3>5. ASSUME NEW i \in Ids
            PROVE  S[i] \in Int /\ A[i] \in Int /\ B[i] = S[i] - A[i]
        <4>1. S[i] \in Int /\ S[i] = IF ext[i].parent = p THEN e[i] * ext[i].amount ELSE 0
          BY ShareType
        <4>2. CASE i \notin Children(p)
          <5>1. S[i] = 0
            BY <2>3, <3>2, <4>1, <4>2, Times
          <5>2. A[i] = 0 /\ B[i] = 0
            BY <4>2
          <5> QED
            BY <5>1, <5>2
        <4>3. CASE i \in Children(p)
          <5>1. /\ ext[i].parent = p /\ row[i].amount1 = ext[i].amount /\ i \in SellRows
                /\ gap[i] = e[i] - One(posted[i].back = 0)
            BY <2>3, <3>2, <4>3
          <5>2. S[i] = e[i] * ext[i].amount /\ B[i] = gap[i] * ext[i].amount
            BY <4>1, <4>3, <5>1
          <5>3. CASE posted[i].back = 0
            <6>1. A[i] = ext[i].amount /\ gap[i] = e[i] - 1
              BY <4>3, <5>1, <5>3 DEF One
            <6>2. (e[i] - 1) * ext[i].amount = e[i] * ext[i].amount - ext[i].amount
              BY <2>3, Times
            <6> QED
              BY <2>3, <4>1, <5>2, <6>1, <6>2
          <5>4. CASE posted[i].back # 0
            <6>1. A[i] = 0 /\ gap[i] = e[i]
              BY <2>3, <4>3, <5>1, <5>4 DEF One
            <6> QED
              BY <4>1, <5>2, <6>1
          <5> QED
            BY <5>3, <5>4
        <4> QED
          BY <4>2, <4>3
      <3>6. row[p].preclosed = Total(S)
        BY <2>1 DEF Holds
      <3> HIDE DEF C, F, G, A, B, S, Y
      <3>7. SumFunctionOnSet(F, C) = Total(A)
        BY <3>2, <3>4, IdsFinite, SumPadded DEF Total
      <3>8. SumFunctionOnSet(G, Children(p)) = Total(B)
        BY <3>2, <3>4, IdsFinite, SumPadded DEF Total
      <3>9. Total(B) = Total(S) - Total(A)
        BY <3>5, IdsFinite, SumMinus DEF Total
      <3>10. Total(S) \in Int /\ Total(A) \in Int
        BY <3>5, IdsFinite, SumType DEF Total
      <3>11. row[p].preclosed = InSells(p) + Y
        BY <3>1, <3>6, <3>7, <3>8, <3>9, <3>10
      <3> QED
        BY <3>11 DEF Y
    <2> QED
      BY <2>5, <2>6, <2>7
  <1> QED
    BY <1>1, SoundInvariant, WrongInvariant, PTL
=============================================================================
