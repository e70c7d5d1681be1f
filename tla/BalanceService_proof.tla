------------------------ MODULE BalanceService_proof ------------------------
(***************************************************************************)
(* Proofs about BalanceService, for any number of accounts, currencies,    *)
(* callers, calls and faults. Three invariants carry them.                 *)
(*   Locked: a task past its first read is the head of its account's queue *)
(*     (and of the queue of 'Balance' inside set), and what it has read is *)
(*     still what the table holds.                                         *)
(*   Traced: every place of a log that does not follow from the one before,*)
(*     and every save whose line is missing, is paid for by one fault.     *)
(*   Inputs: what a task waits to post is an amount a caller passed or the *)
(*     exchange reported.                                                  *)
(* The last part maps the tables, with the lines yet to be logged, to the  *)
(* Ledger.                                                                 *)
(***************************************************************************)
EXTENDS BalanceService, SequenceTheorems, FiniteSetTheorems, TLAPS

\* Whoever is inside a section is first in the queue of its lock.
Holding ==
    \A t \in Tasks :
        /\ InAccount(t) => Holds(job[t].acct, t)
        /\ InSet(t) => Holds(SetKey, t)

\* The rows a task is about to save have not changed since it read them.
Fresh ==
    \A t \in Tasks :
        /\ pc[t] = "save" => job[t].seen[job[t].cur] = rows[job[t].acct][job[t].cur]
        /\ InSet(t) => \A c \in job[t].todo : job[t].seen[c] = rows[job[t].acct][c]

Locked == TypeOK /\ Holding /\ Fresh

-----------------------------------------------------------------------------
\* A caller that joins a queue leaves its head in place.
LEMMA HeadOfAppend ==
    ASSUME NEW S, NEW q \in Seq(S), NEW x \in S, q # <<>>
    PROVE  Append(q, x) # <<>> /\ Head(Append(q, x)) = Head(q)
  OBVIOUS

\* What income and set store is a row, with its parts adding up.
LEMMA CreditRow ==
    ASSUME NEW r \in Row, NEW d \in Int, NEW ctx \in Contexts
    PROVE  /\ Credit(r, d, ctx) \in Row /\ RowOk(Credit(r, d, ctx))
           /\ Credit(r, d, ctx).amount = r.amount + d
  BY DEF Credit, Row, RowOk

LEMMA ActualizedRow ==
    ASSUME NEW r \in Row, NEW v \in Nat
    PROVE  /\ Actualized(r, v) \in Row /\ RowOk(Actualized(r, v))
           /\ Actualized(r, v).amount = v
  <1>1. /\ r.amount \in Int /\ r.in_orders \in Int
        /\ r.for_fee \in Int /\ r.available \in Int /\ v \in Int
    BY DEF Row
  <1>2. PICK w \in Int : w = (v - r.in_orders) - r.for_fee
    BY <1>1
  <1>3. [r EXCEPT !.amount = v, !.available = w] \in Row
    BY <1>1, <1>2 DEF Row
  <1>4. Actualized(r, v) = [r EXCEPT !.amount = v, !.available = w]
    BY <1>2 DEF Actualized
  <1>5. /\ Actualized(r, v).amount = v /\ Actualized(r, v).available = w
        /\ Actualized(r, v).in_orders = r.in_orders
        /\ Actualized(r, v).for_fee = r.for_fee
    BY <1>4 DEF Row
  <1> QED
    BY <1>2, <1>3, <1>4, <1>5 DEF RowOk

LEMMA EntityRow ==
    ASSUME NEW found \in Seq(Row)
    PROVE  Entity(found) \in Row
  <1>1. CASE found = <<>>
    BY <1>1 DEF Entity, Row, ZeroRow
  <1>2. CASE found # <<>>
    <2>1. 1 \in 1..Len(found)
      BY <1>2
    <2>2. found[1] \in Row
      BY <2>1
    <2> QED
      BY <1>2, <2>2 DEF Entity
  <1> QED
    BY <1>1, <1>2

\* A save keeps the rows of a currency a sequence of rows, and does not
\* lengthen it when the task still sees what is stored.
LEMMA SavedRows ==
    ASSUME NEW stored \in Seq(Row), NEW found, NEW r \in Row,
           found = stored \/ stored # <<>> \/ found = <<>>
    PROVE  /\ Saved(stored, found, r) \in Seq(Row)
           /\ \A i \in 1..Len(Saved(stored, found, r)) :
                \/ Saved(stored, found, r)[i] = r
                \/ i \in 1..Len(stored) /\ Saved(stored, found, r)[i] = stored[i]
  <1>1. CASE found = <<>>
    BY <1>1 DEF Saved
  <1>2. CASE found # <<>>
    <2>1. 1 \in 1..Len(stored)
      BY <1>2
    <2>2. [stored EXCEPT ![1] = r] \in Seq(Row)
      BY <2>1, ExceptSeq
    <2> QED
      BY <1>2, <2>1, <2>2, ExceptSeq DEF Saved
  <1> QED
    BY <1>1, <1>2

LEMMA NoJobType == NoJob \in Job
  <1>1. (CHOOSE a \in Accounts : TRUE) \in Accounts
    BY BalanceAssumption
  <1>2. (CHOOSE c \in Currencies : TRUE) \in Currencies
    BY BalanceAssumption
  <1>3. [c \in Currencies |-> <<>>] \in Table
    BY DEF Table
  <1> QED
    BY <1>1, <1>2, <1>3 DEF NoJob, Job, Contexts, Line

-----------------------------------------------------------------------------
\* Only one task can be the head of a queue.
LEMMA HeadIsUnique ==
    ASSUME NEW k, NEW t, NEW u, Holds(k, t), Holds(k, u)
    PROVE  t = u
  BY DEF Holds

\* A caller that joins a queue keeps it well typed and disturbs no holder.
LEMMA EnqueueKeepsHolders ==
    ASSUME TypeOK, NEW t \in Tasks, NEW k \in Keys, Enqueue(k, t)
    PROVE  /\ queue' \in [Keys -> Seq(Tasks)]
           /\ \A l \in Keys, u \in Tasks : Holds(l, u) => Holds(l, u)'
  <1>1. queue[k] \in Seq(Tasks)
    BY DEF TypeOK
  <1>2. Append(queue[k], t) \in Seq(Tasks)
    BY <1>1
  <1>3. queue' \in [Keys -> Seq(Tasks)]
    BY <1>2 DEF TypeOK, Enqueue
  <1>4. ASSUME NEW l \in Keys, NEW u \in Tasks, Holds(l, u)
        PROVE  Holds(l, u)'
    <2>1. CASE l = k
      <3>1. queue'[l] = Append(queue[k], t)
        BY <2>1 DEF TypeOK, Enqueue
      <3> QED
        BY <1>1, <1>4, <2>1, <3>1, HeadOfAppend DEF Holds
    <2>2. CASE l # k
      BY <1>4, <2>2 DEF TypeOK, Enqueue, Holds
    <2> QED
      BY <2>1, <2>2
  <1> QED
    BY <1>3, <1>4

\* A task that leaves the locks it holds, all of them or not, keeps Locked.
LEMMA LeaveKeepsLocked ==
    ASSUME Locked, NEW t \in Tasks, NEW keys \in SUBSET Keys,
           \A k \in keys : Holds(k, t),
           Leave(t, keys), UNCHANGED rows
    PROVE  /\ queue' \in [Keys -> Seq(Tasks)]
           /\ pc' = [pc EXCEPT ![t] = "idle"]
           /\ job' \in [Tasks -> Job]
           /\ Holding' /\ Fresh'
  <1>1. queue' \in [Keys -> Seq(Tasks)]
    <2>1. ASSUME NEW k \in Keys
          PROVE  queue'[k] \in Seq(Tasks)
      <3>1. queue[k] \in Seq(Tasks)
        BY DEF Locked, TypeOK
      <3>2. k \in keys => queue[k] # <<>>
        BY DEF Holds
      <3>3. k \in keys => Tail(queue[k]) \in Seq(Tasks)
        BY <3>1, <3>2
      <3> QED
        BY <3>1, <3>3 DEF Leave
    <2>2. queue' = [k \in Keys |-> queue'[k]]
      BY DEF Leave
    <2> QED
      BY <2>1, <2>2
  <1>2. job' \in [Tasks -> Job]
    BY NoJobType DEF Locked, TypeOK, Leave
  <1>3. pc'[t] = "idle"
    BY DEF Locked, TypeOK, Leave
  <1>4. \A u \in Tasks \ {t} : pc'[u] = pc[u] /\ job'[u] = job[u]
    BY DEF Locked, TypeOK, Leave
  <1>5. ASSUME NEW u \in Tasks \ {t}, NEW k \in Keys, Holds(k, u)
        PROVE  Holds(k, u)'
    <2>1. k \notin keys
      BY <1>5, HeadIsUnique
    <2> QED
      BY <1>5, <2>1 DEF Leave, Holds
  <1>6. Holding'
    <2>1. ASSUME NEW u \in Tasks
          PROVE  /\ InAccount(u)' => Holds(job[u].acct, u)'
                 /\ InSet(u)' => Holds(SetKey, u)'
      <3>1. CASE u = t
        BY <1>3, <3>1 DEF InAccount, InSet
      <3>2. CASE u # t
        <4>1. job[u].acct \in Keys /\ SetKey \in Keys
          BY DEF Locked, TypeOK, Job, Keys
        <4>2. /\ InAccount(u)' => InAccount(u)
              /\ InSet(u)' => InSet(u)
              /\ job'[u].acct = job[u].acct
          BY <1>4, <3>2 DEF InAccount, InSet
        <4>3. /\ InAccount(u) => Holds(job[u].acct, u)
              /\ InSet(u) => Holds(SetKey, u)
          BY DEF Locked, Holding
        <4>4. /\ Holds(job[u].acct, u) => Holds(job[u].acct, u)'
              /\ Holds(SetKey, u) => Holds(SetKey, u)'
          BY <1>4, <1>5, <3>2, <4>1, <4>2 DEF Holds
        <4> QED
          BY <4>2, <4>3, <4>4
      <3> QED
        BY <3>1, <3>2
    <2> QED
      BY <2>1 DEF Holding
  <1>7. Fresh'
    BY <1>3, <1>4 DEF Locked, Fresh, InSet
  <1> QED
    BY <1>1, <1>2, <1>6, <1>7 DEF Leave

\* A step of t that keeps the queues and the tables, and moves t between two
\* points inside its section, or to one whose lock it holds.
LEMMA InsideKeepsHolding ==
    ASSUME Locked, NEW t \in Tasks, UNCHANGED queue,
           NEW label, Goto(t, label),
           \A u \in Tasks : job'[u].acct = job[u].acct,
           Holds(job[t].acct, t),
           label \in {"sweep", "setline"} => Holds(SetKey, t)
    PROVE  Holding'
  <1>1. ASSUME NEW u \in Tasks
        PROVE  /\ InAccount(u)' => Holds(job[u].acct, u)'
               /\ InSet(u)' => Holds(SetKey, u)'
    <2>1. CASE u = t
      BY <2>1 DEF Locked, TypeOK, Goto, InAccount, InSet, Holds
    <2>2. CASE u # t
      BY <2>2 DEF Locked, Holding, TypeOK, Goto, InAccount, InSet, Holds
    <2> QED
      BY <2>1, <2>2
  <1> QED
    BY <1>1 DEF Holding

\* A new call joins the queue of its account and disturbs nobody.
LEMMA CallKeepsLocked ==
    ASSUME Locked, NEW t \in Tasks, NEW a \in Accounts, NEW j \in Job,
           pc[t] = "idle", j.acct = a, Enqueue(a, t), Goto(t, "queued"),
           job' = [job EXCEPT ![t] = j],
           calls < MaxCalls, calls' = calls + 1, UNCHANGED <<rows, log, faults>>
    PROVE  Locked'
  <1>1. a \in Keys /\ SetKey \in Keys
    BY DEF Keys
  <1>2. /\ queue' \in [Keys -> Seq(Tasks)]
        /\ \A l \in Keys, u \in Tasks : Holds(l, u) => Holds(l, u)'
    BY <1>1, EnqueueKeepsHolders DEF Locked
  <1>3. /\ pc'[t] = "queued" /\ job'[t] = j
        /\ \A u \in Tasks \ {t} : pc'[u] = pc[u] /\ job'[u] = job[u]
    BY DEF Locked, TypeOK, Goto
  <1>4. TypeOK'
    <2>1. calls' \in 0..MaxCalls
      BY BalanceAssumption DEF Locked, TypeOK
    <2> QED
      BY <1>2, <2>1 DEF Locked, TypeOK, Goto, WorkerPCs, CheckerPCs
  <1>5. Holding'
    <2>1. ASSUME NEW u \in Tasks
          PROVE  /\ InAccount(u)' => Holds(job[u].acct, u)'
                 /\ InSet(u)' => Holds(SetKey, u)'
      <3>1. CASE u = t
        BY <1>3, <3>1 DEF InAccount, InSet
      <3>2. CASE u # t
        <4>1. PICK k \in Keys : k = job[u].acct
          BY DEF Locked, TypeOK, Job, Keys
        <4>2. /\ InAccount(u)' => InAccount(u)
              /\ InSet(u)' => InSet(u)
              /\ job'[u].acct = job[u].acct
          BY <1>3, <3>2 DEF InAccount, InSet
        <4>3. /\ InAccount(u) => Holds(job[u].acct, u)
              /\ InSet(u) => Holds(SetKey, u)
          BY DEF Locked, Holding
        <4>4. /\ Holds(k, u) => Holds(k, u)'
              /\ Holds(SetKey, u) => Holds(SetKey, u)'
          BY <1>1, <1>2
        <4> QED
          BY <4>1, <4>2, <4>3, <4>4 DEF Holds
      <3> QED
        BY <3>1, <3>2
    <2> QED
      BY <2>1 DEF Holding
  <1>6. Fresh'
    BY <1>3 DEF Locked, Fresh, InSet
  <1> QED
    BY <1>4, <1>5, <1>6 DEF Locked

\* A save by a task that still sees what is stored, inside its section.
LEMMA SaveKeepsLocked ==
    ASSUME Locked, NEW t \in Tasks, NEW c \in Currencies, NEW r \in Row, NEW d \in Int,
           NEW label, pc[t] \in {"save", "sweep"},
           label = IF pc[t] = "save" THEN "line" ELSE "setline",
           job[t].seen[c] = rows[job[t].acct][c],
           SaveRow(t, job[t].acct, c, r, d), Goto(t, label),
           UNCHANGED <<log, queue, calls, faults>>
    PROVE  Locked'
  <1> DEFINE a == job[t].acct
  <1>1. a \in Accounts /\ job[t] \in Job /\ job[t].todo \in SUBSET Currencies
    BY DEF Locked, TypeOK, Job
  <1>2. rows[a][c] \in Seq(Row)
    BY <1>1 DEF Locked, TypeOK, Table
  <1>3. Saved(rows[a][c], job[t].seen[c], r) \in Seq(Row)
    BY <1>2, SavedRows
  <1>4. rows' \in [Accounts -> Table]
    BY <1>1, <1>3 DEF Locked, TypeOK, Table, SaveRow
  <1>5. [amount |-> d, total |-> r.amount] \in Line
    BY DEF Line, Row
  <1>6. job' \in [Tasks -> Job]
    <2>1. PICK l \in Line : l = [amount |-> d, total |-> r.amount]
      BY <1>5
    <2>2. job' = [job EXCEPT ![t] =
                     [job[t] EXCEPT !.cur = c, !.todo = job[t].todo \ {c}, !.line = l]]
      BY <2>1 DEF SaveRow, Locked, TypeOK
    <2>3. [job[t] EXCEPT !.cur = c, !.todo = job[t].todo \ {c}, !.line = l] \in Job
      BY <1>1 DEF Job
    <2> QED
      BY <2>2, <2>3 DEF Locked, TypeOK
  <1>7. /\ \A u \in Tasks \ {t} : pc'[u] = pc[u] /\ job'[u] = job[u]
        /\ job'[t].acct = a /\ job'[t].todo = job[t].todo \ {c}
        /\ job'[t].seen = job[t].seen /\ pc'[t] = label
    BY <1>1 DEF Locked, TypeOK, Goto, SaveRow, Job
  <1>8. TypeOK'
    <2>1. /\ pc[t] = "save" => t \in Workers /\ t \notin Checkers /\ label = "line"
          /\ pc[t] = "sweep" => t \in Checkers /\ t \notin Workers /\ label = "setline"
      BY DEF Locked, TypeOK, Tasks, WorkerPCs, CheckerPCs
    <2>2. /\ pc' \in [Tasks -> {"idle"} \cup WorkerPCs \cup CheckerPCs]
          /\ \A u \in Workers : pc'[u] \in {"idle"} \cup WorkerPCs
          /\ \A u \in Checkers : pc'[u] \in {"idle"} \cup CheckerPCs
      BY <2>1 DEF Locked, TypeOK, Goto, WorkerPCs, CheckerPCs, Tasks
    <2> QED
      BY <1>4, <1>6, <2>2 DEF Locked, TypeOK
  <1>9. Holding'
    <2>1. Holds(a, t) /\ (pc[t] = "sweep" => Holds(SetKey, t))
      BY DEF Locked, Holding, InAccount, InSet
    <2>2. \A u \in Tasks : job'[u].acct = job[u].acct
      BY <1>7
    <2> QED
      BY <2>1, <2>2, InsideKeepsHolding
  <1>10. Fresh'
    <2>1. ASSUME NEW u \in Tasks
          PROVE  /\ pc'[u] = "save" =>
                        job'[u].seen[job'[u].cur] = rows'[job'[u].acct][job'[u].cur]
                 /\ InSet(u)' =>
                        \A x \in job'[u].todo : job'[u].seen[x] = rows'[job'[u].acct][x]
      <3>1. CASE u = t
        <4>1. \A x \in Currencies \ {c} : rows'[a][x] = rows[a][x]
          BY <1>1 DEF Locked, TypeOK, Table, SaveRow
        <4>2. pc[t] = "sweep" => \A x \in job[t].todo : job[t].seen[x] = rows[a][x]
          BY DEF Locked, Fresh, InSet
        <4> QED
          BY <1>1, <1>7, <3>1, <4>1, <4>2 DEF InSet
      <3>2. CASE u # t /\ InAccount(u)
        <4>1. Holds(job[u].acct, u) /\ Holds(a, t)
          BY <3>2 DEF Locked, Holding, InAccount
        <4>2. job[u].acct # a
          BY <3>2, <4>1, HeadIsUnique
        <4>3. job[u].acct \in Accounts
          BY DEF Locked, TypeOK, Job
        <4>4. rows'[job[u].acct] = rows[job[u].acct]
          BY <4>2, <4>3 DEF Locked, TypeOK, SaveRow
        <4> QED
          BY <1>7, <3>2, <4>4 DEF Locked, Fresh, InSet
      <3>3. CASE u # t /\ ~InAccount(u)
        BY <1>7, <3>3 DEF InAccount, InSet
      <3> QED
        BY <3>1, <3>2, <3>3
    <2> QED
      BY <2>1 DEF Fresh, InSet
  <1> QED
    BY <1>8, <1>9, <1>10 DEF Locked

-----------------------------------------------------------------------------
(* The steps that are not a call, a save or a return.                      *)

LEMMA GetBalanceKeepsLocked ==
    ASSUME Locked, NEW t \in Workers, GetBalance(t)
    PROVE  Locked'
  <1> USE DEF Locked
  <1>1. t \in Tasks /\ job[t] \in Job /\ rows[job[t].acct] \in Table
    BY DEF TypeOK, Tasks, Job
  <1>2. [job[t] EXCEPT !.seen = rows[job[t].acct]] \in Job
    BY <1>1 DEF Job
  <1>3. /\ \A u \in Tasks \ {t} : pc'[u] = pc[u] /\ job'[u] = job[u]
        /\ pc'[t] = "save" /\ job'[t].acct = job[t].acct /\ job'[t].cur = job[t].cur
        /\ job'[t].seen = rows[job[t].acct]
    BY <1>1 DEF TypeOK, GetBalance, Goto, Job
  <1>4. TypeOK'
    BY <1>1, <1>2, BalanceAssumption DEF TypeOK, GetBalance, Goto, WorkerPCs, CheckerPCs
  <1>5. Holding'
    BY <1>1, <1>3, InsideKeepsHolding DEF GetBalance
  <1>6. Fresh'
    BY <1>1, <1>3 DEF Fresh, InSet, GetBalance
  <1> QED
    BY <1>4, <1>5, <1>6

LEMMA FindRowsKeepsLocked ==
    ASSUME Locked, NEW t \in Checkers, FindRows(t)
    PROVE  Locked'
  <1> USE DEF Locked
  <1>1. t \in Tasks /\ job[t] \in Job /\ rows[job[t].acct] \in Table
    BY DEF TypeOK, Tasks, Job
  <1>2. [job[t] EXCEPT !.seen = rows[job[t].acct]] \in Job
    BY <1>1 DEF Job
  <1>3. /\ \A u \in Tasks \ {t} : pc'[u] = pc[u] /\ job'[u] = job[u]
        /\ pc'[t] = "sweep" /\ job'[t].acct = job[t].acct
        /\ job'[t].seen = rows[job[t].acct]
    BY <1>1 DEF TypeOK, FindRows, Goto, Job
  <1>4. TypeOK'
    BY <1>1, <1>2, BalanceAssumption DEF TypeOK, FindRows, Goto, WorkerPCs, CheckerPCs
  <1>5. Holding'
    <2>1. Holds(job[t].acct, t)
      BY <1>1 DEF Holding, InAccount, FindRows
    <2> QED
      BY <1>1, <1>3, <2>1, InsideKeepsHolding DEF FindRows
  <1>6. Fresh'
    BY <1>1, <1>3 DEF Fresh, InSet, FindRows
  <1> QED
    BY <1>4, <1>5, <1>6

LEMMA SetLineKeepsLocked ==
    ASSUME Locked, NEW t \in Checkers, SetLine(t)
    PROVE  Locked'
  <1> USE DEF Locked
  <1>1. t \in Tasks /\ job[t] \in Job
    BY DEF TypeOK, Tasks
  <1>2. log' \in [Accounts -> [Currencies -> Seq(Line)]]
    <2>1. job[t].acct \in Accounts /\ job[t].cur \in Currencies /\ job[t].line \in Line
      BY <1>1 DEF Job
    <2>2. Append(log[job[t].acct][job[t].cur], job[t].line) \in Seq(Line)
      BY <2>1 DEF TypeOK
    <2> QED
      BY <2>1, <2>2 DEF TypeOK, SetLine, AppendLine
  <1>3. /\ \A u \in Tasks \ {t} : pc'[u] = pc[u]
        /\ pc'[t] = "sweep"
    BY <1>1 DEF TypeOK, SetLine, Goto
  <1>4. TypeOK'
    BY <1>1, <1>2, BalanceAssumption DEF TypeOK, SetLine, Goto, WorkerPCs, CheckerPCs
  <1>5. Holding'
    <2>1. Holds(job[t].acct, t) /\ Holds(SetKey, t)
      BY <1>1 DEF Holding, InAccount, InSet, SetLine
    <2> QED
      BY <1>1, <2>1, InsideKeepsHolding DEF SetLine
  <1>6. Fresh'
    BY <1>1, <1>3 DEF Fresh, InSet, SetLine
  <1> QED
    BY <1>4, <1>5, <1>6

LEMMA FetchBalancesKeepsLocked ==
    ASSUME Locked, NEW t \in Checkers, FetchBalances(t)
    PROVE  Locked'
  <1> USE DEF Locked
  <1>1. t \in Tasks /\ job[t] \in Job /\ SetKey \in Keys
    BY DEF TypeOK, Tasks, Keys
  <1>2. PICK j \in Job : j.acct = job[t].acct /\ job' = [job EXCEPT ![t] = j]
    <2>0. PICK reported \in SUBSET Currencies :
            \E free \in [reported -> Free] :
                job' = [job EXCEPT ![t].todo = reported,
                                   ![t].free = [c \in Currencies |->
                                       IF c \in reported THEN free[c] ELSE 0]]
      BY DEF FetchBalances
    <2>1. PICK free \in [reported -> Free] :
            job' = [job EXCEPT ![t].todo = reported,
                               ![t].free = [c \in Currencies |->
                                   IF c \in reported THEN free[c] ELSE 0]]
      BY <2>0
    <2>2. PICK f \in [Currencies -> Nat] :
            f = [c \in Currencies |-> IF c \in reported THEN free[c] ELSE 0]
      BY BalanceAssumption
    <2>3. [job[t] EXCEPT !.todo = reported, !.free = f] \in Job
      BY <1>1 DEF Job
    <2>4. [job[t] EXCEPT !.todo = reported, !.free = f].acct = job[t].acct
      BY <1>1 DEF Job
    <2>5. job' = [job EXCEPT ![t] = [job[t] EXCEPT !.todo = reported, !.free = f]]
      BY <1>1, <2>1, <2>2 DEF TypeOK
    <2> QED
      BY <2>3, <2>4, <2>5
  <1>3. /\ \A u \in Tasks \ {t} : pc'[u] = pc[u] /\ job'[u] = job[u]
        /\ pc'[t] = "wait" /\ job'[t] = j
    BY <1>1, <1>2 DEF TypeOK, FetchBalances, Goto
  <1>4. /\ queue' \in [Keys -> Seq(Tasks)]
        /\ \A l \in Keys, u \in Tasks : Holds(l, u) => Holds(l, u)'
    BY <1>1, EnqueueKeepsHolders DEF FetchBalances
  <1>5. TypeOK'
    <2>1. job' \in [Tasks -> Job]
      BY <1>1, <1>2 DEF TypeOK
    <2>2. /\ pc' \in [Tasks -> {"idle"} \cup WorkerPCs \cup CheckerPCs]
          /\ \A u \in Workers : pc'[u] \in {"idle"} \cup WorkerPCs
          /\ \A u \in Checkers : pc'[u] \in {"idle"} \cup CheckerPCs
      BY <1>1, BalanceAssumption DEF TypeOK, FetchBalances, Goto, WorkerPCs, CheckerPCs
    <2> QED
      BY <1>4, <2>1, <2>2 DEF TypeOK, FetchBalances
  <1>6. Holding'
    <2>1. ASSUME NEW u \in Tasks
          PROVE  /\ InAccount(u)' => Holds(job[u].acct, u)'
                 /\ InSet(u)' => Holds(SetKey, u)'
      <3>1. PICK k \in Keys : k = job[u].acct
        BY DEF TypeOK, Job, Keys
      <3>2. job'[u].acct = k
        BY <1>2, <1>3, <3>1
      <3>3. /\ InAccount(u)' => Holds(k, u)
            /\ InSet(u)' => Holds(SetKey, u)
        BY <1>3, <3>1 DEF Holding, FetchBalances, InAccount, InSet
      <3>4. /\ Holds(k, u) => Holds(k, u)'
            /\ Holds(SetKey, u) => Holds(SetKey, u)'
        BY <1>1, <1>4
      <3> QED
        BY <3>2, <3>3, <3>4 DEF Holds
    <2> QED
      BY <2>1 DEF Holding
  <1>7. Fresh'
    <2>1. rows' = rows
      BY DEF FetchBalances
    <2> QED
      BY <1>1, <1>3, <2>1 DEF Fresh, InSet
  <1> QED
    BY <1>5, <1>6, <1>7

-----------------------------------------------------------------------------
\* The row r that income stores after a movement of d, or set for another free amount.
Movement(t, c, r, d) ==
    LET old == Entity(rows[job[t].acct][c])
    IN  \/ t \in Workers /\ d = job[t].move /\ \E x \in Contexts : r = Credit(old, d, x)
        \/ /\ t \in Checkers /\ c \in job[t].todo /\ d # 0
           /\ r = Actualized(old, job[t].free[c])

\* The tables change only by a save of a task that still sees what is stored,
\* of a row whose parts add up and whose amount moved by d.
SavesRow(t, c, r, d, label) ==
    /\ pc[t] \in {"save", "sweep"}
    /\ label = IF pc[t] = "save" THEN "line" ELSE "setline"
    /\ job[t].seen[c] = rows[job[t].acct][c]
    /\ SaveRow(t, job[t].acct, c, r, d)
    /\ RowOk(r) /\ Movement(t, c, r, d)
    /\ r.amount = Entity(rows[job[t].acct][c]).amount + d
    /\ Goto(t, label)
    /\ UNCHANGED <<log, queue, calls, faults>>

LEMMA SaveBalanceSaves ==
    ASSUME Locked, NEW t \in Workers, SaveBalance(t)
    PROVE  \E c \in Currencies, r \in Row, d \in Int, label \in {"line", "setline"} :
                SavesRow(t, c, r, d, label)
  <1>1. t \in Tasks /\ job[t] \in Job
    BY DEF Locked, TypeOK, Tasks
  <1> DEFINE a == job[t].acct
             c == job[t].cur
             r == Credit(Entity(job[t].seen[c]), job[t].move, job[t].ctx)
  <1>2. c \in Currencies /\ job[t].move \in Int /\ job[t].ctx \in Contexts
        /\ job[t].seen[c] \in Seq(Row)
    BY <1>1 DEF Job, Table
  <1>3. r \in Row /\ RowOk(r) /\ r.amount = Entity(job[t].seen[c]).amount + job[t].move
    BY <1>2, EntityRow, CreditRow
  <1>4. job[t].seen[c] = rows[a][c]
    BY <1>1 DEF Locked, Fresh, SaveBalance
  <1>5. /\ SaveRow(t, a, c, r, job[t].move) /\ Goto(t, "line") /\ pc[t] = "save"
        /\ UNCHANGED <<log, queue, calls, faults>>
    BY DEF SaveBalance
  <1>6. SavesRow(t, c, r, job[t].move, "line")
    <2>1. Movement(t, c, r, job[t].move)
      BY <1>2, <1>4 DEF Movement
    <2> QED
      BY <1>3, <1>4, <1>5, <2>1 DEF SavesRow
  <1> QED
    BY <1>2, <1>3, <1>6

LEMMA SetRowSaves ==
    ASSUME Locked, NEW t \in Checkers, SetRow(t)
    PROVE  \E c \in Currencies, r \in Row, d \in Int, label \in {"line", "setline"} :
                SavesRow(t, c, r, d, label)
  <1>1. t \in Tasks /\ job[t] \in Job
    BY DEF Locked, TypeOK, Tasks
  <1> DEFINE a == job[t].acct
  <1>2. PICK c \in job[t].todo :
            /\ Discrepancy(job[t], c)
            /\ SaveRow(t, a, c, Actualized(Entity(job[t].seen[c]), job[t].free[c]),
                       job[t].free[c] - Entity(job[t].seen[c]).amount)
    BY DEF SetRow
  <1> DEFINE old == Entity(job[t].seen[c])
             r   == Actualized(old, job[t].free[c])
             d   == job[t].free[c] - old.amount
  <1>3. c \in Currencies /\ job[t].free[c] \in Nat /\ job[t].seen[c] \in Seq(Row)
    BY <1>1 DEF Job, Table
  <1>4. old \in Row
    BY <1>3, EntityRow
  <1>5. r \in Row /\ RowOk(r) /\ r.amount = job[t].free[c]
    BY <1>3, <1>4, ActualizedRow
  <1>6. d \in Int /\ r.amount = old.amount + d
    BY <1>3, <1>4, <1>5 DEF Row
  <1>7. job[t].seen[c] = rows[a][c]
    BY <1>1 DEF Locked, Fresh, SetRow, InSet
  <1>8. Goto(t, "setline") /\ pc[t] = "sweep" /\ UNCHANGED <<log, queue, calls, faults>>
    BY DEF SetRow
  <1>9. SavesRow(t, c, r, d, "setline")
    <2>1. d # 0
      <3>1. job[t].free[c] # old.amount
        <4>1. CASE job[t].seen[c] = <<>>
          BY <1>2, <1>3, <4>1 DEF Discrepancy, Entity, ZeroRow
        <4>2. CASE job[t].seen[c] # <<>>
          BY <1>2, <4>2 DEF Discrepancy
        <4> QED
          BY <4>1, <4>2
      <3>2. old.amount \in Int
        BY <1>4 DEF Row
      <3> HIDE DEF old
      <3> QED
        BY <1>3, <3>1, <3>2
    <2>2. Movement(t, c, r, d)
      BY <1>7, <2>1 DEF Movement
    <2> QED
      BY <1>2, <1>5, <1>6, <1>7, <1>8, <2>2 DEF SavesRow
  <1> QED
    BY <1>3, <1>5, <1>6, <1>9

-----------------------------------------------------------------------------
\* A call that returns, of either kind, and the line income logs before it does.
LEMMA ReturnKeepsLocked ==
    ASSUME Locked, NEW t \in Tasks, NEW keys \in SUBSET Keys,
           \A k \in keys : Holds(k, t), Leave(t, keys), UNCHANGED rows,
           log' \in [Accounts -> [Currencies -> Seq(Line)]],
           calls' \in 0..MaxCalls, faults' \in 0..MaxFaults
    PROVE  Locked'
  <1>1. /\ queue' \in [Keys -> Seq(Tasks)]
        /\ pc' = [pc EXCEPT ![t] = "idle"]
        /\ job' \in [Tasks -> Job]
        /\ Holding' /\ Fresh'
    BY LeaveKeepsLocked
  <1>2. TypeOK'
    BY <1>1 DEF Locked, TypeOK
  <1> QED
    BY <1>1, <1>2 DEF Locked

LEMMA SaveLogKeepsLocked ==
    ASSUME Locked, NEW t \in Workers, SaveLog(t)
    PROVE  Locked'
  <1>1. t \in Tasks /\ job[t] \in Job
    BY DEF Locked, TypeOK, Tasks
  <1>2. job[t].acct \in Accounts /\ job[t].cur \in Currencies /\ job[t].line \in Line
    BY <1>1 DEF Job
  <1>3. Append(log[job[t].acct][job[t].cur], job[t].line) \in Seq(Line)
    BY <1>2 DEF Locked, TypeOK
  <1>4. log' \in [Accounts -> [Currencies -> Seq(Line)]]
    BY <1>2, <1>3 DEF Locked, TypeOK, SaveLog, AppendLine
  <1>5. Holds(job[t].acct, t) /\ job[t].acct \in Keys
    BY <1>1, <1>2 DEF Locked, Holding, InAccount, SaveLog, Keys
  <1>6. calls' \in 0..MaxCalls /\ faults' \in 0..MaxFaults
    BY DEF Locked, TypeOK, SaveLog
  <1>7. Leave(t, {job[t].acct}) /\ UNCHANGED rows
    BY DEF SaveLog
  <1> DEFINE ks == {job[t].acct}
  <1>8. ks \in SUBSET Keys /\ (\A k \in ks : Holds(k, t))
    BY <1>5
  <1> HIDE DEF ks
  <1>9. Leave(t, ks)
    BY <1>7 DEF ks
  <1> QED
    BY <1>1, <1>4, <1>6, <1>7, <1>8, <1>9, ReturnKeepsLocked

\* A step that only leaves locks: the end of set, an error of the exchange, a
\* statement the database refuses.
LEMMA LeavingKeepsLocked ==
    ASSUME Locked, NEW t \in Tasks, FetchFails(t) \/ SetDone(t) \/ Refused(t)
    PROVE  Locked'
  <1>1. job[t].acct \in Keys /\ SetKey \in Keys
    BY DEF Locked, TypeOK, Job, Keys
  <1>2. log' \in [Accounts -> [Currencies -> Seq(Line)]] /\ UNCHANGED rows
    BY DEF Locked, TypeOK, FetchFails, SetDone, Refused
  <1>3. calls' \in 0..MaxCalls /\ faults' \in 0..MaxFaults
    BY BalanceAssumption DEF Locked, TypeOK, FetchFails, SetDone, Refused
  <1>4. \/ Leave(t, {job[t].acct}) /\ Holds(job[t].acct, t)
        \/ Leave(t, {SetKey, job[t].acct}) /\ Holds(job[t].acct, t) /\ Holds(SetKey, t)
    BY DEF Locked, Holding, InAccount, InSet, FetchFails, SetDone, Refused
  <1>5. PICK ks \in SUBSET Keys : Leave(t, ks) /\ \A k \in ks : Holds(k, t)
    <2>1. {job[t].acct} \in SUBSET Keys /\ {SetKey, job[t].acct} \in SUBSET Keys
      BY <1>1
    <2> QED
      BY <1>4, <2>1
  <1> QED
    BY <1>2, <1>3, <1>5, ReturnKeepsLocked

-----------------------------------------------------------------------------
LEMMA InitLocked == Init => Locked
  <1> SUFFICES ASSUME Init PROVE Locked
    OBVIOUS
  <1>1. TypeOK
    <2>1. [c \in Currencies |-> <<>>] \in Table
      BY DEF Table
    <2>2. job \in [Tasks -> Job]
      BY NoJobType DEF Init
    <2> QED
      BY <2>1, <2>2, BalanceAssumption DEF Init, TypeOK, Tasks
  <1>2. Holding
    BY DEF Init, Holding, InAccount, InSet
  <1>3. Fresh
    BY DEF Init, Fresh, InSet
  <1> QED
    BY <1>1, <1>2, <1>3 DEF Locked

LEMMA CallsKeepLocked ==
    ASSUME Locked, NEW t \in Tasks, Income(t) \/ CheckBalance(t)
    PROVE  Locked'
  <1>1. PICK a \in Accounts, j \in Job :
            /\ j.acct = a /\ Enqueue(a, t) /\ job' = [job EXCEPT ![t] = j]
    <2>1. CASE Income(t)
      <3>1. PICK a \in Accounts, c \in Currencies, d \in Moves, x \in Contexts :
                /\ Enqueue(a, t)
                /\ job' = [job EXCEPT ![t] = [NoJob EXCEPT !.acct = a, !.cur = c,
                                                           !.move = d, !.ctx = x]]
        BY <2>1 DEF Income
      <3>2. d \in Int
        <4>1. \A x1 \in Amounts : x1 \in Int /\ -x1 \in Int
          BY BalanceAssumption
        <4> QED
          BY <4>1 DEF Moves
      <3>3. [NoJob EXCEPT !.acct = a, !.cur = c, !.move = d, !.ctx = x] \in Job
        BY <3>2, NoJobType DEF Job
      <3>4. [NoJob EXCEPT !.acct = a, !.cur = c, !.move = d, !.ctx = x].acct = a
        BY NoJobType DEF Job
      <3> QED
        BY <3>1, <3>3, <3>4
    <2>2. CASE CheckBalance(t)
      <3>1. PICK a \in Accounts :
                Enqueue(a, t) /\ job' = [job EXCEPT ![t] = [NoJob EXCEPT !.acct = a]]
        BY <2>2 DEF CheckBalance
      <3>2. [NoJob EXCEPT !.acct = a] \in Job /\ [NoJob EXCEPT !.acct = a].acct = a
        BY NoJobType DEF Job
      <3> QED
        BY <3>1, <3>2
    <2> QED
      BY <2>1, <2>2
  <1>2. /\ pc[t] = "idle" /\ Goto(t, "queued")
        /\ calls < MaxCalls /\ calls' = calls + 1 /\ UNCHANGED <<rows, log, faults>>
    BY DEF Income, CheckBalance
  <1> QED
    BY <1>1, <1>2, CallKeepsLocked

LEMMA CrashKeepsLocked ==
    ASSUME Locked, Crash
    PROVE  Locked'
  <1>1. \A t \in Tasks : pc'[t] = "idle"
    BY DEF Crash
  <1>2. TypeOK'
    <2>1. job' \in [Tasks -> Job] /\ queue' \in [Keys -> Seq(Tasks)]
      BY NoJobType DEF Crash
    <2>2. faults' \in 0..MaxFaults
      BY BalanceAssumption DEF Locked, TypeOK, Crash
    <2>3. /\ pc' \in [Tasks -> {"idle"} \cup WorkerPCs \cup CheckerPCs]
          /\ \A t \in Workers : pc'[t] \in {"idle"} \cup WorkerPCs
          /\ \A t \in Checkers : pc'[t] \in {"idle"} \cup CheckerPCs
      BY DEF Crash, Tasks
    <2> QED
      BY <2>1, <2>2, <2>3 DEF Locked, TypeOK, Crash
  <1> QED
    BY <1>1, <1>2 DEF Locked, Holding, Fresh, InAccount, InSet

LEMMA NextKeepsLocked ==
    ASSUME Locked, [FaultyNext]_vars
    PROVE  Locked'
  <1>1. ASSUME NEW t \in Workers, SaveBalance(t)
        PROVE  Locked'
    <2>1. PICK c \in Currencies, r \in Row, d \in Int, label \in {"line", "setline"} :
            SavesRow(t, c, r, d, label)
      BY <1>1, SaveBalanceSaves
    <2> QED
      BY <2>1, SaveKeepsLocked DEF SavesRow, Tasks
  <1>2. ASSUME NEW t \in Checkers, SetRow(t)
        PROVE  Locked'
    <2>1. PICK c \in Currencies, r \in Row, d \in Int, label \in {"line", "setline"} :
            SavesRow(t, c, r, d, label)
      BY <1>2, SetRowSaves
    <2> QED
      BY <2>1, SaveKeepsLocked DEF SavesRow, Tasks
  <1>3. ASSUME NEW t \in Workers, Income(t) \/ WorkerStep(t)
        PROVE  Locked'
    BY <1>1, <1>3, CallsKeepLocked, GetBalanceKeepsLocked, SaveLogKeepsLocked
       DEF WorkerStep, Tasks
  <1>4. ASSUME NEW t \in Checkers, CheckBalance(t) \/ CheckerStep(t)
        PROVE  Locked'
    <2>1. t \in Tasks
      BY DEF Tasks
    <2> QED
      BY <1>2, <1>4, <2>1, CallsKeepLocked, FetchBalancesKeepsLocked, LeavingKeepsLocked,
         FindRowsKeepsLocked, SetLineKeepsLocked
         DEF CheckerStep
  <1>5. CASE Done \/ UNCHANGED vars
    BY <1>5 DEF Done, vars, Locked, TypeOK, Holding, Fresh, Holds, InAccount, InSet
  <1>6. ASSUME NEW t \in Tasks, Refused(t)
        PROVE  Locked'
    BY <1>6, LeavingKeepsLocked
  <1> QED
    BY <1>3, <1>4, <1>5, <1>6, CrashKeepsLocked DEF FaultyNext, Next

\* The invariant, under crashes and refused statements.
THEOREM LockedInvariant == FaultySpec => []Locked
  <1>1. Locked /\ [FaultyNext]_vars => Locked'
    BY NextKeepsLocked
  <1> QED
    BY InitLocked, <1>1, PTL DEF FaultySpec

\* Every reachable state of BalanceService is well typed, faults included.
THEOREM TypeCorrect == FaultySpec => []TypeOK
  <1>1. Locked => TypeOK
    BY DEF Locked
  <1> QED
    BY <1>1, LockedInvariant, PTL

\* No two tasks are ever between read and last write of one account, or inside
\* BalanceService.set: the two levels of async-lock exclude what they should,
\* also after a crash or an error inside a section.
THEOREM Exclusion == FaultySpec => []MutualExclusion
  <1>1. Locked => MutualExclusion
    <2> SUFFICES ASSUME Locked, NEW t \in Tasks, NEW u \in Tasks, t # u
                 PROVE  /\ ~(InAccount(t) /\ InAccount(u) /\ job[t].acct = job[u].acct)
                        /\ ~(InSet(t) /\ InSet(u))
      BY DEF MutualExclusion
    <2> QED
      BY HeadIsUnique DEF Locked, Holding
  <1> QED
    BY <1>1, LockedInvariant, PTL

-----------------------------------------------------------------------------
(* What the steps do to the tables.                                        *)

\* Every step leaves the rows alone or is a save seen by SavesRow.
LEMMA RowsStep ==
    ASSUME Locked, [FaultyNext]_vars
    PROVE  \/ rows' = rows
           \/ \E t \in Tasks, c \in Currencies, r \in Row, d \in Int,
                 label \in {"line", "setline"} : SavesRow(t, c, r, d, label)
  <1>1. ASSUME NEW t \in Workers, SaveBalance(t)
        PROVE  \E u \in Tasks, c \in Currencies, r \in Row, d \in Int,
                  label \in {"line", "setline"} : SavesRow(u, c, r, d, label)
    BY <1>1, SaveBalanceSaves DEF Tasks
  <1>2. ASSUME NEW t \in Checkers, SetRow(t)
        PROVE  \E u \in Tasks, c \in Currencies, r \in Row, d \in Int,
                  label \in {"line", "setline"} : SavesRow(u, c, r, d, label)
    BY <1>2, SetRowSaves DEF Tasks
  <1>3. ASSUME NEW t \in Workers, Income(t) \/ GetBalance(t) \/ SaveLog(t)
        PROVE  rows' = rows
    BY <1>3 DEF Income, GetBalance, SaveLog
  <1>4. ASSUME NEW t \in Checkers,
               \/ CheckBalance(t) \/ FetchBalances(t) \/ FetchFails(t)
               \/ FindRows(t) \/ SetLine(t) \/ SetDone(t)
        PROVE  rows' = rows
    BY <1>4 DEF CheckBalance, FetchBalances, FetchFails, FindRows, SetLine, SetDone
  <1>5. CASE Crash \/ (\E t \in Tasks : Refused(t)) \/ Done \/ UNCHANGED vars
    BY <1>5 DEF Crash, Refused, Done, vars
  <1> QED
    BY <1>1, <1>2, <1>3, <1>4, <1>5 DEF FaultyNext, Next, WorkerStep, CheckerStep

\* What a save does to the rows of its own currency and to the others.
LEMMA SaveEffect ==
    ASSUME Locked, NEW t \in Tasks, NEW c \in Currencies, NEW r \in Row, NEW d \in Int,
           NEW label, SavesRow(t, c, r, d, label)
    PROVE  /\ job[t].acct \in Accounts
           /\ rows[job[t].acct][c] \in Seq(Row)
           /\ rows'[job[t].acct][c] = Saved(rows[job[t].acct][c], rows[job[t].acct][c], r)
           /\ \A a \in Accounts, x \in Currencies :
                (a # job[t].acct \/ x # c) => rows'[a][x] = rows[a][x]
  <1>1. job[t].acct \in Accounts
    BY DEF Locked, TypeOK, Job
  <1>2. rows[job[t].acct] \in Table /\ rows[job[t].acct][c] \in Seq(Row)
    BY <1>1 DEF Locked, TypeOK, Table
  <1>3. rows' = [rows EXCEPT ![job[t].acct][c] = Saved(@, job[t].seen[c], r)]
    BY DEF SavesRow, SaveRow
  <1> QED
    BY <1>1, <1>2, <1>3 DEF SavesRow, Locked, TypeOK, Table

\* Saving over what is stored replaces the row, or inserts the only one.
LEMMA SavedOverItself ==
    ASSUME NEW stored \in Seq(Row), NEW r \in Row, Len(stored) <= 1
    PROVE  /\ Len(Saved(stored, stored, r)) = 1
           /\ Entity(Saved(stored, stored, r)) = r
  <1>1. CASE stored = <<>>
    BY <1>1 DEF Saved, Entity
  <1>2. CASE stored # <<>>
    <2>1. 1 \in 1..Len(stored) /\ Len(stored) = 1
      <3>1. PICK n \in Nat \ {0} : n = Len(stored)
        BY <1>2, EmptySeq
      <3>2. n = 1
        BY <3>1
      <3> QED
        BY <3>1, <3>2
    <2>2. /\ Saved(stored, stored, r) \in Seq(Row)
          /\ Len(Saved(stored, stored, r)) = Len(stored)
          /\ Saved(stored, stored, r)[1] = r
      BY <1>2, <2>1, ExceptSeq DEF Saved
    <2>3. Saved(stored, stored, r) # <<>>
      BY <2>1, <2>2, EmptySeq
    <2> QED
      BY <2>1, <2>2, <2>3 DEF Entity
  <1> QED
    BY <1>1, <1>2

\* Every stored row stays split without remainder into available, reserved and
\* fee parts, under any interleaving of income, outcome and set, any crash and
\* any refused statement.
THEOREM AvailableAlways == FaultySpec => []AvailableIdentity
  <1>1. Init => AvailableIdentity
    BY DEF Init, AvailableIdentity
  <1>2. Locked /\ AvailableIdentity /\ [FaultyNext]_vars => AvailableIdentity'
    <2> SUFFICES ASSUME Locked, AvailableIdentity, [FaultyNext]_vars
                 PROVE  AvailableIdentity'
      OBVIOUS
    <2>1. CASE rows' = rows
      BY <2>1 DEF AvailableIdentity
    <2>2. ASSUME NEW t \in Tasks, NEW c \in Currencies, NEW r \in Row, NEW d \in Int,
                 NEW label \in {"line", "setline"}, SavesRow(t, c, r, d, label)
          PROVE  AvailableIdentity'
      <3> DEFINE b == job[t].acct
                 stored == rows[b][c]
      <3>1. /\ b \in Accounts /\ stored \in Seq(Row)
            /\ rows'[b][c] = Saved(stored, stored, r)
            /\ \A a \in Accounts, x \in Currencies :
                    (a # b \/ x # c) => rows'[a][x] = rows[a][x]
        BY <2>2, SaveEffect
      <3>2. RowOk(r)
        BY <2>2 DEF SavesRow
      <3>3. \A i \in 1..Len(Saved(stored, stored, r)) : RowOk(Saved(stored, stored, r)[i])
        <4>1. \A i \in 1..Len(stored) : RowOk(stored[i])
          BY <3>1 DEF AvailableIdentity
        <4>2. \A i \in 1..Len(Saved(stored, stored, r)) :
                \/ Saved(stored, stored, r)[i] = r
                \/ i \in 1..Len(stored) /\ Saved(stored, stored, r)[i] = stored[i]
          BY <3>1, SavedRows
        <4> HIDE DEF stored
        <4> QED
          BY <3>2, <4>1, <4>2
      <3>4. ASSUME NEW a \in Accounts, NEW x \in Currencies
            PROVE  \A i \in 1..Len(rows'[a][x]) : RowOk(rows'[a][x][i])
        <4>1. CASE a = b /\ x = c
          BY <3>1, <3>3, <4>1
        <4>2. CASE a # b \/ x # c
          BY <3>1, <4>2 DEF AvailableIdentity
        <4> QED
          BY <4>1, <4>2
      <3> QED
        BY <3>4 DEF AvailableIdentity
    <2> QED
      BY <2>1, <2>2, RowsStep
  <1> QED
    BY <1>1, <1>2, LockedInvariant, PTL DEF FaultySpec

\* The table never holds two rows for one account and currency, although it has
\* no unique key: the insert of income and the insert of set exclude each other.
THEOREM OneRow == FaultySpec => []NoDuplicateRow
  <1>1. Init => NoDuplicateRow
    BY DEF Init, NoDuplicateRow
  <1>2. Locked /\ NoDuplicateRow /\ [FaultyNext]_vars => NoDuplicateRow'
    <2> SUFFICES ASSUME Locked, NoDuplicateRow, [FaultyNext]_vars
                 PROVE  NoDuplicateRow'
      OBVIOUS
    <2>1. CASE rows' = rows
      BY <2>1 DEF NoDuplicateRow
    <2>2. ASSUME NEW t \in Tasks, NEW c \in Currencies, NEW r \in Row, NEW d \in Int,
                 NEW label \in {"line", "setline"}, SavesRow(t, c, r, d, label)
          PROVE  NoDuplicateRow'
      <3> DEFINE b == job[t].acct
                 stored == rows[b][c]
      <3>1. /\ b \in Accounts /\ stored \in Seq(Row)
            /\ rows'[b][c] = Saved(stored, stored, r)
            /\ \A a \in Accounts, x \in Currencies :
                    (a # b \/ x # c) => rows'[a][x] = rows[a][x]
        BY <2>2, SaveEffect
      <3>2. Len(rows'[b][c]) = 1
        BY <3>1, SavedOverItself DEF NoDuplicateRow
      <3>3. ASSUME NEW a \in Accounts, NEW x \in Currencies
            PROVE  Len(rows'[a][x]) <= 1
        <4>1. CASE a = b /\ x = c
          <5>1. Len(rows'[a][x]) = 1
            BY <3>2, <4>1
          <5> QED
            BY <5>1
        <4>2. CASE a # b \/ x # c
          BY <3>1, <4>2 DEF NoDuplicateRow
        <4> QED
          BY <4>1, <4>2
      <3> QED
        BY <3>3 DEF NoDuplicateRow
    <2> QED
      BY <2>1, <2>2, RowsStep
  <1> QED
    BY <1>1, <1>2, LockedInvariant, PTL DEF FaultySpec

-----------------------------------------------------------------------------
(* The audit trail, without faults.                                        *)

Logging(t) == pc[t] \in {"line", "setline"}

\* The line a task is about to log takes the log to the amount it stored.
Pending ==
    \A t \in Tasks : Logging(t) =>
        LET a == job[t].acct
            c == job[t].cur
        IN  /\ job[t].line.total = Entity(rows[a][c]).amount
            /\ job[t].line.total = LastTotal(log[a][c]) + job[t].line.amount

Audited == Locked /\ NoDuplicateRow /\ AuditTrail /\ Pending

\* A step of t that logs its line, and a step that touches neither table.
LogsLine(t) ==
    /\ Logging(t) /\ AppendLine(t) /\ rows' = rows
    /\ pc'[t] \notin {"line", "setline"}
    /\ \A u \in Tasks \ {t} : pc'[u] = pc[u] /\ job'[u] = job[u]

Quiet ==
    /\ rows' = rows /\ log' = log
    /\ \A u \in Tasks : /\ Logging(u)' <=> Logging(u)
                        /\ Logging(u) => job'[u] = job[u]

LEMMA QuietMove ==
    ASSUME Locked, NEW t \in Tasks, rows' = rows, log' = log,
           ~Logging(t), pc'[t] \notin {"line", "setline"},
           \A u \in Tasks \ {t} : pc'[u] = pc[u] /\ job'[u] = job[u]
    PROVE  Quiet
  BY DEF Quiet, Logging

LEMMA StepShape ==
    ASSUME Locked, [Next]_vars
    PROVE  \/ Quiet
           \/ \E t \in Tasks : LogsLine(t)
           \/ \E t \in Tasks, c \in Currencies, r \in Row, d \in Int,
                 label \in {"line", "setline"} : SavesRow(t, c, r, d, label)
  <1>1. ASSUME NEW t \in Tasks, NEW label, Goto(t, label),
               job' = job \/ (\E j : job' = [job EXCEPT ![t] = j])
        PROVE  /\ pc'[t] = label
               /\ \A u \in Tasks \ {t} : pc'[u] = pc[u] /\ job'[u] = job[u]
    BY <1>1 DEF Locked, TypeOK, Goto
  <1>2. ASSUME NEW t \in Tasks, NEW keys, Leave(t, keys)
        PROVE  /\ pc'[t] = "idle"
               /\ \A u \in Tasks \ {t} : pc'[u] = pc[u] /\ job'[u] = job[u]
    BY <1>2 DEF Locked, TypeOK, Leave
  <1>3. ASSUME NEW t \in Tasks, NEW label \in {"queued", "save", "wait", "sweep"},
                Goto(t, label), \E j : job' = [job EXCEPT ![t] = j],
                ~Logging(t), rows' = rows, log' = log
         PROVE  Quiet
    <2>1. /\ pc'[t] = label
          /\ \A u \in Tasks \ {t} : pc'[u] = pc[u] /\ job'[u] = job[u]
      BY <1>1, <1>3
    <2> QED
      BY <1>3, <2>1, QuietMove
  <1>4. ASSUME NEW t \in Tasks, \E keys : Leave(t, keys),
                ~Logging(t), rows' = rows, log' = log
         PROVE  Quiet
    <2>1. /\ pc'[t] = "idle"
          /\ \A u \in Tasks \ {t} : pc'[u] = pc[u] /\ job'[u] = job[u]
      BY <1>2, <1>4
    <2> QED
      BY <1>4, <2>1, QuietMove
  <1>5. ASSUME NEW t \in Workers, Income(t)
        PROVE  Quiet
    <2>1. /\ ~Logging(t) /\ Goto(t, "queued") /\ rows' = rows /\ log' = log
          /\ \E j : job' = [job EXCEPT ![t] = j]
      BY <1>5 DEF Income, Logging
    <2> QED
      BY <1>3, <2>1 DEF Tasks
  <1>6. ASSUME NEW t \in Workers, GetBalance(t)
        PROVE  Quiet
    <2>1. /\ ~Logging(t) /\ Goto(t, "save") /\ rows' = rows /\ log' = log
          /\ \E j : job' = [job EXCEPT ![t] = j]
      BY <1>6 DEF Logging, GetBalance, Locked, TypeOK, Tasks
    <2> QED
      BY <1>3, <2>1 DEF Tasks
  <1>7. ASSUME NEW t \in Workers, SaveLog(t)
        PROVE  LogsLine(t)
    BY <1>2, <1>7 DEF SaveLog, LogsLine, Logging, Tasks
  <1>8. ASSUME NEW t \in Checkers, CheckBalance(t)
        PROVE  Quiet
    <2>1. /\ ~Logging(t) /\ Goto(t, "queued") /\ rows' = rows /\ log' = log
          /\ \E j : job' = [job EXCEPT ![t] = j]
      BY <1>8 DEF CheckBalance, Logging
    <2> QED
      BY <1>3, <2>1 DEF Tasks
  <1>9. ASSUME NEW t \in Checkers, FetchBalances(t)
        PROVE  Quiet
    <2>1. /\ ~Logging(t) /\ Goto(t, "wait") /\ rows' = rows /\ log' = log
          /\ \E j : job' = [job EXCEPT ![t] = j]
      BY <1>9 DEF Logging, FetchBalances, Locked, TypeOK, Tasks
    <2> QED
      BY <1>3, <2>1 DEF Tasks
  <1>10. ASSUME NEW t \in Checkers, FindRows(t)
        PROVE  Quiet
    <2>1. /\ ~Logging(t) /\ Goto(t, "sweep") /\ rows' = rows /\ log' = log
          /\ \E j : job' = [job EXCEPT ![t] = j]
      BY <1>10 DEF Logging, FindRows, Locked, TypeOK, Tasks
    <2> QED
      BY <1>3, <2>1 DEF Tasks
  <1>11. ASSUME NEW t \in Checkers, SetLine(t)
        PROVE  LogsLine(t)
    BY <1>1, <1>11 DEF SetLine, LogsLine, Logging, Tasks
  <1>12. ASSUME NEW t \in Checkers, FetchFails(t) \/ SetDone(t)
         PROVE  Quiet
    <2>1. /\ ~Logging(t) /\ rows' = rows /\ log' = log
          /\ \E keys : Leave(t, keys)
      BY <1>12 DEF FetchFails, SetDone, Logging
    <2> QED
      BY <1>4, <2>1 DEF Tasks
  <1>13. CASE Done \/ UNCHANGED vars
    BY <1>13 DEF Done, vars, Quiet, Logging
  <1>14. ASSUME NEW t \in Workers, SaveBalance(t)
         PROVE  \E u \in Tasks, c \in Currencies, r \in Row, d \in Int,
                   label \in {"line", "setline"} : SavesRow(u, c, r, d, label)
    BY <1>14, SaveBalanceSaves DEF Tasks
  <1>15. ASSUME NEW t \in Checkers, SetRow(t)
         PROVE  \E u \in Tasks, c \in Currencies, r \in Row, d \in Int,
                   label \in {"line", "setline"} : SavesRow(u, c, r, d, label)
    BY <1>15, SetRowSaves DEF Tasks
  <1> HIDE DEF Quiet, LogsLine, SavesRow
  <1> QED
    BY <1>5, <1>6, <1>7, <1>8, <1>9, <1>10, <1>11, <1>12, <1>13, <1>14, <1>15
       DEF Next, WorkerStep, CheckerStep, Tasks

\* Two tasks cannot both be about to log for one account.
LEMMA OneLogger ==
    ASSUME Locked, NEW t \in Tasks, NEW u \in Tasks, InAccount(t), InAccount(u),
           job[t].acct = job[u].acct
    PROVE  t = u
  BY HeadIsUnique DEF Locked, Holding

LEMMA LastOfAppend ==
    ASSUME NEW lines \in Seq(Line), NEW l \in Line
    PROVE  /\ Append(lines, l) \in Seq(Line)
           /\ LastTotal(Append(lines, l)) = l.total
           /\ LastTotal(lines) \in Int
           /\ Len(Append(lines, l)) = Len(lines) + 1
           /\ \A i \in 1..Len(lines) : Append(lines, l)[i] = lines[i]
           /\ Append(lines, l)[Len(lines) + 1] = l
  <1>1. /\ Append(lines, l) \in Seq(Line)
        /\ Len(Append(lines, l)) = Len(lines) + 1
        /\ \A i \in 1..Len(lines) : Append(lines, l)[i] = lines[i]
        /\ Append(lines, l)[Len(lines) + 1] = l
        /\ Len(lines) \in Nat
    OBVIOUS
  <1>2. Append(lines, l) # <<>>
    BY <1>1, EmptySeq
  <1>3. LastTotal(lines) \in Int
    <2>1. CASE lines = <<>>
      BY <2>1 DEF LastTotal
    <2>2. CASE lines # <<>>
      <3>1. PICK n \in Nat \ {0} : n = Len(lines)
        BY <2>2, EmptySeq
      <3>2. lines[n] \in Line
        BY <3>1
      <3> QED
        BY <2>2, <3>1, <3>2 DEF LastTotal, Line
    <2> QED
      BY <2>1, <2>2
  <1> QED
    BY <1>1, <1>2, <1>3 DEF LastTotal

\* A line appended leaves the chain before it as it was, and continues it if it takes the
\* last total to its own.
LEMMA AppendChains ==
    ASSUME NEW lines \in Seq(Line), NEW l \in Line
    PROVE  LET longer == Append(lines, l)
           IN  /\ \A i \in 1..Len(lines) : ChainAt(longer, i) <=> ChainAt(lines, i)
               /\ ChainAt(longer, Len(lines) + 1) <=> l.total = LastTotal(lines) + l.amount
  <1> DEFINE longer == Append(lines, l)
  <1>1. PICK n \in Nat : n = Len(lines)
    OBVIOUS
  <1>2. /\ Len(longer) = n + 1
        /\ \A i \in 1..n : longer[i] = lines[i]
        /\ longer[n + 1] = l
    BY <1>1, LastOfAppend
  <1>3. LastTotal(lines) = IF n = 0 THEN 0 ELSE lines[n].total
    BY <1>1, EmptySeq DEF LastTotal
  <1> HIDE DEF longer
  <1>4. ASSUME NEW i \in 1..n
        PROVE  ChainAt(longer, i) <=> ChainAt(lines, i)
    <2>1. i # 1 => i - 1 \in 1..n
      OBVIOUS
    <2> QED
      BY <1>2, <2>1 DEF ChainAt
  <1>5. ChainAt(longer, n + 1) <=> l.total = LastTotal(lines) + l.amount
    <2>1. CASE n = 0
      BY <1>2, <1>3, <2>1 DEF ChainAt
    <2>2. CASE n # 0
      <3>1. (n + 1) - 1 = n /\ n + 1 # 1 /\ n \in 1..n
        BY <2>2
      <3> QED
        BY <1>2, <1>3, <2>2, <3>1 DEF ChainAt
    <2> QED
      BY <2>1, <2>2
  <1> QED
    BY <1>1, <1>4, <1>5 DEF longer

LEMMA QuietKeepsAudit ==
    ASSUME Locked, AuditTrail, Pending, Quiet
    PROVE  AuditTrail' /\ Pending'
  <1>1. \A u \in Tasks : Logging(u)' <=> Logging(u)
    BY DEF Quiet
  <1>2. \A u \in Tasks : Logging(u) => job'[u] = job[u]
    BY DEF Quiet
  <1>3. \A a \in Accounts, c \in Currencies : Settled(a, c)' <=> Settled(a, c)
    BY <1>1, <1>2 DEF Settled, Unlogged, Logging
  <1>4. AuditTrail'
    BY <1>3 DEF AuditTrail, Quiet
  <1>5. Pending'
    BY <1>1, <1>2 DEF Pending, Quiet
  <1> QED
    BY <1>4, <1>5

LEMMA SaveKeepsAudit ==
    ASSUME Audited, NEW t \in Tasks, NEW c \in Currencies, NEW r \in Row, NEW d \in Int,
           NEW label \in {"line", "setline"}, SavesRow(t, c, r, d, label)
    PROVE  AuditTrail' /\ Pending'
  <1> DEFINE a == job[t].acct
  <1>1. /\ a \in Accounts /\ rows[a][c] \in Seq(Row)
        /\ rows'[a][c] = Saved(rows[a][c], rows[a][c], r)
        /\ \A b \in Accounts, x \in Currencies :
                (b # a \/ x # c) => rows'[b][x] = rows[b][x]
    BY SaveEffect DEF Audited
  <1>2. Entity(rows'[a][c]) = r
    BY <1>1, SavedOverItself DEF Audited, NoDuplicateRow
  <1>3. /\ InAccount(t) /\ ~Logging(t) /\ log' = log
        /\ r.amount = Entity(rows[a][c]).amount + d
    BY DEF SavesRow, InAccount, Logging
  <1>4. Settled(a, c)
    <2>1. ASSUME NEW u \in Tasks, Unlogged(u, a, c)
          PROVE  FALSE
      <3>1. InAccount(u) /\ Logging(u) /\ job[u].acct = a
        BY <2>1 DEF Unlogged, InAccount, Logging
      <3> QED
        BY <1>3, <3>1, OneLogger DEF Audited
    <2> QED
      BY <2>1 DEF Settled
  <1>5. Entity(rows[a][c]).amount = LastTotal(log[a][c])
    BY <1>1, <1>4 DEF Audited, AuditTrail
  <1>6. /\ pc'[t] = label /\ job'[t].acct = a /\ job'[t].cur = c
        /\ job'[t].line = [amount |-> d, total |-> r.amount]
        /\ \A u \in Tasks \ {t} : pc'[u] = pc[u] /\ job'[u] = job[u]
    BY DEF SavesRow, SaveRow, Goto, Audited, Locked, TypeOK, Job
  <1>7. AuditTrail'
    <2>1. ASSUME NEW b \in Accounts, NEW x \in Currencies, Settled(b, x)'
          PROVE  Entity(rows'[b][x]).amount = LastTotal(log[b][x])
      <3>1. b # a \/ x # c
        BY <1>6, <2>1 DEF Settled, Unlogged
      <3>2. Settled(b, x)
        BY <1>3, <1>6, <2>1 DEF Settled, Unlogged, Logging
      <3> QED
        BY <1>1, <3>1, <3>2 DEF Audited, AuditTrail
    <2> QED
      BY <1>3, <2>1 DEF Audited, AuditTrail
  <1>8. Pending'
    <2>1. ASSUME NEW u \in Tasks, Logging(u)'
          PROVE  /\ job'[u].line.total = Entity(rows'[job'[u].acct][job'[u].cur]).amount
                 /\ job'[u].line.total
                        = LastTotal(log'[job'[u].acct][job'[u].cur]) + job'[u].line.amount
      <3>1. CASE u = t
        BY <1>2, <1>3, <1>5, <1>6, <3>1
      <3>2. CASE u # t
        <4>1. Logging(u) /\ job'[u] = job[u] /\ InAccount(u)
          BY <1>6, <2>1, <3>2 DEF Logging, InAccount
        <4>2. job[u].acct # a
          BY <1>3, <3>2, <4>1, OneLogger DEF Audited
        <4>3. job[u].acct \in Accounts /\ job[u].cur \in Currencies
          BY DEF Audited, Locked, TypeOK, Job
        <4> QED
          BY <1>1, <1>3, <4>1, <4>2, <4>3 DEF Audited, Pending
      <3> QED
        BY <3>1, <3>2
    <2> QED
      BY <2>1 DEF Pending
  <1> QED
    BY <1>7, <1>8

LEMMA LineKeepsAudit ==
    ASSUME Audited, NEW t \in Tasks, LogsLine(t)
    PROVE  AuditTrail' /\ Pending'
  <1> DEFINE a == job[t].acct
             c == job[t].cur
             l == job[t].line
  <1>1. /\ a \in Accounts /\ c \in Currencies /\ l \in Line
        /\ log[a][c] \in Seq(Line)
    BY DEF Audited, Locked, TypeOK, Job
  <1>2. /\ log'[a][c] = Append(log[a][c], l)
        /\ \A b \in Accounts, x \in Currencies :
                (b # a \/ x # c) => log'[b][x] = log[b][x]
    BY <1>1 DEF LogsLine, AppendLine, Audited, Locked, TypeOK
  <1>3. /\ l.total = Entity(rows[a][c]).amount
        /\ l.total = LastTotal(log[a][c]) + l.amount
    BY DEF LogsLine, Audited, Pending
  <1>4. InAccount(t) /\ rows' = rows /\ ~Logging(t)'
        /\ \A u \in Tasks \ {t} : pc'[u] = pc[u] /\ job'[u] = job[u]
    BY DEF LogsLine, Logging, InAccount
  <1>5. /\ LastTotal(log'[a][c]) = Entity(rows[a][c]).amount
        /\ Len(log'[a][c]) = Len(log[a][c]) + 1 /\ Len(log[a][c]) \in Nat
    <2>1. /\ LastTotal(Append(log[a][c], l)) = l.total
          /\ Len(Append(log[a][c], l)) = Len(log[a][c]) + 1 /\ Len(log[a][c]) \in Nat
      BY <1>1, LastOfAppend
    <2> QED
      BY <1>2, <1>3, <2>1
  <1>6. \A i \in 1..Len(log'[a][c]) : ChainAt(log'[a][c], i)
    <2>1. \A i \in 1..Len(log[a][c]) : ChainAt(log[a][c], i)
      BY <1>1 DEF Audited, AuditTrail
    <2> QED
      <3>1. Len(log'[a][c]) = Len(log[a][c]) + 1 /\ Len(log[a][c]) \in Nat
        BY <1>5
      <3>2. \A i \in 1..(Len(log[a][c]) + 1) : i \in 1..Len(log[a][c]) \/ i = Len(log[a][c]) + 1
        <4>1. \A m \in Nat : \A i \in 1..(m + 1) : i \in 1..m \/ i = m + 1
          OBVIOUS
        <4> QED
          BY <3>1, <4>1
      <3>3. /\ \A i \in 1..Len(log[a][c]) : ChainAt(log'[a][c], i)
            /\ ChainAt(log'[a][c], Len(log[a][c]) + 1)
        <4>1. LET longer == Append(log[a][c], l)
              IN  /\ \A i \in 1..Len(log[a][c]) : ChainAt(longer, i) <=> ChainAt(log[a][c], i)
                  /\ ChainAt(longer, Len(log[a][c]) + 1)
                        <=> l.total = LastTotal(log[a][c]) + l.amount
          BY <1>1, AppendChains
        <4> QED
          BY <1>2, <1>3, <2>1, <4>1
      <3> QED
        BY <3>1, <3>2, <3>3
  <1>7. AuditTrail'
    <2>1. ASSUME NEW b \in Accounts, NEW x \in Currencies
          PROVE  /\ \A i \in 1..Len(log'[b][x]) : ChainAt(log'[b][x], i)
                 /\ Settled(b, x)' => Entity(rows'[b][x]).amount = LastTotal(log'[b][x])
      <3>1. CASE b = a /\ x = c
        BY <1>4, <1>5, <1>6, <3>1
      <3>2. CASE b # a \/ x # c
        <4>1. Settled(b, x)' => Settled(b, x)
          BY <1>4, <3>2 DEF Settled, Unlogged
        <4> QED
          BY <1>2, <1>4, <3>2, <4>1 DEF Audited, AuditTrail
      <3> QED
        BY <3>1, <3>2
    <2> QED
      BY <2>1 DEF AuditTrail
  <1>8. Pending'
    <2>1. ASSUME NEW u \in Tasks, Logging(u)'
          PROVE  /\ job'[u].line.total = Entity(rows'[job'[u].acct][job'[u].cur]).amount
                 /\ job'[u].line.total
                        = LastTotal(log'[job'[u].acct][job'[u].cur]) + job'[u].line.amount
      <3>1. u # t
        BY <1>4, <2>1
      <3>2. Logging(u) /\ job'[u] = job[u] /\ InAccount(u)
        BY <1>4, <2>1, <3>1 DEF Logging, InAccount
      <3>3. job[u].acct # a
        BY <1>4, <3>1, <3>2, OneLogger DEF Audited
      <3>4. job[u].acct \in Accounts /\ job[u].cur \in Currencies
        BY DEF Audited, Locked, TypeOK, Job
      <3> QED
        BY <1>2, <1>4, <3>2, <3>3, <3>4 DEF Audited, Pending
    <2> QED
      BY <2>1 DEF Pending
  <1> QED
    BY <1>7, <1>8

\* Without faults no update of a balance is ever lost: the log of every account
\* and currency adds up line by line to the stored amount, whatever income,
\* outcome and set run concurrently.
THEOREM NoLostUpdate == Spec => []AuditTrail
  <1>1. Init => Audited
    <2> SUFFICES ASSUME Init PROVE Audited
      OBVIOUS
    <2>1. NoDuplicateRow /\ AuditTrail /\ Pending
      BY DEF Init, NoDuplicateRow, AuditTrail, Pending, Logging, Entity, ZeroRow, LastTotal
    <2> QED
      BY <2>1, InitLocked DEF Audited
  <1>2. Audited /\ NoDuplicateRow' /\ [Next]_vars => Audited'
    <2> SUFFICES ASSUME Audited, NoDuplicateRow', [Next]_vars
                 PROVE  Audited'
      OBVIOUS
    <2>1. Locked'
      BY NextKeepsLocked DEF Audited, FaultyNext
    <2>2. AuditTrail' /\ Pending'
      BY StepShape, QuietKeepsAudit, SaveKeepsAudit, LineKeepsAudit DEF Audited
    <2> QED
      BY <2>1, <2>2 DEF Audited
  <1>3. Spec => FaultySpec
    <2>1. [Next]_vars => [FaultyNext]_vars
      BY DEF FaultyNext
    <2> QED
      BY <2>1, PTL DEF Spec, FaultySpec
  <1>4. Audited => AuditTrail
    BY DEF Audited
  <1> QED
    BY <1>1, <1>2, <1>3, <1>4, OneRow, PTL DEF Spec

-----------------------------------------------------------------------------
(* What the log does not account for, with faults.                         *)

\* A line logged, or about to be, that does not continue the chain, or a line missing at
\* its end.
Off(a, c) ==
    \/ Settled(a, c) /\ Entity(rows[a][c]).amount # LastTotal(log[a][c])
    \/ \E t \in Tasks : /\ Unlogged(t, a, c)
                        /\ job[t].line.total # LastTotal(log[a][c]) + job[t].line.amount

\* The places in the logs of account a where something is missing: a line number, or 0
\* for the line to come.
Losses(a) ==
    {z \in Currencies \X Nat :
        IF z[2] = 0 THEN Off(a, z[1])
        ELSE z[2] \in 1..Len(log[a][z[1]]) /\ ~ChainAt(log[a][z[1]], z[2])}

\* The line a task is about to log shows what it stored.
Shown ==
    \A t \in Tasks :
        Logging(t) => job[t].line.total = Entity(rows[job[t].acct][job[t].cur]).amount

Counted == \A a \in Accounts : IsFiniteSet(Losses(a)) /\ Cardinality(Losses(a)) <= faults

Traced == Locked /\ NoDuplicateRow /\ Shown /\ Counted

\* A crash or a refused statement: a task that was about to log is about to no more.
Faults ==
    /\ rows' = rows /\ log' = log /\ faults' = faults + 1
    /\ \A u \in Tasks : Logging(u)' => Logging(u) /\ job'[u] = job[u]

LEMMA FaultShape ==
    ASSUME Locked, [FaultyNext]_vars
    PROVE  ([Next]_vars /\ faults' = faults) \/ Faults
  <1>1. CASE Crash
    BY <1>1 DEF Crash, Faults, Logging
  <1>2. ASSUME NEW t \in Tasks, Refused(t)
        PROVE  Faults
    <2>1. /\ rows' = rows /\ log' = log /\ faults' = faults + 1
          /\ \E keys : Leave(t, keys)
      BY <1>2 DEF Refused
    <2>2. pc'[t] = "idle" /\ \A u \in Tasks \ {t} : pc'[u] = pc[u] /\ job'[u] = job[u]
      BY <2>1 DEF Leave, Locked, TypeOK
    <2> QED
      BY <2>1, <2>2 DEF Faults, Logging
  <1>3. CASE Next
    BY <1>3 DEF Next, WorkerStep, CheckerStep, Income, GetBalance, SaveBalance, SaveLog,
       CheckBalance, FetchBalances, FetchFails, FindRows, SetRow, SetLine, SetDone, Done, vars
  <1>4. CASE UNCHANGED vars
    BY <1>4 DEF vars
  <1> QED
    BY <1>1, <1>2, <1>3, <1>4 DEF FaultyNext

\* A change at one place costs at most one.
LEMMA OneMore ==
    ASSUME NEW S, NEW T, NEW x, IsFiniteSet(S), T \subseteq S \cup {x}
    PROVE  IsFiniteSet(T) /\ Cardinality(T) <= Cardinality(S) + 1
  <1>1. /\ IsFiniteSet(S \cup {x}) /\ Cardinality(S) \in Nat
        /\ Cardinality(S \cup {x}) \in {Cardinality(S), Cardinality(S) + 1}
    BY FS_AddElement, FS_CardinalityType
  <1>2. /\ IsFiniteSet(T) /\ Cardinality(T) \in Nat
        /\ Cardinality(T) <= Cardinality(S \cup {x})
    BY <1>1, FS_Subset, FS_CardinalityType
  <1> QED
    BY <1>1, <1>2

LEMMA OneForAnother ==
    ASSUME NEW S, NEW T, NEW x, NEW y \in S, IsFiniteSet(S), T \subseteq (S \ {y}) \cup {x}
    PROVE  IsFiniteSet(T) /\ Cardinality(T) <= Cardinality(S)
  <1>1. /\ IsFiniteSet(S \ {y}) /\ Cardinality(S \ {y}) = Cardinality(S) - 1
        /\ Cardinality(S) \in Nat
    BY FS_RemoveElement, FS_CardinalityType
  <1>2. IsFiniteSet(T) /\ Cardinality(T) <= Cardinality(S \ {y}) + 1
    BY <1>1, OneMore
  <1>3. Cardinality(T) \in Nat
    BY <1>2, FS_CardinalityType
  <1> QED
    BY <1>1, <1>2, <1>3

LEMMA FaultsCounted ==
    ASSUME Traced, Faults
    PROVE  Shown' /\ Counted'
  <1>1. Shown'
    BY DEF Traced, Shown, Faults
  <1>2. ASSUME NEW a \in Accounts
        PROVE  \E c : Losses(a)' \subseteq Losses(a) \cup {<<c, 0>>}
    <2>1. \E c : \A u \in Tasks, x \in Currencies : Unlogged(u, a, x) => x = c
      <3>1. \A u, v \in Tasks :
                Logging(u) /\ Logging(v) /\ job[u].acct = a /\ job[v].acct = a => u = v
        BY OneLogger DEF Traced, Logging, InAccount
      <3>2. CASE \E u \in Tasks : Logging(u) /\ job[u].acct = a
        <4> PICK u \in Tasks : Logging(u) /\ job[u].acct = a
          BY <3>2
        <4> WITNESS job[u].cur
        <4> QED
          BY <3>1 DEF Unlogged, Logging
      <3>3. CASE ~\E u \in Tasks : Logging(u) /\ job[u].acct = a
        BY <3>3 DEF Unlogged, Logging
      <3> QED
        BY <3>2, <3>3
    <2>2. PICK c : \A u \in Tasks, x \in Currencies : Unlogged(u, a, x) => x = c
      BY <2>1
    <2> WITNESS c
    <2>3. ASSUME NEW x \in Currencies, x # c
          PROVE  Off(a, x)' => Off(a, x)
      <3>1. Settled(a, x) /\ \A u \in Tasks : ~Unlogged(u, a, x)
        BY <2>2, <2>3 DEF Settled
      <3>2. \A u \in Tasks : ~Unlogged(u, a, x)'
        BY <3>1 DEF Faults, Unlogged, Logging
      <3> QED
        BY <3>1, <3>2 DEF Off, Faults
    <2> SUFFICES ASSUME NEW z \in Currencies \X Nat, z \in Losses(a)', z # <<c, 0>>
                 PROVE  z \in Losses(a)
      BY DEF Losses
    <2>4. CASE z[2] = 0
      <3>1. z[1] \in Currencies /\ z[1] # c /\ Off(a, z[1])'
        BY <2>4 DEF Losses
      <3> QED
        BY <2>3, <2>4, <3>1 DEF Losses
    <2>5. CASE z[2] # 0
      BY <2>5 DEF Losses, Faults, ChainAt
    <2> QED
      BY <2>4, <2>5
  <1>3. ASSUME NEW a \in Accounts
        PROVE  IsFiniteSet(Losses(a)') /\ Cardinality(Losses(a)') <= faults'
    <2>1. PICK c : Losses(a)' \subseteq Losses(a) \cup {<<c, 0>>}
      BY <1>2
    <2>2. IsFiniteSet(Losses(a)) /\ Cardinality(Losses(a)) <= faults
      BY DEF Traced, Counted
    <2> HIDE DEF Losses
    <2>3. IsFiniteSet(Losses(a)') /\ Cardinality(Losses(a)') <= Cardinality(Losses(a)) + 1
      BY <2>1, <2>2, OneMore
    <2>4. /\ Cardinality(Losses(a)) \in Nat /\ Cardinality(Losses(a)') \in Nat
          /\ faults \in Nat /\ faults' = faults + 1
      BY <2>2, <2>3, FS_CardinalityType DEF Faults, Traced, Locked, TypeOK
    <2> QED
      BY <2>2, <2>3, <2>4
  <1> QED
    BY <1>1, <1>3 DEF Counted

LEMMA QuietCounted ==
    ASSUME Traced, Quiet, faults' = faults
    PROVE  Shown' /\ Counted'
  <1>1. Shown'
    BY DEF Traced, Shown, Quiet
  <1>2. \A a \in Accounts, c \in Currencies : Off(a, c)' <=> Off(a, c)
    <2> SUFFICES ASSUME NEW a \in Accounts, NEW c \in Currencies
                 PROVE  Off(a, c)' <=> Off(a, c)
      OBVIOUS
    <2>1. \A u \in Tasks : /\ Unlogged(u, a, c)' <=> Unlogged(u, a, c)
                           /\ Unlogged(u, a, c) => job'[u].line = job[u].line
      BY DEF Quiet, Unlogged, Logging
    <2> QED
      BY <2>1 DEF Off, Settled, Quiet
  <1>3. \A a \in Accounts : Losses(a)' = Losses(a)
    BY <1>2 DEF Losses, Quiet, ChainAt
  <1> QED
    BY <1>1, <1>3 DEF Traced, Counted

LEMMA SaveCounted ==
    ASSUME Traced, NEW t \in Tasks, NEW c \in Currencies, NEW r \in Row, NEW d \in Int,
           NEW label \in {"line", "setline"}, SavesRow(t, c, r, d, label), faults' = faults
    PROVE  Shown' /\ Counted'
  <1> PICK a \in Accounts : a = job[t].acct
    BY DEF Traced, Locked, TypeOK, Job
  <1>1. /\ rows[a][c] \in Seq(Row)
        /\ rows'[a][c] = Saved(rows[a][c], rows[a][c], r)
        /\ \A b \in Accounts, x \in Currencies :
                (b # a \/ x # c) => rows'[b][x] = rows[b][x]
    BY SaveEffect DEF Traced
  <1>2. Entity(rows'[a][c]) = r
    BY <1>1, SavedOverItself DEF Traced, NoDuplicateRow
  <1>3. /\ InAccount(t) /\ ~Logging(t) /\ log' = log
        /\ r.amount = Entity(rows[a][c]).amount + d
    BY DEF SavesRow, InAccount, Logging
  <1>4. \A u \in Tasks, x \in Currencies : ~Unlogged(u, a, x)
    <2>1. ASSUME NEW u \in Tasks, NEW x \in Currencies, Unlogged(u, a, x)
          PROVE  FALSE
      <3>1. InAccount(u) /\ Logging(u) /\ job[u].acct = a
        BY <2>1 DEF Unlogged, InAccount, Logging
      <3> QED
        BY <1>3, <3>1, OneLogger DEF Traced
    <2> QED
      BY <2>1
  <1>5. /\ pc'[t] = label /\ job'[t].acct = a /\ job'[t].cur = c
        /\ job'[t].line.amount = d /\ job'[t].line.total = r.amount
        /\ \A u \in Tasks \ {t} : pc'[u] = pc[u] /\ job'[u] = job[u]
    BY DEF SavesRow, SaveRow, Goto, Traced, Locked, TypeOK, Job
  <1>6. Shown'
    <2>1. ASSUME NEW u \in Tasks, Logging(u)'
          PROVE  job'[u].line.total = Entity(rows'[job'[u].acct][job'[u].cur]).amount
      <3>1. CASE u = t
        BY <1>2, <1>5, <3>1
      <3>2. CASE u # t
        <4>1. Logging(u) /\ job'[u] = job[u] /\ InAccount(u)
          BY <1>5, <2>1, <3>2 DEF Logging, InAccount
        <4>2. job[u].acct # a
          BY <1>3, <3>2, <4>1, OneLogger DEF Traced
        <4>3. job[u].acct \in Accounts /\ job[u].cur \in Currencies
          BY DEF Traced, Locked, TypeOK, Job
        <4> QED
          BY <1>1, <4>1, <4>2, <4>3 DEF Traced, Shown
      <3> QED
        BY <3>1, <3>2
    <2> QED
      BY <2>1 DEF Shown
  <1>7. ASSUME NEW b \in Accounts, NEW x \in Currencies
        PROVE  Off(b, x)' <=> Off(b, x)
    <2>1. CASE b = a /\ x = c
      <3>1. \A u \in Tasks : Unlogged(u, a, c)' <=> u = t
        BY <1>4, <1>5, <1>3 DEF Unlogged
      <3>2. Off(a, c) <=> Entity(rows[a][c]).amount # LastTotal(log[a][c])
        BY <1>4 DEF Off, Settled
      <3>3. Off(a, c)' <=> r.amount # LastTotal(log[a][c]) + d
        BY <1>3, <1>5, <3>1 DEF Off, Settled
      <3>4. LastTotal(log[a][c]) \in Int /\ Entity(rows[a][c]).amount \in Int
        <4>1. log[a][c] \in Seq(Line) /\ [amount |-> 0, total |-> 0] \in Line
          BY <1>1 DEF Traced, Locked, TypeOK, Line
        <4>2. Entity(rows[a][c]) \in Row
          BY <1>1, EntityRow
        <4> QED
          BY <4>1, <4>2, LastOfAppend DEF Row
      <3>5. \A e, m \in Int : e + d # m + d <=> e # m
        OBVIOUS
      <3>6. Off(a, c)' <=> Off(a, c)
        BY <1>3, <3>2, <3>3, <3>4, <3>5
      <3> QED
        BY <2>1, <3>6
    <2>2. CASE b # a \/ x # c
      <3>1. \A u \in Tasks : /\ Unlogged(u, b, x)' <=> Unlogged(u, b, x)
                             /\ Unlogged(u, b, x) => job'[u] = job[u]
        BY <1>3, <1>5, <2>2 DEF Unlogged, Logging
      <3>2. rows'[b][x] = rows[b][x] /\ log' = log
        BY <1>1, <1>3, <2>2
      <3> QED
        BY <3>1, <3>2 DEF Off, Settled
    <2> QED
      BY <2>1, <2>2
  <1>8. \A b \in Accounts : Losses(b)' = Losses(b)
    BY <1>3, <1>7 DEF Losses, ChainAt
  <1> QED
    BY <1>6, <1>8 DEF Traced, Counted

LEMMA LineCounted ==
    ASSUME Traced, NEW t \in Tasks, LogsLine(t), faults' = faults
    PROVE  Shown' /\ Counted'
  <1> PICK a \in Accounts, c \in Currencies, l \in Line :
           a = job[t].acct /\ c = job[t].cur /\ l = job[t].line
    BY DEF Traced, Locked, TypeOK, Job
  <1>1. log[a][c] \in Seq(Line)
    BY DEF Traced, Locked, TypeOK
  <1>2. /\ log'[a][c] = Append(log[a][c], l)
        /\ \A b \in Accounts, x \in Currencies :
                (b # a \/ x # c) => log'[b][x] = log[b][x]
    BY <1>1 DEF LogsLine, AppendLine, Traced, Locked, TypeOK
  <1>3. l.total = Entity(rows[a][c]).amount
    BY DEF LogsLine, Traced, Shown
  <1>4. InAccount(t) /\ Logging(t) /\ rows' = rows /\ ~Logging(t)'
        /\ \A u \in Tasks \ {t} : pc'[u] = pc[u] /\ job'[u] = job[u]
    BY DEF LogsLine, Logging, InAccount
  <1>5. LET longer == Append(log[a][c], l)
             n      == Len(log[a][c])
         IN  /\ LastTotal(longer) = l.total /\ n \in Nat /\ Len(longer) = n + 1
             /\ \A i \in 1..n : ChainAt(longer, i) <=> ChainAt(log[a][c], i)
             /\ ChainAt(longer, n + 1) <=> l.total = LastTotal(log[a][c]) + l.amount
    BY <1>1, LastOfAppend, AppendChains
  <1>6. log'[a][c] = Append(log[a][c], l)
    BY <1>2
  <1>7. \A u \in Tasks \ {t} : Logging(u) => job[u].acct # a
    BY <1>4, OneLogger DEF Traced, InAccount, Logging
  <1>8. Shown'
    BY <1>4 DEF Traced, Shown, Logging
  <1>9. ~Off(a, c)'
    <2>1. \A u \in Tasks : ~Unlogged(u, a, c)'
      BY <1>4, <1>7 DEF Unlogged, Logging
    <2>2. LastTotal(log'[a][c]) = l.total
      BY <1>5, <1>6
    <2> QED
      BY <1>3, <1>4, <2>1, <2>2 DEF Off
  <1>10. Off(a, c) <=> l.total # LastTotal(log[a][c]) + l.amount
    <2>1. \A u \in Tasks : Unlogged(u, a, c) <=> u = t
      BY <1>4, <1>7 DEF Unlogged, Logging
    <2> QED
      BY <2>1 DEF Off, Settled
  <1>11. ASSUME NEW b \in Accounts, NEW x \in Currencies, b # a \/ x # c
        PROVE  Off(b, x)' <=> Off(b, x)
    <2>1. \A u \in Tasks : /\ Unlogged(u, b, x)' <=> Unlogged(u, b, x)
                           /\ Unlogged(u, b, x) => job'[u] = job[u]
      BY <1>4, <1>11 DEF Unlogged, Logging
    <2> QED
      BY <1>2, <1>4, <1>11, <2>1 DEF Off, Settled
  <1> DEFINE n == Len(log[a][c])
             added == <<c, n + 1>>
  <1>12. n \in Nat /\ Len(log'[a][c]) = n + 1
    BY <1>5, <1>6
  <1>13. \A i \in 1..n : ChainAt(log'[a][c], i) <=> ChainAt(log[a][c], i)
    BY <1>5, <1>6
  <1>14. ChainAt(log'[a][c], n + 1) <=> ~Off(a, c)
    BY <1>10, <1>5, <1>6
  <1>15. \A b \in Accounts \ {a} : Losses(b)' = Losses(b)
    BY <1>2, <1>11 DEF Losses, ChainAt
  <1>16. ASSUME NEW z \in Losses(a)'
         PROVE  /\ z \in Losses(a) \/ (Off(a, c) /\ z = added)
                /\ z # <<c, 0>>
    <2>1. z \in Currencies \X Nat /\ z = <<z[1], z[2]>>
      BY DEF Losses
    <2>2. CASE z[1] # c
      <3>1. /\ z[1] \in Currencies /\ log'[a][z[1]] = log[a][z[1]]
            /\ Off(a, z[1])' <=> Off(a, z[1])
        BY <1>2, <1>11, <2>1, <2>2
      <3>2. z \in Losses(a)
        BY <2>1, <3>1 DEF Losses, ChainAt
      <3> QED
        BY <2>2, <3>2
    <2>3. CASE z[1] = c
      <3>1. z[2] # 0
        BY <1>9, <2>3 DEF Losses
      <3>2. z[2] \in 1..(n + 1) /\ ~ChainAt(log'[a][c], z[2])
        BY <1>12, <2>3, <3>1 DEF Losses
      <3>3. CASE z[2] = n + 1
        <4>1. Off(a, c) /\ z = added
          BY <1>14, <2>1, <2>3, <3>2, <3>3
        <4> QED
          BY <3>1, <4>1
      <3>4. CASE z[2] \in 1..n
        <4>1. ~ChainAt(log[a][c], z[2])
          BY <1>13, <3>2, <3>4
        <4>2. z \in Losses(a)
          BY <2>1, <2>3, <3>1, <3>4, <4>1 DEF Losses
        <4>3. z # <<c, 0>>
          BY <2>1, <3>1
        <4> QED
          BY <4>2, <4>3
      <3>5. \A m \in Nat : \A i \in 1..(m + 1) : i = m + 1 \/ i \in 1..m
        OBVIOUS
      <3>6. z[2] = n + 1 \/ z[2] \in 1..n
        BY <1>12, <3>2, <3>5
      <3> QED
        BY <3>3, <3>4, <3>6
    <2> QED
      BY <2>2, <2>3
  <1>17. Off(a, c) => <<c, 0>> \in Losses(a)
    BY <1>1 DEF Losses
  <1> HIDE DEF Losses, added
  <1>18. IsFiniteSet(Losses(a)) /\ Cardinality(Losses(a)) <= faults
    BY <1>1 DEF Traced, Counted
  <1>19. IsFiniteSet(Losses(a)') /\ Cardinality(Losses(a)') <= faults
    <2>1. CASE Off(a, c)
      <3>1. Losses(a)' \subseteq (Losses(a) \ {<<c, 0>>}) \cup {added}
        BY <1>16
      <3>2. IsFiniteSet(Losses(a)') /\ Cardinality(Losses(a)') <= Cardinality(Losses(a))
        BY <1>17, <1>18, <2>1, <3>1, OneForAnother
      <3> QED
        BY <1>18, <3>2, FS_CardinalityType DEF Traced, Locked, TypeOK
    <2>2. CASE ~Off(a, c)
      <3>1. Losses(a)' \subseteq Losses(a)
        BY <1>16, <2>2
      <3>2. IsFiniteSet(Losses(a)') /\ Cardinality(Losses(a)') <= Cardinality(Losses(a))
        BY <1>18, <3>1, FS_Subset
      <3> QED
        BY <1>18, <3>2, FS_CardinalityType DEF Traced, Locked, TypeOK
    <2> QED
      BY <2>1, <2>2
  <1>20. Counted'
    <2>1. ASSUME NEW b \in Accounts
          PROVE  IsFiniteSet(Losses(b)') /\ Cardinality(Losses(b)') <= faults'
      <3>1. CASE b = a
        BY <1>19, <3>1
      <3>2. CASE b # a
        BY <1>15, <3>2 DEF Traced, Counted
      <3> QED
        BY <3>1, <3>2
    <2> QED
      BY <2>1 DEF Counted
  <1> QED
    BY <1>8, <1>20

\* Faults cost the log of an account one line each at the most: a line that does not
\* continue the chain, or the last one missing, under any crash and refused statement,
\* for any number of accounts, currencies and callers.
THEOREM FewGaps == FaultySpec => []GapsBounded
  <1>1. Init => Traced
    <2> SUFFICES ASSUME Init PROVE Traced
      OBVIOUS
    <2>1. NoDuplicateRow /\ Shown
      BY DEF Init, NoDuplicateRow, Shown, Logging
    <2>2. \A a \in Accounts : Losses(a) = {}
      BY DEF Init, Losses, Off, Unlogged, Settled, Entity, ZeroRow, LastTotal
    <2>3. IsFiniteSet({}) /\ Cardinality({}) = 0 /\ faults = 0
      BY FS_EmptySet DEF Init
    <2>4. Counted
      <3> HIDE DEF Losses
      <3> QED
        BY <2>2, <2>3 DEF Counted
    <2> QED
      BY <2>1, <2>4, InitLocked DEF Traced
  <1>2. Traced /\ Locked' /\ NoDuplicateRow' /\ [FaultyNext]_vars => Traced'
    <2> SUFFICES ASSUME Traced, Locked', NoDuplicateRow', [FaultyNext]_vars
                 PROVE  Shown' /\ Counted'
      BY DEF Traced
    <2>1. CASE Faults
      BY <2>1, FaultsCounted
    <2>2. CASE [Next]_vars /\ faults' = faults
      BY <2>2, StepShape, QuietCounted, SaveCounted, LineCounted DEF Traced
    <2> QED
      BY <2>1, <2>2, FaultShape DEF Traced
  <1>3. Traced => GapsBounded
    <2> SUFFICES ASSUME Traced, NEW a \in Accounts
                 PROVE  Cardinality(UNION {{c} \X Gaps(a, c) : c \in Currencies}) <= faults
      BY DEF GapsBounded
    <2> DEFINE G == UNION {{c} \X Gaps(a, c) : c \in Currencies}
    <2>1. G \subseteq Losses(a)
      BY DEF Losses, Gaps, Off
    <2>2. IsFiniteSet(Losses(a)) /\ Cardinality(Losses(a)) <= faults
      BY DEF Traced, Counted
    <2> HIDE DEF G
    <2>3. /\ Cardinality(G) <= Cardinality(Losses(a)) /\ Cardinality(G) \in Nat
          /\ Cardinality(Losses(a)) \in Nat /\ faults \in Nat
      BY <2>1, <2>2, FS_Subset, FS_CardinalityType DEF Traced, Locked, TypeOK
    <2>4. Cardinality(G) <= faults
      BY <2>2, <2>3
    <2> QED
      BY <2>4 DEF G
  <1> QED
    BY <1>1, <1>2, <1>3, LockedInvariant, OneRow, PTL DEF FaultySpec

-----------------------------------------------------------------------------
(* Without faults the service implements the Ledger.                       *)

\* What a task is about to post or to store is what it was called with.
Inputs ==
    /\ \A t \in Workers : pc[t] \in {"queued", "save"} => job[t].move \in Moves
    /\ \A t \in Checkers : \A c \in job[t].todo : job[t].free[c] \in Free

LEMMA InputsKept ==
    ASSUME Locked, Inputs, [Next]_vars
    PROVE  Inputs'
  <1>1. ASSUME NEW t \in Tasks, NEW l, NEW j, pc' = [pc EXCEPT ![t] = l],
               job' = [job EXCEPT ![t] = j],
               t \in Workers => (l \in {"queued", "save"} => j.move \in Moves),
               t \in Checkers => \A c \in j.todo : j.free[c] \in Free
        PROVE  Inputs'
    <2>1. pc'[t] = l /\ job'[t] = j /\ \A u \in Tasks \ {t} : pc'[u] = pc[u] /\ job'[u] = job[u]
      BY <1>1 DEF Locked, TypeOK
    <2> QED
      BY <1>1, <2>1 DEF Inputs, Tasks
  <1>2. ASSUME NEW t \in Tasks, NEW keys, Leave(t, keys)
        PROVE  Inputs'
    BY <1>1, <1>2 DEF Leave, NoJob
  <1>3. Workers \cap Checkers = {} /\ Workers \subseteq Tasks /\ Checkers \subseteq Tasks
        /\ job \in [Tasks -> Job] /\ pc \in [Tasks -> {"idle"} \cup WorkerPCs \cup CheckerPCs]
    BY BalanceAssumption DEF Tasks, Locked, TypeOK
  <1>4. ASSUME NEW t \in Workers, Income(t)
        PROVE  Inputs'
    <2>1. PICK a \in Accounts, c \in Currencies, d \in Moves, x \in Contexts :
            job' = [job EXCEPT ![t] = [NoJob EXCEPT !.acct = a, !.cur = c, !.move = d, !.ctx = x]]
      BY <1>4 DEF Income
    <2>2. [NoJob EXCEPT !.acct = a, !.cur = c, !.move = d, !.ctx = x].move = d
      BY DEF NoJob
    <2> HIDE DEF Moves
    <2> QED
      BY <1>1, <1>3, <1>4, <2>1, <2>2 DEF Income, Goto
  <1>5. ASSUME NEW t \in Workers, GetBalance(t)
        PROVE  Inputs'
    <2>1. /\ job' = [job EXCEPT ![t] = [job[t] EXCEPT !.seen = rows[job[t].acct]]]
          /\ [job[t] EXCEPT !.seen = rows[job[t].acct]].move = job[t].move
          /\ job[t].move \in Moves
      BY <1>3, <1>5 DEF GetBalance, Inputs, Job
    <2> QED
      BY <1>1, <1>3, <1>5, <2>1 DEF GetBalance, Goto
  <1>6. ASSUME NEW t \in Tasks, NEW c, NEW r, NEW d, NEW l \in {"line", "setline"},
               SaveRow(t, job[t].acct, c, r, d), Goto(t, l)
        PROVE  Inputs'
    <2> DEFINE j == [job[t] EXCEPT !.cur = c, !.todo = job[t].todo \ {c},
                                   !.line = [amount |-> d, total |-> r.amount]]
    <2>1. job' = [job EXCEPT ![t] = j] /\ j.todo \subseteq job[t].todo /\ j.free = job[t].free
      BY <1>3, <1>6 DEF SaveRow, Job
    <2> HIDE DEF j
    <2> QED
      BY <1>1, <1>6, <2>1 DEF Goto, Inputs
  <1>7. ASSUME NEW t \in Workers, SaveBalance(t) \/ SaveLog(t)
        PROVE  Inputs'
    BY <1>2, <1>3, <1>6, <1>7 DEF SaveBalance, SaveLog
  <1>8. ASSUME NEW t \in Checkers, CheckBalance(t)
        PROVE  Inputs'
    <2>1. PICK a \in Accounts : job' = [job EXCEPT ![t] = [NoJob EXCEPT !.acct = a]]
      BY <1>8 DEF CheckBalance
    <2>2. [NoJob EXCEPT !.acct = a].todo = {}
      BY DEF NoJob
    <2> QED
      BY <1>1, <1>3, <1>8, <2>1, <2>2 DEF CheckBalance, Goto
  <1>9. ASSUME NEW t \in Checkers, FetchBalances(t)
        PROVE  Inputs'
    <2> PICK reported \in SUBSET Currencies : \E free \in [reported -> Free] :
            job' = [job EXCEPT ![t].todo = reported,
                               ![t].free =
                                   [c \in Currencies |-> IF c \in reported THEN free[c] ELSE 0]]
      BY <1>9 DEF FetchBalances
    <2>1. PICK free \in [reported -> Free] :
            job' = [job EXCEPT ![t].todo = reported,
                               ![t].free =
                                   [c \in Currencies |-> IF c \in reported THEN free[c] ELSE 0]]
      OBVIOUS
    <2> DEFINE f == [c \in Currencies |-> IF c \in reported THEN free[c] ELSE 0]
               j == [job[t] EXCEPT !.todo = reported, !.free = f]
    <2>2. \A c \in reported : f[c] \in Free
      OBVIOUS
    <2> HIDE DEF f
    <2>3. job' = [job EXCEPT ![t].todo = reported, ![t].free = f]
      BY <2>1 DEF f
    <2>4. j.todo = reported /\ j.free = f
      BY <1>3 DEF Job
    <2>5. job' = [job EXCEPT ![t] = j]
      BY <1>3, <2>3
    <2> HIDE DEF j
    <2> QED
      BY <1>1, <1>3, <1>9, <2>2, <2>4, <2>5 DEF FetchBalances, Goto
  <1>10. ASSUME NEW t \in Checkers, FindRows(t)
         PROVE  Inputs'
    <2> DEFINE j == [job[t] EXCEPT !.seen = rows[job[t].acct]]
    <2>1. job' = [job EXCEPT ![t] = j] /\ j.todo = job[t].todo /\ j.free = job[t].free
      BY <1>3, <1>10 DEF FindRows, Job
    <2> HIDE DEF j
    <2> QED
      BY <1>1, <1>3, <1>10, <2>1 DEF FindRows, Goto, Inputs
  <1>11. ASSUME NEW t \in Checkers, SetLine(t)
         PROVE  Inputs'
    <2>1. job' = job /\ \A u \in Workers : pc'[u] = pc[u]
      BY <1>3, <1>11 DEF SetLine, Goto
    <2> QED
      BY <2>1 DEF Inputs
  <1>12. ASSUME NEW t \in Checkers, FetchFails(t) \/ SetRow(t) \/ SetDone(t)
         PROVE  Inputs'
    BY <1>2, <1>3, <1>6, <1>12 DEF FetchFails, SetRow, SetDone
  <1>13. CASE Done \/ UNCHANGED vars
    BY <1>13 DEF Done, vars, Inputs
  <1> QED
    BY <1>4, <1>5, <1>7, <1>8, <1>9, <1>10, <1>11, <1>12, <1>13
       DEF Next, WorkerStep, CheckerStep

Tabular(F) == F = [x \in Accounts |-> [y \in Currencies |-> F[x][y]]]

Put(F, a, c, v) == [F EXCEPT ![a][c] = v]

Alike(F, G, a, c) ==
    \A x \in Accounts, y \in Currencies : (x # a \/ y # c) => G[x][y] = F[x][y]

\* Tables by account and currency that differ at one place.
LEMMA OnePlace ==
    \A F, G, v : \A a \in Accounts, c \in Currencies :
        Tabular(F) /\ Tabular(G) /\ G[a][c] = v /\ Alike(F, G, a, c) => G = Put(F, a, c, v)
  <1> SUFFICES ASSUME NEW F, NEW G, NEW v, NEW a \in Accounts, NEW c \in Currencies,
                      Tabular(F), Tabular(G), G[a][c] = v, Alike(F, G, a, c)
               PROVE  G = Put(F, a, c, v)
    OBVIOUS
  <1> DEFINE H == [F EXCEPT ![a][c] = v]
  <1>1. \A x \in Accounts, y \in Currencies : H[x][y] = IF x = a /\ y = c THEN v ELSE F[x][y]
    BY DEF Tabular
  <1>2. H = [x \in Accounts |-> [y \in Currencies |-> H[x][y]]]
    <2>1. DOMAIN F = Accounts /\ \A x \in Accounts : F[x] = [y \in Currencies |-> F[x][y]]
      BY DEF Tabular
    <2>2. H[a] = [F[a] EXCEPT ![c] = v] /\ \A x \in Accounts \ {a} : H[x] = F[x]
      BY <2>1
    <2>3. H[a] = [y \in Currencies |-> H[a][y]]
      BY <2>1, <2>2
    <2>4. H = [x \in Accounts |-> H[x]]
      BY <2>1
    <2> HIDE DEF H
    <2>5. \A x \in Accounts : H[x] = [y \in Currencies |-> H[x][y]]
      <3>1. ASSUME NEW x \in Accounts \ {a}
            PROVE  H[x] = [y \in Currencies |-> H[x][y]]
        BY <2>1, <2>2
      <3> QED
        BY <2>3, <3>1
    <2> QED
      BY <2>4, <2>5
  <1> HIDE DEF H
  <1>3. \A x \in Accounts, y \in Currencies : H[x][y] = G[x][y]
    BY <1>1 DEF Alike
  <1>4. H = G
    BY <1>2, <1>3 DEF Tabular
  <1> QED
    BY <1>4 DEF H, Put

LEMMA SamePlaces ==
    ASSUME NEW F, NEW G,
           Tabular(F), Tabular(G),
           \A x \in Accounts, y \in Currencies : G[x][y] = F[x][y]
    PROVE  G = F
  BY DEF Tabular

\* The log of a currency as shown, with the line about to be logged.
LEMMA ShownLog ==
    ASSUME Locked, NEW a \in Accounts, NEW c \in Currencies
    PROVE  /\ Settled(a, c) => ShownLines[a][c] = log[a][c]
           /\ \A t \in Tasks : Unlogged(t, a, c) =>
                 ~Settled(a, c) /\ ShownLines[a][c] = Append(log[a][c], job[t].line)
  <1>1. ASSUME NEW t \in Tasks, Unlogged(t, a, c)
        PROVE  ~Settled(a, c) /\ ShownLines[a][c] = Append(log[a][c], job[t].line)
    <2>1. \A u \in Tasks : Unlogged(u, a, c) => u = t
      BY <1>1, OneLogger DEF Unlogged, InAccount
    <2>2. (CHOOSE u \in Tasks : Unlogged(u, a, c)) = t
      BY <1>1, <2>1
    <2> QED
      BY <1>1, <2>2 DEF ShownLines, Settled
  <1> QED
    BY <1>1 DEF ShownLines

LEMMA ShownLogNext ==
    ASSUME Locked', NEW a \in Accounts, NEW c \in Currencies
    PROVE  /\ Settled(a, c)' => ShownLines'[a][c] = log'[a][c]
           /\ \A t \in Tasks : Unlogged(t, a, c)' =>
                 ~Settled(a, c)' /\ ShownLines'[a][c] = Append(log'[a][c], job'[t].line)
  <1>1. ASSUME NEW t \in Tasks, Unlogged(t, a, c)'
        PROVE  ~Settled(a, c)' /\ ShownLines'[a][c] = Append(log'[a][c], job'[t].line)
    <2>1. \A u \in Tasks : Unlogged(u, a, c)' => u = t
      BY <1>1, HeadIsUnique DEF Unlogged, InAccount, Locked, Holding, Holds
    <2>2. (CHOOSE u \in Tasks : Unlogged(u, a, c)') = t
      BY <1>1, <2>1
    <2> QED
      BY <1>1, <2>2 DEF ShownLines, Settled
  <1> QED
    BY <1>1 DEF ShownLines

LEMMA ShownTables ==
    /\ Tabular(ShownBook) /\ Tabular(ShownLines)
    /\ Tabular(ShownBook') /\ Tabular(ShownLines')
  BY DEF ShownBook, ShownLines, Tabular

LEMMA InitLedger == Init => Book!Init
  <1> SUFFICES ASSUME Init PROVE Book!Init
    OBVIOUS
  <1>1. \A a \in Accounts, c \in Currencies : rows[a][c] = <<>> /\ log[a][c] = <<>> /\ Settled(a, c)
    BY DEF Init, Settled, Unlogged
  <1>2. ShownBook = [a \in Accounts |-> [c \in Currencies |-> Book!EntryOf(ZeroRow)]]
    BY <1>1 DEF ShownBook, Entity, Book!EntryOf
  <1>3. ShownLines = [a \in Accounts |-> [c \in Currencies |-> <<>>]]
    BY <1>1 DEF ShownLines
  <1> QED
    BY <1>2, <1>3 DEF Book!Init, Book!ZeroRow, ZeroRow

\* A step that leaves the tables alone, and the line that was shown already, change nothing.
LEMMA QuietLedger ==
    ASSUME Locked, Locked', Quiet
    PROVE  UNCHANGED <<ShownBook, ShownLines>>
  <1>1. ShownBook' = ShownBook
    BY DEF Quiet, ShownBook
  <1>2. ASSUME NEW a \in Accounts, NEW c \in Currencies
        PROVE  ShownLines'[a][c] = ShownLines[a][c]
    <2>1. \A u \in Tasks : /\ Unlogged(u, a, c)' <=> Unlogged(u, a, c)
                           /\ Unlogged(u, a, c) => job'[u].line = job[u].line
      BY DEF Quiet, Unlogged, Logging
    <2>2. CASE Settled(a, c)
      BY <2>1, <2>2, ShownLog, ShownLogNext DEF Settled, Quiet
    <2>3. CASE ~Settled(a, c)
      <3>1. PICK u \in Tasks : Unlogged(u, a, c)
        BY <2>3 DEF Settled
      <3>2. Unlogged(u, a, c)' /\ job'[u].line = job[u].line /\ log'[a][c] = log[a][c]
        BY <2>1, <3>1 DEF Quiet
      <3>3. ShownLines'[a][c] = Append(log'[a][c], job'[u].line)
        BY <3>2, ShownLogNext
      <3>4. ShownLines[a][c] = Append(log[a][c], job[u].line)
        BY <3>1, ShownLog
      <3> QED
        BY <3>2, <3>3, <3>4
    <2> QED
      BY <2>2, <2>3
  <1>3. ShownLines' = ShownLines
    BY <1>2, SamePlaces, ShownTables
  <1> QED
    BY <1>1, <1>3

LEMMA LineLedger ==
    ASSUME Locked, Locked', NEW t \in Tasks, LogsLine(t)
    PROVE  UNCHANGED <<ShownBook, ShownLines>>
  <1> PICK a \in Accounts, c \in Currencies, l \in Line :
           a = job[t].acct /\ c = job[t].cur /\ l = job[t].line
    BY DEF Locked, TypeOK, Job
  <1>1. ShownBook' = ShownBook
    BY DEF LogsLine, ShownBook
  <1>2. /\ log'[a][c] = Append(log[a][c], l)
        /\ \A b \in Accounts, x \in Currencies : (b # a \/ x # c) => log'[b][x] = log[b][x]
    BY DEF LogsLine, AppendLine, Locked, TypeOK
  <1>3. InAccount(t) /\ Logging(t) /\ ~Logging(t)'
        /\ \A u \in Tasks \ {t} : pc'[u] = pc[u] /\ job'[u] = job[u]
    BY DEF LogsLine, Logging, InAccount
  <1>4. \A u \in Tasks \ {t} : Logging(u) => job[u].acct # a
    BY <1>3, OneLogger DEF InAccount, Logging
  <1>5. ASSUME NEW b \in Accounts, NEW x \in Currencies
        PROVE  ShownLines'[b][x] = ShownLines[b][x]
    <2>1. CASE b = a /\ x = c
      <3>1. Unlogged(t, a, c) /\ Settled(a, c)'
        BY <1>3, <1>4 DEF Settled, Unlogged, Logging
      <3> QED
        BY <1>2, <2>1, <3>1, ShownLog, ShownLogNext
    <2>2. CASE b # a \/ x # c
      <3>1. \A u \in Tasks : /\ Unlogged(u, b, x)' <=> Unlogged(u, b, x)
                             /\ Unlogged(u, b, x) => job'[u].line = job[u].line
        BY <1>3, <2>2 DEF Unlogged, Logging
      <3>2. CASE Settled(b, x)
        <4>1. Settled(b, x)' /\ log'[b][x] = log[b][x]
          BY <1>2, <2>2, <3>1, <3>2 DEF Settled
        <4>2. ShownLines'[b][x] = log'[b][x] /\ ShownLines[b][x] = log[b][x]
          BY <3>2, <4>1, ShownLog, ShownLogNext
        <4> QED
          BY <4>1, <4>2
      <3>3. CASE ~Settled(b, x)
        <4>1. PICK u \in Tasks : Unlogged(u, b, x)
          BY <3>3 DEF Settled
        <4>2. Unlogged(u, b, x)' /\ job'[u].line = job[u].line /\ log'[b][x] = log[b][x]
          BY <1>2, <2>2, <3>1, <4>1
        <4>3. ShownLines'[b][x] = Append(log'[b][x], job'[u].line)
          BY <4>2, ShownLogNext
        <4>4. ShownLines[b][x] = Append(log[b][x], job[u].line)
          BY <4>1, ShownLog
        <4> QED
          BY <4>2, <4>3, <4>4
      <3> QED
        BY <3>2, <3>3
    <2> QED
      BY <2>1, <2>2
  <1>6. ShownLines' = ShownLines
    BY <1>5, SamePlaces, ShownTables
  <1> QED
    BY <1>1, <1>6

\* A save is a movement of the book, a post or a reset.
LEMMA SaveLedger ==
    ASSUME Locked, Locked', NoDuplicateRow, Inputs, NEW t \in Tasks, NEW c \in Currencies,
           NEW r \in Row, NEW d \in Int, NEW label \in {"line", "setline"},
           SavesRow(t, c, r, d, label)
    PROVE  Book!Next
  <1> PICK a \in Accounts : a = job[t].acct
    BY DEF Locked, TypeOK, Job
  <1> DEFINE old == Entity(rows[a][c])
             l   == [amount |-> d, total |-> r.amount]
  <1>1. /\ rows[a][c] \in Seq(Row)
        /\ rows'[a][c] = Saved(rows[a][c], rows[a][c], r)
        /\ \A b \in Accounts, x \in Currencies :
                (b # a \/ x # c) => rows'[b][x] = rows[b][x]
    BY SaveEffect
  <1>2. Entity(rows'[a][c]) = r
    BY <1>1, SavedOverItself DEF NoDuplicateRow
  <1>3. /\ InAccount(t) /\ ~Logging(t) /\ log' = log
        /\ r.amount = old.amount + d /\ Movement(t, c, r, d)
    BY DEF SavesRow, InAccount, Logging
  <1>4. \A u \in Tasks, x \in Currencies : ~Unlogged(u, a, x)
    <2>1. ASSUME NEW u \in Tasks, NEW x \in Currencies, Unlogged(u, a, x)
          PROVE  FALSE
      <3>1. InAccount(u) /\ Logging(u) /\ job[u].acct = a
        BY <2>1 DEF Unlogged, InAccount, Logging
      <3> QED
        BY <1>3, <3>1, OneLogger
    <2> QED
      BY <2>1
  <1>5. /\ pc'[t] = label /\ job'[t].acct = a /\ job'[t].cur = c /\ job'[t].line = l
        /\ \A u \in Tasks \ {t} : pc'[u] = pc[u] /\ job'[u] = job[u]
    BY DEF SavesRow, SaveRow, Goto, Locked, TypeOK, Job
  <1> HIDE DEF l
  <1>6. ShownLines' = [ShownLines EXCEPT ![a][c] = Append(ShownLines[a][c], l)]
    <2>1. ShownLines[a][c] = log[a][c] /\ ShownLines'[a][c] = Append(log[a][c], l)
      <3>1. Settled(a, c) /\ Unlogged(t, a, c)'
        BY <1>3, <1>4, <1>5 DEF Settled, Unlogged, Logging, SavesRow
      <3>2. log' = log /\ job'[t].line = l
        BY <1>3, <1>5
      <3>3. ShownLines[a][c] = log[a][c]
        BY <3>1, ShownLog
      <3>4. ShownLines'[a][c] = Append(log'[a][c], job'[t].line)
        BY <3>1, ShownLogNext
      <3> QED
        BY <3>2, <3>3, <3>4
    <2>2. ASSUME NEW b \in Accounts, NEW x \in Currencies, b # a \/ x # c
          PROVE  ShownLines'[b][x] = ShownLines[b][x]
      <3>1. \A u \in Tasks : /\ Unlogged(u, b, x)' <=> Unlogged(u, b, x)
                             /\ Unlogged(u, b, x) => job'[u].line = job[u].line
        BY <1>3, <1>5, <2>2 DEF Unlogged, Logging
      <3>2. CASE Settled(b, x)
        <4>1. Settled(b, x)'
          BY <3>1, <3>2 DEF Settled
        <4>2. ShownLines'[b][x] = log'[b][x] /\ ShownLines[b][x] = log[b][x]
          BY <3>2, <4>1, ShownLog, ShownLogNext
        <4> QED
          BY <1>3, <4>2
      <3>3. CASE ~Settled(b, x)
        <4>1. PICK u \in Tasks : Unlogged(u, b, x)
          BY <3>3 DEF Settled
        <4>2. Unlogged(u, b, x)' /\ job'[u].line = job[u].line
          BY <3>1, <4>1
        <4>3. ShownLines'[b][x] = Append(log'[b][x], job'[u].line)
          BY <4>2, ShownLogNext
        <4>4. ShownLines[b][x] = Append(log[b][x], job[u].line)
          BY <4>1, ShownLog
        <4> QED
          BY <1>3, <4>2, <4>3, <4>4
      <3> QED
        BY <3>2, <3>3
    <2>3. ShownLines'[a][c] = Append(ShownLines[a][c], l)
      BY <2>1
    <2>4. Alike(ShownLines, ShownLines', a, c)
      BY <2>2 DEF Alike
    <2> PICK F, G, s : F = ShownLines /\ G = ShownLines' /\ s = Append(ShownLines[a][c], l)
      OBVIOUS
    <2>5. Tabular(F) /\ Tabular(G) /\ Alike(F, G, a, c) /\ G[a][c] = s
      BY <2>3, <2>4, ShownTables
    <2>6. G = Put(F, a, c, s)
      BY <2>5, OnePlace, ZenonT(40)
    <2> QED
      BY <2>6 DEF Put
  <1>7. /\ ShownBook[a][c] = Book!EntryOf(old) /\ ShownBook'[a][c] = Book!EntryOf(r)
        /\ \A b \in Accounts, x \in Currencies :
                (b # a \/ x # c) => ShownBook'[b][x] = ShownBook[b][x]
    BY <1>1, <1>2 DEF ShownBook, Book!EntryOf
  <1>8. ShownBook' = [ShownBook EXCEPT ![a][c] = Book!EntryOf(r)]
    <2>1. Alike(ShownBook, ShownBook', a, c)
      BY <1>7 DEF Alike
    <2> PICK F, G, e : F = ShownBook /\ G = ShownBook' /\ e = Book!EntryOf(r)
      OBVIOUS
    <2>2. Tabular(F) /\ Tabular(G) /\ Alike(F, G, a, c) /\ G[a][c] = e
      BY <1>7, <2>1, ShownTables
    <2>3. G = Put(F, a, c, e)
      BY <2>2, OnePlace, ZenonT(40)
    <2> QED
      BY <2>3 DEF Put
  <1>9. old \in Row /\ job[t] \in Job
    BY <1>1, EntityRow DEF Locked, TypeOK
  <1>10. CASE t \in Workers
    <2>1. PICK x \in Contexts : r = Credit(old, d, x)
      BY <1>3, <1>10, BalanceAssumption DEF Movement
    <2>2. d \in Moves
      BY <1>3, <1>10, BalanceAssumption DEF Movement, Inputs, SavesRow, Locked, TypeOK, WorkerPCs
    <2> DEFINE was == Book!EntryOf(old)
    <2>3. Book!EntryOf(r) =
            [amount    |-> was.amount + d,
             in_orders |-> was.in_orders + (IF x = "in_orders" THEN d ELSE 0),
             for_fee   |-> was.for_fee + (IF x = "for_fee" THEN d ELSE 0)]
      BY <1>9, <2>1 DEF Credit, Book!EntryOf, Row
    <2>4. l = [amount |-> d, total |-> was.amount + d]
      BY <1>3 DEF l, Book!EntryOf
    <2> HIDE DEF was, old
    <2>5. Book!Post(a, c)
      BY <1>6, <1>7, <1>8, <2>2, <2>3, <2>4
         DEF Book!Post, Book!Record, Book!Contexts, Contexts, was
    <2> QED
      BY <2>5 DEF Book!Next
  <1>11. CASE t \in Checkers
    <2> DEFINE v == job[t].free[c]
    <2>1. c \in job[t].todo /\ d # 0 /\ r = Actualized(old, v)
      BY <1>3, <1>11, BalanceAssumption DEF Movement
    <2>2. v \in Free /\ v \in Int
      BY <1>9, <1>11, <2>1 DEF Inputs, Job
    <2>3. old.amount \in Int /\ r.amount = v
      BY <1>9, <2>1 DEF Row, Actualized
    <2>4. d = v - old.amount /\ v # old.amount
      BY <1>3, <2>1, <2>2, <2>3
    <2> DEFINE was == Book!EntryOf(old)
    <2>5. Book!EntryOf(r) = [was EXCEPT !.amount = v] /\ was.amount = old.amount
      BY <1>9, <2>1 DEF Actualized, Book!EntryOf, Row
    <2>6. l = [amount |-> v - was.amount, total |-> v]
      BY <2>3, <2>4, <2>5 DEF l
    <2>7. ShownBook' = [ShownBook EXCEPT ![a][c].amount = v]
      BY <1>7, <1>8, <2>5
    <2> HIDE DEF was, old, v
    <2>8. Book!Reset(a, c)
      BY <1>6, <1>7, <2>2, <2>4, <2>5, <2>6, <2>7 DEF Book!Reset, Book!Record, was
    <2> QED
      BY <2>8 DEF Book!Next
  <1> QED
    BY <1>10, <1>11 DEF Tasks

\* Without faults BalanceService implements the Ledger, for every number of accounts,
\* currencies and callers: each save of income, outcome or set, with the line its caller
\* has yet to log, is one atomic movement of the book, and every other step, the reads,
\* the waits for the locks and the log itself, leaves the book as it was.
THEOREM LedgerImplemented == Spec => ImplementsLedger
  <1>1. Init => Inputs
    BY BalanceAssumption DEF Init, Inputs, Tasks, NoJob
  <1>2. Locked /\ Inputs /\ [Next]_vars => Inputs'
    BY InputsKept
  <1>3. Locked /\ Locked' /\ NoDuplicateRow /\ Inputs /\ [Next]_vars => [Book!Next]_(Book!vars)
    BY StepShape, QuietLedger, LineLedger, SaveLedger DEF Book!vars
  <1>4. Spec => FaultySpec
    <2>1. [Next]_vars => [FaultyNext]_vars
      BY DEF FaultyNext
    <2> QED
      BY <2>1, PTL DEF Spec, FaultySpec
  <1> QED
    BY <1>1, <1>2, <1>3, <1>4, InitLedger, LockedInvariant, OneRow, PTL
       DEF Spec, ImplementsLedger, Book!Spec
=============================================================================
