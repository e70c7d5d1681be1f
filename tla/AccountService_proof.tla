------------------------- MODULE AccountService_proof -------------------------
(***************************************************************************)
(* Proofs about AccountService, for any number of tasks, keys and objects in *)
(* memory, if there are as many as tasks. Sound carries them: what each task  *)
(* holds at each step, which objects are accounts, and that nobody holds an   *)
(* account whose row is not there. On it rest Disabling, for the shared copy  *)
(* of the cache, and Agree, for the columns where all of it is the row.      *)
(***************************************************************************)
EXTENDS AccountService, FiniteSetTheorems, TLAPS

Labels == {"idle", "find", "fill", "fetched", "react", "markets", "select", "update", "del"}

Job == [kind : Kinds \cup {Null}, key : Keys \cup {Null}, held : Copies \cup {Null},
        seen : Part, columns : SUBSET Columns]

\* The kinds of task that save what they have in hand.
Savers == {"noErrors", "notAllowed", "setUser"}

\* What a task holds at each step.
Shape(l, j) ==
    /\ l \in Labels /\ j \in Job
    /\ l = "idle" => j = NoJob
    /\ l = "markets" => j = [NoJob EXCEPT !.kind = "getApi"]
    /\ l \in {"find", "fill", "react"} => j.kind \in Kinds
    /\ l \in {"fill", "react"} => j.kind # "setUser"
    /\ l = "fetched" => j.kind = "setUser"
    /\ l \in {"find", "fetched"} /\ j.kind = "setUser" => j.key \in Keys
    /\ l \in {"select", "update", "del"} => j.kind \in Savers
    /\ j.held # Null => l = "react" \/ (l = "select" /\ j.kind # "setUser")
    /\ l \in {"fill", "fetched"} => j.seen \in Account \cup {NoAccount}
    /\ l \in {"react", "select"} /\ j.held = Null => j.seen \in Account
    /\ l = "update" /\ "connected" \in j.columns => j.seen.connected \in BOOLEAN
    /\ l = "update" /\ "error" \in j.columns => j.seen.error \in BOOLEAN

Shaped == \A t \in Tasks : Shape(pc[t], job[t])

\* At label l a task with the variables j works on an account that is in the table.
OnRow(l, j) ==
    \/ l \in {"react", "select", "update"}
    \/ l \in {"fill", "fetched"} /\ j.seen # NoAccount

\* Nobody holds an account that is not in the table.
RowKept ==
    /\ cached # Null => row # NoAccount
    /\ \A t \in Tasks : OnRow(pc[t], job[t]) => row # NoAccount

Sound == TypeOK /\ Shaped /\ RowKept

CopiesOK ==
    /\ copy \in [Copies -> Account \cup {NoAccount}]
    /\ \A o \in Copies : copy[o] = NoAccount <=> o \in Free

-----------------------------------------------------------------------------
LEMMA NoAccountType == NoAccount \in Part /\ NoAccount \notin Account
  <1>1. NoAccount \in Part
    BY DEF NoAccount, Part
  <1>2. NoAccount.connected = Null
    BY DEF NoAccount
  <1>3. \A a \in Account : a.connected \in BOOLEAN
    BY DEF Account
  <1> QED
    BY <1>1, <1>2, <1>3, AccountAssumption

LEMMA AccountIsPart == Account \subseteq Part
  BY DEF Account, Part

LEMMA NoJobShape ==
    /\ NoJob \in Job /\ NoJob.held = Null /\ NoJob.kind = Null /\ NoJob.seen = NoAccount
    /\ Shape("idle", NoJob)
  <1>1. NoJob \in Job /\ NoJob.held = Null /\ NoJob.kind = Null /\ NoJob.seen = NoAccount
    BY NoAccountType DEF NoJob, Job
  <1>2. Shape("idle", NoJob)
    BY <1>1 DEF Shape, Labels
  <1> QED
    BY <1>1, <1>2

\* One task moves, and nobody else.
LEMMA MoveKeepsShape ==
    ASSUME Sound, NEW t \in Tasks, NEW l, NEW j,
           Goto(t, l), job' = [job EXCEPT ![t] = j], Shape(l, j),
           row # NoAccount \/ OnRow(l, j) => row' # NoAccount
    PROVE  /\ pc' \in [Tasks -> Labels] /\ job' \in [Tasks -> Job] /\ Shaped'
           /\ \A u \in Tasks : OnRow(pc[u], job[u])' => row' # NoAccount
           /\ \A u \in Tasks \ {t} : pc'[u] = pc[u] /\ job'[u] = job[u]
           /\ pc'[t] = l /\ job'[t] = j
  <1>1. pc \in [Tasks -> Labels] /\ job \in [Tasks -> Job]
    BY DEF Sound, TypeOK, Labels, Job
  <1>2. l \in Labels /\ j \in Job
    BY DEF Shape
  <1>3. pc' \in [Tasks -> Labels] /\ job' \in [Tasks -> Job]
    BY <1>1, <1>2 DEF Goto
  <1>4. /\ \A u \in Tasks \ {t} : pc'[u] = pc[u] /\ job'[u] = job[u]
        /\ pc'[t] = l /\ job'[t] = j
    BY <1>1 DEF Goto
  <1>5. \A u \in Tasks : Shape(pc[u], job[u])
    BY DEF Sound, Shaped
  <1>6. \A u \in Tasks : Shape(pc'[u], job'[u])
    BY <1>4, <1>5
  <1>7. \A u \in Tasks : OnRow(pc[u], job[u]) => row # NoAccount
    BY DEF Sound, RowKept
  <1>8. \A u \in Tasks : OnRow(pc'[u], job'[u]) => row' # NoAccount
    BY <1>4, <1>7
  <1> QED
    BY <1>3, <1>4, <1>6, <1>8 DEF Shaped, OnRow

\* The objects that are kept are those somebody refers to.
LEMMA KeepTypesCopies ==
    ASSUME NEW copies, Keep(copies),
           \A o \in Copies : o = cached' \/ (\E u \in Tasks : job'[u].held = o)
                             => copies[o] \in Account
    PROVE  CopiesOK'
  <1>1. \A o \in Copies : o \in Free' <=> o # cached' /\ \A u \in Tasks : job'[u].held # o
    BY DEF Free
  <1> QED
    BY <1>1, NoAccountType DEF Keep, CopiesOK

LEMMA SameCopies ==
    ASSUME Sound, UNCHANGED copy, \A o \in Copies : o \in Free' <=> o \in Free
    PROVE  CopiesOK'
  BY DEF Sound, TypeOK, CopiesOK

\* An object somebody refers to holds an account.
LEMMA ReferredIsAccount ==
    ASSUME Sound
    PROVE  /\ cached # Null => cached \in Copies /\ copy[cached] \in Account
           /\ \A u \in Tasks : job[u].held # Null =>
                 job[u].held \in Copies /\ copy[job[u].held] \in Account
  <1>1. cached # Null => cached \in Copies
    BY DEF Sound, TypeOK
  <1>2. \A u \in Tasks : job[u].held # Null => job[u].held \in Copies
    BY DEF Sound, TypeOK
  <1>3. \A o \in Copies : o \notin Free => copy[o] \in Account
    BY DEF Sound, TypeOK
  <1>4. cached \notin Free /\ \A u \in Tasks : job[u].held \notin Free
    BY DEF Free
  <1> QED
    BY <1>1, <1>2, <1>3, <1>4

LEMMA InHandIsAccount ==
    ASSUME Sound, NEW t \in Tasks, pc[t] \in {"react", "select"}
    PROVE  InHand(t) \in Account
  <1>1. Shape(pc[t], job[t])
    BY DEF Sound, Shaped
  <1>2. job[t].held = Null => job[t].seen \in Account
    BY <1>1 DEF Shape
  <1> QED
    BY <1>2, ReferredIsAccount DEF InHand

\* What a step leaves to be shown of Sound, when one task moves.
LEMMA StepKeepsSound ==
    ASSUME Sound, NEW t \in Tasks, NEW l, NEW j,
           Goto(t, l), job' = [job EXCEPT ![t] = j], Shape(l, j),
           row # NoAccount \/ OnRow(l, j) \/ cached' # Null => row' # NoAccount,
           row' \in Account \cup {NoAccount}, cached' \in Copies \cup {Null},
           CopiesOK', api' \in BOOLEAN, touched' \subseteq Columns
    PROVE  Sound'
  <1>1. /\ pc' \in [Tasks -> Labels] /\ job' \in [Tasks -> Job] /\ Shaped'
        /\ \A u \in Tasks : OnRow(pc[u], job[u])' => row' # NoAccount
    BY MoveKeepsShape
  <1>2. TypeOK'
    BY <1>1 DEF TypeOK, CopiesOK, Labels, Job
  <1>3. RowKept'
    BY <1>1 DEF RowKept
  <1> QED
    BY <1>1, <1>2, <1>3 DEF Sound

\* A step that changes no row and no object, of a task that holds what it held.
LEMMA LocalStepKeepsSound ==
    ASSUME Sound, NEW t \in Tasks, NEW l, NEW j,
           Goto(t, l), job' = [job EXCEPT ![t] = j], Shape(l, j), j.held = job[t].held,
           OnRow(l, j) => row # NoAccount,
           UNCHANGED <<row, cached, copy>>, api' \in BOOLEAN, touched' \subseteq Columns
    PROVE  Sound'
  <1>1. \A u \in Tasks : job'[u].held = job[u].held
    BY DEF Sound, TypeOK
  <1>2. \A o \in Copies : o \in Free' <=> o \in Free
    BY <1>1 DEF Free
  <1>3. CopiesOK'
    BY <1>2, SameCopies
  <1>4. cached # Null => row # NoAccount
    BY DEF Sound, RowKept
  <1>5. row \in Account \cup {NoAccount} /\ cached \in Copies \cup {Null}
    BY DEF Sound, TypeOK
  <1> QED
    BY <1>3, <1>4, <1>5, StepKeepsSound

\* A step of a task that lets go of what it holds, while the cache may lose its own.
LEMMA ReleaseKeepsSound ==
    ASSUME Sound, NEW t \in Tasks, NEW l, NEW j,
           Goto(t, l), job' = [job EXCEPT ![t] = j], Shape(l, j), j.held = Null,
           OnRow(l, j) => row # NoAccount,
           UNCHANGED <<row, api>>, cached' \in {cached, Null}, Keep(copy), touched' \subseteq Columns
    PROVE  Sound'
  <1>1. \A u \in Tasks : job'[u].held \in {job[u].held, Null}
    BY DEF Sound, TypeOK
  <1>2. ASSUME NEW o \in Copies, o = cached' \/ \E u \in Tasks : job'[u].held = o
        PROVE  copy[o] \in Account
    <2>1. o # Null
      BY AccountAssumption
    <2> QED
      BY <1>1, <1>2, <2>1, ReferredIsAccount
  <1>3. CopiesOK'
    BY <1>2, KeepTypesCopies
  <1>4. cached # Null => row # NoAccount
    BY DEF Sound, RowKept
  <1>5. /\ row \in Account \cup {NoAccount} /\ api \in BOOLEAN
        /\ cached' \in Copies \cup {Null}
    BY DEF Sound, TypeOK
  <1> QED
    BY <1>3, <1>4, <1>5, StepKeepsSound

LEMMA TouchType ==
    ASSUME Sound, NEW columns, columns \subseteq Columns, Touch(columns)
    PROVE  touched' \subseteq Columns
  BY DEF Sound, TypeOK, Touch

LEMMA DifferType == \A a, b : Differ(a, b) \subseteq Columns
  BY DEF Differ

LEMMA BeginKeepsSound ==
    ASSUME Sound, NEW t \in Tasks, NEW kind \in Kinds, NEW key \in Keys \cup {Null},
           kind = "setUser" => key \in Keys, Begin(t, kind, key)
    PROVE  Sound'
  <1>1. Shape(pc[t], job[t]) /\ pc[t] = "idle" /\ UNCHANGED <<row, cached, copy, api>>
    BY DEF Sound, Shaped, Begin
  <1>2. job[t] = NoJob
    BY <1>1 DEF Shape
  <1>3. api' \in BOOLEAN /\ touched' \subseteq Columns
    BY <1>1, TouchType DEF Sound, TypeOK, Begin
  <1>4. CASE cached = Null \/ kind = "setUser"
    <2> DEFINE j == [NoJob EXCEPT !.kind = kind, !.key = key]
    <2>1. Goto(t, "find") /\ job' = [job EXCEPT ![t] = j]
      BY <1>2, <1>4 DEF Begin
    <2>2. j \in Job /\ j.held = Null /\ j.kind = kind /\ j.key = key
      BY NoJobShape DEF Job, NoJob
    <2>3. Shape("find", j)
      BY <2>2 DEF Shape, Labels
    <2>4. ~OnRow("find", j)
      BY DEF OnRow
    <2> QED
      BY <1>1, <1>2, <1>3, <2>1, <2>2, <2>3, <2>4, NoJobShape, LocalStepKeepsSound
  <1>5. CASE cached # Null /\ kind # "setUser"
    <2> DEFINE j == [NoJob EXCEPT !.kind = kind, !.held = cached]
    <2>1. Goto(t, "react") /\ job' = [job EXCEPT ![t] = j]
      BY <1>2, <1>5 DEF Begin
    <2>2. cached \in Copies /\ row # NoAccount
      BY <1>5 DEF Sound, TypeOK, RowKept
    <2>3. j \in Job /\ j.held = cached /\ j.kind = kind
      BY <2>2, NoJobShape DEF Job, NoJob
    <2>4. Shape("react", j)
      BY <1>5, <2>3 DEF Shape, Labels
    <2>5. \A u \in Tasks \ {t} : job'[u] = job[u]
      BY <2>1 DEF Sound, TypeOK
    <2>6. job'[t] = j /\ job[t].held = Null
      BY <1>2, <2>1, NoJobShape DEF Sound, TypeOK
    <2>7. \A o \in Copies : o \in Free' <=> o \in Free
      <3>1. \A o \in Copies : o # Null
        BY AccountAssumption
      <3>2. \A o \in Copies :
              (o = cached' \/ \E u \in Tasks : job'[u].held = o)
                <=> (o = cached \/ \E u \in Tasks : job[u].held = o)
        BY <1>1, <2>3, <2>5, <2>6, <3>1
      <3> QED
        BY <3>2 DEF Free
    <2>8. CopiesOK'
      BY <1>1, <2>7, SameCopies
    <2>9. row' \in Account \cup {NoAccount} /\ row' # NoAccount /\ cached' \in Copies \cup {Null}
      BY <1>1, <2>2 DEF Sound, TypeOK
    <2> QED
      BY <1>3, <2>1, <2>4, <2>8, <2>9, StepKeepsSound
  <1> QED
    BY <1>4, <1>5

\* getAccount finds a place for its copy that no task refers to: there are as many
\* places as tasks, and the task itself refers to none.
LEMMA RoomForCopy ==
    ASSUME Sound, NEW t \in Tasks, pc[t] = "fill",
           NEW o, o = IF Free = {} THEN cached ELSE CHOOSE x \in Free : TRUE
    PROVE  o \in Copies /\ \A u \in Tasks : job[u].held # o
  <1>1. Shape(pc[t], job[t])
    BY DEF Sound, Shaped
  <1>2. job[t].held = Null
    BY <1>1 DEF Shape
  <1>3. CASE Free # {}
    BY <1>3 DEF Free
  <1>4. CASE Free = {}
    <2> SUFFICES ASSUME cached = Null \/ \E u \in Tasks : job[u].held = cached
                 PROVE  FALSE
      BY <1>4 DEF Sound, TypeOK
    <2> DEFINE S == Tasks \ {t}
               T == {job[u].held : u \in S}
               f == [u \in S |-> job[u].held]
    <2>1. IsFiniteSet(S) /\ Cardinality(S) = Cardinality(Tasks) - 1
      BY AccountAssumption, FS_RemoveElement
    <2>2. f \in Surjection(S, T)
      BY DEF Surjection
    <2>3. IsFiniteSet(T) /\ Cardinality(T) <= Cardinality(S)
      BY <2>1, <2>2, FS_Surjection
    <2>4. \A x \in Copies : x # Null
      BY AccountAssumption
    <2>5. Copies \subseteq T
      BY <1>2, <1>4, <2>4 DEF Free
    <2>6. Cardinality(Copies) <= Cardinality(T)
      BY <2>3, <2>5, FS_Subset
    <2>7. /\ Cardinality(Copies) \in Nat /\ Cardinality(Tasks) \in Nat
          /\ Cardinality(T) \in Nat /\ Cardinality(S) \in Nat
      BY <2>1, <2>3, AccountAssumption, FS_CardinalityType
    <2> QED
      BY <2>1, <2>3, <2>6, <2>7, AccountAssumption
  <1> QED
    BY <1>3, <1>4

LEMMA FillKeepsSound ==
    ASSUME Sound, NEW t \in Tasks, Fill(t)
    PROVE  Sound'
  <1>1. /\ Shape(pc[t], job[t]) /\ pc[t] = "fill" /\ job[t].seen # NoAccount
        /\ UNCHANGED <<row, api, job>> /\ Goto(t, "react")
        /\ Keep([copy EXCEPT ![cached'] = job[t].seen])
    BY DEF Sound, Shaped, Fill
  <1>2. cached' \in Copies /\ \A u \in Tasks : job[u].held # cached'
    BY <1>1, RoomForCopy DEF Fill
  <1>3. /\ job[t].seen \in Account /\ job[t].held = Null
        /\ job[t].kind \in Kinds \ {"setUser"} /\ job[t] \in Job
    BY <1>1 DEF Shape
  <1>4. Shape("react", job[t])
    BY <1>3 DEF Shape, Labels
  <1>5. job' = [job EXCEPT ![t] = job[t]]
    BY <1>1 DEF Sound, TypeOK
  <1>6. row \in Account /\ row # NoAccount /\ api \in BOOLEAN
    BY <1>1 DEF Sound, TypeOK, RowKept, OnRow
  <1>7. ASSUME NEW o \in Copies, o = cached' \/ \E u \in Tasks : job'[u].held = o
        PROVE  [copy EXCEPT ![cached'] = job[t].seen][o] \in Account
    <2>1. copy \in [Copies -> Account \cup {NoAccount}] /\ o # Null
      BY AccountAssumption DEF Sound, TypeOK
    <2>2. CASE o = cached'
      BY <1>3, <2>1, <2>2
    <2>3. CASE o # cached'
      BY <1>1, <1>7, <2>1, <2>3, ReferredIsAccount
    <2> QED
      BY <2>2, <2>3
  <1>8. CopiesOK'
    BY <1>1, <1>7, KeepTypesCopies
  <1>9. touched' \subseteq Columns
    BY TouchType DEF Fill
  <1> QED
    BY <1>1, <1>2, <1>4, <1>5, <1>6, <1>8, <1>9, StepKeepsSound

LEMMA FindOneKeepsSound ==
    ASSUME Sound, NEW t \in Tasks, FindOne(t)
    PROVE  Sound'
  <1> DEFINE l == IF job[t].kind = "setUser" THEN "fetched" ELSE "fill"
             j == [job[t] EXCEPT !.seen = row]
  <1>1. /\ Shape(pc[t], job[t]) /\ pc[t] = "find" /\ UNCHANGED <<row, cached, copy, api>>
    BY DEF Sound, Shaped, FindOne
  <1>2. job[t] \in Job /\ job[t].held = Null /\ job[t].kind \in Kinds
        /\ (job[t].kind = "setUser" => job[t].key \in Keys)
    BY <1>1 DEF Shape
  <1>3. row \in Account \cup {NoAccount} /\ row \in Part /\ api \in BOOLEAN
    BY NoAccountType, AccountIsPart DEF Sound, TypeOK
  <1>4. j \in Job /\ j.held = Null /\ j.kind = job[t].kind /\ j.key = job[t].key /\ j.seen = row
    BY <1>2, <1>3 DEF Job
  <1>5. Shape(l, j)
    BY <1>2, <1>3, <1>4 DEF Shape, Labels
  <1>6. OnRow(l, j) => row # NoAccount
    BY <1>4 DEF OnRow
  <1>7. Goto(t, l) /\ job' = [job EXCEPT ![t] = j]
    BY DEF FindOne
  <1>8. api' \in BOOLEAN /\ touched' \subseteq Columns
    BY <1>1, <1>3, TouchType DEF FindOne
  <1> QED
    BY <1>1, <1>2, <1>4, <1>5, <1>6, <1>7, <1>8, LocalStepKeepsSound

\* What a task makes of an account is an account again.
LEMMA UpdateModelIsAccount ==
    ASSUME NEW kind, NEW key \in Keys \cup {Null}, NEW a \in Account
    PROVE  UpdateModel(kind, key, a) \in Account
  BY DEF UpdateModel, Account

LEMMA ReactKeepsSound ==
    ASSUME Sound, NEW t \in Tasks, React(t)
    PROVE  Sound'
  <1> DEFINE account == UpdateModel(job[t].kind, Null, InHand(t))
  <1>1. /\ Shape(pc[t], job[t]) /\ pc[t] = "react" /\ Sets(t)
        /\ Goto(t, "select") /\ UNCHANGED <<row, cached, api>>
    BY DEF Sound, Shaped, React
  <1>2. /\ job[t] \in Job /\ job[t].kind \in Kinds \ {"setUser"}
        /\ job[t].kind \in Savers
    BY <1>1 DEF Shape, Sets, Savers
  <1>3. account \in Account
    BY <1>1, InHandIsAccount, UpdateModelIsAccount
  <1>4. row # NoAccount /\ api' \in BOOLEAN /\ touched' \subseteq Columns
    <2>1. Touch(Differ(account, InHand(t)))
      BY DEF React
    <2>2. touched' \subseteq Columns
      BY <2>1, DifferType, TouchType
    <2> QED
      BY <1>1, <2>2 DEF Sound, TypeOK, RowKept, OnRow
  <1>5. CASE job[t].held = Null
    <2> DEFINE j == [job[t] EXCEPT !.seen = account]
    <2>1. job' = [job EXCEPT ![t] = j] /\ UNCHANGED copy
      BY <1>5 DEF React
    <2>2. j \in Job /\ j.held = Null /\ j.kind = job[t].kind /\ j.seen = account
      BY <1>2, <1>3, <1>5, AccountIsPart DEF Job
    <2>3. Shape("select", j)
      BY <1>2, <1>3, <2>2 DEF Shape, Labels
    <2> QED
      BY <1>1, <1>4, <1>5, <2>1, <2>2, <2>3, LocalStepKeepsSound
  <1>6. CASE job[t].held # Null
    <2>1. copy' = [copy EXCEPT ![job[t].held] = account] /\ UNCHANGED job
      BY <1>6 DEF React
    <2>2. Shape("select", job[t])
      BY <1>2, <1>6 DEF Shape, Labels
    <2>3. job' = [job EXCEPT ![t] = job[t]]
      BY <2>1 DEF Sound, TypeOK
    <2>4. job[t].held \in Copies /\ job[t].held \notin Free
      BY <1>6, ReferredIsAccount DEF Free
    <2>5. \A o \in Copies : o \in Free' <=> o \in Free
      BY <1>1, <2>1 DEF Free
    <2>6. CopiesOK'
      BY <1>3, <2>1, <2>4, <2>5, NoAccountType DEF Sound, TypeOK, CopiesOK
    <2>7. row' \in Account \cup {NoAccount} /\ row' # NoAccount /\ cached' \in Copies \cup {Null}
      BY <1>1, <1>4 DEF Sound, TypeOK
    <2> QED
      BY <1>1, <1>4, <2>2, <2>3, <2>6, <2>7, StepKeepsSound
  <1> QED
    BY <1>5, <1>6

\* A task that returns, whatever it held.
LEMMA ReturnKeepsSound ==
    ASSUME Sound, NEW t \in Tasks, Return(t), UNCHANGED <<row, api>>,
           cached' \in {cached, Null}, Keep(copy), touched' \subseteq Columns
    PROVE  Sound'
  BY NoJobShape, ReleaseKeepsSound DEF Return, OnRow

LEMMA NothingToSetKeepsSound ==
    ASSUME Sound, NEW t \in Tasks, NothingToSet(t) \/ UnknownAccount(t) \/ Del(t)
    PROVE  Sound'
  <1>1. CASE NothingToSet(t) \/ UnknownAccount(t)
    BY <1>1, TouchType, ReturnKeepsSound DEF NothingToSet, UnknownAccount
  <1>2. CASE Del(t)
    <2>1. touched' \subseteq Columns
      BY <1>2 DEF Del, Sound, TypeOK
    <2> QED
      BY <1>2, <2>1, ReturnKeepsSound DEF Del
  <1> QED
    BY <1>1, <1>2

LEMMA BuildApiKeepsSound ==
    ASSUME Sound, NEW t \in Tasks, BuildApi(t)
    PROVE  Sound'
  <1> DEFINE j == [NoJob EXCEPT !.kind = "getApi"]
  <1>1. j \in Job /\ j.held = Null
    BY NoJobShape DEF Job, NoJob, Kinds
  <1>2. Shape("markets", j)
    BY <1>1 DEF Shape, Labels
  <1> QED
    BY <1>1, <1>2, TouchType, ReleaseKeepsSound DEF BuildApi, OnRow

LEMMA LoadMarketsKeepsSound ==
    ASSUME Sound, NEW t \in Tasks, LoadMarkets(t)
    PROVE  Sound'
  <1>1. Shape(pc[t], job[t]) /\ pc[t] = "markets"
    BY DEF Sound, Shaped, LoadMarkets
  <1>2. job[t].held = Null
    BY <1>1, NoJobShape DEF Shape
  <1> QED
    BY <1>2, NoJobShape, TouchType, LocalStepKeepsSound DEF LoadMarkets, Return, OnRow

\* What the row is when a new account may have been saved.
LEMMA CreatedIsAccount ==
    ASSUME Sound, NEW t \in Tasks, pc[t] = "fetched"
    PROVE  Created(t) \in Account
  <1>1. Shape(pc[t], job[t])
    BY DEF Sound, Shaped
  <1>2. FetchedAccount(NoAccount) \in Account
    BY DEF FetchedAccount, NewAccount, Account
  <1>3. job[t].seen # NoAccount => row \in Account
    BY DEF Sound, TypeOK, RowKept, OnRow
  <1> QED
    BY <1>2, <1>3 DEF Created

LEMMA FetchOrCreateKeepsSound ==
    ASSUME Sound, NEW t \in Tasks, FetchOrCreate(t)
    PROVE  Sound'
  <1> DEFINE account == FetchedAccount(job[t].seen)
             saved == UpdateModel("setUser", job[t].key, account)
             j == [job[t] EXCEPT !.seen = saved, !.key = Null]
  <1>1. /\ Shape(pc[t], job[t]) /\ pc[t] = "fetched" /\ Goto(t, "select")
        /\ row' = Created(t)
        /\ UNCHANGED <<cached, copy, api>>
    BY DEF Sound, Shaped, FetchOrCreate
  <1>2. /\ job[t] \in Job /\ job[t].kind = "setUser" /\ job[t].held = Null
        /\ job[t].key \in Keys /\ job[t].seen \in Account \cup {NoAccount}
    BY <1>1 DEF Shape
  <1>3. account \in Account
    BY <1>2 DEF FetchedAccount, NewAccount, Account
  <1>4. saved \in Account
    BY <1>2, <1>3, UpdateModelIsAccount
  <1>5. j \in Job /\ j.held = Null /\ j.kind = "setUser" /\ j.seen = saved
    BY <1>2, <1>4, AccountIsPart DEF Job
  <1>6. Shape("select", j)
    BY <1>4, <1>5 DEF Shape, Labels, Savers
  <1>7. job' = [job EXCEPT ![t] = j]
    BY DEF FetchOrCreate
  <1>8. row' \in Account
    BY <1>1, CreatedIsAccount
  <1>9. \A u \in Tasks : job'[u].held = job[u].held
    BY <1>2, <1>5, <1>7 DEF Sound, TypeOK
  <1>10. CopiesOK'
    BY <1>1, <1>9, SameCopies DEF Free
  <1>11. /\ api' \in BOOLEAN /\ touched' \subseteq Columns /\ cached' \in Copies \cup {Null}
    <2>1. Touch(Differ(row', row) \cup Differ(saved, job[t].seen))
      BY DEF FetchOrCreate
    <2>2. touched' \subseteq Columns
      BY <2>1, DifferType, TouchType
    <2> QED
      BY <1>1, <2>2 DEF Sound, TypeOK
  <1>12. row' # NoAccount /\ row' \in Account \cup {NoAccount}
    BY <1>8, NoAccountType
  <1> QED
    BY <1>1, <1>6, <1>7, <1>10, <1>11, <1>12, StepKeepsSound

\* What is left of an account where it differs from the row, and Null elsewhere.
LEMMA DifferenceIsPart ==
    ASSUME NEW a \in Part, NEW S
    PROVE  [c \in Columns |-> IF c \in S THEN a[c] ELSE Null] \in Part
  <1> DEFINE d == [c \in Columns |-> IF c \in S THEN a[c] ELSE Null]
  <1>1. d = [key |-> d["key"], connected |-> d["connected"], error |-> d["error"]]
    BY DEF Columns
  <1>2. /\ d["key"] \in Keys \cup {Null} /\ d["connected"] \in BOOLEAN \cup {Null}
        /\ d["error"] \in BOOLEAN \cup {Null}
    BY DEF Columns, Part
  <1> QED
    BY <1>1, <1>2 DEF Part

LEMMA SelectKeepsSound ==
    ASSUME Sound, NEW t \in Tasks, Select(t)
    PROVE  Sound'
  <1> DEFINE columns == {c \in Columns : InHand(t)[c] # row[c]}
             seen == [c \in Columns |-> IF c \in columns THEN InHand(t)[c] ELSE Null]
             l == IF columns = {} THEN "del" ELSE "update"
             j == [job[t] EXCEPT !.columns = columns, !.held = Null, !.seen = seen]
  <1>1. /\ Shape(pc[t], job[t]) /\ pc[t] = "select" /\ UNCHANGED <<row, cached, api>>
        /\ Goto(t, l) /\ job' = [job EXCEPT ![t] = j] /\ Keep(copy)
    BY DEF Sound, Shaped, Select
  <1>2. job[t] \in Job /\ job[t].kind \in Savers /\ InHand(t) \in Account
    BY <1>1, InHandIsAccount DEF Shape
  <1>3. seen \in Part
    BY <1>2, AccountIsPart, DifferenceIsPart
  <1>4. /\ j \in Job /\ j.held = Null /\ j.kind = job[t].kind
        /\ j.columns = columns /\ j.seen = seen
    BY <1>2, <1>3 DEF Job
  <1>5. /\ "connected" \in columns => seen.connected \in BOOLEAN
        /\ "error" \in columns => seen.error \in BOOLEAN
    BY <1>2 DEF Columns, Account
  <1>6. Shape(l, j)
    BY <1>2, <1>4, <1>5 DEF Shape, Labels
  <1>7. row # NoAccount /\ touched' \subseteq Columns
    BY <1>1, TouchType DEF Sound, RowKept, OnRow, Select
  <1> QED
    BY <1>1, <1>4, <1>6, <1>7, ReleaseKeepsSound

\* What save writes is an account.
LEMMA SavedIsAccount ==
    ASSUME Sound, NEW t \in Tasks, pc[t] = "update"
    PROVE  Saved(t) \in Account /\ row \in Account
  <1>1. /\ job[t].seen \in Part
        /\ "connected" \in job[t].columns => job[t].seen.connected \in BOOLEAN
        /\ "error" \in job[t].columns => job[t].seen.error \in BOOLEAN
    BY DEF Sound, Shaped, Shape, Job
  <1>2. row \in Account
    BY DEF Sound, TypeOK, RowKept, OnRow
  <1> DEFINE s == Saved(t)
  <1>3. s = [key |-> s["key"], connected |-> s["connected"], error |-> s["error"]]
    BY DEF Saved, Columns
  <1>4. /\ s["key"] \in Keys \cup {Null} /\ s["connected"] \in BOOLEAN /\ s["error"] \in BOOLEAN
    BY <1>1, <1>2 DEF Saved, Columns, Part, Account
  <1> QED
    BY <1>2, <1>3, <1>4 DEF Account

LEMMA UpdateKeepsSound ==
    ASSUME Sound, NEW t \in Tasks, Update(t)
    PROVE  Sound'
  <1> DEFINE j == [job[t] EXCEPT !.columns = {}, !.seen = NoAccount]
  <1>1. /\ Shape(pc[t], job[t]) /\ pc[t] = "update" /\ UNCHANGED <<cached, copy, api>>
        /\ Goto(t, "del") /\ job' = [job EXCEPT ![t] = j] /\ row' = Saved(t)
    BY DEF Sound, Shaped, Update
  <1>2. job[t] \in Job /\ job[t].kind \in Savers /\ job[t].held = Null
    BY <1>1 DEF Shape
  <1>3. j \in Job /\ j.held = Null /\ j.kind = job[t].kind
    BY <1>2, NoAccountType DEF Job
  <1>4. Shape("del", j)
    BY <1>2, <1>3 DEF Shape, Labels
  <1>5. row' \in Account \cup {NoAccount} /\ row' # NoAccount
    BY <1>1, SavedIsAccount, NoAccountType
  <1>6. \A u \in Tasks : job'[u].held = job[u].held
    BY <1>1, <1>2, <1>3 DEF Sound, TypeOK
  <1>7. CopiesOK'
    BY <1>1, <1>6, SameCopies DEF Free
  <1>8. /\ api' \in BOOLEAN /\ touched' \subseteq Columns /\ cached' \in Copies \cup {Null}
    BY <1>1, TouchType DEF Sound, TypeOK, Update
  <1> QED
    BY <1>1, <1>4, <1>5, <1>7, <1>8, StepKeepsSound

LEMMA ThrowsKeepsSound ==
    ASSUME Sound, NEW t \in Tasks, Throws(t)
    PROVE  Sound'
  <1>1. /\ Return(t) /\ UNCHANGED <<cached, api>> /\ Keep(copy)
        /\ \/ UNCHANGED row
           \/ pc[t] = "fetched" /\ row' = Created(t)
           \/ pc[t] = "update" /\ row' = Saved(t)
    BY DEF Throws
  <1>2. \A u \in Tasks : job'[u].held \in {job[u].held, Null}
    BY <1>1, NoJobShape DEF Return, Sound, TypeOK
  <1>3. ASSUME NEW o \in Copies, o = cached' \/ \E u \in Tasks : job'[u].held = o
        PROVE  copy[o] \in Account
    <2>1. o # Null
      BY AccountAssumption
    <2> QED
      BY <1>1, <1>2, <1>3, <2>1, ReferredIsAccount
  <1>4. CopiesOK'
    BY <1>1, <1>3, KeepTypesCopies
  <1>5. /\ row' \in Account \cup {NoAccount}
        /\ row # NoAccount \/ cached' # Null => row' # NoAccount
    BY <1>1, SavedIsAccount, CreatedIsAccount, NoAccountType DEF Sound, TypeOK, RowKept
  <1>6. /\ api' \in BOOLEAN /\ touched' \subseteq Columns /\ cached' \in Copies \cup {Null}
    BY <1>1, TouchType, DifferType DEF Sound, TypeOK, Throws
  <1> QED
    BY <1>1, <1>4, <1>5, <1>6, NoJobShape, StepKeepsSound DEF Return, OnRow

LEMMA ExpiresKeepsSound ==
    ASSUME Sound, Expires
    PROVE  Sound'
  <1>1. /\ cached' = Null /\ UNCHANGED <<row, api, pc, job>> /\ Keep(copy)
        /\ touched' \subseteq Columns
    BY TouchType DEF Expires
  <1>2. ASSUME NEW o \in Copies, o = cached' \/ \E u \in Tasks : job'[u].held = o
        PROVE  copy[o] \in Account
    BY <1>1, <1>2, AccountAssumption, ReferredIsAccount
  <1>3. CopiesOK'
    BY <1>2, <1>1, KeepTypesCopies
  <1>4. TypeOK'
    BY <1>1, <1>3 DEF Sound, TypeOK, CopiesOK
  <1>5. Shaped' /\ RowKept'
    BY <1>1 DEF Sound, Shaped, RowKept, Shape, OnRow
  <1> QED
    BY <1>4, <1>5 DEF Sound

LEMMA OutsideKeepsSound ==
    ASSUME Sound, Outside
    PROVE  Sound'
  <1>1. /\ row # NoAccount /\ UNCHANGED <<cached, copy, api, pc, job>> /\ touched' \subseteq Columns
    BY TouchType, DifferType DEF Outside
  <1>2. row' \in Account /\ row' # NoAccount
    <2>1. row \in Account
      BY <1>1 DEF Sound, TypeOK
    <2>2. row.error \in BOOLEAN
      BY <2>1 DEF Account
    <2>3. PICK k \in Keys, e \in {FALSE, row.error} :
              row' = [key |-> k, connected |-> TRUE, error |-> e]
      BY DEF Outside
    <2>4. e \in BOOLEAN
      BY <2>2, <2>3
    <2>5. row' \in Account
      BY <2>3, <2>4 DEF Account
    <2> QED
      BY <2>5, NoAccountType
  <1>3. TypeOK'
    BY <1>1, <1>2 DEF Sound, TypeOK, Free
  <1>4. Shaped' /\ RowKept'
    BY <1>1, <1>2 DEF Sound, Shaped, RowKept, Shape, OnRow
  <1> QED
    BY <1>3, <1>4 DEF Sound

LEMMA CrashKeepsSound ==
    ASSUME Sound, Crash
    PROVE  Sound'
  <1>1. /\ cached' = Null /\ copy' = [o \in Copies |-> NoAccount] /\ api' = FALSE
        /\ pc' = [t \in Tasks |-> "idle"] /\ job' = [t \in Tasks |-> NoJob]
        /\ row' = row /\ touched' \subseteq Columns
    BY TouchType DEF Crash
  <1>2. \A o \in Copies : o \in Free'
    BY <1>1, NoJobShape, AccountAssumption DEF Free
  <1>3. TypeOK'
    BY <1>1, <1>2, NoJobShape DEF Sound, TypeOK, Job
  <1>4. Shaped' /\ RowKept'
    BY <1>1, NoJobShape DEF Sound, Shaped, RowKept, OnRow
  <1> QED
    BY <1>3, <1>4 DEF Sound

LEMMA InitSound == Init => Sound
  <1> SUFFICES ASSUME Init
               PROVE  Sound
    OBVIOUS
  <1>1. row \in Account \cup {NoAccount}
    <2>1. \A k \in Keys : [key |-> k, connected |-> TRUE, error |-> FALSE] \in Account
      BY DEF Account
    <2> QED
      BY <2>1 DEF Init
  <1>2. \A o \in Copies : o \in Free
    BY NoJobShape, AccountAssumption DEF Init, Free
  <1>3. TypeOK
    BY <1>1, <1>2, NoJobShape DEF Init, TypeOK, Job
  <1>4. Shaped /\ RowKept
    BY NoJobShape DEF Init, Shaped, RowKept, OnRow
  <1> QED
    BY <1>3, <1>4 DEF Sound

LEMMA NextSound ==
    ASSUME Sound, [Next]_vars
    PROVE  Sound'
  <1>1. ASSUME NEW t \in Tasks, TaskStep(t)
        PROVE  Sound'
    BY <1>1, FindOneKeepsSound, FillKeepsSound, NothingToSetKeepsSound, ReactKeepsSound,
       BuildApiKeepsSound, LoadMarketsKeepsSound, FetchOrCreateKeepsSound, SelectKeepsSound,
       UpdateKeepsSound DEF TaskStep
  <1>2. ASSUME NEW t \in Tasks, SetNoErrors(t) \/ GetApiForAccount(t)
        PROVE  Sound'
    BY <1>2, BeginKeepsSound DEF SetNoErrors, GetApiForAccount, Kinds
  <1>3. ASSUME NEW t \in Tasks, NEW kind \in {"notAllowed", "otherError"}, HandleApiError(t, kind)
        PROVE  Sound'
    BY <1>3, BeginKeepsSound DEF HandleApiError, Kinds
  <1>4. ASSUME NEW t \in Tasks, NEW key \in Keys, SetUserAccount(t, key)
        PROVE  Sound'
    BY <1>4, BeginKeepsSound DEF SetUserAccount, Kinds
  <1>5. CASE UNCHANGED vars
    BY <1>5 DEF vars, Sound, TypeOK, Shaped, Shape, RowKept, OnRow, Free
  <1> QED
    BY <1>1, <1>2, <1>3, <1>4, <1>5, ThrowsKeepsSound, ExpiresKeepsSound, OutsideKeepsSound,
       CrashKeepsSound DEF Next

\* The variables of AccountService keep their types: in particular an object is freed
\* exactly when neither the cache nor a task refers to it, and no account in the cache,
\* in a task's hand or in the table is half an account.
THEOREM TypeCorrect == Spec => []TypeOK
  <1>1. Sound => TypeOK
    BY DEF Sound
  <1> QED
    BY <1>1, InitSound, NextSound, PTL DEF Spec

-----------------------------------------------------------------------------
\* The handler of an error that forbids trading saves a disabled account, its own or
\* one that it shares with the cache and with other tasks.
Disabling ==
    \A t \in Tasks :
        pc[t] = "select" /\ job[t].kind = "notAllowed" => InHand(t).connected = FALSE

\* A task that holds an object from the cache or its own moves on, and so does not
\* enable an account in the hand of another.
LEMMA MoveKeepsDisabling ==
    ASSUME Sound, Disabling, NEW t \in Tasks,
           \A u \in Tasks \ {t} : pc'[u] = pc[u] /\ job'[u] = job[u],
           \A u \in Tasks \ {t} : job[u].held # Null /\ copy[job[u].held].connected = FALSE
                => copy'[job[u].held].connected = FALSE,
           pc'[t] = "select" /\ job'[t].kind = "notAllowed" => InHand(t)'.connected = FALSE
    PROVE  Disabling'
  <1>1. ASSUME NEW u \in Tasks \ {t}, pc'[u] = "select", job'[u].kind = "notAllowed"
        PROVE  InHand(u)'.connected = FALSE
    BY <1>1 DEF Disabling, InHand
  <1> QED
    BY <1>1 DEF Disabling

\* What is referred to is kept as it is.
LEMMA KeepKeeps ==
    ASSUME NEW copies, Keep(copies), NEW u \in Tasks, job'[u].held \in Copies
    PROVE  copy'[job'[u].held] = copies[job'[u].held]
  BY DEF Keep

\* Only React and FetchOrCreate bring a task to where it saves, and only React brings
\* the handler of an error there.
LEMMA QuietKeepsDisabling ==
    ASSUME Sound, Disabling, NEW t \in Tasks, pc'[t] # "select",
           \A u \in Tasks \ {t} : pc'[u] = pc[u] /\ job'[u] = job[u],
           UNCHANGED copy \/ Keep(copy)
    PROVE  Disabling'
  <1>1. ASSUME NEW u \in Tasks \ {t}, job[u].held # Null
        PROVE  copy'[job[u].held] = copy[job[u].held]
    BY <1>1, ReferredIsAccount, KeepKeeps
  <1> QED
    BY <1>1, MoveKeepsDisabling

LEMMA FillKeepsDisabling ==
    ASSUME Sound, Disabling, NEW t \in Tasks, Fill(t)
    PROVE  Disabling'
  <1>1. cached' \in Copies /\ \A u \in Tasks : job[u].held # cached'
    BY RoomForCopy DEF Fill
  <1>2. /\ \A u \in Tasks \ {t} : pc'[u] = pc[u] /\ job'[u] = job[u]
        /\ pc'[t] = "react" /\ job' = job /\ Keep([copy EXCEPT ![cached'] = job[t].seen])
    BY DEF Fill, Goto, Sound, TypeOK
  <1>3. ASSUME NEW u \in Tasks \ {t}, job[u].held # Null
        PROVE  copy'[job[u].held] = copy[job[u].held]
    <2>1. job[u].held \in Copies
      BY <1>3, ReferredIsAccount
    <2>2. copy'[job[u].held] = [copy EXCEPT ![cached'] = job[t].seen][job[u].held]
      BY <1>2, <2>1 DEF Keep
    <2> QED
      BY <1>1, <2>1, <2>2 DEF Sound, TypeOK
  <1> QED
    BY <1>2, <1>3, MoveKeepsDisabling

\* Whatever a task sets, it enables nothing; and the handler of an error disables.
LEMMA UpdateModelEnablesNothing ==
    ASSUME NEW kind, NEW a \in Account, NEW key
    PROVE  /\ a.connected = FALSE => UpdateModel(kind, key, a).connected = FALSE
           /\ kind = "notAllowed" => UpdateModel(kind, key, a).connected = FALSE
           /\ UpdateModel(kind, key, a).connected \in {a.connected, FALSE}
  BY DEF UpdateModel, Account

LEMMA ReactKeepsDisabling ==
    ASSUME Sound, Disabling, NEW t \in Tasks, React(t)
    PROVE  Disabling'
  <1> DEFINE account == UpdateModel(job[t].kind, Null, InHand(t))
  <1>1. /\ pc[t] = "react" /\ InHand(t) \in Account
        /\ \A u \in Tasks \ {t} : pc'[u] = pc[u] /\ job'[u] = job[u]
    BY InHandIsAccount DEF React, Goto, Sound, TypeOK
  <1>2. /\ InHand(t).connected = FALSE => account.connected = FALSE
        /\ job[t].kind = "notAllowed" => account.connected = FALSE
    BY <1>1, UpdateModelEnablesNothing
  <1> HIDE DEF account
  <1>3. CASE job[t].held = Null
    <2>1. /\ job' = [job EXCEPT ![t].seen = account] /\ copy' = copy
      BY <1>3 DEF React, account
    <2>2. job'[t].held = Null /\ job'[t].kind = job[t].kind /\ job'[t].seen = account
      BY <1>3, <2>1 DEF Sound, TypeOK
    <2>3. InHand(t)' = account
      BY <2>2 DEF InHand
    <2> QED
      BY <1>1, <1>2, <2>1, <2>2, <2>3, MoveKeepsDisabling
  <1>4. CASE job[t].held # Null
    <2>1. copy' = [copy EXCEPT ![job[t].held] = account] /\ job' = job
      BY <1>4 DEF React, account
    <2>2. job[t].held \in Copies
      BY <1>4, ReferredIsAccount
    <2>3. InHand(t)' = account /\ copy[job[t].held] = InHand(t)
      BY <1>4, <2>1, <2>2 DEF InHand, Sound, TypeOK
    <2>4. ASSUME NEW u \in Tasks \ {t}, job[u].held # Null,
                 copy[job[u].held].connected = FALSE
          PROVE  copy'[job[u].held].connected = FALSE
      <3>1. CASE job[u].held = job[t].held
        <4>1. copy'[job[u].held] = account
          BY <2>1, <2>2, <3>1 DEF Sound, TypeOK
        <4> QED
          BY <1>2, <2>3, <2>4, <3>1, <4>1
      <3>2. CASE job[u].held # job[t].held
        BY <2>1, <2>4, <3>2, ReferredIsAccount DEF Sound, TypeOK
      <3> QED
        BY <3>1, <3>2
    <2> QED
      BY <1>1, <1>2, <2>1, <2>3, <2>4, MoveKeepsDisabling
  <1> QED
    BY <1>3, <1>4

LEMMA FetchOrCreateKeepsDisabling ==
    ASSUME Sound, Disabling, NEW t \in Tasks, FetchOrCreate(t)
    PROVE  Disabling'
  <1>1. Shape(pc[t], job[t]) /\ pc[t] = "fetched"
    BY DEF Sound, Shaped, FetchOrCreate
  <1>2. /\ \A u \in Tasks \ {t} : pc'[u] = pc[u] /\ job'[u] = job[u]
        /\ job'[t].kind = job[t].kind /\ copy' = copy
    BY DEF FetchOrCreate, Goto, Sound, TypeOK
  <1>3. job'[t].kind # "notAllowed"
    BY <1>1, <1>2 DEF Shape
  <1> QED
    BY <1>2, <1>3, MoveKeepsDisabling

\* Where each step of a task takes it, and that it takes nobody else anywhere.
LEMMA QuietSteps ==
    ASSUME Sound, NEW t \in Tasks,
           \/ \E kind \in Kinds, key \in Keys \cup {Null} : Begin(t, kind, key)
           \/ FindOne(t) \/ NothingToSet(t) \/ UnknownAccount(t) \/ BuildApi(t)
           \/ LoadMarkets(t) \/ Select(t) \/ Update(t) \/ Del(t) \/ Throws(t)
    PROVE  /\ pc'[t] # "select" /\ (UNCHANGED copy \/ Keep(copy))
           /\ \A u \in Tasks \ {t} : pc'[u] = pc[u] /\ job'[u] = job[u]
  <1> USE DEF Goto, Return
  <1>1. pc \in [Tasks -> Labels] /\ job \in [Tasks -> Job]
    BY DEF Sound, TypeOK, Labels, Job
  <1>2. ASSUME NEW kind \in Kinds, NEW key \in Keys \cup {Null}, Begin(t, kind, key)
        PROVE  /\ pc'[t] # "select" /\ (UNCHANGED copy \/ Keep(copy))
               /\ \A u \in Tasks \ {t} : pc'[u] = pc[u] /\ job'[u] = job[u]
    BY <1>1, <1>2 DEF Begin
  <1>3. CASE FindOne(t) \/ NothingToSet(t) \/ UnknownAccount(t) \/ BuildApi(t) \/ LoadMarkets(t)
    BY <1>1, <1>3 DEF FindOne, NothingToSet, UnknownAccount, BuildApi, LoadMarkets
  <1>4. CASE Select(t) \/ Update(t) \/ Del(t) \/ Throws(t)
    BY <1>1, <1>4 DEF Select, Update, Del, Throws
  <1> QED
    BY <1>2, <1>3, <1>4

LEMMA NextDisabling ==
    ASSUME Sound, Disabling, [Next]_vars
    PROVE  Disabling'
  <1>1. ASSUME NEW t \in Tasks, TaskStep(t) \/ Throws(t)
        PROVE  Disabling'
    <2>1. CASE \/ FindOne(t) \/ NothingToSet(t) \/ UnknownAccount(t) \/ BuildApi(t)
               \/ LoadMarkets(t) \/ Select(t) \/ Update(t) \/ Del(t) \/ Throws(t)
      BY <2>1, QuietSteps, QuietKeepsDisabling
    <2> QED
      BY <1>1, <2>1, FillKeepsDisabling, ReactKeepsDisabling, FetchOrCreateKeepsDisabling
      DEF TaskStep
  <1>2. ASSUME NEW t \in Tasks, NEW kind \in Kinds, NEW key \in Keys \cup {Null},
               Begin(t, kind, key)
        PROVE  Disabling'
    BY <1>2, QuietSteps, QuietKeepsDisabling
  <1>3. ASSUME NEW t \in Tasks, SetNoErrors(t) \/ GetApiForAccount(t)
        PROVE  Disabling'
    BY <1>2, <1>3 DEF SetNoErrors, GetApiForAccount, Kinds
  <1>4. ASSUME NEW t \in Tasks, NEW kind \in {"notAllowed", "otherError"}, HandleApiError(t, kind)
        PROVE  Disabling'
    BY <1>2, <1>4 DEF HandleApiError, Kinds
  <1>5. ASSUME NEW t \in Tasks, NEW key \in Keys, SetUserAccount(t, key)
        PROVE  Disabling'
    BY <1>2, <1>5 DEF SetUserAccount, Kinds
  <1>6. CASE Expires
    <2>1. UNCHANGED <<pc, job>> /\ Keep(copy)
      BY <1>6 DEF Expires
    <2>2. \A u \in Tasks : job[u].held # Null => copy'[job[u].held] = copy[job[u].held]
      BY <2>1, ReferredIsAccount, KeepKeeps
    <2> QED
      BY <2>1, <2>2 DEF Disabling, InHand
  <1>7. CASE Outside \/ UNCHANGED vars
    BY <1>7 DEF Outside, vars, Disabling, InHand
  <1>8. CASE Crash
    BY <1>8 DEF Crash, Disabling
  <1> QED
    BY <1>1, <1>3, <1>4, <1>5, <1>6, <1>7, <1>8 DEF Next

\* Only a step of its own, or a crash, moves a task.
LEMMA OwnSteps ==
    ASSUME Sound, NEW t \in Tasks, Next, pc'[t] # pc[t]
    PROVE  \/ TaskStep(t) \/ Throws(t) \/ Crash
           \/ pc[t] = "idle" /\ pc'[t] \in {"find", "react"}
  <1>1. pc \in [Tasks -> Labels] /\ job \in [Tasks -> Job]
    BY DEF Sound, TypeOK, Labels, Job
  <1>2. ASSUME NEW u \in Tasks, NEW kind \in Kinds, NEW key \in Keys \cup {Null},
               Begin(u, kind, key)
        PROVE  pc[t] = "idle" /\ pc'[t] \in {"find", "react"}
    BY <1>1, <1>2 DEF Begin, Goto
  <1>3. ASSUME NEW u \in Tasks, TaskStep(u) \/ Throws(u)
        PROVE  u = t
    <2>1. CASE Fill(u) \/ React(u) \/ FetchOrCreate(u)
      BY <1>1, <2>1 DEF Fill, React, FetchOrCreate, Goto
    <2> QED
      BY <1>3, <2>1, QuietSteps DEF TaskStep
  <1>4. ASSUME NEW u \in Tasks, SetNoErrors(u) \/ GetApiForAccount(u)
        PROVE  pc[t] = "idle" /\ pc'[t] \in {"find", "react"}
    BY <1>2, <1>4 DEF SetNoErrors, GetApiForAccount, Kinds
  <1>5. ASSUME NEW u \in Tasks, NEW kind \in {"notAllowed", "otherError"}, HandleApiError(u, kind)
        PROVE  pc[t] = "idle" /\ pc'[t] \in {"find", "react"}
    BY <1>2, <1>5 DEF HandleApiError, Kinds
  <1>6. ASSUME NEW u \in Tasks, NEW key \in Keys, SetUserAccount(u, key)
        PROVE  pc[t] = "idle" /\ pc'[t] \in {"find", "react"}
    BY <1>2, <1>6 DEF SetUserAccount, Kinds
  <1>7. ~Expires /\ ~Outside
    BY DEF Expires, Outside
  <1> QED
    BY <1>3, <1>4, <1>5, <1>6, <1>7 DEF Next

\* What Select leaves of a disabled account is disabled, whatever the row was.
LEMMA SelectDisables ==
    ASSUME Sound, NEW t \in Tasks, Select(t), InHand(t).connected = FALSE
    PROVE  /\ pc'[t] = "del" => ~row.connected
           /\ ~Saved(t)'.connected
  <1> DEFINE columns == {c \in Columns : InHand(t)[c] # row[c]}
  <1>1. /\ job'[t].columns = columns /\ row' = row
        /\ \A c \in columns : job'[t].seen[c] = InHand(t)[c]
        /\ pc'[t] = "del" => columns = {}
    BY DEF Select, Goto, Sound, TypeOK
  <1>2. "connected" \in Columns /\ InHand(t)["connected"] = FALSE
    BY DEF Columns
  <1>3. "connected" \notin columns => row["connected"] = FALSE
    BY <1>2
  <1>4. Saved(t)'["connected"] = FALSE
    BY <1>1, <1>2, <1>3 DEF Saved
  <1> QED
    BY <1>1, <1>3, <1>4

\* The last steps of the handler of an error, each of which does what it should.
LEMMA NextSavesDisabled ==
    ASSUME Sound, Disabling, [Next]_vars
    PROVE  [SavesDisabled]_vars
  <1> SUFFICES ASSUME Next, NEW t \in Tasks, pc[t] = "select", job[t].kind = "notAllowed"
               PROVE  /\ pc'[t] = "del" => ~row.connected
                      /\ pc'[t] = "update" => ~Saved(t)'.connected
                      /\ pc'[t] = "idle" /\ cached' # Null /\ cached' = job[t].held
                           => ~copy'[cached'].connected
    BY DEF SavesDisabled
  <1>1. InHand(t).connected = FALSE
    BY DEF Disabling
  <1>2. pc'[t] # pc[t] => Select(t) \/ Throws(t) \/ Crash
    BY OwnSteps DEF TaskStep, FindOne, Fill, UnknownAccount, React, NothingToSet, BuildApi,
       LoadMarkets, FetchOrCreate, Update, Del
  <1>3. CASE Select(t)
    <2>1. pc'[t] \in {"del", "update"}
      BY <1>3 DEF Select, Goto, Sound, TypeOK
    <2> QED
      BY <1>1, <1>3, <2>1, SelectDisables
  <1>4. CASE Throws(t)
    <2>1. pc'[t] = "idle" /\ cached' = cached /\ Keep(copy)
      BY <1>4 DEF Throws, Return, Goto, Sound, TypeOK
    <2>2. ASSUME cached' # Null, cached' = job[t].held
          PROVE  copy'[cached'].connected = FALSE
      <3>1. cached' \in Copies
        BY <2>1, <2>2, ReferredIsAccount
      <3>2. copy'[cached'] = copy[cached']
        BY <2>1, <3>1 DEF Keep
      <3> QED
        BY <1>1, <2>2, <3>2 DEF InHand
    <2> QED
      BY <2>1, <2>2
  <1>5. CASE Crash
    BY <1>5 DEF Crash
  <1> QED
    BY <1>2, <1>3, <1>4, <1>5

\* An error that forbids trading disables the account, however the tasks that share its
\* copy in the cache interleave and whichever saves fail, for any number of tasks and
\* keys.
THEOREM ErrorsDisable == Spec => ErrorDisables
  <1>1. Init => Disabling
    BY DEF Init, Disabling
  <1> QED
    BY <1>1, InitSound, NextSound, NextDisabling, NextSavesDisabled, PTL DEF Spec, ErrorDisables

-----------------------------------------------------------------------------
\* In the column c, what a task has of the account is what the row has.
Agrees(t, c) ==
    /\ pc[t] \in {"fill", "fetched", "react", "select"} => InHand(t)[c] = row[c]
    /\ pc[t] = "update" => c \notin job[t].columns

\* In the columns that nobody has set, so is what is cached, and what each task has.
Agree ==
    \A c \in Columns \ touched :
        /\ cached # Null => copy[cached][c] = row[c]
        /\ \A t \in Tasks : Agrees(t, c)

\* Where nothing is left of the account there is nothing to agree.
LEMMA ForgottenAgrees ==
    ASSUME cached' = Null, Holders' = {}
    PROVE  Agree'
  BY DEF Agree, Agrees, Holders

\* A task that moves leaves to be shown what it has, and what is cached, in the columns
\* that it does not set.
LEMMA StepKeepsAgree ==
    ASSUME Sound, Agree, NEW t \in Tasks, NEW columns, Touch(columns),
           \A u \in Tasks \ {t} : pc'[u] = pc[u] /\ job'[u] = job[u],
           ASSUME NEW c \in Columns \ (touched \cup columns)
           PROVE  /\ row'[c] = row[c]
                  /\ \A u \in Tasks \ {t} : job[u].held # Null
                        => copy'[job[u].held][c] = copy[job[u].held][c]
                  /\ cached' # Null => copy'[cached'][c] = row[c]
                  /\ Agrees(t, c)'
    PROVE  Agree'
  <1>1. CASE cached' = Null /\ Holders' = {}
    BY <1>1, ForgottenAgrees
  <1>2. CASE ~(cached' = Null /\ Holders' = {})
    <2>1. touched' = touched \cup columns
      BY <1>2 DEF Touch
    <2>2. ASSUME NEW c \in Columns \ touched'
          PROVE  /\ cached' # Null => copy'[cached'][c] = row'[c]
                 /\ \A u \in Tasks : Agrees(u, c)'
      <3>1. c \in Columns \ (touched \cup columns)
        BY <2>1
      <3>2. /\ row'[c] = row[c] /\ Agrees(t, c)'
            /\ cached' # Null => copy'[cached'][c] = row[c]
            /\ \A u \in Tasks \ {t} : job[u].held # Null
                  => copy'[job[u].held][c] = copy[job[u].held][c]
        BY <3>1
      <3>3. ASSUME NEW u \in Tasks \ {t}
            PROVE  Agrees(u, c)'
        <4>1. Agrees(u, c)
          BY <3>1 DEF Agree
        <4>2. pc'[u] = pc[u] /\ job'[u] = job[u]
          OBVIOUS
        <4>3. InHand(u)'[c] = InHand(u)[c]
          BY <3>2, <4>2 DEF InHand
        <4> QED
          BY <3>2, <4>1, <4>2, <4>3 DEF Agrees
      <3> QED
        BY <3>2, <3>3
    <2> QED
      BY <2>2 DEF Agree
  <1> QED
    BY <1>1, <1>2

\* The objects that the cache and the tasks have stay as they are.
LEMMA ObjectsKept ==
    ASSUME Sound, UNCHANGED copy \/ Keep(copy), cached' \in {cached, Null},
           NEW t \in Tasks, \A u \in Tasks \ {t} : job'[u] = job[u]
    PROVE  /\ \A u \in Tasks \ {t} : job[u].held # Null
                 => copy'[job[u].held] = copy[job[u].held]
           /\ cached' # Null => cached' = cached /\ copy'[cached'] = copy[cached]
  <1>1. ASSUME NEW u \in Tasks \ {t}, job[u].held # Null
        PROVE  copy'[job[u].held] = copy[job[u].held]
    BY <1>1, ReferredIsAccount, KeepKeeps
  <1>2. cached # Null => cached \in Copies
    BY ReferredIsAccount
  <1> QED
    BY <1>1, <1>2 DEF Keep

\* A task that sets nothing and changes no row moves to where it has what it had, or
\* nothing.
LEMMA QuietKeepsAgree ==
    ASSUME Sound, Agree, NEW t \in Tasks, Touch({}), row' = row,
           \A u \in Tasks \ {t} : pc'[u] = pc[u] /\ job'[u] = job[u],
           UNCHANGED copy \/ Keep(copy), cached' \in {cached, Null},
           \A c \in Columns \ touched : Agrees(t, c)'
    PROVE  Agree'
  <1>1. ASSUME NEW c \in Columns \ (touched \cup {})
        PROVE  /\ row'[c] = row[c]
               /\ \A u \in Tasks \ {t} : job[u].held # Null
                     => copy'[job[u].held][c] = copy[job[u].held][c]
               /\ cached' # Null => copy'[cached'][c] = row[c]
               /\ Agrees(t, c)'
    BY ObjectsKept DEF Agree
  <1> QED
    BY <1>1, StepKeepsAgree

LEMMA BeginKeepsAgree ==
    ASSUME Sound, Agree, NEW t \in Tasks, NEW kind \in Kinds, NEW key \in Keys \cup {Null},
           Begin(t, kind, key)
    PROVE  Agree'
  <1>1. /\ Touch({}) /\ UNCHANGED <<row, cached, copy>>
        /\ \A u \in Tasks \ {t} : pc'[u] = pc[u] /\ job'[u] = job[u]
    BY QuietSteps DEF Begin
  <1>2. ASSUME NEW c \in Columns \ touched
        PROVE  Agrees(t, c)'
    <2>1. CASE pc' = [pc EXCEPT ![t] = "find"]
      BY <2>1 DEF Agrees, Sound, TypeOK
    <2>2. CASE /\ pc' = [pc EXCEPT ![t] = "react"] /\ cached # Null
               /\ job' = [job EXCEPT ![t].kind = kind, ![t].held = cached]
      <3>1. pc'[t] = "react" /\ job'[t].held = cached
        BY <2>2 DEF Sound, TypeOK
      <3>2. InHand(t)' = copy[cached]
        BY <1>1, <2>2, <3>1 DEF InHand
      <3> QED
        BY <1>1, <2>2, <3>1, <3>2 DEF Agree, Agrees
    <2> QED
      BY <2>1, <2>2 DEF Begin, Goto
  <1> QED
    BY <1>1, <1>2, QuietKeepsAgree

\* What a task reads is the row.
LEMMA FindOneKeepsAgree ==
    ASSUME Sound, Agree, NEW t \in Tasks, FindOne(t)
    PROVE  Agree'
  <1>1. /\ Touch({}) /\ UNCHANGED <<row, cached, copy>> /\ pc[t] = "find"
        /\ pc'[t] \in {"fill", "fetched"} /\ job'[t].seen = row /\ job'[t].held = job[t].held
        /\ \A u \in Tasks \ {t} : pc'[u] = pc[u] /\ job'[u] = job[u]
    BY DEF FindOne, Goto, Sound, TypeOK
  <1>2. job[t].held = Null
    BY <1>1 DEF Sound, Shaped, Shape
  <1>3. \A c \in Columns \ touched : Agrees(t, c)'
    BY <1>1, <1>2 DEF Agrees, InHand
  <1> QED
    BY <1>1, <1>3, QuietKeepsAgree

\* What is put into the cache is what the task has read.
LEMMA FillKeepsAgree ==
    ASSUME Sound, Agree, NEW t \in Tasks, Fill(t)
    PROVE  Agree'
  <1>1. cached' \in Copies /\ \A u \in Tasks : job[u].held # cached'
    BY RoomForCopy DEF Fill
  <1>2. /\ \A u \in Tasks \ {t} : pc'[u] = pc[u] /\ job'[u] = job[u]
        /\ pc[t] = "fill" /\ pc'[t] = "react" /\ job' = job /\ row' = row /\ Touch({})
        /\ Keep([copy EXCEPT ![cached'] = job[t].seen])
    BY DEF Fill, Goto, Sound, TypeOK
  <1>3. ASSUME NEW u \in Tasks, job[u].held # Null
        PROVE  copy'[job[u].held] = copy[job[u].held]
    <2>1. job[u].held \in Copies
      BY <1>3, ReferredIsAccount
    <2>2. copy'[job[u].held] = [copy EXCEPT ![cached'] = job[t].seen][job[u].held]
      BY <1>2, <2>1 DEF Keep
    <2> QED
      BY <1>1, <2>1, <2>2 DEF Sound, TypeOK
  <1>4. copy'[cached'] = job[t].seen
    BY <1>1, <1>2 DEF Keep, Sound, TypeOK
  <1>5. job[t].held = Null
    BY <1>2 DEF Sound, Shaped, Shape
  <1>6. InHand(t) = job[t].seen /\ InHand(t)' = job[t].seen
    BY <1>2, <1>5 DEF InHand
  <1>7. ASSUME NEW c \in Columns \ (touched \cup {})
        PROVE  /\ row'[c] = row[c]
               /\ \A u \in Tasks \ {t} : job[u].held # Null
                     => copy'[job[u].held][c] = copy[job[u].held][c]
               /\ cached' # Null => copy'[cached'][c] = row[c]
               /\ Agrees(t, c)'
    <2>1. job[t].seen[c] = row[c]
      BY <1>2, <1>6 DEF Agree, Agrees
    <2> QED
      BY <1>2, <1>3, <1>4, <1>6, <2>1 DEF Agrees
  <1> QED
    BY <1>2, <1>7, StepKeepsAgree

\* A task that sets columns of what it has in hand, and of nothing else.
LEMMA ReactKeepsAgree ==
    ASSUME Sound, Agree, NEW t \in Tasks, React(t)
    PROVE  Agree'
  <1> DEFINE account == UpdateModel(job[t].kind, Null, InHand(t))
             columns == Differ(account, InHand(t))
  <1>1. /\ \A u \in Tasks \ {t} : pc'[u] = pc[u] /\ job'[u] = job[u]
        /\ pc[t] = "react" /\ pc'[t] = "select" /\ row' = row /\ cached' = cached
        /\ Touch(columns)
    BY DEF React, Goto, Sound, TypeOK
  <1>2. \A c \in Columns \ columns : account[c] = InHand(t)[c]
    BY DEF Differ
  <1>3. /\ InHand(t)' = account
        /\ \A o \in Copies : copy'[o] = copy[o] \/ (copy[o] = InHand(t) /\ copy'[o] = account)
    <2>1. CASE job[t].held = Null
      <3>1. job' = [job EXCEPT ![t].seen = account] /\ copy' = copy
        BY <2>1 DEF React
      <3>2. job'[t].held = Null /\ job'[t].seen = account
        BY <2>1, <3>1 DEF Sound, TypeOK
      <3> QED
        BY <3>1, <3>2 DEF InHand
    <2>2. CASE job[t].held # Null
      <3>1. copy' = [copy EXCEPT ![job[t].held] = account] /\ job' = job
        BY <2>2 DEF React
      <3>2. job[t].held \in Copies
        BY <2>2, ReferredIsAccount
      <3> QED
        BY <2>2, <3>1, <3>2 DEF InHand, Sound, TypeOK
    <2> QED
      BY <2>1, <2>2
  <1> HIDE DEF account, columns
  <1>4. ASSUME NEW c \in Columns \ (touched \cup columns)
        PROVE  /\ row'[c] = row[c]
               /\ \A u \in Tasks \ {t} : job[u].held # Null
                     => copy'[job[u].held][c] = copy[job[u].held][c]
               /\ cached' # Null => copy'[cached'][c] = row[c]
               /\ Agrees(t, c)'
    <2>1. \A o \in Copies : copy'[o][c] = copy[o][c]
      BY <1>2, <1>3
    <2>2. InHand(t)'[c] = row[c]
      BY <1>1, <1>2, <1>3 DEF Agree, Agrees
    <2>3. cached # Null => copy[cached][c] = row[c]
      BY DEF Agree
    <2> QED
      BY <1>1, <2>1, <2>2, <2>3, ReferredIsAccount DEF Agrees
  <1> QED
    BY <1>1, <1>4, StepKeepsAgree

LEMMA FetchOrCreateKeepsAgree ==
    ASSUME Sound, Agree, NEW t \in Tasks, FetchOrCreate(t)
    PROVE  Agree'
  <1> DEFINE account == UpdateModel("setUser", job[t].key, FetchedAccount(job[t].seen))
             columns == Differ(row', row) \cup Differ(account, job[t].seen)
  <1>1. /\ \A u \in Tasks \ {t} : pc'[u] = pc[u] /\ job'[u] = job[u]
        /\ pc[t] = "fetched" /\ pc'[t] = "select" /\ cached' = cached /\ copy' = copy
        /\ job'[t].held = job[t].held /\ job'[t].seen = account /\ Touch(columns)
    BY DEF FetchOrCreate, Goto, Sound, TypeOK
  <1>2. job[t].held = Null
    BY <1>1 DEF Sound, Shaped, Shape
  <1>3. InHand(t) = job[t].seen /\ InHand(t)' = account
    BY <1>1, <1>2 DEF InHand
  <1>4. \A c \in Columns \ columns : row'[c] = row[c] /\ account[c] = job[t].seen[c]
    BY DEF Differ
  <1> HIDE DEF account, columns
  <1>5. ASSUME NEW c \in Columns \ (touched \cup columns)
        PROVE  /\ row'[c] = row[c]
               /\ \A u \in Tasks \ {t} : job[u].held # Null
                     => copy'[job[u].held][c] = copy[job[u].held][c]
               /\ cached' # Null => copy'[cached'][c] = row[c]
               /\ Agrees(t, c)'
    <2>1. row'[c] = row[c] /\ account[c] = job[t].seen[c]
      BY <1>4
    <2>2. job[t].seen[c] = row[c] /\ (cached # Null => copy[cached][c] = row[c])
      BY <1>1, <1>3 DEF Agree, Agrees
    <2> QED
      BY <1>1, <1>3, <2>1, <2>2 DEF Agrees
  <1> QED
    BY <1>1, <1>5, StepKeepsAgree

\* The columns that save is to change are those where something was set.
LEMMA SelectKeepsAgree ==
    ASSUME Sound, Agree, NEW t \in Tasks, Select(t)
    PROVE  Agree'
  <1>1. /\ \A u \in Tasks \ {t} : pc'[u] = pc[u] /\ job'[u] = job[u]
        /\ pc[t] = "select" /\ pc'[t] \in {"update", "del"} /\ Touch({})
        /\ UNCHANGED <<row, cached>> /\ Keep(copy)
        /\ job'[t].columns = {c \in Columns : InHand(t)[c] # row[c]}
    BY DEF Select, Goto, Sound, TypeOK
  <1>2. \A c \in Columns \ touched : Agrees(t, c)'
    BY <1>1 DEF Agree, Agrees
  <1> QED
    BY <1>1, <1>2, QuietKeepsAgree

\* Saved changes no other.
LEMMA SavedAgrees ==
    ASSUME Sound, Agree, NEW t \in Tasks, pc[t] = "update"
    PROVE  Differ(Saved(t), row) \subseteq touched
  <1>1. \A c \in Columns \ touched : c \notin job[t].columns
    BY DEF Agree, Agrees
  <1> QED
    BY <1>1 DEF Saved, Differ

\* The row changes in columns that are, or become, set.
LEMMA RowStepKeepsAgree ==
    ASSUME Sound, Agree, NEW t \in Tasks, NEW columns, Touch(columns),
           \A u \in Tasks \ {t} : pc'[u] = pc[u] /\ job'[u] = job[u],
           UNCHANGED copy \/ Keep(copy), cached' \in {cached, Null},
           Differ(row', row) \subseteq touched \cup columns,
           pc'[t] \in {"idle", "del"}
    PROVE  Agree'
  <1>1. ASSUME NEW c \in Columns \ (touched \cup columns)
        PROVE  /\ row'[c] = row[c]
               /\ \A u \in Tasks \ {t} : job[u].held # Null
                     => copy'[job[u].held][c] = copy[job[u].held][c]
               /\ cached' # Null => copy'[cached'][c] = row[c]
               /\ Agrees(t, c)'
    <2>1. row'[c] = row[c]
      BY DEF Differ
    <2>2. Agrees(t, c)'
      BY DEF Agrees
    <2> QED
      BY <2>1, <2>2, ObjectsKept DEF Agree
  <1> QED
    BY <1>1, StepKeepsAgree

LEMMA UpdateKeepsAgree ==
    ASSUME Sound, Agree, NEW t \in Tasks, Update(t) \/ Throws(t)
    PROVE  Agree'
  <1>1. /\ \A u \in Tasks \ {t} : pc'[u] = pc[u] /\ job'[u] = job[u]
        /\ UNCHANGED copy \/ Keep(copy)
    BY QuietSteps
  <1>2. cached' = cached /\ pc'[t] \in {"idle", "del"}
    BY DEF Update, Throws, Return, Goto, Sound, TypeOK
  <1>3. PICK columns :
            Touch(columns) /\ Differ(row', row) \subseteq touched \cup columns
    <2>1. CASE pc[t] = "update" /\ row' = Saved(t)
      <3>1. Touch({})
        BY <2>1 DEF Update, Throws
      <3> QED
        BY <2>1, <3>1, SavedAgrees
    <2>2. CASE row' = row
      <3>1. Differ(row', row) = {}
        BY <2>2 DEF Differ
      <3> QED
        BY <3>1 DEF Update, Throws
    <2>3. CASE Throws(t) /\ pc[t] = "fetched"
      BY <2>3 DEF Throws
    <2> QED
      BY <2>1, <2>2, <2>3 DEF Update, Throws
  <1> QED
    BY <1>1, <1>2, <1>3, RowStepKeepsAgree

\* del leaves nothing of the account but what other tasks have of it.
LEMMA DelKeepsAgree ==
    ASSUME Sound, Agree, NEW t \in Tasks, Del(t)
    PROVE  Agree'
  <1>1. CASE Holders' = {}
    BY <1>1, ForgottenAgrees DEF Del
  <1>2. CASE Holders' # {}
    <2>1. Touch({})
      BY <1>2 DEF Del, Touch
    <2>2. pc'[t] = "idle" /\ row' = row /\ cached' = Null
      BY DEF Del, Return, Goto, Sound, TypeOK
    <2>3. Differ(row', row) = {}
      BY <2>2 DEF Differ
    <2> QED
      BY <2>1, <2>2, <2>3, QuietSteps, RowStepKeepsAgree
  <1> QED
    BY <1>1, <1>2

LEMMA EndKeepsAgree ==
    ASSUME Sound, Agree, NEW t \in Tasks,
           NothingToSet(t) \/ UnknownAccount(t) \/ BuildApi(t) \/ LoadMarkets(t)
    PROVE  Agree'
  <1>1. /\ \A u \in Tasks \ {t} : pc'[u] = pc[u] /\ job'[u] = job[u]
        /\ UNCHANGED copy \/ Keep(copy)
    BY QuietSteps
  <1>2. Touch({}) /\ row' = row /\ cached' = cached
    BY DEF NothingToSet, UnknownAccount, BuildApi, LoadMarkets
  <1>3. pc'[t] \in {"idle", "markets"}
    BY DEF NothingToSet, UnknownAccount, BuildApi, LoadMarkets, Return, Goto, Sound, TypeOK
  <1>4. \A c \in Columns \ touched : Agrees(t, c)'
    BY <1>3 DEF Agrees
  <1> QED
    BY <1>1, <1>2, <1>4, QuietKeepsAgree

LEMMA OthersKeepAgree ==
    ASSUME Sound, Agree, Expires \/ Outside \/ Crash
    PROVE  Agree'
  <1>1. CASE Expires
    <2>1. /\ cached' = Null /\ UNCHANGED <<row, pc, job>> /\ Keep(copy) /\ Touch({})
      BY <1>1 DEF Expires
    <2>2. \A u \in Tasks : job[u].held # Null => copy'[job[u].held] = copy[job[u].held]
      BY <2>1, ReferredIsAccount, KeepKeeps
    <2>3. \A u \in Tasks : InHand(u)' = InHand(u)
      BY <2>1, <2>2 DEF InHand
    <2>4. \A c : \A u \in Tasks : Agrees(u, c) => Agrees(u, c)'
      BY <2>1, <2>3 DEF Agrees
    <2>5. CASE Holders' = {}
      BY <2>1, <2>5, ForgottenAgrees
    <2>6. CASE Holders' # {}
      <3>1. touched' = touched
        BY <2>1, <2>6 DEF Touch
      <3> QED
        BY <2>1, <2>4, <3>1 DEF Agree
    <2> QED
      BY <2>5, <2>6
  <1>2. CASE Outside
    <2>1. UNCHANGED <<cached, copy, pc, job>> /\ Touch(Differ(row', row))
      BY <1>2 DEF Outside
    <2>2. CASE cached' = Null /\ Holders' = {}
      BY <2>2, ForgottenAgrees
    <2>3. CASE ~(cached' = Null /\ Holders' = {})
      <3>1. touched' = touched \cup Differ(row', row)
        BY <2>1, <2>3 DEF Touch
      <3>2. \A c \in Columns \ touched' : c \in Columns \ touched /\ row'[c] = row[c]
        BY <3>1 DEF Differ
      <3> QED
        BY <2>1, <3>2 DEF Agree, Agrees, InHand
    <2> QED
      BY <2>2, <2>3
  <1>3. CASE Crash
    <2>1. cached' = Null /\ Holders' = {}
      BY <1>3 DEF Crash, Holders
    <2> QED
      BY <2>1, ForgottenAgrees
  <1> QED
    BY <1>1, <1>2, <1>3

LEMMA NextAgree ==
    ASSUME Sound, Agree, [Next]_vars
    PROVE  Agree'
  <1>1. ASSUME NEW t \in Tasks, TaskStep(t) \/ Throws(t)
        PROVE  Agree'
    BY <1>1, FindOneKeepsAgree, FillKeepsAgree, EndKeepsAgree, ReactKeepsAgree,
       FetchOrCreateKeepsAgree, SelectKeepsAgree, UpdateKeepsAgree, DelKeepsAgree
    DEF TaskStep
  <1>2. ASSUME NEW t \in Tasks, SetNoErrors(t) \/ GetApiForAccount(t)
        PROVE  Agree'
    BY <1>2, BeginKeepsAgree DEF SetNoErrors, GetApiForAccount, Kinds
  <1>3. ASSUME NEW t \in Tasks, NEW kind \in {"notAllowed", "otherError"}, HandleApiError(t, kind)
        PROVE  Agree'
    BY <1>3, BeginKeepsAgree DEF HandleApiError, Kinds
  <1>4. ASSUME NEW t \in Tasks, NEW key \in Keys, SetUserAccount(t, key)
        PROVE  Agree'
    BY <1>4, BeginKeepsAgree DEF SetUserAccount, Kinds
  <1>5. CASE UNCHANGED vars
    BY <1>5 DEF vars, Agree, Agrees, InHand
  <1> QED
    BY <1>1, <1>2, <1>3, <1>4, <1>5, OthersKeepAgree DEF Next

LEMMA AlwaysAgree == Spec => [](Sound /\ Agree)
  <1>1. Init => Agree
    BY DEF Init, Agree, Agrees
  <1> QED
    BY <1>1, InitSound, NextSound, NextAgree, PTL DEF Spec

\* The cached copy of the account is its row in every column that was not set since the
\* account was last nowhere in the process, for any number of tasks and keys.
THEOREM CacheIsRow == Spec => []CacheCoherent
  <1>1. Sound /\ Agree => CacheCoherent
    BY DEF Agree, CacheCoherent, Differ
  <1> QED
    BY <1>1, AlwaysAgree, PTL

\* A save changes no column but those that were set while some of the account was in
\* the process, for any number of tasks and keys.
THEOREM SavesSetColumns == Spec => OnlySetColumns
  <1>1. Sound /\ Agree /\ [Next]_vars => [SavesOnlySet]_vars
    <2> SUFFICES ASSUME Sound, Agree, Next, NEW t \in Tasks,
                        pc[t] = "update", pc'[t] # "update"
                 PROVE  Differ(row', row) \subseteq touched
      BY DEF SavesOnlySet
    <2>1. Update(t) \/ Throws(t) \/ Crash
      <3>1. TaskStep(t) \/ Throws(t) \/ Crash
        BY OwnSteps
      <3> QED
        BY <3>1 DEF TaskStep, FindOne, Fill, UnknownAccount, React, NothingToSet,
           BuildApi, LoadMarkets, FetchOrCreate, Select, Del
    <2>2. row' = Saved(t) \/ row' = row
      BY <2>1 DEF Update, Throws, Crash
    <2>3. row' = row => Differ(row', row) = {}
      BY DEF Differ
    <2> QED
      BY <2>2, <2>3, SavedAgrees
  <1> QED
    BY <1>1, AlwaysAgree, PTL DEF Spec, OnlySetColumns
=============================================================================
