--------------------------- MODULE AccountService ---------------------------
(***************************************************************************)
(* AccountService: the row of an account, the copy of it in the process's     *)
(* cache, and the tasks that read, change and save it. What the cache hands   *)
(* out is one object, shared by all who get it; save compares an object with *)
(* the row it selects and updates the columns that differ. One account.      *)
(***************************************************************************)
EXTENDS Naturals, FiniteSets

CONSTANTS
    Tasks,  \* places for tasks under way
    Keys,   \* API keys of the owner
    Copies, \* places for objects that are or were in the cache
    Null

\* setNoErrors, handleApiError for a code that forbids trading and for another,
\* setUserAccount, getApiForAccount.
Kinds == {"noErrors", "notAllowed", "otherError", "setUser", "getApi"}

ASSUME AccountAssumption ==
    /\ Null \notin Keys \cup Copies /\ Null \notin BOOLEAN /\ Null \notin Kinds
    /\ IsFiniteSet(Tasks) /\ IsFiniteSet(Copies)
    /\ Cardinality(Copies) >= Cardinality(Tasks)

VARIABLES
    row,       \* the account's row, or NoAccount
    cached,    \* the object in the cache, or Null
    copy,      \* copy[o]: what the object holds
    api,       \* TRUE if apis has a client for the account
    pc,        \* pc[t]: "idle", or the step of the task
    job,       \* job[t]: its local variables
    touched    \* history: the columns set, in an object or in the row from outside, since
               \* the account was last nowhere in the process

vars == <<row, cached, copy, api, pc, job, touched>>

Account   == [key : Keys \cup {Null}, connected : BOOLEAN, error : BOOLEAN]
NoAccount == [key |-> Null, connected |-> Null, error |-> Null]
Part      == [key : Keys \cup {Null}, connected : BOOLEAN \cup {Null}, error : BOOLEAN \cup {Null}]
Columns   == {"key", "connected", "error"}

\* The row of an account that fetchOrCreate creates.
NewAccount == [key |-> Null, connected |-> FALSE, error |-> FALSE]

\* held: the object if it is shared with the cache; seen: the row as it was found,
\* then the task's own object, then what it saves; columns: those to update.
NoJob == [kind |-> Null, key |-> Null, held |-> Null, seen |-> NoAccount, columns |-> {}]

Init ==
    /\ row \in {[key |-> k, connected |-> TRUE, error |-> FALSE] : k \in Keys} \cup {NoAccount}
    /\ cached = Null /\ copy = [o \in Copies |-> NoAccount] /\ api = FALSE
    /\ pc = [t \in Tasks |-> "idle"] /\ job = [t \in Tasks |-> NoJob]
    /\ touched = {}

\* Tasks that have what was read of the account, or what is to be written of it.
Holders == {t \in Tasks : pc[t] \in {"fill", "fetched", "react", "select", "update"}}

Differ(a, b) == {c \in Columns : a[c] # b[c]}

\* Columns are set; what was set before is forgotten with the last trace of the account.
Touch(columns) ==
    touched' = IF cached' = Null /\ Holders' = {} THEN {} ELSE touched \cup columns

Goto(t, label) == pc' = [pc EXCEPT ![t] = label]
Return(t)      == Goto(t, "idle") /\ job' = [job EXCEPT ![t] = NoJob]

\* Objects that neither the cache nor a task refers to.
Free == Copies \ ({cached} \cup {job[t].held : t \in Tasks})

\* What becomes of the objects: those that nobody refers to any more are gone.
Keep(copies) ==
    copy' = [o \in Copies |->
        IF o = cached' \/ \E t \in Tasks : job'[t].held = o THEN copies[o] ELSE NoAccount]

-----------------------------------------------------------------------------
(* The tasks begin; getAccount.                                            *)

Begin(t, kind, key) ==
    /\ pc[t] = "idle"
    /\ \/ /\ cached = Null \/ kind = "setUser"
          /\ Goto(t, "find")
          /\ job' = [job EXCEPT ![t].kind = kind, ![t].key = key]
       \/ /\ cached # Null /\ kind # "setUser"
          /\ Goto(t, "react")
          /\ job' = [job EXCEPT ![t].kind = kind, ![t].held = cached]
    /\ UNCHANGED <<row, cached, copy, api>>
    /\ Touch({})

\* buyOrder.created or buyOrder.closed is emitted.
SetNoErrors(t) == api /\ Begin(t, "noErrors", Null)

\* A call of a client, or of one that is being built, fails: api.error.
HandleApiError(t, kind) ==
    /\ api \/ \E u \in Tasks : pc[u] = "markets"
    /\ Begin(t, kind, Null)

\* The owner chooses a key: one call at a time.
SetUserAccount(t, key) ==
    /\ \A u \in Tasks : job[u].kind # "setUser"
    /\ Begin(t, "setUser", key)

GetApiForAccount(t) == ~api /\ Begin(t, "getApi", Null)

\* findOne, in the database.
FindOne(t) ==
    /\ pc[t] = "find"
    /\ job' = [job EXCEPT ![t].seen = row]
    /\ Goto(t, IF job[t].kind = "setUser" THEN "fetched" ELSE "fill")
    /\ UNCHANGED <<row, cached, copy, api>>
    /\ Touch({})

\* getAccount puts a copy of what was found into the cache, and returns the original.
Fill(t) ==
    /\ pc[t] = "fill" /\ job[t].seen # NoAccount
    /\ cached' = IF Free = {} THEN cached ELSE CHOOSE o \in Free : TRUE
    /\ Goto(t, "react")
    /\ UNCHANGED <<row, api, job>>
    /\ Keep([copy EXCEPT ![cached'] = job[t].seen])
    /\ Touch({})

-----------------------------------------------------------------------------
(* What each makes of the account.                                         *)

\* The account object the task has in hand.
InHand(t) == IF job[t].held = Null THEN job[t].seen ELSE copy[job[t].held]

\* Fault model of UpdateModel: the handler of an error only notes it.
UpdateModelError(kind, key, account) ==
    IF kind = "noErrors" THEN [account EXCEPT !.error = FALSE]
    ELSE IF kind = "notAllowed" THEN [account EXCEPT !.error = TRUE]
    ELSE [account EXCEPT !.key = key]

\* updateModel: what a task of this kind sets.
UpdateModel(kind, key, account) ==
    IF kind = "noErrors" THEN [account EXCEPT !.error = FALSE]
    ELSE IF kind = "notAllowed" THEN [account EXCEPT !.error = TRUE, !.connected = FALSE]
    ELSE [account EXCEPT !.key = key]

Sets(t) == job[t].kind = "notAllowed" \/ (job[t].kind = "noErrors" /\ InHand(t).error)

\* setNoErrors and handleApiError change the object, shared or not, and leave its
\* saving to itself.
React(t) ==
    LET account == UpdateModel(job[t].kind, Null, InHand(t))
    IN  /\ pc[t] = "react" /\ Sets(t)
        /\ \/ /\ job[t].held = Null
              /\ job' = [job EXCEPT ![t].seen = account] /\ UNCHANGED copy
           \/ /\ job[t].held # Null
              /\ copy' = [copy EXCEPT ![job[t].held] = account] /\ UNCHANGED job
        /\ Goto(t, "select")
        /\ UNCHANGED <<row, cached, api>>
        /\ Touch(Differ(account, InHand(t)))

\* No error to clear, or a code that does not forbid trading.
NothingToSet(t) ==
    /\ pc[t] = "react" /\ ~Sets(t) /\ job[t].kind # "getApi"
    /\ Return(t)
    /\ UNCHANGED <<row, cached, api>>
    /\ Keep(copy)
    /\ Touch({})

\* getApiForAccount throws: no account, or one without key and exchange yet.
UnknownAccount(t) ==
    /\ \/ pc[t] = "fill" /\ job[t].seen = NoAccount
       \/ pc[t] = "react" /\ job[t].kind = "getApi" /\ InHand(t).key = Null
    /\ Return(t)
    /\ UNCHANGED <<row, cached, api>>
    /\ Keep(copy)
    /\ Touch({})

\* getApi of ApiService with the account's key, which the client keeps for good;
\* loadMarkets is asked.
BuildApi(t) ==
    /\ pc[t] = "react" /\ job[t].kind = "getApi" /\ InHand(t).key # Null
    /\ job' = [job EXCEPT ![t] = [NoJob EXCEPT !.kind = "getApi"]]
    /\ Goto(t, "markets")
    /\ UNCHANGED <<row, cached, api>>
    /\ Keep(copy)
    /\ Touch({})

LoadMarkets(t) ==
    /\ pc[t] = "markets"
    /\ api' = TRUE
    /\ Return(t)
    /\ UNCHANGED <<row, cached, copy>>
    /\ Touch({})

\* Fault model of FetchedAccount: nothing is created.
FetchedAccountOnly(found) == found

\* What fetchOrCreate returns for what it found.
FetchedAccount(found) == IF found = NoAccount THEN NewAccount ELSE found

\* A new row is saved if there was none.
Created(t) == IF job[t].seen = NoAccount THEN FetchedAccount(job[t].seen) ELSE row

\* setAccount changes the object.
FetchOrCreate(t) ==
    LET account == UpdateModel("setUser", job[t].key, FetchedAccount(job[t].seen))
    IN  /\ pc[t] = "fetched"
        /\ row' = Created(t)
        /\ job' = [job EXCEPT ![t].seen = account, ![t].key = Null]
        /\ Goto(t, "select")
        /\ UNCHANGED <<cached, copy, api>>
        /\ Touch(Differ(row', row) \cup Differ(account, job[t].seen))

-----------------------------------------------------------------------------
(* setAccount: save and del.                                               *)

\* The row is selected and the object compared with it.
Select(t) ==
    LET columns == {c \in Columns : InHand(t)[c] # row[c]}
    IN  /\ pc[t] = "select"
        /\ job' = [job EXCEPT ![t].columns = columns, ![t].held = Null,
                              ![t].seen = [c \in Columns |->
                                    IF c \in columns THEN InHand(t)[c] ELSE Null]]
        /\ Goto(t, IF columns = {} THEN "del" ELSE "update")
        /\ UNCHANGED <<row, cached, api>>
        /\ Keep(copy)
        /\ Touch({})

Saved(t) == [c \in Columns |-> IF c \in job[t].columns THEN job[t].seen[c] ELSE row[c]]

Update(t) ==
    /\ pc[t] = "update"
    /\ row' = Saved(t)
    /\ job' = [job EXCEPT ![t].columns = {}, ![t].seen = NoAccount]
    /\ Goto(t, "del")
    /\ UNCHANGED <<cached, copy, api>>
    /\ Touch({})

\* Fault model of Del: the account stays in the cache.
DelNothing(t) ==
    /\ pc[t] = "del"
    /\ Return(t)
    /\ UNCHANGED <<row, cached, copy, api>>
    /\ touched' = IF Holders' = {} THEN {} ELSE touched

\* With it, nothing is left of the account but what other tasks have.
Del(t) ==
    /\ pc[t] = "del"
    /\ cached' = Null
    /\ Return(t)
    /\ UNCHANGED <<row, api>>
    /\ Keep(copy)
    /\ touched' = IF Holders' = {} THEN {} ELSE touched

-----------------------------------------------------------------------------
(* Time, other processes, and faults.                                      *)

\* Ten minutes are over.
Expires ==
    /\ cached # Null
    /\ cached' = Null
    /\ UNCHANGED <<row, api, pc, job>>
    /\ Keep(copy)
    /\ Touch({})

\* The owner connects the account again, perhaps with another key, in a process that
\* knows nothing of this one's cache.
Outside ==
    /\ row # NoAccount
    /\ \E k \in Keys, e \in {FALSE, row.error} :
        row' = [key |-> k, connected |-> TRUE, error |-> e]
    /\ UNCHANGED <<cached, copy, api, pc, job>>
    /\ Touch(Differ(row', row))

\* A query throws, to the caller if it is awaited, and to nobody if it is the save of a
\* handler: the process goes on. A save may be done before it throws; if it is not, what
\* was set stays set in the object, which the cache and other tasks may share. Nothing
\* is deleted from the cache.
Throws(t) ==
    /\ \/ pc[t] \in {"find", "fill", "fetched", "markets", "select", "update"} /\ UNCHANGED row
       \/ pc[t] = "fetched" /\ row' = Created(t)
       \/ pc[t] = "update" /\ row' = Saved(t)
    /\ Return(t)
    /\ UNCHANGED <<cached, api>>
    /\ Keep(copy)
    /\ Touch(IF pc[t] = "fetched" THEN Differ(row', row) ELSE {})

\* The process ends and is started again.
Crash ==
    /\ cached' = Null /\ copy' = [o \in Copies |-> NoAccount] /\ api' = FALSE
    /\ pc' = [t \in Tasks |-> "idle"] /\ job' = [t \in Tasks |-> NoJob]
    /\ UNCHANGED row
    /\ Touch({})

TaskStep(t) ==
    \/ FindOne(t) \/ Fill(t) \/ UnknownAccount(t)
    \/ React(t) \/ NothingToSet(t) \/ BuildApi(t) \/ LoadMarkets(t) \/ FetchOrCreate(t)
    \/ Select(t) \/ Update(t) \/ Del(t)

Next ==
    \/ \E t \in Tasks :
        \/ TaskStep(t)
        \/ SetNoErrors(t) \/ GetApiForAccount(t)
        \/ \E kind \in {"notAllowed", "otherError"} : HandleApiError(t, kind)
        \/ \E key \in Keys : SetUserAccount(t, key)
        \/ Throws(t)
    \/ Expires \/ Outside \/ Crash

Spec == Init /\ [][Next]_vars

-----------------------------------------------------------------------------
TypeOK ==
    /\ row \in Account \cup {NoAccount}
    /\ cached \in Copies \cup {Null}
    /\ copy \in [Copies -> Account \cup {NoAccount}]
    /\ \A o \in Copies : copy[o] = NoAccount <=> o \in Free
    /\ api \in BOOLEAN
    /\ pc \in [Tasks -> {"idle", "find", "fill", "fetched", "react", "markets",
                         "select", "update", "del"}]
    /\ job \in [Tasks -> [kind : Kinds \cup {Null}, key : Keys \cup {Null},
                          held : Copies \cup {Null}, seen : Part,
                          columns : SUBSET Columns]]
    /\ touched \subseteq Columns

\* The copy in the cache, which decides what a later save writes and which key a client
\* is built with, is the row, whatever is under way, in every column that neither a task
\* nor a change from outside has set since the account was last nowhere in the process.
\* In particular nothing old is left in the cache when the last setAccount is through.
CacheCoherent == cached # Null => Differ(copy[cached], row) \subseteq touched

SavesOnlySet ==
    \A t \in Tasks : pc[t] = "update" /\ pc'[t] # "update" => Differ(row', row) \subseteq touched

\* save writes the whole object, read at some earlier time, perhaps by another, perhaps
\* left changed by a save that failed: still it changes no column of the row but those
\* that were set while some of the account was in the process, by the task that saves or
\* by others. In particular a task that meets no trace of another changes what it is
\* there to set and nothing else; clearing an error enables an account only if it was
\* enabled or disabled meanwhile, and brings an old key back only if the key was chosen
\* meanwhile.
OnlySetColumns == [][SavesOnlySet]_vars

SavesDisabled ==
    \A t \in Tasks : pc[t] = "select" /\ job[t].kind = "notAllowed" =>
        /\ pc'[t] = "del" => ~row.connected
        /\ pc'[t] = "update" => ~Saved(t)'.connected
        /\ pc'[t] = "idle" /\ cached' # Null /\ cached' = job[t].held =>
                ~copy'[cached'].connected

\* An error that says that trading is not allowed disables the account, whatever else
\* is under way and however old the object is that its handler saves: when save has
\* compared it with the row, the row is disabled or about to be; if the query fails, the
\* object the handler shares with the cache stays disabled, so that the next save of it
\* disables the row.
ErrorDisables == [][SavesDisabled]_vars
=============================================================================
