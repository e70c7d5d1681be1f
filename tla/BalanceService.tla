--------------------------- MODULE BalanceService ---------------------------
(***************************************************************************)
(* BalanceService over the tables "balances" and "balance_log", at the      *)
(* granularity of its awaits, with the two levels of locks its callers take *)
(* from one process-wide async-lock:                                        *)
(*   - income and outcome hold 'Balance <account>' over read, save and log; *)
(*   - DaemonService.checkBalance holds 'Balance <account>' around          *)
(*     BotNest.checkBalance, whose BalanceService.set holds 'Balance'.      *)
(* async-lock is external: a first-in first-out queue per key.              *)
(***************************************************************************)
EXTENDS Integers, Sequences, FiniteSets, BalanceRows

CONSTANTS
    Accounts,
    Currencies,
    Workers,    \* concurrent callers of income and outcome
    Checkers,   \* concurrent callers of DaemonService.checkBalance
    Amounts,    \* amounts a caller of income or outcome passes
    Free,       \* free amounts the exchange may report
    SetKey,     \* the key 'Balance' of set; an account is its own key
    MaxCalls,   \* bound: calls started in a behaviour
    MaxFaults   \* bound: crashes and refused statements in a behaviour

ASSUME BalanceAssumption ==
    /\ Accounts # {} /\ Currencies # {}
    /\ Amounts \subseteq Nat /\ Free \subseteq Nat
    /\ Workers \cap Checkers = {}
    /\ SetKey \notin Accounts
    /\ MaxCalls \in Nat /\ MaxFaults \in Nat

VARIABLES
    rows,    \* rows[a][c]: the rows of "balances" for account a, currency c
    log,     \* log[a][c]: the lines of "balance_log", oldest first
    queue,   \* queue[k]: the tasks that asked for lock k, its holder first
    pc,      \* where each task stands
    job,     \* the local variables of each task
    calls,   \* calls started so far
    faults   \* faults so far

vars == <<rows, log, queue, pc, job, calls, faults>>

Tasks == Workers \cup Checkers
Keys  == Accounts \cup {SetKey}
Moves == (Amounts \cup {-x : x \in Amounts}) \ {0}
Table == [Currencies -> Seq(Row)]

Job == [acct : Accounts,
        cur  : Currencies,            \* the currency being saved
        move : Int,                   \* income's amount; outcome negates its own
        ctx  : Contexts,
        seen : Table,                 \* the rows of the account, as read
        free : [Currencies -> Nat],   \* what the exchange reported
        todo : SUBSET Currencies,     \* reported currencies set has yet to treat
        line : Line]                  \* the line to log after the save

NoJob == [acct |-> CHOOSE a \in Accounts : TRUE,
          cur  |-> CHOOSE c \in Currencies : TRUE,
          move |-> 0, ctx |-> "none",
          seen |-> [c \in Currencies |-> <<>>],
          free |-> [c \in Currencies |-> 0],
          todo |-> {}, line |-> [amount |-> 0, total |-> 0]]

WorkerPCs  == {"queued", "save", "line"}
CheckerPCs == {"queued", "wait", "sweep", "setline"}

Init ==
    /\ rows = [a \in Accounts |-> [c \in Currencies |-> <<>>]]
    /\ log = [a \in Accounts |-> [c \in Currencies |-> <<>>]]
    /\ queue = [k \in Keys |-> <<>>]
    /\ pc = [t \in Tasks |-> "idle"]
    /\ job = [t \in Tasks |-> NoJob]
    /\ calls = 0
    /\ faults = 0

-----------------------------------------------------------------------------
(* async-lock: lock.acquire(k, fn) runs fn once the caller is first in line. *)

Enqueue(k, t) == queue' = [queue EXCEPT ![k] = Append(@, t)]

Holds(k, t) == queue[k] # <<>> /\ Head(queue[k]) = t

\* The task's function returned or threw: it leaves the locks it holds.
Leave(t, keys) ==
    /\ queue' = [k \in Keys |-> IF k \in keys THEN Tail(queue[k]) ELSE queue[k]]
    /\ pc' = [pc EXCEPT ![t] = "idle"]
    /\ job' = [job EXCEPT ![t] = NoJob]

Goto(t, label) == pc' = [pc EXCEPT ![t] = label]

\* this.balanceRepository.save(balance), and the line the code will log for it.
SaveRow(t, a, c, r, d) ==
    /\ rows' = [rows EXCEPT ![a][c] = Saved(@, job[t].seen[c], r)]
    /\ job' = [job EXCEPT ![t].cur = c, ![t].todo = @ \ {c},
                          ![t].line = [amount |-> d, total |-> r.amount]]

\* this.balanceLogRepository.save(...)
AppendLine(t) ==
    log' = [log EXCEPT ![job[t].acct][job[t].cur] = Append(@, job[t].line)]

-----------------------------------------------------------------------------
(* income, and outcome, which is income of the negated amount.             *)

Income(t) ==
    /\ pc[t] = "idle" /\ calls < MaxCalls
    /\ \E a \in Accounts, c \in Currencies, d \in Moves, x \in Contexts :
        /\ Enqueue(a, t)
        /\ job' = [job EXCEPT ![t] = [NoJob EXCEPT !.acct = a, !.cur = c,
                                                   !.move = d, !.ctx = x]]
    /\ Goto(t, "queued")
    /\ calls' = calls + 1
    /\ UNCHANGED <<rows, log, faults>>

\* Fault model of GetBalance: the row is read without waiting for the lock.
GetBalanceUnlocked(t) ==
    /\ pc[t] = "queued"
    /\ job' = [job EXCEPT ![t].seen = rows[job[t].acct]]
    /\ Goto(t, "save")
    /\ UNCHANGED <<rows, log, queue, calls, faults>>

GetBalance(t) ==
    /\ pc[t] = "queued" /\ Holds(job[t].acct, t)
    /\ job' = [job EXCEPT ![t].seen = rows[job[t].acct]]
    /\ Goto(t, "save")
    /\ UNCHANGED <<rows, log, queue, calls, faults>>

SaveBalance(t) ==
    /\ pc[t] = "save"
    /\ LET j == job[t]
       IN  SaveRow(t, j.acct, j.cur, Credit(Entity(j.seen[j.cur]), j.move, j.ctx), j.move)
    /\ Goto(t, "line")
    /\ UNCHANGED <<log, queue, calls, faults>>

SaveLog(t) ==
    /\ pc[t] = "line"
    /\ AppendLine(t)
    /\ Leave(t, {job[t].acct})
    /\ UNCHANGED <<rows, calls, faults>>

-----------------------------------------------------------------------------
(* DaemonService.checkBalance, BotNest.checkBalance, BalanceService.set.   *)

CheckBalance(t) ==
    /\ pc[t] = "idle" /\ calls < MaxCalls
    /\ \E a \in Accounts :
        /\ Enqueue(a, t)
        /\ job' = [job EXCEPT ![t] = [NoJob EXCEPT !.acct = a]]
    /\ Goto(t, "queued")
    /\ calls' = calls + 1
    /\ UNCHANGED <<rows, log, faults>>

\* Fault model of FetchBalances: set asks for the lock its caller holds.
FetchBalancesReentrant(t) ==
    /\ pc[t] = "queued" /\ Holds(job[t].acct, t)
    /\ Enqueue(job[t].acct, t)
    /\ Goto(t, "wait")
    /\ UNCHANGED <<rows, log, job, calls, faults>>

\* fetchBalances answers for some currencies; set asks for its own lock.
FetchBalances(t) ==
    /\ pc[t] = "queued" /\ Holds(job[t].acct, t)
    /\ \E reported \in SUBSET Currencies : \E free \in [reported -> Free] :
        job' = [job EXCEPT ![t].todo = reported,
                              ![t].free = [c \in Currencies |->
                                  IF c \in reported THEN free[c] ELSE 0]]
    /\ Enqueue(SetKey, t)
    /\ Goto(t, "wait")
    /\ UNCHANGED <<rows, log, calls, faults>>

\* The exchange refuses: DaemonService.checkBalance logs the error and returns.
FetchFails(t) ==
    /\ pc[t] = "queued" /\ Holds(job[t].acct, t)
    /\ Leave(t, {job[t].acct})
    /\ UNCHANGED <<rows, log, calls, faults>>

FindRows(t) ==
    /\ pc[t] = "wait" /\ Holds(SetKey, t)
    /\ job' = [job EXCEPT ![t].seen = rows[job[t].acct]]
    /\ Goto(t, "sweep")
    /\ UNCHANGED <<rows, log, queue, calls, faults>>

\* The currencies set has something to write for: an INIT or an ACTUALIZE.
Discrepancy(j, c) ==
    IF j.seen[c] = <<>> THEN j.free[c] > 0 ELSE Entity(j.seen[c]).amount # j.free[c]

SetRow(t) ==
    /\ pc[t] = "sweep"
    /\ \E c \in job[t].todo :
        LET j == job[t]
            old == Entity(j.seen[c])
        IN  /\ Discrepancy(j, c)
            /\ SaveRow(t, j.acct, c, Actualized(old, j.free[c]), j.free[c] - old.amount)
    /\ Goto(t, "setline")
    /\ UNCHANGED <<log, queue, calls, faults>>

SetLine(t) ==
    /\ pc[t] = "setline"
    /\ AppendLine(t)
    /\ Goto(t, "sweep")
    /\ UNCHANGED <<rows, queue, job, calls, faults>>

SetDone(t) ==
    /\ pc[t] = "sweep"
    /\ \A c \in job[t].todo : ~Discrepancy(job[t], c)
    /\ Leave(t, {SetKey, job[t].acct})
    /\ UNCHANGED <<rows, log, calls, faults>>

-----------------------------------------------------------------------------
(* Faults.                                                                 *)

\* The process dies: the tasks and the locks are gone, the tables stay.
Crash ==
    /\ faults < MaxFaults
    /\ queue' = [k \in Keys |-> <<>>]
    /\ pc' = [t \in Tasks |-> "idle"]
    /\ job' = [t \in Tasks |-> NoJob]
    /\ faults' = faults + 1
    /\ UNCHANGED <<rows, log, calls>>

\* The database refuses the statement the task is at: its call rejects and
\* async-lock lets the next one in.
Refused(t) ==
    /\ faults < MaxFaults
    /\ \/ /\ pc[t] = "queued" /\ Holds(job[t].acct, t)
          /\ Leave(t, {job[t].acct})
       \/ /\ pc[t] \in {"save", "line"}
          /\ Leave(t, {job[t].acct})
       \/ /\ pc[t] = "wait" /\ Holds(SetKey, t)
          /\ Leave(t, {SetKey, job[t].acct})
       \/ /\ pc[t] \in {"sweep", "setline"}
          /\ Leave(t, {SetKey, job[t].acct})
    /\ faults' = faults + 1
    /\ UNCHANGED <<rows, log, calls>>

-----------------------------------------------------------------------------
WorkerStep(t) == GetBalance(t) \/ SaveBalance(t) \/ SaveLog(t)

CheckerStep(t) ==
    \/ FetchBalances(t) \/ FetchFails(t) \/ FindRows(t)
    \/ SetRow(t) \/ SetLine(t) \/ SetDone(t)

\* Every call allowed has been made and has returned.
Done ==
    /\ calls = MaxCalls /\ \A t \in Tasks : pc[t] = "idle"
    /\ UNCHANGED vars

Next ==
    \/ \E t \in Workers : Income(t) \/ WorkerStep(t)
    \/ \E t \in Checkers : CheckBalance(t) \/ CheckerStep(t)
    \/ Done

FaultyNext ==
    \/ Next
    \/ Crash
    \/ \E t \in Tasks : Refused(t)

Spec == Init /\ [][Next]_vars

FaultySpec == Init /\ [][FaultyNext]_vars

\* The database and the exchange answer: a call that may move moves in the end.
Fairness ==
    /\ \A t \in Workers : WF_vars(WorkerStep(t))
    /\ \A t \in Checkers : WF_vars(CheckerStep(t))

FairSpec == Spec /\ Fairness

-----------------------------------------------------------------------------
TypeOK ==
    /\ rows \in [Accounts -> Table]
    /\ log \in [Accounts -> [Currencies -> Seq(Line)]]
    /\ queue \in [Keys -> Seq(Tasks)]
    /\ pc \in [Tasks -> {"idle"} \cup WorkerPCs \cup CheckerPCs]
    /\ \A t \in Workers : pc[t] \in {"idle"} \cup WorkerPCs
    /\ \A t \in Checkers : pc[t] \in {"idle"} \cup CheckerPCs
    /\ job \in [Tasks -> Job]
    /\ calls \in 0..MaxCalls
    /\ faults \in 0..MaxFaults

-----------------------------------------------------------------------------
(* Properties.                                                             *)

\* A task inside the section that a lock protects, past its first read.
InAccount(t) == pc[t] \in {"save", "line", "wait", "sweep", "setline"}
InSet(t)     == pc[t] \in {"sweep", "setline"}

\* A task between saving a row and logging the movement.
Unlogged(t, a, c) ==
    pc[t] \in {"line", "setline"} /\ job[t].acct = a /\ job[t].cur = c

Settled(a, c) == \A t \in Tasks : ~Unlogged(t, a, c)

RowOk(r) == r.available = (r.amount - r.in_orders) - r.for_fee

ChainAt(lines, i) ==
    lines[i].total = (IF i = 1 THEN 0 ELSE lines[i - 1].total) + lines[i].amount

\* Every stored row is split without remainder into its available, reserved
\* and fee parts, whatever mix of income, outcome, set, crash and refused
\* statement wrote it (balance.service.ts:67-70 and 152-155).
AvailableIdentity ==
    \A a \in Accounts, c \in Currencies :
        \A i \in 1..Len(rows[a][c]) : RowOk(rows[a][c][i])

\* Two tasks that both found no row never both insert one: the table has no
\* unique key, only the locks keep one row per account and currency.
NoDuplicateRow ==
    \A a \in Accounts, c \in Currencies : Len(rows[a][c]) <= 1

\* No update is lost: every line's total is the total before it plus its
\* amount, over income, outcome and set together, and a row that nobody is
\* writing stands at the total of its last line.
AuditTrail ==
    \A a \in Accounts, c \in Currencies :
        /\ \A i \in 1..Len(log[a][c]) : ChainAt(log[a][c], i)
        /\ Settled(a, c) => Entity(rows[a][c]).amount = LastTotal(log[a][c])

\* At most one task is between its read and its last write for an account,
\* and at most one is inside BalanceService.set in the whole process.
MutualExclusion ==
    \A t, u \in Tasks : t # u =>
        /\ ~(InAccount(t) /\ InAccount(u) /\ job[t].acct = job[u].acct)
        /\ ~(InSet(t) /\ InSet(u))

\* The movements of a currency that the log does not account for.
Gaps(a, c) ==
    {i \in 1..Len(log[a][c]) : ~ChainAt(log[a][c], i)}
        \cup (IF Settled(a, c) /\ Entity(rows[a][c]).amount # LastTotal(log[a][c])
              THEN {0} ELSE {})

\* A crash or a refused statement costs at most one line of the log of each
\* account, the one between its save and its log, and nothing else is lost.
GapsBounded ==
    \A a \in Accounts :
        Cardinality(UNION {{c} \X Gaps(a, c) : c \in Currencies}) <= faults

\* Every call that waits for a lock, or holds one, returns: the two levels of
\* locks never wait on each other, and no caller is overtaken for ever.
CallsReturn == \A t \in Tasks : pc[t] # "idle" ~> pc[t] = "idle"

\* Seen with the line about to be logged, the two tables are the Ledger: every
\* call is one atomic movement of the book, in the order of the saves.
ShownBook ==
    [a \in Accounts |-> [c \in Currencies |->
        LET r == Entity(rows[a][c])
        IN  [amount |-> r.amount, in_orders |-> r.in_orders, for_fee |-> r.for_fee]]]

ShownLines ==
    [a \in Accounts |-> [c \in Currencies |->
        IF Settled(a, c)
        THEN log[a][c]
        ELSE Append(log[a][c], job[CHOOSE t \in Tasks : Unlogged(t, a, c)].line)]]

Book == INSTANCE Ledger WITH book <- ShownBook, lines <- ShownLines

ImplementsLedger == Book!Spec
=============================================================================
