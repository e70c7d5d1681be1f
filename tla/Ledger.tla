------------------------------- MODULE Ledger -------------------------------
(***************************************************************************)
(* What the balance component promises its callers: a book with one entry   *)
(* per account and currency, in which every movement is atomic and leaves   *)
(* its line in the log at once. BalanceService implements it.               *)
(***************************************************************************)
EXTENDS Integers, Sequences, BalanceRows

CONSTANTS
    Accounts,
    Currencies,
    Moves,      \* signed amounts a caller posts, none of them zero
    Free        \* free amounts the exchange reports

VARIABLES
    book,   \* [Accounts -> [Currencies -> Entry]]
    lines   \* [Accounts -> [Currencies -> Seq(Line)]]

vars == <<book, lines>>

Entry == [amount : Int, in_orders : Int, for_fee : Int]

EntryOf(r) ==
    [amount |-> r.amount, in_orders |-> r.in_orders, for_fee |-> r.for_fee]

Record(a, c, d, total) ==
    lines' = [lines EXCEPT ![a][c] = Append(@, [amount |-> d, total |-> total])]

\* income or outcome: the entry moves by d, with the part ctx reserves.
Post(a, c) ==
    \E d \in Moves, ctx \in Contexts :
        /\ book' = [book EXCEPT ![a][c] =
                [amount    |-> @.amount + d,
                 in_orders |-> @.in_orders + (IF ctx = "in_orders" THEN d ELSE 0),
                 for_fee   |-> @.for_fee + (IF ctx = "for_fee" THEN d ELSE 0)]]
        /\ Record(a, c, d, book[a][c].amount + d)

\* set: the amount becomes what the exchange reports, the reserved parts stay,
\* and the log line carries the difference.
Reset(a, c) ==
    \E v \in Free :
        /\ v # book[a][c].amount
        /\ book' = [book EXCEPT ![a][c].amount = v]
        /\ Record(a, c, v - book[a][c].amount, v)

Init ==
    /\ book = [a \in Accounts |-> [c \in Currencies |-> EntryOf(ZeroRow)]]
    /\ lines = [a \in Accounts |-> [c \in Currencies |-> <<>>]]

Next == \E a \in Accounts, c \in Currencies : Post(a, c) \/ Reset(a, c)

Spec == Init /\ [][Next]_vars
=============================================================================
