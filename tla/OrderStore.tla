---------------------------- MODULE OrderStore ----------------------------
(***************************************************************************)
(* What the order services share, for one account and one pair: the orders  *)
(* of the exchange, the "orders" table, the movements posted to the balance *)
(* (atomic, as Ledger promises) and the tasks. An order has one number here, *)
(* on the exchange and in the table. The journal of TradeCheckService, which *)
(* nothing reads, is left out.                                             *)
(***************************************************************************)
EXTENDS Integers, FiniteSets, FiniteSetsExt, Functions

CONSTANTS
    Buyers,        \* runs of TradeService.runBuyStrategies
    Sellers,       \* runs of TradeService.runSellStrategies
    Checkers,      \* runs of TradeService.checkLimitOrders
    BuyAmount,     \* base amount a buy order is placed for
    OtherInOrders, \* in_orders of the base currency for orders of other pairs
    Overlap,       \* TRUE: checks run beside the runs, as in DaemonService.trade
    MaxOrders,     \* bound: orders ever placed on the exchange
    MaxFaults      \* bound: crashes, failed awaits, lost or missing answers

ASSUME OrderAssumption ==
    /\ BuyAmount \in Nat \ {0} /\ MaxOrders \in Nat \ {0} /\ MaxFaults \in Nat
    /\ Overlap \in BOOLEAN /\ OtherInOrders \in Nat
    /\ Buyers \cap Sellers = {} /\ Buyers \cap Checkers = {}
    /\ Sellers \cap Checkers = {}

VARIABLES
    ext,     \* ext[i]: order i on the exchange
    row,     \* row[i]: order i in the "orders" table
    posted,  \* posted[i]: lines of "balance_log" whose sourceId is i
    pc,      \* where each task stands
    job,     \* the local variables of each task
    started, \* runs of the trade loop's iteration under way; unused with Overlap
    faults   \* faults so far

vars == <<ext, row, posted, pc, job, started, faults>>

Ids    == 1..MaxOrders
Tasks  == Buyers \cup Sellers \cup Checkers

\* parent: the buy order a sell order closes, 0 for a buy order.
ExtOrder == [status : {"none", "open", "closed", "canceled", "gone"},
             parent : 0..MaxOrders, amount : Nat, filled : Nat]

OrderRow == [stored : BOOLEAN, isActive : BOOLEAN, parent : 0..MaxOrders,
             amount1 : Nat, filled : Nat,
             preclosed : Int, closed_amount : Int]

\* out: the outcome when the order is placed; in: the income when it fills;
\* fee: the fee of the fill; back: the income of a rollback.
Postings == [out : Nat, in : Nat, fee : Nat, back : Nat]

\* A row as a query returned it: what create and check still use of it later.
Snapshot == [id : 0..MaxOrders, preclosed : Int]

\* The local variables of a task.
Job == [todo : SUBSET Snapshot,   \* rows of the query not yet treated
        cur  : Snapshot,          \* the one being treated
        id   : 0..MaxOrders,      \* the order being placed or checked
        full : BOOLEAN,           \* the exchange said filled = amount
        seen : Int]               \* what was read of the parent row

NoExt == [status |-> "none", parent |-> 0, amount |-> 0, filled |-> 0]
NoRow == [stored |-> FALSE, isActive |-> FALSE, parent |-> 0, amount1 |-> 0,
          filled |-> 0, preclosed |-> 0, closed_amount |-> 0]
NoSnapshot == [id |-> 0, preclosed |-> 0]
NoJob == [todo |-> {}, cur |-> NoSnapshot, id |-> 0, full |-> FALSE, seen |-> 0]

Init ==
    /\ ext = [i \in Ids |-> NoExt]
    /\ row = [i \in Ids |-> NoRow]
    /\ posted = [i \in Ids |-> [out |-> 0, in |-> 0, fee |-> 0, back |-> 0]]
    /\ pc = [t \in Tasks |-> "idle"]
    /\ job = [t \in Tasks |-> NoJob]
    /\ started = {}
    /\ faults = 0

-----------------------------------------------------------------------------
Placed(i)  == ext[i].status # "none"
NextId     == Min({i \in Ids : ~Placed(i)})
RoomToOrder == \E i \in Ids : ~Placed(i)
IsBuy(i)   == row[i].parent = 0
BuyRows    == {i \in Ids : row[i].stored /\ IsBuy(i)}
SellRows   == {i \in Ids : row[i].stored /\ ~IsBuy(i)}
Children(p) == {i \in SellRows : row[i].parent = p}
Sum(S, f(_)) == SumFunctionOnSet([i \in S |-> f(i)], S)
\* balance.in_orders of currency1: only the lines with context IN_ORDERS.
InOrders ==
    OtherInOrders
    + Sum(BuyRows, LAMBDA i : posted[i].in * row[i].amount1)
    - Sum(SellRows, LAMBDA i : (posted[i].out - posted[i].back) * row[i].amount1)

-----------------------------------------------------------------------------
(* Steps of the tasks.                                                     *)

Goto(t, label) == pc' = [pc EXCEPT ![t] = label]

\* Fault model of Post: the movement is taken off instead of added.
PostReversed(i, kind) == posted' = [posted EXCEPT ![i][kind] = @ - 1]

Post(i, kind) == posted' = [posted EXCEPT ![i][kind] = @ + 1]

\* extractFee found a fee, which is an outcome of its own, or none.
PostFee(i) == Post(i, "fee") \/ UNCHANGED posted

\* The order is done with: a checker or a seller turns to the rows of its query
\* that are left; a buyer, and a run with nothing left, returns.
Continue(t, left) ==
    IF t \in Buyers \/ left = {}
    THEN Goto(t, "idle") /\ job' = [job EXCEPT ![t] = NoJob]
    ELSE /\ Goto(t, IF t \in Sellers THEN "sell" ELSE "fetch")
         /\ job' = [job EXCEPT ![t] = [NoJob EXCEPT !.todo = left]]

\* A checker takes row s of its query and goes on at the given step.
Turn(t, s, label) ==
    /\ Goto(t, label)
    /\ job' = [job EXCEPT ![t].todo = @ \ {s}, ![t].id = s.id]

\* The exchange takes the order, which rests there or has filled at once.
Accept(i, p, amount, full) ==
    ext' = [ext EXCEPT ![i] = [status |-> IF full THEN "closed" ELSE "open",
                               parent |-> p, amount |-> amount,
                               filled |-> IF full THEN amount ELSE 0]]

\* orders.create.
Record(i) ==
    row' = [row EXCEPT ![i] = [NoRow EXCEPT !.stored = TRUE, !.isActive = TRUE,
                                            !.parent = ext[i].parent,
                                            !.amount1 = ext[i].amount]]

\* The exchange took the order and create threw before orders.create: the answer
\* was lost or the fetchOrder behind it failed, or, the answer seen, getLastPrice
\* failed, which is asked for the rate of a quote currency other than USDT.
AcceptLost(i, p, amount) ==
    /\ faults < MaxFaults
    /\ \E full \in BOOLEAN : Accept(i, p, amount, full)
    /\ faults' = faults + 1

-----------------------------------------------------------------------------
(* The exchange, external: orders fill, are canceled and are forgotten.    *)

Fill(i) ==
    /\ ext[i].status = "open"
    /\ \E f \in (ext[i].filled + 1)..ext[i].amount :
        ext' = [ext EXCEPT ![i].filled = f,
                           ![i].status = IF f = ext[i].amount THEN "closed" ELSE @]
    /\ UNCHANGED <<row, posted, pc, job, started, faults>>

CancelOnExchange(i) ==
    /\ ext[i].status = "open"
    /\ ext' = [ext EXCEPT ![i].status = "canceled"]
    /\ UNCHANGED <<row, posted, pc, job, started, faults>>

\* An order canceled without a fill is dropped: fetchOrder answers not-found.
Forget(i) ==
    /\ ext[i].status = "canceled" /\ ext[i].filled = 0
    /\ ext' = [ext EXCEPT ![i].status = "gone"]
    /\ UNCHANGED <<row, posted, pc, job, started, faults>>

ExchangeNext == \E i \in Ids : Fill(i) \/ CancelOnExchange(i) \/ Forget(i)
=============================================================================
