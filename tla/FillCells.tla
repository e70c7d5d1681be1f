----------------------------- MODULE FillCells -----------------------------
(***************************************************************************)
(* FillCellsStrategy and FillCellsStrategyService: which pairs of an account *)
(* to buy now, and how far apart its purchases are. One account; all pairs   *)
(* have the same quote currency. The rows of its buy orders are seen from     *)
(* here: how they fill and close is the matter of TradeService.              *)
(***************************************************************************)
EXTENDS PairRates

CONSTANTS
    OrderAmount, \* the strategy's orderAmount
    MinRate,     \* the strategy's minRate, down to which the balance shall last
    FirstCell,   \* the cell size the strategy is created with
    Lot,         \* what amounts of orders are multiples of at the exchange
    Total,       \* the quote balance at the start
    MaxOrders    \* bound: buy orders

ASSUME CellsAssumption ==
    /\ OrderAmount \in Nat \ {0} /\ MinRate \in Nat /\ FirstCell \in Nat /\ Total \in Nat
    /\ Lot \in Nat \ {0} /\ MaxOrders \in Nat \ {0}

VARIABLES
    cellSize, \* cellSize[p]: of the strategy's row for p
    amount,   \* the row of the quote currency: amount, and available with it
    order,    \* order[i]: the i-th buy order the exchange accepted
    clashes   \* history: orders in a cell in which another was placed

cellVars == <<cellSize, amount, order, clashes>>

Ids == 1..MaxOrders

\* "sent": on the exchange, its row to be written; "lost": on the exchange, its row
\* never written; "moved": filled at another rate than it was placed at.
Order == [status : {"none", "sent", "lost", "open", "filled", "moved", "closed"},
          pair : Pairs \cup {"none"}, rate : Nat, amount1 : Nat]

NoOrder     == [status |-> "none", pair |-> "none", rate |-> 0, amount1 |-> 0]
ClosedOrder == [NoOrder EXCEPT !.status = "closed"]

\* Orders whose row is active.
Active == {i \in Ids : order[i].status \in {"open", "filled", "moved"}}

\* What a purchase is to cost, for the row of its pair: GREATEST(orderAmount, minAmount2).
CostOf(row) == IF row.minAmount2 > OrderAmount THEN row.minAmount2 ELSE OrderAmount

Cost(p) == CostOf(pair[p])

\* Fault model of CellFree: only orders that have not filled count.
CellFreeOfOpen(p) ==
    \A i \in Active :
        order[i].status = "open" => Distance(order[i].rate, pair[p].sellRate) >= cellSize[p]

\* No active order, of whatever pair, has a rate within a cell of the sell rate.
CellFree(p) == \A i \in Active : Distance(order[i].rate, pair[p].sellRate) >= cellSize[p]

\* get: the pairs to buy, if their rows were updated in the last three seconds and
\* the account may trade.
Suitable ==
    {p \in Pairs : /\ pair[p].minAmount2 > 0
                   /\ amount > pair[p].minAmount2 /\ amount > OrderAmount
                   /\ cellSize[p] > 0
                   /\ CellFree(p)}

Request == [pair : Pairs, rate : Nat, amount2 : Nat, cell : Nat]

RequestFor(p) ==
    [pair |-> p, rate |-> pair[p].sellRate, amount2 |-> Cost(p), cell |-> cellSize[p]]

-----------------------------------------------------------------------------
(* recalcCellSize.                                                         *)

\* maxOrderCnt: what the balance pays for, and less than zero for a debt.
MaxOrderCnt(row, balance) == balance \div CostOf(row)

\* The divide of calculateCellSize throws.
DividesByZero(row, balance) == MaxOrderCnt(row, balance) = 0

\* Fault model of CellSize: the result may be negative.
CellSizeUnchecked(row, balance) ==
    LET n == MaxOrderCnt(row, balance)  down == row.sellRate - MinRate
    IN  IF n > 0 THEN Quotient(down, n) ELSE Quotient(-down, -n)

\* Fault model of CellSize: one cell too few between the rate and the floor.
CellSizeOneLess(row, balance) ==
    LET n == MaxOrderCnt(row, balance) - 1
    IN  IF row.sellRate <= MinRate \/ n < 1 THEN Quotient(row.sellRate, 100)
        ELSE Quotient(row.sellRate - MinRate, n)

\* calculateCellSize, of the rows of a pair and of the balance as they were read: the
\* way down to the floor, in as many parts as the balance pays for purchases, or a
\* hundredth of the rate. The early return for an amount that is not there cannot be
\* taken: the caller has just saved the row, and its column is a non-empty string.
CellSize(row, balance) ==
    LET n    == MaxOrderCnt(row, balance)
        down == row.sellRate - MinRate
        part == IF n > 0 THEN Quotient(down, n) ELSE Quotient(-down, -n)
    IN  IF part > 0 THEN part ELSE Quotient(row.sellRate, 100)

\* All the rows of the account are saved, as they were read but for the pairs
\* recalculated since.
CellsSaved(items) ==
    /\ cellSize' = items
    /\ UNCHANGED <<amount, order, clashes>>

-----------------------------------------------------------------------------
(* The rows of the orders.                                                 *)

NextId == 1 + Cardinality({i \in Ids : order[i].status # "none"})
RoomToOrder == NextId \in Ids

\* Fault model of PrepareAmounts: the least amount of the pair is not heeded.
PrepareAmountsUnlimited(r, minAmount1) ==
    [amount1 |-> Quotient(r.amount2, r.rate), amount2 |-> r.amount2]

\* prepareAmounts of BuyOrderService.
PrepareAmounts(r, minAmount1) ==
    LET wanted == Quotient(r.amount2, r.rate)
    IN  IF wanted < minAmount1
        THEN [amount1 |-> minAmount1, amount2 |-> minAmount1 * r.rate]
        ELSE [amount1 |-> wanted, amount2 |-> r.amount2]

\* Orders in the cell of request r, but for those whose rate may have moved into it
\* since r was found suitable, and those no row will ever tell of.
InCellOf(r) ==
    {i \in Ids : /\ order[i].status \in {"sent", "open", "filled"} /\ order[i].pair = r.pair
                 /\ Distance(order[i].rate, r.rate) < r.cell}

\* amountToPrecision of ccxt, which cuts off what is less than a lot.
Precise(amount1) == amount1 - (amount1 % Lot)

\* createOrder: the exchange accepts the order for request r.
Sent(r, amount1) ==
    /\ order' = [order EXCEPT ![NextId] =
            [status |-> "sent", pair |-> r.pair, rate |-> r.rate, amount1 |-> amount1]]
    /\ clashes' = IF InCellOf(r) = {} THEN clashes ELSE clashes + 1
    /\ UNCHANGED <<cellSize, amount>>

Recorded(i) ==
    /\ order' = [order EXCEPT ![i].status = "open"]
    /\ UNCHANGED <<cellSize, amount, clashes>>

\* The run that sent the orders of S ends before it has recorded them.
Lost(S) ==
    /\ order' = [i \in Ids |->
            IF i \in S THEN [ClosedOrder EXCEPT !.status = "lost"] ELSE order[i]]
    /\ UNCHANGED <<cellSize, amount, clashes>>

Outcome(cost) ==
    /\ amount' = amount - cost
    /\ UNCHANGED <<cellSize, order, clashes>>

\* check finds the order filled: its rate becomes the average it filled at.
OrderFills(i) ==
    /\ order[i].status = "open"
    /\ \E q \in Quotes :
        /\ q.ask <= order[i].rate
        /\ order' = [order EXCEPT
                ![i].status = IF q.ask = order[i].rate THEN "filled" ELSE "moved",
                ![i].rate = q.ask]
    /\ UNCHANGED <<cellSize, amount, clashes>>

\* The order is rolled back, or its position sold, and the row closed.
OrderCloses(i) ==
    /\ i \in Active
    /\ order' = [order EXCEPT ![i] = ClosedOrder]
    /\ amount' = amount + order[i].amount1 * order[i].rate
    /\ UNCHANGED <<cellSize, clashes>>

-----------------------------------------------------------------------------
CellsInit ==
    /\ cellSize = [p \in Pairs |-> FirstCell]
    /\ amount = Total
    /\ order = [i \in Ids |-> NoOrder]
    /\ clashes = 0

CellsTypeOK ==
    /\ cellSize \in [Pairs -> Nat]
    /\ amount \in Int
    /\ order \in [Ids -> Order]
    /\ clashes \in 0..MaxOrders

\* A cell for which a balance lasts: as many purchases as it pays for, one a cell, end
\* at the floor, to the rounding of one unit a cell; below the floor it is positive.
Lasts(row, balance, cell) ==
    LET down == row.sellRate - MinRate
    IN  /\ cell > 0
        /\ down > 0 /\ balance >= 0 => \E k \in {down \div cell, 1 + down \div cell} :
              /\ k * CostOf(row) <= balance /\ balance < (k + 1) * CostOf(row)
              /\ Distance(k * cell, down) <= k
=============================================================================
