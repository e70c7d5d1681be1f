---------------------------- MODULE BalanceRows ----------------------------
(***************************************************************************)
(* One row of the "balances" table and what BalanceService computes on it.  *)
(* Amounts are decimals handled by js-big-decimal, exact under addition and *)
(* subtraction: integers stand for them.                                    *)
(***************************************************************************)
EXTENDS Integers, Sequences

\* OperationContext, and the null default of income and outcome.
Contexts == {"none", "in_orders", "for_fee"}

Row == [amount : Int, in_orders : Int, for_fee : Int, available : Int]

\* The entity getBalance makes when the currency has no row.
ZeroRow == [amount |-> 0, in_orders |-> 0, for_fee |-> 0, available |-> 0]

\* Fault model of Credit: available forgets the part kept for fees.
CreditForgetsFee(r, d, ctx) ==
    LET reserved == r.in_orders + (IF ctx = "in_orders" THEN d ELSE 0)
        fee      == r.for_fee + (IF ctx = "for_fee" THEN d ELSE 0)
    IN  [amount |-> r.amount + d, in_orders |-> reserved, for_fee |-> fee,
         available |-> r.amount + d - reserved]

\* What income does to the entity: the amount moves, one of the two reserved
\* parts moves with it when the context names it, and available follows.
Credit(r, d, ctx) ==
    LET reserved == r.in_orders + (IF ctx = "in_orders" THEN d ELSE 0)
        fee      == r.for_fee + (IF ctx = "for_fee" THEN d ELSE 0)
    IN  [amount |-> r.amount + d, in_orders |-> reserved, for_fee |-> fee,
         available |-> (r.amount + d - reserved) - fee]

\* Fault model of Actualized: the reserved parts are reset with the amount.
ActualizedFromScratch(r, v) ==
    [amount |-> v, in_orders |-> 0, for_fee |-> 0, available |-> v]

\* What set does to the entity whose amount differs from the exchange's free
\* amount v; on ZeroRow it is the row set inserts.
Actualized(r, v) ==
    [r EXCEPT !.amount = v, !.available = (v - r.in_orders) - r.for_fee]

\* The table has no unique key on (account_id, currency): the rows of one
\* currency are a sequence, in order of insertion, that should never pass one.
Entity(found) == IF found = <<>> THEN ZeroRow ELSE found[1]

\* Fault models of Saved: every save inserts; an insert leaves columns unset.
SavedAsInsert(table, found, r) == Append(table, r)

SavedWithoutDefaults(table, found, r) ==
    IF found = <<>> THEN Append(table, [amount |-> r.amount, available |-> r.available])
                    ELSE [table EXCEPT ![1] = r]

\* repository.save(entity): an entity that was not found is inserted.
Saved(table, found, r) ==
    IF found = <<>> THEN Append(table, r) ELSE [table EXCEPT ![1] = r]

\* A line of the "balance_log" table, and the total its last line shows.
Line == [amount : Int, total : Int]

LastTotal(lines) == IF lines = <<>> THEN 0 ELSE lines[Len(lines)].total
=============================================================================
