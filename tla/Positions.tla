----------------------------- MODULE Positions -----------------------------
(***************************************************************************)
(* What the order services promise about the base currency: a position is   *)
(* bought once, its amount is offered in parts, a part is sold or withdrawn *)
(* once, and no more is ever on offer or sold than was bought.              *)
(***************************************************************************)
EXTENDS Integers, Functions

CONSTANTS Ids, MaxAmount

VARIABLES
    bought,    \* bought[p]: the amount of position p, 0 before its order fills
    offered,   \* offered[p]: the parts of p in sell orders, by their order
    sold       \* sold[p]: the amount sold of p

vars == <<bought, offered, sold>>

\* A part is a pair of the sell order and its amount.
Part == Ids \X (1..MaxAmount)

Total(parts) == SumFunctionOnSet([x \in parts |-> x[2]], parts)

Init ==
    /\ bought = [p \in Ids |-> 0]
    /\ offered = [p \in Ids |-> {}]
    /\ sold = [p \in Ids |-> 0]

Buy(p) ==
    /\ bought[p] = 0
    /\ \E n \in 1..MaxAmount : bought' = [bought EXCEPT ![p] = n]
    /\ UNCHANGED <<offered, sold>>

Offer(p) ==
    /\ \E x \in Part :
        /\ x \notin offered[p]
        /\ Total(offered[p] \cup {x}) + sold[p] <= bought[p]
        /\ offered' = [offered EXCEPT ![p] = @ \cup {x}]
    /\ UNCHANGED <<bought, sold>>

Withdraw(p) ==
    /\ \E x \in offered[p] : offered' = [offered EXCEPT ![p] = @ \ {x}]
    /\ UNCHANGED <<bought, sold>>

Sell(p) ==
    /\ \E x \in offered[p] :
        /\ offered' = [offered EXCEPT ![p] = @ \ {x}]
        /\ sold' = [sold EXCEPT ![p] = @ + x[2]]
    /\ UNCHANGED bought

Next == \E p \in Ids : Buy(p) \/ Offer(p) \/ Withdraw(p) \/ Sell(p)

Spec == Init /\ [][Next]_vars
=============================================================================
