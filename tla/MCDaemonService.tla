-------------------------- MODULE MCDaemonService --------------------------
(* An instance of DaemonService for TLC. *)
EXTENDS DaemonService, TLC

\* Every step of the bid but one moves it by more than BuyMargin. Of the ask only the
\* way between the outer quotes is more than SellMargin, so that pairs change for the
\* sake of the bid alone, for both, and not at all.
MCQuotes == {[bid |-> 390, ask |-> 400], [bid |-> 490, ask |-> 500], [bid |-> 590, ask |-> 600]}

\* The minima of a pair depend on the quote they are taken at: 27 and 9000 at the
\* lowest one, 24 and 10800 at the others.
MCLimits == [minAmount |-> 20, minCost |-> 9000]

\* Buy runs are alike.
MCSymmetry == Permutations(Runs)
=============================================================================
