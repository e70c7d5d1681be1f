-------------------------- MODULE BuyOrderService --------------------------
(***************************************************************************)
(* BuyOrderService.create, check and rollback, one action per await.       *)
(* checkAndImproveFeeBalance, which runs before createOrder, is left out.  *)
(***************************************************************************)
EXTENDS OrderStore

\* create: the exchange accepts the order a buy strategy asked for, and the rate
\* of the quote currency is known; BuyRecord writes the row.
BuyAccepted(t) ==
    /\ pc[t] = "buy" /\ RoomToOrder
    /\ \E full \in BOOLEAN :
        /\ Accept(NextId, 0, BuyAmount, full)
        /\ job' = [job EXCEPT ![t].id = NextId]
    /\ Goto(t, "b_record")
    /\ UNCHANGED <<row, posted, started, faults>>

\* createOrder throws, or answers without an id: the run ends.
BuyRefused(t) ==
    /\ pc[t] = "buy"
    /\ Continue(t, job[t].todo)
    /\ UNCHANGED <<ext, row, posted, started, faults>>

BuyLost(t) ==
    /\ pc[t] = "buy" /\ RoomToOrder
    /\ AcceptLost(NextId, 0, BuyAmount)
    /\ Continue(t, job[t].todo)
    /\ UNCHANGED <<row, posted, started>>

BuyRecord(t) ==
    /\ pc[t] = "b_record"
    /\ Record(job[t].id)
    /\ Goto(t, "b_out")
    /\ UNCHANGED <<ext, posted, job, started, faults>>

\* The outcome of the quote currency; the event buyOrder.created follows it.
BuyOutcome(t) ==
    /\ pc[t] = "b_out"
    /\ Post(job[t].id, "out")
    /\ Continue(t, job[t].todo)
    /\ UNCHANGED <<ext, row, started, faults>>

-----------------------------------------------------------------------------
\* Fault model of CheckBuy: a canceled order is left alone.
CheckBuyKeepsCanceled(t, s) ==
    LET x == ext[s.id]
    IN  /\ IsBuy(s.id)
        /\ \/ x.status = "gone" /\ Turn(t, s, "r_back")
           \/ x.status = "closed" /\ Turn(t, s, "f_row")
           \/ x.status \in {"open", "canceled"} /\ Continue(t, job[t].todo \ {s})
        /\ UNCHANGED <<ext, row, posted, started, faults>>

\* Fault model of CheckBuy: the row is closed before its amount is given back.
CheckBuyClosesFirst(t, s) ==
    LET x == ext[s.id]
    IN  /\ IsBuy(s.id)
        /\ \/ /\ x.status \in {"gone", "canceled"} /\ Turn(t, s, "r_back")
              /\ row' = [row EXCEPT ![s.id].isActive = FALSE]
           \/ x.status = "closed" /\ Turn(t, s, "f_row") /\ UNCHANGED row
           \/ x.status = "open" /\ Continue(t, job[t].todo \ {s}) /\ UNCHANGED row
        /\ UNCHANGED <<ext, posted, started, faults>>

\* check, of a row s the query returned as active: fetchOrder answers, and the
\* answer decides what follows.
CheckBuy(t, s) ==
    LET x == ext[s.id]
    IN  /\ IsBuy(s.id)
        /\ \/ x.status \in {"gone", "canceled"} /\ Turn(t, s, "r_back")
           \/ x.status = "closed" /\ Turn(t, s, "f_row")
           \/ x.status = "open" /\ Continue(t, job[t].todo \ {s})
        /\ UNCHANGED <<ext, row, posted, started, faults>>

\* fetchOrder fails with another error than not-found: nothing changes.
CheckBuyUnanswered(t, s) ==
    /\ faults < MaxFaults /\ IsBuy(s.id)
    /\ Continue(t, job[t].todo \ {s})
    /\ faults' = faults + 1
    /\ UNCHANGED <<ext, row, posted, started>>

\* Fault model of BuyFilled: the row does not say how much filled.
BuyFilledUnmarked(t) ==
    /\ pc[t] = "f_row"
    /\ row' = [row EXCEPT ![job[t].id].amount1 = ext[job[t].id].filled]
    /\ Goto(t, "f_income")
    /\ UNCHANGED <<ext, posted, job, started, faults>>

\* The order filled: the row first, then the income, then the fee.
BuyFilled(t) ==
    /\ pc[t] = "f_row"
    /\ row' = [row EXCEPT ![job[t].id].filled = ext[job[t].id].filled,
                          ![job[t].id].amount1 = ext[job[t].id].filled]
    /\ Goto(t, "f_income")
    /\ UNCHANGED <<ext, posted, job, started, faults>>

BuyIncome(t) ==
    /\ pc[t] = "f_income"
    /\ Post(job[t].id, "in")
    /\ Goto(t, "f_fee")
    /\ UNCHANGED <<ext, row, job, started, faults>>

BuyFee(t) ==
    /\ pc[t] = "f_fee"
    /\ PostFee(job[t].id)
    /\ Continue(t, job[t].todo)
    /\ UNCHANGED <<ext, row, started, faults>>

-----------------------------------------------------------------------------
\* rollback: the quote amount comes back, then the row is closed; the event
\* buyOrder.rolledback is emitted between the two.
BuyRollback(t) ==
    /\ pc[t] = "r_back"
    /\ Post(job[t].id, "back")
    /\ Goto(t, "r_off")
    /\ UNCHANGED <<ext, row, job, started, faults>>

BuyRollbackRow(t) ==
    /\ pc[t] = "r_off"
    /\ row' = [row EXCEPT ![job[t].id].isActive = FALSE]
    /\ Continue(t, job[t].todo)
    /\ UNCHANGED <<ext, posted, started, faults>>

BuyCreateStep(t) == BuyAccepted(t) \/ BuyRefused(t) \/ BuyRecord(t) \/ BuyOutcome(t)

BuyCheckStep(t) ==
    BuyFilled(t) \/ BuyIncome(t) \/ BuyFee(t) \/ BuyRollback(t) \/ BuyRollbackRow(t)
=============================================================================
