------------------------- MODULE CloseOrderService -------------------------
(***************************************************************************)
(* CloseOrderService.create, check and rollback, one action per await. The  *)
(* run that created an order checks it at once with the answer of the       *)
(* exchange; a checker fetches the order again.                            *)
(***************************************************************************)
EXTENDS OrderStore

\* create: the exchange accepts, perhaps for less than needSell after rounding.
SellAccepted(t) ==
    /\ pc[t] = "sell" /\ RoomToOrder
    /\ \E s \in job[t].todo, full \in BOOLEAN :
        \E amount \in 1..(row[s.id].amount1 - s.preclosed) :
            /\ Accept(NextId, s.id, amount, full)
            /\ job' = [job EXCEPT ![t].todo = @ \ {s}, ![t].cur = s,
                                  ![t].id = NextId, ![t].full = full]
    /\ Goto(t, "s_record")
    /\ UNCHANGED <<row, posted, started, faults>>

\* createOrder answers without an id and the next row's turn comes, or it throws
\* and the run ends, the rest of its list with it.
SellRefused(t) ==
    /\ pc[t] = "sell"
    /\ \/ \E s \in job[t].todo : Continue(t, job[t].todo \ {s})
       \/ Continue(t, {})
    /\ UNCHANGED <<ext, row, posted, started, faults>>

SellLost(t) ==
    /\ pc[t] = "sell" /\ RoomToOrder
    /\ \E s \in job[t].todo :
        \E amount \in 1..(row[s.id].amount1 - s.preclosed) :
            AcceptLost(NextId, s.id, amount)
    /\ Continue(t, {})
    /\ UNCHANGED <<row, posted, started>>

SellRecord(t) ==
    /\ pc[t] = "s_record"
    /\ Record(job[t].id)
    /\ Goto(t, "s_out")
    /\ UNCHANGED <<ext, posted, job, started, faults>>

SellOutcome(t) ==
    /\ pc[t] = "s_out"
    /\ Post(job[t].id, "out")
    /\ Goto(t, "s_preclose")
    /\ UNCHANGED <<ext, row, job, started, faults>>

\* Fault model of SellPreclose: preclosed stays as it was.
SellPrecloseKept(t) ==
    /\ pc[t] = "s_preclose"
    /\ IF job[t].full
       THEN Goto(t, "c_close") /\ UNCHANGED job
       ELSE Continue(t, job[t].todo)
    /\ UNCHANGED <<ext, row, posted, started, faults>>

\* preclosed is written from what the query of the strategy returned; then check
\* runs with the answer of createOrder, which settles an order filled at once.
SellPreclose(t) ==
    /\ pc[t] = "s_preclose"
    /\ LET s == job[t].cur
       IN  row' = [row EXCEPT ![s.id].preclosed = s.preclosed + row[job[t].id].amount1]
    /\ IF job[t].full
       THEN Goto(t, "c_close") /\ UNCHANGED job
       ELSE Continue(t, job[t].todo)
    /\ UNCHANGED <<ext, posted, started, faults>>

-----------------------------------------------------------------------------
\* check, of a row s the query returned as active. An order that is not found is
\* rolled back; a canceled order is neither filled nor rolled back.
CheckSell(t, s) ==
    LET x == ext[s.id]
    IN  /\ ~IsBuy(s.id)
        /\ \/ x.status = "gone" /\ Turn(t, s, "k_back")
           \/ x.status = "closed" /\ Turn(t, s, "c_close")
           \/ x.status \in {"open", "canceled"} /\ Continue(t, job[t].todo \ {s})
        /\ UNCHANGED <<ext, row, posted, started, faults>>

\* fetchOrder fails with another error than not-found: rolled back as well.
CheckSellUnanswered(t, s) ==
    /\ faults < MaxFaults /\ ~IsBuy(s.id)
    /\ Turn(t, s, "k_back")
    /\ faults' = faults + 1
    /\ UNCHANGED <<ext, row, posted, started>>

\* Fault model of SellFilled: the row stays among those to check.
SellFilledUnmarked(t) ==
    /\ pc[t] = "c_close"
    /\ row' = [row EXCEPT ![job[t].id].amount1 = ext[job[t].id].filled]
    /\ Goto(t, "c_income")
    /\ UNCHANGED <<ext, posted, job, started, faults>>

\* The order filled: its row is closed, the quote amount comes in, the fee goes.
SellFilled(t) ==
    /\ pc[t] = "c_close"
    /\ LET i == job[t].id
       IN  row' = [row EXCEPT ![i].isActive = FALSE, ![i].filled = ext[i].filled,
                              ![i].amount1 = ext[i].filled]
    /\ Goto(t, "c_income")
    /\ UNCHANGED <<ext, posted, job, started, faults>>

SellIncome(t) ==
    /\ pc[t] = "c_income"
    /\ Post(job[t].id, "in")
    /\ Goto(t, "c_fee")
    /\ UNCHANGED <<ext, row, job, started, faults>>

\* Fault model of SellFee: check returns where it should turn to the parent.
SellFeeReturns(t) ==
    /\ pc[t] = "c_fee"
    /\ PostFee(job[t].id)
    /\ Continue(t, job[t].todo)
    /\ UNCHANGED <<ext, row, started, faults>>

SellFee(t) ==
    /\ pc[t] = "c_fee"
    /\ PostFee(job[t].id)
    /\ Goto(t, "c_find")
    /\ UNCHANGED <<ext, row, job, started, faults>>

\* findOne(parent); what is closed is computed from this read.
SellFindParent(t) ==
    /\ pc[t] = "c_find"
    /\ LET i == job[t].id
       IN  job' = [job EXCEPT ![t].seen =
                        row[row[i].parent].closed_amount + ext[i].filled]
    /\ Goto(t, "c_parent")
    /\ UNCHANGED <<ext, row, posted, started, faults>>

\* Fault model of SellParent: the first part sold closes the position.
SellParentClosed(t) ==
    /\ pc[t] = "c_parent"
    /\ LET p == row[job[t].id].parent
       IN  row' = [row EXCEPT ![p].closed_amount = job[t].seen, ![p].isActive = FALSE]
    /\ Continue(t, job[t].todo)
    /\ UNCHANGED <<ext, posted, started, faults>>

\* The parent's row: closed_amount, and isActive once it is all closed. The
\* listeners of buyOrder.closed have run by then.
SellParent(t) ==
    /\ pc[t] = "c_parent"
    /\ LET p == row[job[t].id].parent
       IN  row' = [row EXCEPT ![p].closed_amount = job[t].seen,
                              ![p].isActive = @ /\ row[p].amount1 # job[t].seen]
    /\ Continue(t, job[t].todo)
    /\ UNCHANGED <<ext, posted, started, faults>>

-----------------------------------------------------------------------------
\* Fault model of SellRollback: the base amount is not given back.
SellRollbackUnpaid(t) ==
    /\ pc[t] = "k_back"
    /\ Goto(t, "k_find")
    /\ UNCHANGED <<ext, row, posted, job, started, faults>>

\* rollback: the base amount comes back, preclosed goes down from a fresh read
\* of the parent, and the row is closed last.
SellRollback(t) ==
    /\ pc[t] = "k_back"
    /\ Post(job[t].id, "back")
    /\ Goto(t, "k_find")
    /\ UNCHANGED <<ext, row, job, started, faults>>

SellRollbackFind(t) ==
    /\ pc[t] = "k_find"
    /\ job' = [job EXCEPT ![t].seen = row[row[job[t].id].parent].preclosed]
    /\ Goto(t, "k_preclose")
    /\ UNCHANGED <<ext, row, posted, started, faults>>

\* Fault model of SellRollbackParent: preclosed stays as it was.
SellRollbackParentKept(t) ==
    /\ pc[t] = "k_preclose"
    /\ Goto(t, "k_off")
    /\ UNCHANGED <<ext, row, posted, job, started, faults>>

SellRollbackParent(t) ==
    /\ pc[t] = "k_preclose"
    /\ LET i == job[t].id
       IN  row' = [row EXCEPT ![row[i].parent].preclosed = job[t].seen - row[i].amount1]
    /\ Goto(t, "k_off")
    /\ UNCHANGED <<ext, posted, job, started, faults>>

SellRollbackRow(t) ==
    /\ pc[t] = "k_off"
    /\ row' = [row EXCEPT ![job[t].id].isActive = FALSE]
    /\ Continue(t, job[t].todo)
    /\ UNCHANGED <<ext, posted, started, faults>>

SellCreateStep(t) ==
    \/ SellAccepted(t) \/ SellRefused(t) \/ SellRecord(t) \/ SellOutcome(t)
    \/ SellPreclose(t)

SellCheckStep(t) ==
    \/ SellFilled(t) \/ SellIncome(t) \/ SellFee(t) \/ SellFindParent(t) \/ SellParent(t)
    \/ SellRollback(t) \/ SellRollbackFind(t) \/ SellRollbackParent(t)
    \/ SellRollbackRow(t)
=============================================================================
