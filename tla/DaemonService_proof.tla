------------------------- MODULE DaemonService_proof -------------------------
(***************************************************************************)
(* Proofs about DaemonService, for any finite sets of pairs and of runs, any *)
(* rates, limits and margins, and any number of overlaps and faults. Three    *)
(* invariants carry them: RatesInv for the loop, RunsInv for the runs and the *)
(* orders, FeesInv for what is bought to pay fees. What overlapping runs do   *)
(* twice is then bounded by what they may still do, counted by pair. What an  *)
(* order may be of (LimitsInv) bounds it by the exchange's limits, and with   *)
(* them the balance (AmountInv) and the cells that are to make it last.       *)
(***************************************************************************)
EXTENDS DaemonService, FiniteSetTheorems, TLAPS

\* The rates of p in q would not count as a change.
Near(p, q) ==
    /\ ~IsSuitableRate(q.bid, lastRates[p].bid, BuyMargin)
    /\ ~IsSuitableRate(q.ask, lastRates[p].ask, SellMargin)

\* Changes wait for setRates in the phase "rates" only, each near the last rates.
RatesSound ==
    /\ phase # "rates" => changed = NoRates
    /\ phase = "rates" => \A p \in todo : changed[p] = NoQuote
    /\ phase = "init" => lastRates = NoRates
    /\ \A p \in Pairs : changed[p] # NoQuote => Near(p, changed[p])
    /\ \A p \in Pairs : pair[p].minAmount2 > 0 => pair[p].sellRate > 0

RatesInv ==
    /\ RatesTypeOK /\ RatesSound /\ StoredWithinMargin
    /\ phase \in {"init", "idle", "rates", "runs"} /\ todo \subseteq Pairs

Labels == {"idle", "get", "next", "market", "t_in", "t_out", "t_fee", "order", "record",
           "out", "cells", "recalc", "balance", "save"}

\* The steps of recalcCellSize.
Recalcs == {"cells", "recalc", "balance", "save"}

Job == [todo : SUBSET Request, request : Request \cup {NoRequest}, amount1 : Nat, fee : Nat,
        cost : Nat, id : 0..MaxOrders, left : SUBSET Pairs, items : [Pairs -> Nat],
        cell : Pairs \cup {"none"}, row : PairRow, balance : Int]

\* The steps of a run from the request taken up to the order sent for it.
Ordering == {"market", "t_in", "t_out", "t_fee", "order"}

\* What a run holds at each step: its requests are of different pairs, and of rates
\* one can divide by.
Shape(l, j) ==
    /\ l \in Labels /\ j \in Job
    /\ l \in {"idle", "get"} => j.todo = {}
    /\ \A r, s \in j.todo : r.pair = s.pair => r = s
    /\ \A r \in j.todo : r.rate > 0
    /\ l \in Ordering => j.request \in Request /\ \A r \in j.todo : r.pair # j.request.pair
    /\ l = "record" => j.id \in Ids
    /\ l \in {"balance", "save"} => j.cell \in Pairs

Shaped == \A t \in Runs : Shape(pc[t], job[t])

Used == {i \in Ids : order[i].status # "none"}

\* The orders used are the first ones, each clash is of one of them, and every order
\* whose row is to be written is in the hands of one run.
OrdersSound ==
    /\ \A i \in Ids : i \in Used <=> i <= Cardinality(Used)
    /\ clashes <= Cardinality(Used)
    /\ \A t \in Runs : pc[t] = "record" => order[job[t].id].status = "sent"
    /\ \A t, u \in Runs :
          pc[t] = "record" /\ pc[u] = "record" /\ job[t].id = job[u].id => t = u
    /\ \A i \in Ids : order[i].status = "sent" =>
          \E t \in Runs : pc[t] = "record" /\ job[t].id = i

RunsInv ==
    /\ pc \in [Runs -> Labels] /\ job \in [Runs -> Job]
    /\ Shaped
    /\ cellSize \in [Pairs -> Nat] /\ amount \in Int
    /\ order \in [Ids -> Order] /\ clashes \in Nat /\ OrdersSound
    /\ forFee \in [Pairs -> Int] /\ spare \in Nat

TIn     == {t \in Runs : pc[t] = "t_in"}
Orphans == Busy \ {mine}

\* Each run that nobody awaits is there for a fault, and so is each market order that
\* is unposted, but for those of the runs at "t_in".
FeesPosted ==
    /\ Cardinality(TIn) <= unposted
    /\ unposted + Cardinality(Orphans) <= faults + Cardinality(TIn)

FeesInv ==
    /\ unposted \in Nat /\ faults \in 0..MaxFaults /\ overlaps \in 0..MaxOverlaps
    /\ mine \in Runs \cup {NoRun}
    /\ phase # "runs" => mine = NoRun
    /\ FeesPosted

-----------------------------------------------------------------------------
\* Run t may still ask for p, may still buy base currency for a purchase of p, may
\* still send an order of p: each pair at most once a run.
Asked(t, p)   == pc[t] = "get" \/ \E r \in job[t].todo : r.pair = p
MayBuy(t, p)  == Asked(t, p) \/ (pc[t] = "market" /\ job[t].request.pair = p)
MaySend(t, p) == Asked(t, p) \/ (pc[t] \in Ordering /\ job[t].request.pair = p)

BuysLeft  == {x \in Runs \X Pairs : MayBuy(x[1], x[2])}
SendsLeft == {x \in Runs \X Pairs : MaySend(x[1], x[2])}

\* A purchase of base currency for p under way is, or may be, one too many.
FeeCovered(p) ==
    \E t \in Runs :
        /\ job[t].request.pair = p
        /\ pc[t] = "t_in" \/ (pc[t] = "market" /\ forFee[p] >= FeeOf(job[t].amount1))

\* An order of p that may be in the cell of a request, or a request in its cell.
CellTaken(p) ==
    \/ \E i \in Ids : order[i].status = "sent" /\ order[i].pair = p
    \/ \E t \in Runs :
        \/ \E r \in job[t].todo : r.pair = p /\ InCellOf(r) # {}
        \/ pc[t] \in Ordering /\ job[t].request.pair = p /\ InCellOf(job[t].request) # {}

\* Pairs of which the next purchase will do no harm.
FirstBuys  == {p \in Pairs : ~FeeCovered(p) /\ \E t \in Runs : MayBuy(t, p)}
FirstSends == {p \in Pairs : ~CellTaken(p) /\ \E t \in Runs : MaySend(t, p)}

\* What was done too often, and may yet be, is what overlapping runs may do and the
\* first run of them does not.
SpareBounded ==
    spare + Cardinality(BuysLeft) <= overlaps * Cardinality(Pairs) + Cardinality(FirstBuys)
ClashesBounded ==
    clashes + Cardinality(SendsLeft) <= overlaps * Cardinality(Pairs) + Cardinality(FirstSends)

-----------------------------------------------------------------------------
LEMMA DivisionType ==
    ASSUME NEW a \in Nat, NEW b \in Nat \ {0}
    PROVE  a \div b \in Nat
  OBVIOUS

LEMMA QuotientType ==
    ASSUME NEW a \in Nat, NEW b \in Nat \ {0}
    PROVE  Quotient(a, b) \in Nat
  <1>1. 2 * a + b \in Nat /\ 2 * b \in Nat \ {0}
    OBVIOUS
  <1> QED
    BY <1>1, DivisionType DEF Quotient

LEMMA QuoteType ==
    /\ \A q \in Quotes : q \in [bid : Nat, ask : Nat] /\ q.bid > 0 /\ q.ask > 0 /\ q # NoQuote
    /\ NoQuote \in [bid : Nat, ask : Nat] /\ NoQuote.bid = 0 /\ NoQuote.ask = 0
  BY RatesAssumption DEF NoQuote

LEMMA NoRatesType ==
    /\ NoRates \in [Pairs -> [bid : Nat, ask : Nat]]
    /\ NoRates \in [Pairs -> Quotes \cup {NoQuote}]
    /\ \A p \in Pairs : NoRates[p] = NoQuote
  BY QuoteType DEF NoRates

\* A rate is no change against itself.
LEMMA NoChange ==
    ASSUME NEW rate \in Nat \ {0}, NEW margin \in Nat
    PROVE  ~IsSuitableRate(rate, rate, margin)
  <1>1. Distance(rate, rate) = 0
    BY DEF Distance
  <1>2. margin * rate >= 0
    OBVIOUS
  <1> QED
    BY <1>1, <1>2 DEF IsSuitableRate

LEMMA MinAmountsType ==
    ASSUME NEW q \in Quotes
    PROVE  MinAmounts(q).minAmount1 \in Nat /\ MinAmounts(q).minAmount2 \in Nat
  <1> DEFINE cost   == IF Limits.minCost = 0 THEN Limits.minAmount * q.bid ELSE Limits.minCost
             costs  == Quotient(cost, q.ask)
             amount0 == IF Limits.minAmount = 0 THEN costs ELSE Limits.minAmount
             near   == costs <= amount0
             amount1 == IF near THEN Quotient(amount0 * 12, 10) ELSE amount0
             amount2 == IF near THEN Quotient(cost * 12, 10) ELSE cost
             raised == Quotient(amount2 * 12, q.ask * 10)
  <1>1. /\ q.bid \in Nat /\ q.ask \in Nat \ {0} /\ q.ask * 10 \in Nat \ {0}
        /\ Limits.minAmount \in Nat /\ Limits.minCost \in Nat
    BY RatesAssumption
  <1>2. Limits.minAmount * q.bid \in Nat
    BY <1>1
  <1>3. cost \in Nat
    BY <1>1, <1>2
  <1>4. costs \in Nat
    BY <1>1, <1>3, QuotientType
  <1>5. amount0 \in Nat
    BY <1>1, <1>4
  <1>6. amount1 \in Nat /\ amount2 \in Nat
    <2> HIDE DEF cost, costs, amount0
    <2>1. amount0 * 12 \in Nat /\ cost * 12 \in Nat /\ 10 \in Nat \ {0}
      BY <1>3, <1>5
    <2>2. Quotient(amount0 * 12, 10) \in Nat /\ Quotient(cost * 12, 10) \in Nat
      BY <2>1, QuotientType
    <2> QED
      BY <1>3, <1>5, <2>2
  <1>7. raised \in Nat
    <2> HIDE DEF amount2
    <2>1. amount2 * 12 \in Nat
      BY <1>6
    <2> QED
      BY <1>1, <2>1, QuotientType
  <1>8. MinAmounts(q) = [minAmount1 |-> IF q.ask * amount1 < amount2 THEN raised ELSE amount1,
                         minAmount2 |-> amount2]
    BY DEF MinAmounts
  <1> HIDE DEF cost, costs, amount0, near, amount1, amount2, raised
  <1> QED
    BY <1>6, <1>7, <1>8

-----------------------------------------------------------------------------
(* The rates.                                                              *)

\* What the loop does not do leaves the rates and the phase alone.
LEMMA RatesLeft ==
    ASSUME \/ \E t \in Runs : RunStep(t) \/ Throws(t)
           \/ \E i \in Ids : Fills(i) \/ Closes(i)
           \/ UNCHANGED vars
    PROVE  UNCHANGED <<rateVars, phase, todo, mine>>
  <1>1. ASSUME NEW t \in Runs, RunStep(t)
        PROVE  UNCHANGED <<rateVars, loopVars>>
    BY <1>1 DEF RunStep, Get, RunEnds, MarketOrder, TransferIn, TransferOut, TransferFee,
        CreateOrder, Refused, Record, OrderOutcome, Create, FindCells, RecalcPair,
        RecalcCellSize, RecalcThrows, SaveCells, RecalcEnds
  <1>2. ASSUME NEW t \in Runs, Throws(t)
        PROVE  UNCHANGED <<rateVars, loopVars>>
    BY <1>2 DEF Throws
  <1>3. ASSUME NEW i \in Ids, Fills(i) \/ Closes(i)
        PROVE  UNCHANGED <<rateVars, loopVars>>
    BY <1>3 DEF Fills, Closes
  <1> QED
    BY <1>1, <1>2, <1>3 DEF vars, loopVars

LEMMA ActualizeKeepsRates ==
    ASSUME RatesInv, NEW p \in Pairs, ActualizePair(p)
    PROVE  RatesInv'
  <1>1. PICK q \in Quotes : Actualize(p, q)
    BY DEF ActualizePair
  <1>2. /\ phase = "init" /\ phase' = "init" /\ todo' = todo \ {p}
        /\ UNCHANGED <<lastRates, changed, bidMargined, dropped>>
        /\ lastRates = NoRates /\ changed = NoRates
    BY <1>1 DEF ActualizePair, Actualize, RatesInv, RatesSound
  <1> DEFINE m == MinAmounts(q)
             new == [buyRate |-> q.bid, sellRate |-> q.ask,
                     minAmount1 |-> m.minAmount1, minAmount2 |-> m.minAmount2]
  <1>3. pair' = [pair EXCEPT ![p] = new]
    BY <1>1 DEF Actualize
  <1>4. new \in PairRow /\ new.sellRate > 0
    BY MinAmountsType, QuoteType DEF PairRow
  <1> HIDE DEF new
  <1>5. RatesTypeOK'
    BY <1>2, <1>3, <1>4 DEF RatesInv, RatesTypeOK
  <1>6. RatesSound'
    BY <1>2, <1>3, <1>4, NoRatesType DEF RatesInv, RatesTypeOK, RatesSound
  <1>7. StoredWithinMargin'
    BY <1>2, NoRatesType DEF StoredWithinMargin
  <1> QED
    BY <1>2, <1>5, <1>6, <1>7 DEF RatesInv

LEMMA CheckRateKeepsRates ==
    ASSUME RatesInv, NEW p \in Pairs, GetActualRates(p)
    PROVE  RatesInv'
  <1>1. PICK q \in Quotes : CheckRate(p, q)
    BY DEF GetActualRates
  <1> DEFINE bid == IsSuitableRate(q.bid, lastRates[p].bid, BuyMargin)
             ask == IsSuitableRate(q.ask, lastRates[p].ask, SellMargin)
             last == [bid |-> IF bid THEN q.bid ELSE lastRates[p].bid,
                      ask |-> IF ask THEN q.ask ELSE lastRates[p].ask]
  <1>2. /\ phase = "rates" /\ phase' = phase /\ p \in todo /\ todo' = todo \ {p}
        /\ changed' = IF bid \/ ask THEN [changed EXCEPT ![p] = q] ELSE changed
        /\ lastRates' = [lastRates EXCEPT ![p] = last]
        /\ bidMargined' = (bidMargined \/ bid)
        /\ UNCHANGED <<pair, dropped>>
    BY <1>1 DEF GetActualRates, CheckRate
  <1>3. /\ lastRates \in [Pairs -> [bid : Nat, ask : Nat]]
        /\ changed \in [Pairs -> Quotes \cup {NoQuote}] /\ changed[p] = NoQuote
        /\ todo \subseteq Pairs
    BY <1>2 DEF RatesInv, RatesTypeOK, RatesSound
  <1>4. /\ last \in [bid : Nat, ask : Nat]
        /\ ~IsSuitableRate(q.bid, last.bid, BuyMargin)
        /\ ~IsSuitableRate(q.ask, last.ask, SellMargin)
    BY <1>3, QuoteType, NoChange, RatesAssumption
  <1>5. ~bid /\ ~ask => last = lastRates[p]
    BY <1>3
  <1>6. bid \in BOOLEAN
    BY DEF IsSuitableRate
  <1> HIDE DEF bid, ask, last
  <1>7. RatesTypeOK'
    BY <1>2, <1>3, <1>4, <1>6 DEF RatesInv, RatesTypeOK
  <1>8. /\ \A r \in Pairs \ {p} : changed'[r] = changed[r] /\ lastRates'[r] = lastRates[r]
        /\ lastRates'[p] = last
        /\ changed'[p] = IF bid \/ ask THEN q ELSE NoQuote
    BY <1>2, <1>3
  <1>9. RatesSound'
    <2>1. ASSUME NEW r \in Pairs, changed'[r] # NoQuote
          PROVE  Near(r, changed[r])'
      <3>1. CASE r = p
        BY <1>4, <1>8, <2>1, <3>1 DEF Near
      <3>2. CASE r # p
        BY <1>8, <2>1, <3>2 DEF Near, RatesInv, RatesSound
      <3> QED
        BY <3>1, <3>2
    <2>2. \A r \in todo' : changed'[r] = NoQuote
      BY <1>2, <1>3, <1>8 DEF RatesInv, RatesSound
    <2>3. \A r \in Pairs : pair'[r].minAmount2 > 0 => pair'[r].sellRate > 0
      BY <1>2 DEF RatesInv, RatesSound
    <2> QED
      BY <1>2, <2>1, <2>2, <2>3 DEF RatesSound
  <1>10. StoredWithinMargin'
    <2> SUFFICES ASSUME NEW r \in Pairs, lastRates'[r] # NoQuote, changed'[r] = NoQuote,
                        r \notin dropped'
                 PROVE  Within(r)'
      BY DEF StoredWithinMargin
    <2>1. lastRates'[r] = lastRates[r] /\ changed[r] = NoQuote
      BY <1>3, <1>5, <1>8, QuoteType
    <2> QED
      BY <1>2, <2>1 DEF RatesInv, StoredWithinMargin, Within
  <1> QED
    BY <1>2, <1>3, <1>7, <1>9, <1>10 DEF RatesInv

LEMMA SetRatesKeepsRates ==
    ASSUME RatesInv, NEW p \in Pairs, SetRates(p)
    PROVE  RatesInv'
  <1>1. /\ phase = "rates" /\ phase' = phase /\ todo' = todo /\ changed[p] # NoQuote
        /\ pair' = [pair EXCEPT ![p].buyRate = changed[p].bid, ![p].sellRate = changed[p].ask]
        /\ changed' = [changed EXCEPT ![p] = NoQuote]
        /\ dropped' = dropped \ {p}
        /\ UNCHANGED <<lastRates, bidMargined>>
    BY DEF SetRates, SetRate, Changed, loopVars
  <1>2. /\ pair \in [Pairs -> PairRow] /\ DOMAIN pair = Pairs
        /\ changed \in [Pairs -> Quotes \cup {NoQuote}] /\ todo \subseteq Pairs
    BY DEF RatesInv, RatesTypeOK
  <1>3. changed[p] \in Quotes /\ Near(p, changed[p])
    BY <1>1, <1>2 DEF RatesInv, RatesSound
  <1>4. /\ \A r \in Pairs \ {p} : pair'[r] = pair[r] /\ changed'[r] = changed[r]
        /\ pair'[p].buyRate = changed[p].bid /\ pair'[p].sellRate = changed[p].ask
        /\ pair'[p].minAmount2 = pair[p].minAmount2 /\ changed'[p] = NoQuote
    BY <1>1, <1>2
  <1>5. RatesTypeOK'
    BY <1>1, <1>2, <1>3, QuoteType DEF RatesInv, RatesTypeOK, PairRow
  <1>6. RatesSound'
    <2>1. \A r \in Pairs : changed'[r] # NoQuote => Near(r, changed[r])'
      BY <1>1, <1>4 DEF Near, RatesInv, RatesSound
    <2>2. \A r \in todo' : changed'[r] = NoQuote
      BY <1>1, <1>2, <1>4 DEF RatesInv, RatesSound
    <2>3. \A r \in Pairs : pair'[r].minAmount2 > 0 => pair'[r].sellRate > 0
      BY <1>3, <1>4, QuoteType DEF RatesInv, RatesSound
    <2> QED
      BY <1>1, <2>1, <2>2, <2>3 DEF RatesSound
  <1>7. StoredWithinMargin'
    <2> SUFFICES ASSUME NEW r \in Pairs, lastRates'[r] # NoQuote, changed'[r] = NoQuote,
                        r \notin dropped'
                 PROVE  Within(r)'
      BY DEF StoredWithinMargin
    <2>1. CASE r = p
      BY <1>1, <1>3, <1>4, <2>1 DEF Near, Within
    <2>2. CASE r # p
      BY <1>1, <1>4, <2>2 DEF RatesInv, StoredWithinMargin, Within
    <2> QED
      BY <2>1, <2>2
  <1> QED
    BY <1>1, <1>2, <1>5, <1>6, <1>7 DEF RatesInv

LEMMA LoopKeepsRates ==
    ASSUME RatesInv,
           \/ \E p \in Pairs : ActualizeFails(p) \/ GetActualRatesFails(p)
           \/ NextIteration \/ NoRunToStart \/ RunSettled \/ OtherRejected
           \/ \E t \in Runs : StartRun(t)
    PROVE  RatesInv'
  <1>1. \/ UNCHANGED <<rateVars, phase>> /\ todo' \subseteq todo
        \/ /\ changed = NoRates /\ changed' = NoRates /\ bidMargined' = FALSE
           /\ UNCHANGED <<lastRates, pair, dropped>>
           /\ phase' = "rates" /\ todo' = Pairs
        \/ /\ changed = NoRates /\ bidMargined' \in BOOLEAN
           /\ UNCHANGED <<lastRates, pair, changed, dropped, todo>> /\ phase' \in {"idle", "runs"}
    <2>1. ASSUME NEW p \in Pairs, ActualizeFails(p) \/ GetActualRatesFails(p)
          PROVE  UNCHANGED <<rateVars, phase>> /\ todo' \subseteq todo
      BY <2>1 DEF ActualizeFails, GetActualRatesFails
    <2>2. ASSUME NextIteration
          PROVE  /\ changed = NoRates /\ changed' = NoRates /\ bidMargined' = FALSE
                 /\ UNCHANGED <<lastRates, pair, dropped>>
                 /\ phase' = "rates" /\ todo' = Pairs
      BY <2>2 DEF NextIteration, CheckBegins, RatesInv, RatesSound
    <2>3. ASSUME \E t \in Runs : StartRun(t)
          PROVE  /\ changed = NoRates /\ bidMargined' \in BOOLEAN
                 /\ UNCHANGED <<lastRates, pair, changed, dropped, todo>>
                 /\ phase' = "runs"
      <3>1. Changed = {} /\ bidMargined' = FALSE /\ phase' = "runs"
            /\ UNCHANGED <<lastRates, pair, changed, dropped, todo>>
        BY <2>3 DEF StartRun, RatesForwarded
      <3>2. changed = NoRates
        BY <3>1 DEF Changed, NoRates, RatesInv, RatesTypeOK
      <3> QED
        BY <3>1, <3>2
    <2>4. ASSUME NoRunToStart
          PROVE  /\ changed = NoRates /\ bidMargined' \in BOOLEAN
                 /\ UNCHANGED <<lastRates, pair, changed, dropped, todo>>
                 /\ phase' = "idle"
      <3>1. Changed = {} /\ UNCHANGED <<rateVars, todo>> /\ phase' = "idle"
        BY <2>4 DEF NoRunToStart
      <3>2. changed = NoRates
        BY <3>1 DEF Changed, NoRates, RatesInv, RatesTypeOK
      <3> QED
        BY <3>1, <3>2 DEF rateVars, RatesInv, RatesTypeOK
    <2>5. ASSUME RunSettled \/ OtherRejected
          PROVE  /\ changed = NoRates /\ bidMargined' \in BOOLEAN
                 /\ UNCHANGED <<lastRates, pair, changed, dropped, todo>>
                 /\ phase' = "idle"
      BY <2>5 DEF RunSettled, OtherRejected, rateVars, RatesInv, RatesTypeOK, RatesSound
    <2> QED
      BY <2>1, <2>2, <2>3, <2>4, <2>5
  <1>2. RatesTypeOK'
    BY <1>1, NoRatesType DEF RatesInv, RatesTypeOK, rateVars
  <1>3. UNCHANGED <<lastRates, pair, changed, dropped>>
    BY <1>1 DEF rateVars
  <1>4. \A p \in Pairs : changed'[p] # NoQuote => Near(p, changed[p])'
    BY <1>3 DEF RatesInv, RatesSound, Near
  <1>5. RatesSound'
    BY <1>1, <1>3, <1>4, NoRatesType DEF RatesInv, RatesSound
  <1>6. StoredWithinMargin'
    BY <1>3 DEF RatesInv, StoredWithinMargin, Within
  <1>7. phase' \in {"init", "idle", "rates", "runs"} /\ todo' \subseteq Pairs
    BY <1>1 DEF RatesInv
  <1> QED
    BY <1>2, <1>5, <1>6, <1>7 DEF RatesInv

LEMMA LostKeepsRates ==
    ASSUME RatesInv, RatesThrow \/ Crash
    PROVE  RatesInv'
  <1>1. /\ changed' = NoRates /\ bidMargined' = FALSE /\ UNCHANGED pair
        /\ \/ UNCHANGED lastRates /\ dropped' = dropped \cup Changed
              /\ phase' = "idle" /\ todo' = {}
           \/ lastRates' = NoRates /\ dropped' = {} /\ phase' = "init" /\ todo' = Pairs
    BY DEF RatesThrow, RatesLost, Crash, RatesForgotten
  <1>2. RatesTypeOK'
    BY <1>1, NoRatesType DEF RatesInv, RatesTypeOK, Changed
  <1>3. RatesSound'
    BY <1>1, NoRatesType DEF RatesInv, RatesSound, Near
  <1>4. StoredWithinMargin'
    BY <1>1, NoRatesType DEF RatesInv, StoredWithinMargin, Within, Changed
  <1> QED
    BY <1>1, <1>2, <1>3, <1>4 DEF RatesInv

\* The invariant of the loop: a change found is near the last rates until setRates
\* stores it, and setRates leaves none behind, faults included.
THEOREM RatesInvariant == Spec => []RatesInv
  <1>1. Init => RatesInv
    <2> SUFFICES ASSUME Init PROVE RatesInv
      OBVIOUS
    <2>1. NewPair \in PairRow /\ NewPair.minAmount2 = 0
      BY DEF NewPair, PairRow
    <2> HIDE DEF NewPair
    <2>2. RatesTypeOK /\ phase = "init" /\ todo = Pairs
      BY <2>1, NoRatesType DEF Init, RatesInit, RatesTypeOK
    <2>3. RatesSound /\ StoredWithinMargin
      BY <2>1, NoRatesType DEF Init, RatesInit, RatesSound, StoredWithinMargin
    <2> QED
      BY <2>2, <2>3 DEF RatesInv
  <1>2. RatesInv /\ [Next]_vars => RatesInv'
    <2> SUFFICES ASSUME RatesInv, [Next]_vars PROVE RatesInv'
      OBVIOUS
    <2>1. CASE LoopStep
      BY <2>1, ActualizeKeepsRates, CheckRateKeepsRates, SetRatesKeepsRates, LoopKeepsRates
        DEF LoopStep
    <2>2. CASE Fault /\ ~\E t \in Runs : Throws(t)
      BY <2>2, LoopKeepsRates, LostKeepsRates DEF Fault
    <2>3. CASE \/ \E t \in Runs : RunStep(t) \/ Throws(t)
               \/ \E i \in Ids : Fills(i) \/ Closes(i)
               \/ UNCHANGED vars
      <3>1. UNCHANGED <<lastRates, pair, changed, bidMargined, dropped, phase, todo>>
        BY <2>3, RatesLeft DEF rateVars
      <3> QED
        BY <3>1 DEF RatesInv, RatesTypeOK, RatesSound, StoredWithinMargin, Near, Within
    <2> QED
      BY <2>1, <2>2, <2>3 DEF Next, Fault
  <1> QED
    BY <1>1, <1>2, PTL DEF Spec

-----------------------------------------------------------------------------
(* The runs and the orders.                                                *)

LEMMA IdsFinite == IsFiniteSet(Ids) /\ Cardinality(Ids) = MaxOrders /\ MaxOrders \in Nat \ {0}
  <1>1. MaxOrders \in Nat \ {0}
    BY CellsAssumption
  <1>2. IsFiniteSet(1..MaxOrders) /\ Cardinality(1..MaxOrders) = MaxOrders
    BY <1>1, FS_Interval
  <1> QED
    BY <1>1, <1>2 DEF Ids

LEMMA UsedBounded ==
    IsFiniteSet(Used) /\ Cardinality(Used) \in Nat /\ Cardinality(Used) <= MaxOrders
  <1>1. Used \subseteq Ids
    BY DEF Used
  <1> QED
    BY <1>1, IdsFinite, FS_Subset, FS_CardinalityType

LEMMA NoJobShape ==
    /\ NoJob \in Job /\ Shape("idle", NoJob)
    /\ NoJob.todo = {} /\ NoJob.request = NoRequest
  <1>1. NoJob \in Job
    BY IdsFinite DEF NoJob, Job, NoItems, NewPair, PairRow
  <1>2. NoJob.todo = {} /\ NoJob.request = NoRequest
    BY DEF NoJob
  <1> QED
    BY <1>1, <1>2 DEF Shape, Labels, Ordering

LEMMA FeeOfType ==
    ASSUME NEW amount1 \in Nat
    PROVE  FeeOf(amount1) \in Nat
  <1>1. amount1 * Fee \in Nat /\ 100 \in Nat \ {0}
    BY FeeAssumption
  <1> QED
    BY <1>1, QuotientType DEF FeeOf

LEMMA CostType ==
    ASSUME RatesInv, NEW p \in Pairs
    PROVE  /\ pair[p].sellRate \in Nat /\ pair[p].minAmount1 \in Nat /\ pair[p].minAmount2 \in Nat
           /\ Cost(p) \in Nat \ {0}
  BY CellsAssumption DEF RatesInv, RatesTypeOK, PairRow, Cost, CostOf

LEMMA RequestForType ==
    ASSUME RatesInv, RunsInv, NEW p \in Suitable
    PROVE  RequestFor(p) \in Request /\ RequestFor(p).pair = p /\ RequestFor(p).rate > 0
  <1>1. p \in Pairs /\ pair[p].minAmount2 > 0
    BY DEF Suitable
  <1>2. pair[p].sellRate \in Nat /\ Cost(p) \in Nat /\ cellSize[p] \in Nat
    BY <1>1, CostType DEF RunsInv
  <1>3. pair[p].sellRate > 0
    BY <1>1 DEF RatesInv, RatesSound
  <1> QED
    BY <1>1, <1>2, <1>3 DEF RequestFor, Request

LEMMA CellSizeType ==
    ASSUME NEW row \in PairRow, NEW balance \in Int, ~DividesByZero(row, balance)
    PROVE  CellSize(row, balance) \in Nat
  <1> DEFINE n == MaxOrderCnt(row, balance)
             down == row.sellRate - MinRate
             part == IF n > 0 THEN Quotient(down, n) ELSE Quotient(-down, -n)
  <1>1. row.sellRate \in Nat /\ CostOf(row) \in Nat \ {0}
    BY CellsAssumption DEF PairRow, CostOf
  <1>2. n \in Int /\ n # 0
    BY <1>1 DEF MaxOrderCnt, DividesByZero
  <1>3. Quotient(row.sellRate, 100) \in Nat
    <2>1. 100 \in Nat \ {0}
      OBVIOUS
    <2> QED
      BY <1>1, <2>1, QuotientType
  <1>4. down \in Int
    BY <1>1, CellsAssumption
  <1>5. CellSize(row, balance) = IF part > 0 THEN part ELSE Quotient(row.sellRate, 100)
    BY DEF CellSize
  <1> HIDE DEF n, down
  <1>6. part \in Int
    <2>1. ASSUME NEW x \in Int, NEW y \in Nat \ {0}
          PROVE  Quotient(x, y) \in Int
      <3>1. 2 * x + y \in Int /\ 2 * y \in Nat \ {0}
        OBVIOUS
      <3> QED
        BY <3>1 DEF Quotient
    <2> QED
      BY <1>2, <1>4, <2>1
  <1> QED
    BY <1>3, <1>5, <1>6

LEMMA PrepareAmountsType ==
    ASSUME NEW r \in Request, r.rate > 0, NEW least \in Nat
    PROVE  PrepareAmounts(r, least).amount1 \in Nat
  <1>1. r.amount2 \in Nat /\ r.rate \in Nat \ {0}
    BY DEF Request
  <1>2. Quotient(r.amount2, r.rate) \in Nat
    BY <1>1, QuotientType
  <1> QED
    BY <1>2 DEF PrepareAmounts

LEMMA FeeToBuyType ==
    ASSUME RatesInv, RunsInv, NEW p \in Pairs, NEW amount1 \in Nat
    PROVE  FeeToBuy(p, amount1) \in Nat
  <1> DEFINE missing == FeeOf(amount1) - forFee[p]
             atLeast == IF missing < pair[p].minAmount1 THEN pair[p].minAmount1 ELSE missing
  <1>1. missing \in Int
    BY FeeOfType DEF RunsInv
  <1>2. /\ pair[p].sellRate \in Nat /\ pair[p].minAmount1 \in Nat /\ pair[p].minAmount2 \in Nat
        /\ pair[p].minAmount2 > 0 => pair[p].sellRate > 0
    BY CostType DEF RatesInv, RatesSound
  <1>3. CASE missing <= 0
    BY <1>3 DEF FeeToBuy
  <1>4. CASE missing > 0
    <2>1. atLeast \in Nat
      BY <1>1, <1>2, <1>4
    <2>2. ~(missing <= 0)
      BY <1>1, <1>4
    <2>3. FeeToBuy(p, amount1) = IF atLeast * pair[p].sellRate < pair[p].minAmount2
                                 THEN Quotient(pair[p].minAmount2, pair[p].sellRate)
                                 ELSE atLeast
      BY <2>2 DEF FeeToBuy
    <2> HIDE DEF atLeast
    <2>4. atLeast * pair[p].sellRate \in Nat
      BY <1>2, <2>1
    <2>5. atLeast * pair[p].sellRate < pair[p].minAmount2 => pair[p].sellRate \in Nat \ {0}
      BY <1>2, <2>4
    <2>6. atLeast * pair[p].sellRate < pair[p].minAmount2
            => Quotient(pair[p].minAmount2, pair[p].sellRate) \in Nat
      BY <1>2, <2>5, QuotientType
    <2> QED
      BY <2>1, <2>3, <2>6
  <1> QED
    BY <1>1, <1>3, <1>4

\* One run moves, and nobody else.
LEMMA MoveKeepsShape ==
    ASSUME RunsInv, NEW t \in Runs, NEW l, NEW j,
           pc' = [pc EXCEPT ![t] = l], job' = [job EXCEPT ![t] = j], Shape(l, j)
    PROVE  /\ pc' \in [Runs -> Labels] /\ job' \in [Runs -> Job] /\ Shaped'
           /\ \A u \in Runs \ {t} : pc'[u] = pc[u] /\ job'[u] = job[u]
           /\ pc'[t] = l /\ job'[t] = j
  <1>1. pc \in [Runs -> Labels] /\ job \in [Runs -> Job] /\ l \in Labels /\ j \in Job
    BY DEF RunsInv, Shape
  <1>2. /\ \A u \in Runs \ {t} : pc'[u] = pc[u] /\ job'[u] = job[u]
        /\ pc'[t] = l /\ job'[t] = j
    BY <1>1
  <1>3. \A u \in Runs : Shape(pc[u], job[u])
    BY DEF RunsInv, Shaped
  <1>4. \A u \in Runs : Shape(pc'[u], job'[u])
    BY <1>2, <1>3
  <1> QED
    BY <1>1, <1>2, <1>4 DEF Shaped

\* Orders are neither sent nor recorded nor lost.
LEMMA SameOrders ==
    ASSUME RunsInv, clashes' = clashes,
           \A i \in Ids : /\ order'[i].status = "none" <=> order[i].status = "none"
                          /\ order'[i].status = "sent" <=> order[i].status = "sent",
           \A u \in Runs : /\ pc'[u] = "record" <=> pc[u] = "record"
                           /\ pc[u] = "record" => job'[u].id = job[u].id
    PROVE  OrdersSound'
  <1>1. Used' = Used
    BY DEF Used
  <1>2. \A u \in Runs : pc[u] = "record" => job[u].id \in Ids
    BY DEF RunsInv, Shaped, Shape
  <1> QED
    BY <1>1, <1>2 DEF RunsInv, OrdersSound

\* A step of a run that leaves the orders alone.
LEMMA MoveKeepsRuns ==
    ASSUME RunsInv, NEW t \in Runs, NEW l, NEW j,
           pc' = [pc EXCEPT ![t] = l], job' = [job EXCEPT ![t] = j], Shape(l, j),
           pc[t] # "record", l # "record", UNCHANGED <<order, clashes>>,
           cellSize' \in [Pairs -> Nat], amount' \in Int, forFee' \in [Pairs -> Int],
           spare' \in Nat
    PROVE  RunsInv'
  <1>1. /\ pc' \in [Runs -> Labels] /\ job' \in [Runs -> Job] /\ Shaped'
        /\ \A u \in Runs \ {t} : pc'[u] = pc[u] /\ job'[u] = job[u]
        /\ pc'[t] = l /\ job'[t] = j
    BY MoveKeepsShape
  <1>2. OrdersSound'
    BY <1>1, SameOrders
  <1> QED
    BY <1>1, <1>2 DEF RunsInv

LEMMA StartRunKeepsRuns ==
    ASSUME RunsInv, NEW t \in Runs, StartRun(t)
    PROVE  RunsInv'
  <1>1. /\ pc[t] = "idle" /\ pc' = [pc EXCEPT ![t] = "get"] /\ UNCHANGED <<cellVars, feeVars, job>>
        /\ Shape("idle", job[t])
    BY DEF StartRun, RunsInv, Shaped
  <1>2. Shape("get", job[t])
    BY <1>1 DEF Shape, Labels, Ordering
  <1>3. job' = [job EXCEPT ![t] = job[t]]
    BY <1>1 DEF RunsInv
  <1> QED
    BY <1>1, <1>2, <1>3, MoveKeepsRuns DEF RunsInv, cellVars, feeVars

LEMMA GetKeepsRuns ==
    ASSUME RatesInv, RunsInv, NEW t \in Runs, Get(t)
    PROVE  RunsInv'
  <1>1. PICK found \in {Suitable, {}} :
            job' = [job EXCEPT ![t].todo = {RequestFor(p) : p \in found}]
    BY DEF Get
  <1> DEFINE todo1 == {RequestFor(p) : p \in found}
             j == [job[t] EXCEPT !.todo = todo1]
  <1>2. /\ pc[t] = "get" /\ pc' = [pc EXCEPT ![t] = "next"] /\ job' = [job EXCEPT ![t] = j]
        /\ UNCHANGED <<cellVars, feeVars>>
    BY <1>1 DEF Get, Goto
  <1>3. \A p \in found : /\ RequestFor(p) \in Request /\ RequestFor(p).pair = p
                         /\ RequestFor(p).rate > 0
    BY RequestForType
  <1>4. /\ todo1 \subseteq Request /\ \A r \in todo1 : r.rate > 0
        /\ \A r, s \in todo1 : r.pair = s.pair => r = s
    BY <1>3
  <1> HIDE DEF todo1
  <1>5. j \in Job /\ j.todo = todo1
    BY <1>4 DEF RunsInv, Job
  <1>6. Shape("next", j)
    BY <1>4, <1>5 DEF Shape, Labels, Ordering
  <1> QED
    BY <1>2, <1>6, MoveKeepsRuns DEF RunsInv, cellVars, feeVars

LEMMA CreateKeepsRuns ==
    ASSUME RatesInv, RunsInv, NEW t \in Runs, NEW r \in job[t].todo, Create(t, r)
    PROVE  RunsInv'
  <1> DEFINE amount1 == PrepareAmounts(r, pair[r.pair].minAmount1).amount1
             fee == FeeToBuy(r.pair, amount1)
             l == IF fee = 0 THEN "order" ELSE "market"
             j == [job[t] EXCEPT !.todo = @ \ {r}, !.request = r, !.amount1 = amount1, !.fee = fee]
  <1>1. /\ pc[t] = "next" /\ Shape(pc[t], job[t]) /\ job[t] \in Job
        /\ pc' = [pc EXCEPT ![t] = l] /\ job' = [job EXCEPT ![t] = j]
        /\ UNCHANGED <<cellVars, feeVars>>
    BY DEF Create, Goto, RunsInv, Shaped
  <1>2. r \in Request /\ r.rate > 0 /\ r.pair \in Pairs /\ \A s \in job[t].todo : s.pair = r.pair => s = r
    BY <1>1 DEF Shape, Job, Request
  <1>3. amount1 \in Nat
    BY <1>2, CostType, PrepareAmountsType
  <1> HIDE DEF amount1
  <1>4. fee \in Nat
    BY <1>2, <1>3, FeeToBuyType
  <1> HIDE DEF fee
  <1>5. j \in Job /\ j.todo = job[t].todo \ {r} /\ j.request = r
    BY <1>1, <1>2, <1>3, <1>4 DEF Job
  <1>6. Shape(l, j)
    BY <1>1, <1>2, <1>5 DEF Shape, Labels, Ordering
  <1> QED
    BY <1>1, <1>6, MoveKeepsRuns DEF RunsInv, cellVars, feeVars

LEMMA PreciseType ==
    ASSUME NEW a \in Nat
    PROVE  Precise(a) \in Nat /\ Precise(a) <= a /\ a < Precise(a) + Lot /\ Precise(a) % Lot = 0
  <1>1. Lot \in Nat \ {0}
    BY CellsAssumption
  <1>2. a % Lot \in 0..(Lot - 1) /\ a = Lot * (a \div Lot) + (a % Lot) /\ a \div Lot \in Nat
    BY <1>1
  <1>3. Precise(a) = Lot * (a \div Lot)
    BY <1>1, <1>2 DEF Precise
  <1>4. (Lot * (a \div Lot)) % Lot = 0
    BY <1>1, <1>2
  <1> QED
    BY <1>1, <1>2, <1>3, <1>4 DEF Precise

LEMMA TransferKeepsRuns ==
    ASSUME RunsInv, NEW t \in Runs,
           MarketOrder(t) \/ TransferIn(t) \/ TransferOut(t) \/ TransferFee(t)
    PROVE  RunsInv'
  <1>1. /\ Shape(pc[t], job[t]) /\ pc[t] \in Ordering \ {"order"} /\ job[t] \in Job
        /\ UNCHANGED <<cellSize, order, clashes>>
    BY DEF MarketOrder, TransferIn, TransferOut, TransferFee, Outcome, cellVars, RunsInv, Shaped,
        Ordering
  <1>2. /\ job[t].request \in Request /\ job[t].request.rate \in Nat
        /\ job[t].fee \in Nat /\ job[t].amount1 \in Nat
        /\ FeeOf(job[t].fee) \in Nat /\ job[t].fee * job[t].request.rate \in Int
    BY <1>1, FeeOfType DEF Shape, Job, Request
  <1>3. PICK l \in {"t_in", "t_out", "t_fee", "order"} : pc' = [pc EXCEPT ![t] = l]
    BY DEF MarketOrder, TransferIn, TransferOut, TransferFee, Goto
  <1>4. PICK fee \in {0, job[t].fee, Precise(job[t].fee)} :
            job' = [job EXCEPT ![t] = [job[t] EXCEPT !.fee = fee]]
    <2>1. CASE MarketOrder(t) \/ TransferFee(t)
      BY <2>1 DEF MarketOrder, TransferFee
    <2>2. CASE TransferIn(t) \/ TransferOut(t)
      <3>1. UNCHANGED job
        BY <2>2 DEF TransferIn, TransferOut
      <3>2. job[t] = [job[t] EXCEPT !.fee = job[t].fee]
        BY <1>1 DEF Job
      <3>3. job' = [job EXCEPT ![t] = [job[t] EXCEPT !.fee = job[t].fee]]
        BY <3>1, <3>2 DEF RunsInv
      <3> QED
        BY <3>3
    <2> QED
      BY <2>1, <2>2
  <1> DEFINE j == [job[t] EXCEPT !.fee = fee]
  <1>5. j \in Job /\ j.todo = job[t].todo /\ j.request = job[t].request
    BY <1>1, <1>2, <1>4, PreciseType DEF Job
  <1>6. Shape(l, j)
    BY <1>1, <1>3, <1>5 DEF Shape, Labels, Ordering
  <1>7. amount' \in Int
    BY <1>2 DEF MarketOrder, TransferIn, TransferOut, TransferFee, Outcome, cellVars, RunsInv
  <1>8. forFee' \in [Pairs -> Int] /\ spare' \in Nat
    BY <1>2 DEF MarketOrder, TransferIn, TransferOut, TransferFee, feeVars, FeeBought, FeeIncome,
        FeeOutcome, RunsInv
  <1> QED
    BY <1>1, <1>3, <1>4, <1>6, <1>7, <1>8, MoveKeepsRuns DEF RunsInv, Ordering

LEMMA ReturnKeepsRuns ==
    ASSUME RunsInv, NEW t \in Runs, RunEnds(t) \/ Refused(t)
    PROVE  RunsInv'
  <1>1. /\ pc[t] # "record" /\ pc' = [pc EXCEPT ![t] = "idle"] /\ job' = [job EXCEPT ![t] = NoJob]
        /\ UNCHANGED <<cellVars, feeVars>>
    BY DEF RunEnds, Refused, Return, Goto
  <1> QED
    BY <1>1, NoJobShape, MoveKeepsRuns DEF RunsInv, cellVars, feeVars

LEMMA OutcomeKeepsRuns ==
    ASSUME RunsInv, NEW t \in Runs, OrderOutcome(t)
    PROVE  RunsInv'
  <1>1. /\ pc[t] = "out" /\ Shape("out", job[t]) /\ job[t] \in Job
        /\ amount' = amount - job[t].cost /\ UNCHANGED <<cellSize, order, clashes, feeVars>>
    BY DEF OrderOutcome, Outcome, RunsInv, Shaped
  <1>2. amount' \in Int /\ cellSize \in [Pairs -> Nat]
    BY <1>1 DEF RunsInv, Job
  <1> DEFINE j == [job[t] EXCEPT !.cost = 0]
  <1>3. PICK l \in {"next", "cells"} : pc' = [pc EXCEPT ![t] = l] /\ job' = [job EXCEPT ![t] = j]
    BY DEF OrderOutcome, Goto
  <1>4. j \in Job /\ j.todo = job[t].todo
    BY <1>1 DEF Job
  <1>5. Shape(l, j)
    BY <1>1, <1>3, <1>4 DEF Shape, Labels, Ordering
  <1> QED
    BY <1>1, <1>2, <1>3, <1>5, MoveKeepsRuns DEF RunsInv, feeVars

\* A step of recalcCellSize.
RecalcStep(t) ==
    \/ FindCells(t) \/ RecalcCellSize(t) \/ RecalcThrows(t) \/ SaveCells(t) \/ RecalcEnds(t)
    \/ \E p \in job[t].left : RecalcPair(t, p)

\* The run goes to l with the variables j, which are none of those createOrder needs.
RecalcMoves(t, l, j) ==
    /\ l \in Recalcs \cup {"next"} /\ Shape(l, j)
    /\ pc' = [pc EXCEPT ![t] = l] /\ job' = [job EXCEPT ![t] = j]
    /\ j.todo = job[t].todo /\ j.request = job[t].request /\ j.amount1 = job[t].amount1
    /\ j.id = job[t].id

\* recalcCellSize changes cell sizes only.
LEMMA RecalcSteps ==
    ASSUME RatesInv, RunsInv, NEW t \in Runs, RecalcStep(t)
    PROVE  /\ pc[t] \in Recalcs
           /\ UNCHANGED <<rateVars, feeVars, loopVars, overlaps, faults, amount, order, clashes>>
           /\ cellSize' \in [Pairs -> Nat]
           /\ \E l, j : RecalcMoves(t, l, j)
  <1>1. /\ pc[t] \in Recalcs
        /\ UNCHANGED <<rateVars, feeVars, loopVars, overlaps, faults, amount, order, clashes>>
    BY DEF RecalcStep, FindCells, RecalcCellSize, RecalcThrows, SaveCells, CellsSaved, RecalcEnds,
        RecalcPair, Recalcs, cellVars
  <1>2. /\ job[t] \in Job /\ Shape(pc[t], job[t]) /\ job[t].items \in [Pairs -> Nat]
        /\ cellSize \in [Pairs -> Nat] /\ amount \in Int /\ job[t].row \in PairRow
    BY DEF RunsInv, Shaped, Job
  <1>3. cellSize' \in [Pairs -> Nat]
    BY <1>2 DEF RecalcStep, FindCells, RecalcCellSize, RecalcThrows, SaveCells, CellsSaved,
        RecalcEnds, RecalcPair, cellVars
  <1>4. ASSUME NEW l, NEW j, l \in Recalcs \cup {"next"}, j \in Job, j.todo = job[t].todo,
               l \in {"balance", "save"} => j.cell \in Pairs
        PROVE  Shape(l, j)
    BY <1>1, <1>2, <1>4 DEF Shape, Labels, Ordering, Recalcs
  <1> DEFINE Moves == \E l, j : RecalcMoves(t, l, j)
  <1>5. ASSUME FindCells(t)
        PROVE  Moves
    <2> DEFINE j == [job[t] EXCEPT !.left = Pairs, !.items = cellSize]
    <2>1. /\ j \in Job /\ j.todo = job[t].todo /\ j.request = job[t].request
          /\ j.amount1 = job[t].amount1 /\ j.id = job[t].id
      BY <1>2 DEF Job
    <2>2. job' = [job EXCEPT ![t] = j] /\ pc' = [pc EXCEPT ![t] = "recalc"]
      BY <1>5 DEF FindCells, Goto
    <2> HIDE DEF j
    <2>3. RecalcMoves(t, "recalc", j)
      BY <1>4, <2>1, <2>2 DEF RecalcMoves, Recalcs
    <2> QED
      BY <2>3
  <1>6. ASSUME NEW p \in job[t].left, RecalcPair(t, p)
        PROVE  Moves
    <2> DEFINE j == [job[t] EXCEPT !.left = @ \ {p}, !.cell = p, !.row = pair[p]]
    <2>1. p \in Pairs /\ pair[p] \in PairRow
      BY <1>2 DEF Job, RatesInv, RatesTypeOK
    <2>2. /\ j \in Job /\ j.todo = job[t].todo /\ j.request = job[t].request
          /\ j.amount1 = job[t].amount1 /\ j.id = job[t].id /\ j.cell = p
      BY <1>2, <2>1 DEF Job
    <2>3. job' = [job EXCEPT ![t] = j] /\ pc' = [pc EXCEPT ![t] = "balance"]
      BY <1>6 DEF RecalcPair, Goto
    <2> HIDE DEF j
    <2>4. RecalcMoves(t, "balance", j)
      BY <1>4, <2>1, <2>2, <2>3 DEF RecalcMoves, Recalcs
    <2> QED
      BY <2>4
  <1>7. ASSUME RecalcCellSize(t)
        PROVE  Moves
    <2> DEFINE size == CellSize(job[t].row, amount)
               j == [job[t] EXCEPT !.items[job[t].cell] = size, !.balance = amount]
    <2>1. pc[t] = "balance" /\ job[t].cell \in Pairs /\ size \in Nat
      BY <1>2, <1>7, CellSizeType DEF RecalcCellSize, Shape
    <2>2. job' = [job EXCEPT ![t] = j] /\ pc' = [pc EXCEPT ![t] = "save"]
      BY <1>7 DEF RecalcCellSize, Goto
    <2> HIDE DEF size
    <2>3. /\ j \in Job /\ j.todo = job[t].todo /\ j.request = job[t].request
          /\ j.amount1 = job[t].amount1 /\ j.id = job[t].id /\ j.cell = job[t].cell
      BY <1>2, <2>1 DEF Job
    <2> HIDE DEF j
    <2>4. RecalcMoves(t, "save", j)
      BY <1>4, <2>1, <2>2, <2>3 DEF RecalcMoves, Recalcs
    <2> QED
      BY <2>4
  <1>8. ASSUME RecalcThrows(t)
        PROVE  Moves
    <2> DEFINE j == [job[t] EXCEPT !.left = {}, !.items = NoItems, !.cell = "none",
                                   !.row = NewPair]
    <2>1. /\ j \in Job /\ j.todo = job[t].todo /\ j.request = job[t].request
          /\ j.amount1 = job[t].amount1 /\ j.id = job[t].id
      BY <1>2 DEF Job, NoItems, NewPair, PairRow
    <2>2. job' = [job EXCEPT ![t] = j] /\ pc' = [pc EXCEPT ![t] = "next"]
      BY <1>8 DEF RecalcThrows, Goto
    <2> HIDE DEF j
    <2>3. RecalcMoves(t, "next", j)
      BY <1>4, <2>1, <2>2 DEF RecalcMoves, Recalcs
    <2> QED
      BY <2>3
  <1>9. ASSUME SaveCells(t)
        PROVE  Moves
    <2> DEFINE k == [job[t] EXCEPT !.cell = "none", !.row = NewPair]
               j == [k EXCEPT !.balance = 0]
    <2>4. NewPair \in PairRow
      BY DEF NewPair, PairRow
    <2> HIDE DEF NewPair
    <2>5. /\ k \in Job /\ k.todo = job[t].todo /\ k.request = job[t].request
          /\ k.amount1 = job[t].amount1 /\ k.id = job[t].id
      BY <1>2, <2>4 DEF Job
    <2>6. j = [job[t] EXCEPT !.cell = "none", !.row = NewPair, !.balance = 0]
      OBVIOUS
    <2> HIDE DEF k
    <2>1. /\ j \in Job /\ j.todo = job[t].todo /\ j.request = job[t].request
          /\ j.amount1 = job[t].amount1 /\ j.id = job[t].id
      BY <2>5 DEF Job
    <2>2. job' = [job EXCEPT ![t] = j] /\ pc' = [pc EXCEPT ![t] = "recalc"]
      BY <1>9, <2>6 DEF SaveCells, Goto
    <2> HIDE DEF j
    <2>3. RecalcMoves(t, "recalc", j)
      BY <1>4, <2>1, <2>2 DEF RecalcMoves, Recalcs
    <2> QED
      BY <2>3
  <1>10. ASSUME RecalcEnds(t)
         PROVE  Moves
    <2> DEFINE j == [job[t] EXCEPT !.items = NoItems]
    <2>1. /\ j \in Job /\ j.todo = job[t].todo /\ j.request = job[t].request
          /\ j.amount1 = job[t].amount1 /\ j.id = job[t].id
      BY <1>2 DEF Job, NoItems
    <2>2. job' = [job EXCEPT ![t] = j] /\ pc' = [pc EXCEPT ![t] = "next"]
      BY <1>10 DEF RecalcEnds, Goto
    <2> HIDE DEF j
    <2>3. RecalcMoves(t, "next", j)
      BY <1>4, <2>1, <2>2 DEF RecalcMoves, Recalcs
    <2> QED
      BY <2>3
  <1>11. Moves
    BY <1>5, <1>6, <1>7, <1>8, <1>9, <1>10 DEF RecalcStep
  <1> QED
    BY <1>1, <1>3, <1>11

LEMMA RecalcKeepsRuns ==
    ASSUME RatesInv, RunsInv, NEW t \in Runs, RecalcStep(t)
    PROVE  RunsInv'
  <1>1. /\ pc[t] \in Recalcs /\ cellSize' \in [Pairs -> Nat]
        /\ UNCHANGED <<rateVars, feeVars, loopVars, overlaps, faults, amount, order, clashes>>
    BY RecalcSteps
  <1>2. PICK l, j : RecalcMoves(t, l, j)
    BY RecalcSteps
  <1> QED
    BY <1>1, <1>2, MoveKeepsRuns DEF RunsInv, feeVars, RecalcMoves, Recalcs

\* What createOrder leaves of the orders: the first one unused is sent.
LEMMA SentOrders ==
    ASSUME RunsInv, NEW r, NEW amount1, Sent(r, amount1), RoomToOrder
    PROVE  /\ NextId \in Ids /\ NextId \notin Used /\ NextId = Cardinality(Used) + 1
           /\ Used' = Used \cup {NextId} /\ Cardinality(Used') = NextId
           /\ order' = [order EXCEPT ![NextId] =
                  [status |-> "sent", pair |-> r.pair, rate |-> r.rate, amount1 |-> amount1]]
           /\ order'[NextId].status = "sent" /\ order'[NextId].pair = r.pair
           /\ \A i \in Ids \ {NextId} : order'[i] = order[i]
  <1>1. NextId = 1 + Cardinality(Used)
    BY DEF NextId, Used
  <1>2. NextId \in Ids
    BY DEF RoomToOrder
  <1>3. NextId \notin Used
    BY <1>1, <1>2, UsedBounded DEF RunsInv, OrdersSound
  <1>4. order' = [order EXCEPT ![NextId] =
                  [status |-> "sent", pair |-> r.pair, rate |-> r.rate, amount1 |-> amount1]]
    BY DEF Sent
  <1> HIDE DEF NextId
  <1>5. /\ order'[NextId].status = "sent" /\ order'[NextId].pair = r.pair
        /\ \A i \in Ids \ {NextId} : order'[i] = order[i]
    BY <1>2, <1>4 DEF RunsInv
  <1>6. Used' = Used \cup {NextId}
    BY <1>2, <1>5 DEF Used
  <1>7. Cardinality(Used') = NextId
    BY <1>1, <1>3, <1>6, UsedBounded, FS_AddElement
  <1> QED
    BY <1>1, <1>2, <1>3, <1>4, <1>5, <1>6, <1>7, UsedBounded

LEMMA CreateOrderKeepsRuns ==
    ASSUME RunsInv, NEW t \in Runs, CreateOrder(t)
    PROVE  RunsInv'
  <1> DEFINE a == Precise(job[t].amount1)
             j == [job[t] EXCEPT !.id = NextId, !.cost = a * job[t].request.rate,
                                 !.request = NoRequest, !.amount1 = 0]
  <1>1. /\ pc[t] = "order" /\ Shape("order", job[t]) /\ job[t] \in Job
        /\ RoomToOrder /\ Sent(job[t].request, a)
        /\ pc' = [pc EXCEPT ![t] = "record"] /\ job' = [job EXCEPT ![t] = j]
        /\ UNCHANGED <<cellSize, amount, feeVars>>
    BY DEF CreateOrder, Sent, Goto, RunsInv, Shaped
  <1>13. a \in Nat
    BY <1>1, PreciseType DEF Job
  <1> HIDE DEF a
  <1>2. /\ NextId \in Ids /\ NextId \notin Used /\ NextId = Cardinality(Used) + 1
        /\ Used' = Used \cup {NextId} /\ Cardinality(Used') = NextId
        /\ order' = [order EXCEPT ![NextId] =
               [status |-> "sent", pair |-> job[t].request.pair, rate |-> job[t].request.rate,
                amount1 |-> a]]
        /\ order'[NextId].status = "sent"
        /\ \A i \in Ids \ {NextId} : order'[i] = order[i]
    BY <1>1, SentOrders
  <1>3. /\ job[t].request \in Request
        /\ job[t].request.pair \in Pairs /\ job[t].request.rate \in Nat
    BY <1>1 DEF Shape, Ordering, Job, Request
  <1>4. a * job[t].request.rate \in Nat
    BY <1>3, <1>13
  <1>5. NextId \in 0..MaxOrders
    BY <1>2, IdsFinite DEF Ids
  <1> HIDE DEF NextId
  <1>6. j \in Job /\ j.todo = job[t].todo /\ j.id = NextId
    BY <1>1, <1>4, <1>5 DEF Job
  <1> HIDE DEF j
  <1>7. Shape("record", j)
    BY <1>1, <1>2, <1>6 DEF Shape, Labels, Ordering
  <1>8. /\ pc' \in [Runs -> Labels] /\ job' \in [Runs -> Job] /\ Shaped'
        /\ \A u \in Runs \ {t} : pc'[u] = pc[u] /\ job'[u] = job[u]
        /\ pc'[t] = "record" /\ job'[t] = j
    BY <1>1, <1>7, MoveKeepsShape
  <1>9. order' \in [Ids -> Order]
    BY <1>2, <1>3, <1>13 DEF RunsInv, Order
  <1>10. clashes' \in Nat /\ clashes' <= clashes + 1
    BY <1>1 DEF Sent, RunsInv
  <1>11. OrdersSound'
    <2>1. \A i \in Ids : i \in Used' <=> i <= Cardinality(Used')
      BY <1>2, UsedBounded DEF RunsInv, OrdersSound, Ids
    <2>2. clashes' <= Cardinality(Used')
      BY <1>2, <1>10, UsedBounded DEF RunsInv, OrdersSound
    <2>3. \A u \in Runs \ {t} : pc[u] = "record" => job[u].id \in Used /\ job[u].id \in Ids
      BY DEF RunsInv, OrdersSound, Used, Shaped, Shape
    <2>4. \A u \in Runs : pc'[u] = "record" => order'[job'[u].id].status = "sent"
      BY <1>2, <1>6, <1>8, <2>3 DEF RunsInv, OrdersSound
    <2>5. \A u, v \in Runs :
            pc'[u] = "record" /\ pc'[v] = "record" /\ job'[u].id = job'[v].id => u = v
      BY <1>2, <1>6, <1>8, <2>3 DEF RunsInv, OrdersSound
    <2>6. \A i \in Ids : order'[i].status = "sent" =>
             \E u \in Runs : pc'[u] = "record" /\ job'[u].id = i
      <3> SUFFICES ASSUME NEW i \in Ids, order'[i].status = "sent"
                   PROVE  \E u \in Runs : pc'[u] = "record" /\ job'[u].id = i
        OBVIOUS
      <3>1. CASE i = NextId
        BY <1>6, <1>8, <3>1
      <3>2. CASE i # NextId
        <4>1. PICK u \in Runs : pc[u] = "record" /\ job[u].id = i
          BY <1>2, <3>2 DEF RunsInv, OrdersSound
        <4> QED
          BY <1>1, <1>8, <4>1
      <3> QED
        BY <3>1, <3>2
    <2> QED
      BY <2>1, <2>2, <2>4, <2>5, <2>6 DEF OrdersSound
  <1> QED
    BY <1>1, <1>8, <1>9, <1>10, <1>11 DEF RunsInv, feeVars

LEMMA RecordKeepsRuns ==
    ASSUME RunsInv, NEW t \in Runs, Record(t)
    PROVE  RunsInv'
  <1> DEFINE j == [job[t] EXCEPT !.id = 0]
             n == job[t].id
  <1>1. /\ pc[t] = "record" /\ Shape("record", job[t]) /\ job[t] \in Job
        /\ order' = [order EXCEPT ![n].status = "open"]
        /\ pc' = [pc EXCEPT ![t] = "out"] /\ job' = [job EXCEPT ![t] = j]
        /\ UNCHANGED <<cellSize, amount, clashes, feeVars>>
    BY DEF Record, Recorded, Goto, RunsInv, Shaped
  <1>2. j \in Job /\ j.todo = job[t].todo
    BY <1>1, IdsFinite DEF Job
  <1>3. Shape("out", j)
    BY <1>1, <1>2 DEF Shape, Labels, Ordering
  <1> HIDE DEF j
  <1>4. /\ pc' \in [Runs -> Labels] /\ job' \in [Runs -> Job] /\ Shaped'
        /\ \A u \in Runs \ {t} : pc'[u] = pc[u] /\ job'[u] = job[u]
        /\ pc'[t] = "out"
    BY <1>1, <1>3, MoveKeepsShape
  <1>5. /\ n \in Ids /\ order[n].status = "sent"
        /\ \A u \in Runs \ {t} : pc[u] = "record" => job[u].id # n /\ job[u].id \in Ids
    BY <1>1 DEF Shape, RunsInv, OrdersSound, Shaped
  <1> HIDE DEF n
  <1>6. /\ order' \in [Ids -> Order] /\ order'[n].status = "open"
        /\ \A i \in Ids \ {n} : order'[i] = order[i]
    BY <1>1, <1>5 DEF RunsInv, Order
  <1>7. Used' = Used
    BY <1>5, <1>6 DEF Used
  <1>8. OrdersSound'
    <2>1. \A u \in Runs : pc'[u] = "record" => order'[job'[u].id].status = "sent"
      BY <1>4, <1>5, <1>6 DEF RunsInv, OrdersSound
    <2>2. \A u, v \in Runs :
            pc'[u] = "record" /\ pc'[v] = "record" /\ job'[u].id = job'[v].id => u = v
      BY <1>4 DEF RunsInv, OrdersSound
    <2>3. \A i \in Ids : order'[i].status = "sent" =>
             \E u \in Runs : pc'[u] = "record" /\ job'[u].id = i
      <3> SUFFICES ASSUME NEW i \in Ids, order'[i].status = "sent"
                   PROVE  \E u \in Runs : pc'[u] = "record" /\ job'[u].id = i
        OBVIOUS
      <3>1. i # n /\ order[i].status = "sent"
        BY <1>6
      <3>2. PICK u \in Runs : pc[u] = "record" /\ job[u].id = i
        BY <3>1 DEF RunsInv, OrdersSound
      <3> QED
        BY <1>4, <3>1, <3>2 DEF n
    <2> QED
      BY <1>1, <1>7, <2>1, <2>2, <2>3 DEF RunsInv, OrdersSound
  <1> QED
    BY <1>1, <1>4, <1>6, <1>8 DEF RunsInv, feeVars

\* The runs of S end at once, and leave the orders they have not recorded.
LEMMA EndKeepsRuns ==
    ASSUME RunsInv, NEW S \in SUBSET Runs, Lost(Unrecorded(S)), UNCHANGED feeVars,
           pc' \in [Runs -> Labels], job' \in [Runs -> Job],
           \A u \in S : pc'[u] = "idle" /\ job'[u] = NoJob,
           \A u \in Runs \ S : pc'[u] = pc[u] /\ job'[u] = job[u]
    PROVE  RunsInv'
  <1> DEFINE lost == [ClosedOrder EXCEPT !.status = "lost"]
             U == Unrecorded(S)
  <1>1. /\ order' = [i \in Ids |-> IF i \in U THEN lost ELSE order[i]]
        /\ UNCHANGED <<cellSize, amount, clashes>>
    BY DEF Lost
  <1>2. lost \in Order /\ lost.status = "lost"
    BY DEF ClosedOrder, NoOrder, Order
  <1>3. \A u \in Runs : u \in S /\ pc[u] = "record" => job[u].id \in U
    BY DEF Unrecorded
  <1>4. ASSUME NEW i \in U
        PROVE  /\ order[i].status = "sent"
               /\ \A u \in Runs \ S : pc[u] = "record" => job[u].id # i
    <2>1. PICK v \in S : pc[v] = "record" /\ job[v].id = i
      BY DEF Unrecorded
    <2> QED
      BY <2>1 DEF RunsInv, OrdersSound
  <1> HIDE DEF lost, U
  <1>5. order' \in [Ids -> Order]
    BY <1>1, <1>2 DEF RunsInv
  <1>6. Used' = Used
    BY <1>1, <1>2, <1>4 DEF Used
  <1>7. Shaped'
    BY NoJobShape DEF RunsInv, Shaped
  <1>8. OrdersSound'
    <2>1. \A u \in Runs : pc'[u] = "record" => order'[job'[u].id].status = "sent"
      <3> SUFFICES ASSUME NEW u \in Runs, pc'[u] = "record"
                   PROVE  order'[job'[u].id].status = "sent"
        OBVIOUS
      <3>1. u \notin S /\ pc[u] = "record" /\ job'[u] = job[u]
        OBVIOUS
      <3>2. job[u].id \in Ids /\ job[u].id \notin U
        BY <1>4, <3>1 DEF RunsInv, Shaped, Shape
      <3> QED
        BY <1>1, <3>1, <3>2 DEF RunsInv, OrdersSound
    <2>2. \A u, v \in Runs :
            pc'[u] = "record" /\ pc'[v] = "record" /\ job'[u].id = job'[v].id => u = v
      <3>1. \A u \in Runs : pc'[u] = "record" => pc[u] = "record" /\ job'[u] = job[u]
        OBVIOUS
      <3> QED
        BY <3>1 DEF RunsInv, OrdersSound
    <2>3. \A i \in Ids : order'[i].status = "sent" =>
             \E u \in Runs : pc'[u] = "record" /\ job'[u].id = i
      <3> SUFFICES ASSUME NEW i \in Ids, order'[i].status = "sent"
                   PROVE  \E u \in Runs : pc'[u] = "record" /\ job'[u].id = i
        OBVIOUS
      <3>1. i \notin U /\ order[i].status = "sent"
        BY <1>1, <1>2
      <3>2. PICK u \in Runs : pc[u] = "record" /\ job[u].id = i
        BY <3>1 DEF RunsInv, OrdersSound
      <3> QED
        BY <1>3, <3>1, <3>2
    <2> QED
      BY <1>1, <1>6, <2>1, <2>2, <2>3 DEF RunsInv, OrdersSound
  <1> QED
    BY <1>1, <1>5, <1>7, <1>8 DEF RunsInv, feeVars

LEMMA FaultKeepsRuns ==
    ASSUME RunsInv, Crash \/ \E t \in Runs : Throws(t)
    PROVE  RunsInv'
  <1>1. CASE Crash
    <2>1. /\ Lost(Unrecorded(Runs)) /\ UNCHANGED feeVars
          /\ pc' = [t \in Runs |-> "idle"] /\ job' = [t \in Runs |-> NoJob]
      BY <1>1 DEF Crash
    <2> QED
      BY <2>1, EndKeepsRuns, NoJobShape DEF Labels
  <1>2. ASSUME NEW t \in Runs, Throws(t)
        PROVE  RunsInv'
    <2>1. /\ Lost(Unrecorded({t})) /\ UNCHANGED feeVars
          /\ pc' = [pc EXCEPT ![t] = "idle"] /\ job' = [job EXCEPT ![t] = NoJob]
      BY <1>2 DEF Throws, Return, Goto
    <2>2. /\ pc' \in [Runs -> Labels] /\ job' \in [Runs -> Job]
          /\ pc'[t] = "idle" /\ job'[t] = NoJob
          /\ \A u \in Runs \ {t} : pc'[u] = pc[u] /\ job'[u] = job[u]
      BY <2>1, NoJobShape DEF RunsInv, Labels
    <2> QED
      BY <2>1, <2>2, EndKeepsRuns
  <1> QED
    BY <1>1, <1>2

LEMMA OrderEventKeepsRuns ==
    ASSUME RunsInv, NEW i \in Ids, Fills(i) \/ Closes(i)
    PROVE  RunsInv'
  <1>1. /\ UNCHANGED <<cellSize, clashes, spare, pc, job>>
        /\ order[i].status \in {"open", "filled", "moved"}
        /\ order[i].amount1 \in Nat /\ order[i].rate \in Nat /\ order[i] \in Order
    BY DEF Fills, Closes, OrderFills, OrderCloses, FeeOutcome, Active, runVars, feeVars, RunsInv,
        Order
  <1>2. order' \in [Ids -> Order] /\ order'[i].status \in {"filled", "moved", "closed"}
        /\ \A k \in Ids \ {i} : order'[k] = order[k]
    <2>1. CASE Closes(i)
      <3>1. ClosedOrder \in Order /\ ClosedOrder.status = "closed"
        BY DEF ClosedOrder, NoOrder, Order
      <3>2. order' = [order EXCEPT ![i] = ClosedOrder]
        BY <2>1 DEF Closes, OrderCloses
      <3> HIDE DEF ClosedOrder
      <3> QED
        BY <3>1, <3>2 DEF RunsInv
    <2>2. CASE Fills(i)
      <3>1. PICK q \in Quotes : order' = [order EXCEPT
                ![i].status = IF q.ask = order[i].rate THEN "filled" ELSE "moved",
                ![i].rate = q.ask]
        BY <2>2 DEF Fills, OrderFills
      <3> DEFINE o == [order[i] EXCEPT
                    !.status = IF q.ask = order[i].rate THEN "filled" ELSE "moved",
                    !.rate = q.ask]
      <3>2. o \in Order /\ o.status \in {"filled", "moved"}
        BY <1>1, QuoteType DEF Order
      <3>3. order' = [order EXCEPT ![i] = o]
        BY <3>1
      <3> HIDE DEF o
      <3> QED
        BY <3>2, <3>3 DEF RunsInv
    <2> QED
      BY <2>1, <2>2
  <1>3. OrdersSound'
    BY <1>1, <1>2, SameOrders
  <1>4. amount' \in Int
    <2>1. order[i].amount1 * order[i].rate \in Int
      BY <1>1
    <2> QED
      BY <2>1 DEF Fills, Closes, OrderFills, OrderCloses, RunsInv
  <1>5. forFee' \in [Pairs -> Int]
    <2>1. FeeOf(order[i].amount1) \in Int
      BY <1>1, FeeOfType
    <2> QED
      BY <2>1 DEF Fills, Closes, FeeOutcome, feeVars, RunsInv
  <1> QED
    BY <1>1, <1>2, <1>3, <1>4, <1>5 DEF RunsInv, Shaped

LEMMA LoopLeavesRuns ==
    ASSUME \/ LoopStep /\ ~\E t \in Runs : StartRun(t)
           \/ \E p \in Pairs : ActualizeFails(p) \/ GetActualRatesFails(p)
           \/ RatesThrow \/ OtherRejected
           \/ UNCHANGED vars
    PROVE  UNCHANGED <<cellVars, feeVars, runVars, overlaps>>
  BY DEF LoopStep, ActualizePair, GetActualRates, SetRates, NextIteration, NoRunToStart,
      RunSettled, ActualizeFails, GetActualRatesFails, RatesThrow, OtherRejected, vars

\* The invariant of the runs: each holds requests of different pairs with rates one can
\* divide by, and an order on the exchange without a row is in the hands of one run.
THEOREM RunsInvariant == Spec => []RunsInv
  <1>1. Init => RunsInv
    <2> SUFFICES ASSUME Init PROVE RunsInv
      OBVIOUS
    <2>1. NoOrder \in Order /\ NoOrder.status = "none"
      BY DEF NoOrder, Order
    <2> HIDE DEF NoOrder
    <2>2. /\ pc = [t \in Runs |-> "idle"] /\ job = [t \in Runs |-> NoJob]
          /\ order = [i \in Ids |-> NoOrder] /\ clashes = 0
      BY DEF Init, CellsInit
    <2>3. pc \in [Runs -> Labels] /\ job \in [Runs -> Job] /\ Shaped
      BY <2>2, NoJobShape DEF Labels, Shaped
    <2>4. Used = {}
      BY <2>1, <2>2 DEF Used
    <2>5. OrdersSound
      BY <2>1, <2>2, <2>4, FS_EmptySet, IdsFinite DEF OrdersSound, Ids
    <2>6. order \in [Ids -> Order]
      BY <2>1, <2>2
    <2> QED
      BY <2>2, <2>3, <2>5, <2>6, CellsAssumption DEF RunsInv, Init, CellsInit, FeeInit
  <1>2. RatesInv /\ RunsInv /\ [Next]_vars => RunsInv'
    <2> SUFFICES ASSUME RatesInv, RunsInv, [Next]_vars PROVE RunsInv'
      OBVIOUS
    <2>1. ASSUME NEW t \in Runs, RunStep(t) PROVE RunsInv'
      BY <2>1, GetKeepsRuns, CreateKeepsRuns, TransferKeepsRuns, ReturnKeepsRuns,
        CreateOrderKeepsRuns, RecordKeepsRuns, OutcomeKeepsRuns, RecalcKeepsRuns
        DEF RunStep, RecalcStep
    <2>2. CASE Crash \/ \E t \in Runs : StartRun(t) \/ Throws(t)
      BY <2>2, StartRunKeepsRuns, FaultKeepsRuns
    <2>3. CASE \E i \in Ids : Fills(i) \/ Closes(i)
      BY <2>3, OrderEventKeepsRuns
    <2>4. CASE \/ LoopStep /\ ~\E t \in Runs : StartRun(t)
               \/ \E p \in Pairs : ActualizeFails(p) \/ GetActualRatesFails(p)
               \/ RatesThrow \/ OtherRejected
               \/ UNCHANGED vars
      <3>1. UNCHANGED <<cellVars, feeVars, runVars>>
        BY <2>4, LoopLeavesRuns
      <3>2. UNCHANGED <<cellSize, amount, order, clashes, forFee, spare, pc, job>>
        BY <3>1 DEF cellVars, feeVars, runVars
      <3>3. OrdersSound' /\ Shaped'
        BY <3>2 DEF RunsInv, OrdersSound, Used, Shaped
      <3> QED
        BY <3>2, <3>3 DEF RunsInv
    <2> QED
      BY <2>1, <2>2, <2>3, <2>4 DEF Next, Fault
  <1> QED
    BY <1>1, <1>2, RatesInvariant, PTL DEF Spec

-----------------------------------------------------------------------------
(* Market orders and the incomes posted for them.                          *)

LEMMA RunSets ==
    /\ IsFiniteSet(Busy) /\ Cardinality(Busy) \in Nat
    /\ IsFiniteSet(TIn) /\ Cardinality(TIn) \in Nat
    /\ IsFiniteSet(Orphans) /\ Cardinality(Orphans) \in Nat
    /\ Cardinality(TIn) <= Cardinality(Orphans) + 1
  <1>1. IsFiniteSet(Busy) /\ Cardinality(Busy) \in Nat
    <2>1. Busy \subseteq Runs
      BY DEF Busy
    <2> QED
      BY <2>1, DaemonAssumption, FS_Subset, FS_CardinalityType
  <1>2. TIn \subseteq Busy
    BY DEF TIn, Busy
  <1>3. IsFiniteSet(TIn) /\ Cardinality(TIn) \in Nat /\ Cardinality(TIn) <= Cardinality(Busy)
    BY <1>1, <1>2, FS_Subset, FS_CardinalityType
  <1>4. IsFiniteSet(Orphans) /\ Cardinality(Orphans) \in Nat
        /\ Cardinality(Busy) <= Cardinality(Orphans) + 1
    <2>1. /\ IsFiniteSet(Busy \ {mine})
          /\ Cardinality(Busy \ {mine}) =
               IF mine \in Busy THEN Cardinality(Busy) - 1 ELSE Cardinality(Busy)
      BY <1>1, FS_RemoveElement
    <2> QED
      BY <1>1, <2>1, FS_CardinalityType DEF Orphans
  <1> QED
    BY <1>1, <1>3, <1>4

LEMMA PrimedRunSets ==
    /\ IsFiniteSet(TIn') /\ Cardinality(TIn') \in Nat
    /\ IsFiniteSet(Orphans') /\ Cardinality(Orphans') \in Nat
  <1>1. TIn' \subseteq Runs /\ Orphans' \subseteq Runs
    BY DEF TIn, Orphans, Busy
  <1> QED
    BY <1>1, DaemonAssumption, FS_Subset, FS_CardinalityType

\* No market order is placed or posted, and no run is left alone.
LEMMA QuietKeepsFees ==
    ASSUME FeesInv, TIn' = TIn, Orphans' \subseteq Orphans, UNCHANGED unposted,
           faults' \in Nat, faults' >= faults
    PROVE  FeesPosted'
  <1>1. Cardinality(Orphans') <= Cardinality(Orphans)
    BY RunSets, FS_Subset
  <1>2. Cardinality(TIn') = Cardinality(TIn)
    OBVIOUS
  <1> QED
    BY <1>1, <1>2, RunSets, PrimedRunSets DEF FeesInv, FeesPosted

\* A step of a run that is neither about a market order nor the end.
LEMMA MoveKeepsSets ==
    ASSUME RunsInv, NEW t \in Runs, NEW l, pc' = [pc EXCEPT ![t] = l], UNCHANGED mine
    PROVE  /\ pc[t] # "t_in" /\ l # "t_in" => TIn' = TIn
           /\ pc[t] # "t_in" /\ l = "t_in" => TIn' = TIn \cup {t} /\ t \notin TIn
           /\ pc[t] = "t_in" /\ l # "t_in" => TIn' = TIn \ {t} /\ t \in TIn
           /\ pc[t] # "idle" => Orphans' \subseteq Orphans
  <1>1. /\ \A u \in Runs \ {t} : pc'[u] = pc[u]
        /\ pc'[t] = l
    BY DEF RunsInv
  <1> QED
    BY <1>1 DEF TIn, Orphans, Busy

LEMMA RunStepLabel ==
    ASSUME RunsInv, NEW t \in Runs, RunStep(t)
    PROVE  /\ pc[t] # "idle" /\ UNCHANGED <<loopVars, overlaps, faults>>
           /\ \E l : pc' = [pc EXCEPT ![t] = l] /\ (l = "t_in" => pc[t] = "market" /\ MarketOrder(t))
           /\ pc[t] = "t_in" => TransferIn(t) /\ pc' = [pc EXCEPT ![t] = "t_out"]
  <1>1. pc' = [pc EXCEPT ![t] = pc[t]] <=> UNCHANGED pc
    BY DEF RunsInv
  <1>2. ASSUME NEW r \in job[t].todo, Create(t, r)
        PROVE  /\ pc[t] = "next" /\ UNCHANGED <<loopVars, overlaps, faults>>
               /\ \E l : pc' = [pc EXCEPT ![t] = l] /\ l # "t_in"
    <2>1. pc' = [pc EXCEPT ![t] = "order"] \/ pc' = [pc EXCEPT ![t] = "market"]
      BY <1>2 DEF Create, Goto
    <2>2. pc[t] = "next" /\ UNCHANGED <<loopVars, overlaps, faults>>
      BY <1>2 DEF Create
    <2> QED
      BY <2>1, <2>2
  <1>3. ASSUME RecalcStep(t)
        PROVE  /\ pc[t] \notin {"idle", "t_in"} /\ UNCHANGED <<loopVars, overlaps, faults>>
               /\ \E l : pc' = [pc EXCEPT ![t] = l] /\ l # "t_in"
    BY <1>3 DEF RecalcStep, FindCells, RecalcPair, RecalcCellSize, RecalcThrows, SaveCells,
        RecalcEnds, Goto
  <1>4. ASSUME \/ Get(t) \/ RunEnds(t) \/ CreateOrder(t) \/ Refused(t) \/ Record(t)
               \/ OrderOutcome(t) \/ TransferOut(t) \/ TransferFee(t)
        PROVE  /\ pc[t] \notin {"idle", "t_in"} /\ UNCHANGED <<loopVars, overlaps, faults>>
               /\ \E l : pc' = [pc EXCEPT ![t] = l] /\ l # "t_in"
    BY <1>4 DEF Get, RunEnds, CreateOrder, Refused, Record, OrderOutcome, Return,
        TransferOut, TransferFee, Goto
  <1>5. ASSUME MarketOrder(t) \/ TransferIn(t)
        PROVE  /\ UNCHANGED <<loopVars, overlaps, faults>>
               /\ \/ MarketOrder(t) /\ pc[t] = "market" /\ pc' = [pc EXCEPT ![t] = "t_in"]
                  \/ TransferIn(t) /\ pc[t] = "t_in" /\ pc' = [pc EXCEPT ![t] = "t_out"]
    BY <1>5 DEF MarketOrder, TransferIn, Goto
  <1> QED
    BY <1>1, <1>2, <1>3, <1>4, <1>5 DEF RunStep, RecalcStep

LEMMA RunStepKeepsFees ==
    ASSUME RunsInv, FeesInv, NEW t \in Runs, RunStep(t)
    PROVE  FeesInv'
  <1>1. /\ pc[t] # "idle" /\ UNCHANGED <<phase, mine, overlaps, faults>>
        /\ pc[t] = "t_in" => TransferIn(t) /\ pc' = [pc EXCEPT ![t] = "t_out"]
    BY RunStepLabel DEF loopVars
  <1>2. PICK l : pc' = [pc EXCEPT ![t] = l] /\ (l = "t_in" => pc[t] = "market" /\ MarketOrder(t))
    BY RunStepLabel
  <1>3. Orphans' \subseteq Orphans
    BY <1>1, <1>2, MoveKeepsSets
  <1>4. Cardinality(Orphans') <= Cardinality(Orphans)
    BY <1>3, RunSets, FS_Subset
  <1>5. CASE MarketOrder(t)
    <2>1. unposted' = unposted + 1 /\ pc[t] = "market" /\ pc' = [pc EXCEPT ![t] = "t_in"]
      BY <1>5 DEF MarketOrder, FeeBought, Goto
    <2>2. TIn' = TIn \cup {t} /\ t \notin TIn
      BY <1>1, <2>1, MoveKeepsSets
    <2>3. Cardinality(TIn') = Cardinality(TIn) + 1
      BY <2>2, RunSets, FS_AddElement
    <2> QED
      BY <1>1, <1>4, <2>1, <2>3, RunSets, PrimedRunSets DEF FeesInv, FeesPosted
  <1>6. CASE TransferIn(t)
    <2>1. unposted' = unposted - 1 /\ pc[t] = "t_in" /\ pc' = [pc EXCEPT ![t] = "t_out"]
      BY <1>6 DEF TransferIn, FeeIncome, Goto
    <2>2. TIn' = TIn \ {t} /\ t \in TIn
      BY <1>1, <2>1, MoveKeepsSets
    <2>3. Cardinality(TIn') = Cardinality(TIn) - 1
      BY <2>2, RunSets, FS_RemoveElement
    <2>4. unposted' \in Nat
      BY <2>1, <2>3, RunSets, PrimedRunSets DEF FeesInv, FeesPosted
    <2> QED
      BY <1>1, <1>4, <2>1, <2>3, <2>4, RunSets, PrimedRunSets DEF FeesInv, FeesPosted
  <1>7. CASE ~MarketOrder(t) /\ ~TransferIn(t)
    <2>1. pc[t] # "t_in" /\ l # "t_in"
      BY <1>1, <1>2, <1>7
    <2>2. TIn' = TIn
      BY <1>1, <1>2, <2>1, MoveKeepsSets
    <2>3. UNCHANGED unposted
      BY <1>7 DEF RunStep, Get, RunEnds, TransferOut, TransferFee, CreateOrder, Refused, Record,
        OrderOutcome, Create, FindCells, RecalcPair, RecalcCellSize, RecalcThrows, SaveCells,
        RecalcEnds, feeVars, FeeOutcome
    <2>4. FeesPosted'
      BY <1>1, <1>3, <2>2, <2>3, QuietKeepsFees DEF FeesInv
    <2> QED
      BY <1>1, <2>3, <2>4 DEF FeesInv
  <1> QED
    BY <1>5, <1>6, <1>7

LEMMA FaultKeepsFees ==
    ASSUME RunsInv, FeesInv, Crash \/ OtherRejected \/ \E t \in Runs : Throws(t)
    PROVE  FeesInv'
  <1>1. /\ faults' = faults + 1 /\ faults' \in 0..MaxFaults /\ UNCHANGED <<unposted, overlaps>>
        /\ faults \in Nat
    <2>1. faults < MaxFaults /\ faults' = faults + 1 /\ UNCHANGED <<feeVars, overlaps>>
      BY DEF Crash, OtherRejected, Throws, Fails
    <2> QED
      BY <2>1, DaemonAssumption DEF feeVars, FeesInv
  <1>2. CASE Crash
    <2>1. /\ mine' = NoRun /\ phase' = "init" /\ pc' = [t \in Runs |-> "idle"]
      BY <1>2 DEF Crash
    <2>2. TIn' = {} /\ Orphans' = {}
      BY <2>1 DEF TIn, Orphans, Busy
    <2> QED
      BY <1>1, <2>1, <2>2, RunSets, FS_EmptySet DEF FeesInv, FeesPosted
  <1>3. CASE OtherRejected
    <2>1. /\ mine \in Busy /\ mine' = NoRun /\ phase' = "idle" /\ UNCHANGED pc
      BY <1>3 DEF OtherRejected, runVars
    <2>2. TIn' = TIn /\ Orphans' = Orphans \cup {mine}
      BY <2>1, DaemonAssumption DEF TIn, Orphans, Busy
    <2>3. Cardinality(Orphans') <= Cardinality(Orphans) + 1
      <3>1. Cardinality(Orphans \cup {mine}) <= Cardinality(Orphans) + 1
        <4>1. IsFiniteSet(Orphans) /\ Cardinality(Orphans) \in Nat
          BY RunSets
        <4>2. Cardinality(Orphans \cup {mine}) =
                IF mine \in Orphans THEN Cardinality(Orphans) ELSE Cardinality(Orphans) + 1
          BY <4>1, FS_AddElement
        <4> QED
          BY <4>1, <4>2
      <3> QED
        BY <2>2, <3>1
    <2> QED
      BY <1>1, <2>1, <2>2, <2>3, RunSets, PrimedRunSets DEF FeesInv, FeesPosted
  <1>4. ASSUME NEW t \in Runs, Throws(t)
        PROVE  FeesInv'
    <2>1. /\ pc[t] # "idle" /\ UNCHANGED <<phase, mine>> /\ pc' = [pc EXCEPT ![t] = "idle"]
      BY <1>4 DEF Throws, Return, Goto, Busy, loopVars
    <2>2. /\ Orphans' \subseteq Orphans /\ TIn' = TIn \ {t}
      <3>1. pc[t] # "t_in" => TIn = TIn \ {t}
        BY DEF TIn
      <3>2. /\ Orphans' \subseteq Orphans
            /\ pc[t] # "t_in" => TIn' = TIn
            /\ pc[t] = "t_in" => TIn' = TIn \ {t}
        BY <2>1, MoveKeepsSets
      <3> QED
        BY <3>1, <3>2
    <2>3. /\ Cardinality(Orphans') <= Cardinality(Orphans)
          /\ Cardinality(TIn') <= Cardinality(TIn) /\ Cardinality(TIn) <= Cardinality(TIn') + 1
      BY <2>2, RunSets, FS_Subset, FS_RemoveElement
    <2> QED
      BY <1>1, <2>1, <2>3, RunSets, PrimedRunSets DEF FeesInv, FeesPosted
  <1> QED
    BY <1>2, <1>3, <1>4

LEMMA LoopKeepsFees ==
    ASSUME RunsInv, FeesInv,
           \/ LoopStep
           \/ \E p \in Pairs : ActualizeFails(p) \/ GetActualRatesFails(p)
           \/ RatesThrow
           \/ \E i \in Ids : Fills(i) \/ Closes(i)
           \/ UNCHANGED vars
    PROVE  FeesInv'
  <1>1. faults' \in 0..MaxFaults /\ faults' >= faults /\ UNCHANGED unposted
        /\ overlaps' \in 0..MaxOverlaps /\ faults \in Nat /\ faults' \in Nat
    <2>1. \/ UNCHANGED faults
          \/ faults < MaxFaults /\ faults' = faults + 1
      BY DEF LoopStep, ActualizePair, GetActualRates, SetRates, NextIteration, NoRunToStart,
          RunSettled, StartRun, ActualizeFails, GetActualRatesFails, RatesThrow, Fills, Closes,
          Fails, vars
    <2>2. \/ UNCHANGED overlaps
          \/ overlaps < MaxOverlaps /\ overlaps' = overlaps + 1
      BY DEF LoopStep, ActualizePair, GetActualRates, SetRates, NextIteration, NoRunToStart,
          RunSettled, StartRun, ActualizeFails, GetActualRatesFails, RatesThrow, Fills, Closes,
          vars
    <2>3. UNCHANGED unposted
      BY DEF LoopStep, ActualizePair, GetActualRates, SetRates, NextIteration, NoRunToStart,
          RunSettled, StartRun, ActualizeFails, GetActualRatesFails, RatesThrow, Fills, Closes,
          vars, feeVars, FeeOutcome
    <2> QED
      BY <2>1, <2>2, <2>3, DaemonAssumption DEF FeesInv
  <1>2. \/ UNCHANGED <<mine, pc>> /\ (phase' = phase \/ mine = NoRun)
        \/ /\ mine = NoRun /\ phase' = "runs"
           /\ \E t \in Runs : /\ mine' = t /\ pc[t] = "idle" /\ pc' = [pc EXCEPT ![t] = "get"]
        \/ mine \notin Busy /\ mine' = NoRun /\ UNCHANGED pc
    <2>1. ASSUME NEW t \in Runs, StartRun(t)
          PROVE  /\ mine = NoRun /\ phase' = "runs" /\ mine' = t
                 /\ pc[t] = "idle" /\ pc' = [pc EXCEPT ![t] = "get"]
      BY <2>1 DEF StartRun, FeesInv
    <2>2. ASSUME RunSettled
          PROVE  mine \notin Busy /\ mine' = NoRun /\ UNCHANGED pc
      BY <2>2 DEF RunSettled, runVars
    <2>3. ASSUME ~RunSettled, ~\E t \in Runs : StartRun(t)
          PROVE  UNCHANGED <<mine, pc>> /\ (phase' = phase \/ mine = NoRun)
      BY <2>3 DEF LoopStep, ActualizePair, GetActualRates, SetRates, NextIteration, NoRunToStart,
          ActualizeFails, GetActualRatesFails, RatesThrow, Fills, Closes, vars, runVars,
          loopVars, FeesInv
    <2> QED
      BY <2>1, <2>2, <2>3
  <1>3. TIn' = TIn /\ Orphans' \subseteq Orphans
        /\ mine' \in Runs \cup {NoRun} /\ (phase' # "runs" => mine' = NoRun)
    <2>1. ASSUME NEW t \in Runs, mine = NoRun, phase' = "runs", mine' = t, pc[t] = "idle",
                 pc' = [pc EXCEPT ![t] = "get"]
          PROVE  <1>3
      <3>1. pc'[t] = "get" /\ \A u \in Runs \ {t} : pc'[u] = pc[u]
        BY <2>1 DEF RunsInv
      <3> QED
        BY <2>1, <3>1, DaemonAssumption DEF TIn, Orphans, Busy
    <2> QED
      BY <1>2, <2>1 DEF TIn, Orphans, Busy, FeesInv
  <1>4. FeesPosted'
    BY <1>1, <1>3, QuietKeepsFees
  <1> QED
    BY <1>1, <1>3, <1>4 DEF FeesInv

\* The invariant of the fees: an unposted market order is under way or a fault took
\* its run, and a run nobody awaits is there for a fault.
THEOREM FeesInvariant == Spec => []FeesInv
  <1>1. Init => FeesInv
    <2> SUFFICES ASSUME Init PROVE FeesInv
      OBVIOUS
    <2>1. TIn = {} /\ Orphans = {}
      BY DEF Init, TIn, Orphans, Busy
    <2> QED
      BY <2>1, FS_EmptySet, DaemonAssumption DEF Init, FeeInit, FeesInv, FeesPosted
  <1>2. RunsInv /\ FeesInv /\ [Next]_vars => FeesInv'
    <2> SUFFICES ASSUME RunsInv, FeesInv, [Next]_vars PROVE FeesInv'
      OBVIOUS
    <2> QED
      BY RunStepKeepsFees, FaultKeepsFees, LoopKeepsFees DEF Next, Fault
  <1> QED
    BY <1>1, <1>2, RunsInvariant, PTL DEF Spec

\* Every reachable state is well typed: no step divides by zero, the table of orders is
\* filled without gaps, and no cell size or fee to buy is negative.
THEOREM TypeCorrect == Spec => []TypeOK
  <1>1. RatesInv /\ RunsInv /\ FeesInv => TypeOK
    <2> SUFFICES ASSUME RatesInv, RunsInv, FeesInv PROVE TypeOK
      OBVIOUS
    <2>1. clashes \in 0..MaxOrders
      BY UsedBounded, IdsFinite DEF RunsInv, OrdersSound
    <2> QED
      BY <2>1 DEF RatesInv, RunsInv, FeesInv, TypeOK, CellsTypeOK, FeeTypeOK, Labels, Job
  <1> QED
    BY <1>1, RatesInvariant, RunsInvariant, FeesInvariant, PTL

\* The stored rates of a pair are within the margins of the last rates, whatever steps
\* the market moves in and for any margins, unless a failure dropped a change.
THEOREM StoredRates == Spec => []StoredWithinMargin
  BY RatesInvariant, PTL DEF RatesInv

-----------------------------------------------------------------------------
(* What overlapping runs do twice.                                         *)

\* If all that leaves C takes at most its own pair out of F, C loses no less than F.
LEMMA Counting ==
    ASSUME NEW C \in SUBSET (Runs \X Pairs), NEW C1 \in SUBSET C,
           NEW F \in SUBSET Pairs, NEW F1 \in SUBSET Pairs,
           \A p \in F \ F1 : \E x \in C \ C1 : x[2] = p
    PROVE  /\ Cardinality(C) \in Nat /\ Cardinality(C1) \in Nat
           /\ Cardinality(F) \in Nat /\ Cardinality(F1) \in Nat
           /\ Cardinality(C1) + Cardinality(F) <= Cardinality(C) + Cardinality(F1)
  <1> DEFINE D == {x \in C \ C1 : x[2] \in F \ F1}
             f == [x \in D |-> x[2]]
  <1>1. IsFiniteSet(Runs \X Pairs) /\ IsFiniteSet(Pairs)
    BY RatesAssumption, DaemonAssumption, FS_Product
  <1>2. /\ IsFiniteSet(C) /\ IsFiniteSet(C1) /\ IsFiniteSet(F) /\ IsFiniteSet(F1)
        /\ IsFiniteSet(C \ C1) /\ IsFiniteSet(D) /\ IsFiniteSet(F \ F1)
    <2>1. C \ C1 \subseteq Runs \X Pairs /\ D \subseteq Runs \X Pairs /\ C1 \subseteq Runs \X Pairs
      OBVIOUS
    <2> QED
      BY <1>1, <2>1, FS_Subset
  <1>3. /\ Cardinality(C) \in Nat /\ Cardinality(C1) \in Nat /\ Cardinality(F) \in Nat
        /\ Cardinality(F1) \in Nat /\ Cardinality(C \ C1) \in Nat /\ Cardinality(D) \in Nat
        /\ Cardinality(F \ F1) \in Nat
    BY <1>2, FS_CardinalityType
  <1>4. f \in Surjection(D, F \ F1)
    BY DEF Surjection
  <1> HIDE DEF f, D
  <1>5. Cardinality(F \ F1) <= Cardinality(D)
    BY <1>2, <1>4, FS_Surjection
  <1>6. Cardinality(D) <= Cardinality(C \ C1)
    <2>1. D \subseteq C \ C1
      BY DEF D
    <2> QED
      BY <1>2, <2>1, FS_Subset
  <1>7. Cardinality(C \ C1) = Cardinality(C) - Cardinality(C1)
    <2>1. C \cap C1 = C1
      OBVIOUS
    <2> QED
      BY <1>2, <2>1, FS_Difference
  <1>8. Cardinality(F \ F1) >= Cardinality(F) - Cardinality(F1)
    <2>1. Cardinality(F \ F1) = Cardinality(F) - Cardinality(F \cap F1)
      BY <1>2, FS_Difference
    <2>2. F \cap F1 \subseteq F1
      OBVIOUS
    <2>3. IsFiniteSet(F \cap F1) /\ Cardinality(F \cap F1) <= Cardinality(F1)
      BY <1>2, <2>2, FS_Subset
    <2>4. Cardinality(F \cap F1) \in Nat
      BY <2>3, FS_CardinalityType
    <2> QED
      BY <1>3, <2>1, <2>3, <2>4
  <1> QED
    BY <1>3, <1>5, <1>6, <1>7, <1>8

\* The kinds of steps of a run, by what they do to its requests; l and j are the step
\* it comes to and its variables there.
MovesTo(t, l, j) == pc' = [pc EXCEPT ![t] = l] /\ job' = [job EXCEPT ![t] = j]

Finds(t, l, j) ==
    /\ pc[t] = "get" /\ l = "next"
    /\ \A r \in j.todo : \E p \in Suitable : r = RequestFor(p)
    /\ UNCHANGED <<forFee, spare, order, clashes>>

Picks(t, l, j) ==
    /\ pc[t] = "next" /\ l \in {"order", "market"}
    /\ j.request \in job[t].todo /\ j.todo = job[t].todo \ {j.request}
    /\ l = "market" => forFee[j.request.pair] < FeeOf(j.amount1)
    /\ UNCHANGED <<forFee, spare, order, clashes>>

Pays(t, l, j) ==
    /\ pc[t] \in {"t_out", "t_fee"} /\ l \in {"t_fee", "order"}
    /\ j.todo = job[t].todo /\ j.request = job[t].request
    /\ \A p \in Pairs : forFee'[p] <= forFee[p]
    /\ UNCHANGED <<spare, order, clashes>>

Leaves(t, l, j) ==
    /\ l \notin Ordering \cup {"get"} /\ j.todo \subseteq job[t].todo
    /\ UNCHANGED <<forFee, spare, clashes>>
    /\ order' = order \/ Record(t)

\* The requests of the run stay.
Same(t, j) == j.todo = job[t].todo /\ j.request = job[t].request

LEMMA RunStepKinds ==
    ASSUME RatesInv, RunsInv, NEW t \in Runs, RunStep(t)
    PROVE  \E l, j :
              /\ MovesTo(t, l, j)
              /\ \/ Finds(t, l, j) \/ Picks(t, l, j) \/ Pays(t, l, j) \/ Leaves(t, l, j)
                 \/ MarketOrder(t) /\ l = "t_in" /\ Same(t, j)
                 \/ TransferIn(t) /\ l = "t_out" /\ j = job[t]
                 \/ CreateOrder(t) /\ l = "record" /\ j.todo = job[t].todo
  <1> DEFINE Goal == \E l, j :
              /\ MovesTo(t, l, j)
              /\ \/ Finds(t, l, j) \/ Picks(t, l, j) \/ Pays(t, l, j) \/ Leaves(t, l, j)
                 \/ MarketOrder(t) /\ l = "t_in" /\ Same(t, j)
                 \/ TransferIn(t) /\ l = "t_out" /\ j = job[t]
                 \/ CreateOrder(t) /\ l = "record" /\ j.todo = job[t].todo
  <1>1. /\ pc \in [Runs -> Labels] /\ job \in [Runs -> Job] /\ job[t] \in Job
        /\ Shape(pc[t], job[t]) /\ forFee \in [Pairs -> Int]
    BY DEF RunsInv, Shaped
  <1>2. CASE Get(t)
    <2>1. PICK found \in {Suitable, {}} :
              job' = [job EXCEPT ![t].todo = {RequestFor(p) : p \in found}]
      BY <1>2 DEF Get
    <2> DEFINE todo1 == {RequestFor(p) : p \in found}
               j == [job[t] EXCEPT !.todo = todo1]
    <2>2. \A r \in todo1 : \E p \in Suitable : r = RequestFor(p)
      OBVIOUS
    <2>3. job' = [job EXCEPT ![t] = j]
      BY <2>1
    <2> HIDE DEF todo1
    <2>4. j.todo = todo1
      BY <1>1 DEF Job
    <2>5. Finds(t, "next", j) /\ MovesTo(t, "next", j)
      BY <1>2, <2>2, <2>3, <2>4 DEF Get, Goto, Finds, MovesTo, cellVars, feeVars
    <2> QED
      BY <2>5
  <1>3. ASSUME NEW r \in job[t].todo, Create(t, r)
        PROVE  Goal
    <2> DEFINE amount1 == PrepareAmounts(r, pair[r.pair].minAmount1).amount1
               fee == FeeToBuy(r.pair, amount1)
               l == IF fee = 0 THEN "order" ELSE "market"
               j == [job[t] EXCEPT !.todo = @ \ {r}, !.request = r, !.amount1 = amount1, !.fee = fee]
    <2>1. /\ pc[t] = "next" /\ pc' = [pc EXCEPT ![t] = l] /\ job' = [job EXCEPT ![t] = j]
          /\ UNCHANGED <<cellVars, feeVars>>
      BY <1>3 DEF Create, Goto
    <2>2. r \in Request /\ r.rate > 0 /\ r.pair \in Pairs
      BY <1>1 DEF Shape, Job, Request
    <2>3. amount1 \in Nat
      BY <2>2, CostType, PrepareAmountsType
    <2> HIDE DEF amount1
    <2>4. FeeOf(amount1) \in Nat /\ forFee[r.pair] \in Int
      BY <1>1, <2>2, <2>3, FeeOfType
    <2>5. fee # 0 => forFee[r.pair] < FeeOf(amount1)
      BY <2>4 DEF FeeToBuy
    <2> HIDE DEF fee
    <2>6. /\ j.todo = job[t].todo \ {r} /\ j.request = r /\ j.amount1 = amount1
      BY <1>1 DEF Job
    <2>7. Picks(t, l, j) /\ MovesTo(t, l, j)
      BY <2>1, <2>5, <2>6 DEF Picks, MovesTo, cellVars, feeVars
    <2> QED
      BY <2>7
  <1>4. CASE MarketOrder(t)
    <2> DEFINE j == [job[t] EXCEPT !.fee = Precise(@)]
    <2>1. MovesTo(t, "t_in", j)
      BY <1>4 DEF MarketOrder, Goto, MovesTo
    <2>2. Same(t, j)
      BY <1>1 DEF Job, Same
    <2> QED
      BY <1>4, <2>1, <2>2
  <1>13. CASE TransferIn(t)
    <2>1. UNCHANGED job
      BY <1>13 DEF TransferIn
    <2>2. job' = [job EXCEPT ![t] = job[t]]
      BY <1>1, <2>1
    <2>3. MovesTo(t, "t_out", job[t])
      BY <1>13, <2>2 DEF TransferIn, Goto, MovesTo
    <2> QED
      BY <1>13, <2>3
  <1>5. CASE TransferOut(t)
    <2>1. /\ pc[t] = "t_out" /\ pc' = [pc EXCEPT ![t] = "t_fee"]
          /\ UNCHANGED <<job, feeVars, order, clashes>>
      BY <1>5 DEF TransferOut, Outcome, Goto
    <2>2. job' = [job EXCEPT ![t] = job[t]]
      BY <1>1, <2>1
    <2>3. UNCHANGED <<forFee, spare>> /\ \A p \in Pairs : forFee'[p] <= forFee[p]
      BY <1>1, <2>1 DEF feeVars
    <2>4. Pays(t, "t_fee", job[t]) /\ MovesTo(t, "t_fee", job[t])
      BY <2>1, <2>2, <2>3 DEF Pays, MovesTo
    <2> QED
      BY <2>4
  <1>6. CASE TransferFee(t)
    <2> DEFINE j == [job[t] EXCEPT !.fee = 0]
    <2>1. /\ pc[t] = "t_fee" /\ pc' = [pc EXCEPT ![t] = "order"] /\ job' = [job EXCEPT ![t] = j]
          /\ UNCHANGED <<cellVars, spare>> /\ FeeOutcome(job[t].request.pair, job[t].fee)
      BY <1>6 DEF TransferFee, Goto, FeeOutcome
    <2>2. FeeOf(job[t].fee) \in Nat
      BY <1>1, FeeOfType DEF Job
    <2>3. \A p \in Pairs : forFee'[p] <= forFee[p]
      BY <1>1, <2>1, <2>2 DEF FeeOutcome
    <2>4. j.todo = job[t].todo /\ j.request = job[t].request
      BY <1>1 DEF Job
    <2>5. Pays(t, "order", j) /\ MovesTo(t, "order", j)
      BY <2>1, <2>3, <2>4 DEF Pays, MovesTo, cellVars
    <2> QED
      BY <2>5
  <1>7. CASE CreateOrder(t)
    <2> DEFINE a == Precise(job[t].amount1)
               j == [job[t] EXCEPT !.id = NextId, !.cost = a * job[t].request.rate,
                                   !.request = NoRequest, !.amount1 = 0]
    <2>1. MovesTo(t, "record", j)
      BY <1>7 DEF CreateOrder, Goto, MovesTo
    <2>2. j.todo = job[t].todo
      BY <1>1 DEF Job
    <2> QED
      BY <1>7, <2>1, <2>2
  <1>8. CASE RunEnds(t) \/ Refused(t)
    <2>1. /\ pc' = [pc EXCEPT ![t] = "idle"] /\ job' = [job EXCEPT ![t] = NoJob]
          /\ UNCHANGED <<cellVars, feeVars>>
      BY <1>8 DEF RunEnds, Refused, Return, Goto
    <2>2. Leaves(t, "idle", NoJob) /\ MovesTo(t, "idle", NoJob)
      BY <2>1, NoJobShape DEF Leaves, MovesTo, Ordering, cellVars, feeVars
    <2> QED
      BY <2>2
  <1>9. CASE Record(t)
    <2> DEFINE j == [job[t] EXCEPT !.id = 0]
    <2>1. MovesTo(t, "out", j) /\ UNCHANGED <<clashes, feeVars>>
      BY <1>9 DEF Record, Recorded, Goto, MovesTo
    <2>2. j.todo = job[t].todo
      BY <1>1 DEF Job
    <2>3. Leaves(t, "out", j)
      BY <1>9, <2>1, <2>2 DEF Leaves, Ordering, feeVars
    <2> QED
      BY <2>1, <2>3
  <1>10. CASE OrderOutcome(t)
    <2>1. UNCHANGED <<order, clashes, feeVars>>
      BY <1>10 DEF OrderOutcome, Outcome
    <2> DEFINE j == [job[t] EXCEPT !.cost = 0]
    <2>2. j.todo = job[t].todo
      BY <1>1 DEF Job
    <2>3. PICK l \in {"next", "cells"} : MovesTo(t, l, j)
      BY <1>10 DEF OrderOutcome, Goto, MovesTo
    <2>4. Leaves(t, l, j)
      BY <2>1, <2>2, <2>3 DEF Leaves, Ordering, feeVars
    <2> QED
      BY <2>3, <2>4
  <1>11. CASE RecalcStep(t)
    <2>1. UNCHANGED <<order, clashes, feeVars>>
      BY <1>11, RecalcSteps
    <2>2. PICK l, j : RecalcMoves(t, l, j)
      BY <1>11, RecalcSteps
    <2>3. Leaves(t, l, j) /\ MovesTo(t, l, j)
      BY <2>1, <2>2 DEF RecalcMoves, Recalcs, Leaves, MovesTo, Ordering, feeVars
    <2> QED
      BY <2>3
  <1> QED
    BY <1>2, <1>3, <1>4, <1>5, <1>6, <1>7, <1>8, <1>9, <1>10, <1>11, <1>13
    DEF RunStep, RecalcStep

LEMMA OthersStay ==
    ASSUME RunsInv, NEW t \in Runs, NEW l, NEW j, MovesTo(t, l, j)
    PROVE  /\ \A u \in Runs \ {t} : pc'[u] = pc[u] /\ job'[u] = job[u]
           /\ pc'[t] = l /\ job'[t] = j
  BY DEF RunsInv, MovesTo

\* Nothing of what may still be bought is added, and for each pair that is covered now
\* something of it is gone.
LEMMA QuietKeepsSpare ==
    ASSUME SpareBounded, spare' = spare, overlaps' = overlaps, spare \in Nat, overlaps \in Nat,
           BuysLeft' \subseteq BuysLeft,
           \A p \in Pairs : FeeCovered(p)' =>
              FeeCovered(p) \/ \E u \in Runs : MayBuy(u, p) /\ ~MayBuy(u, p)'
    PROVE  SpareBounded'
  <1>1. BuysLeft \in SUBSET (Runs \X Pairs) /\ FirstBuys \subseteq Pairs /\ FirstBuys' \subseteq Pairs
    BY DEF BuysLeft, FirstBuys
  <1>2. ASSUME NEW p \in FirstBuys \ FirstBuys'
        PROVE  \E x \in BuysLeft \ BuysLeft' : x[2] = p
    <2>1. PICK u \in Runs : MayBuy(u, p) /\ ~MayBuy(u, p)'
      BY DEF FirstBuys
    <2>2. <<u, p>> \in BuysLeft \ BuysLeft'
      BY <2>1 DEF BuysLeft, FirstBuys
    <2> QED
      BY <2>2
  <1>3. /\ Cardinality(BuysLeft) \in Nat /\ Cardinality(BuysLeft') \in Nat
        /\ Cardinality(FirstBuys) \in Nat /\ Cardinality(FirstBuys') \in Nat
        /\ Cardinality(BuysLeft') + Cardinality(FirstBuys)
             <= Cardinality(BuysLeft) + Cardinality(FirstBuys')
    BY <1>1, <1>2, Counting
  <1>4. overlaps * Cardinality(Pairs) \in Nat
    BY RatesAssumption, FS_CardinalityType
  <1> QED
    BY <1>3, <1>4 DEF SpareBounded

\* The same of a step of one run, by what the run may still do at l with j.
LEMMA MoveKeepsSpare ==
    ASSUME RunsInv, SpareBounded, NEW t \in Runs, NEW l, NEW j, MovesTo(t, l, j),
           spare' = spare, overlaps' = overlaps, overlaps \in Nat,
           \A p \in Pairs :
              (\/ l = "get" \/ \E r \in j.todo : r.pair = p
               \/ l = "market" /\ j.request.pair = p) => MayBuy(t, p),
           \A p \in Pairs :
              j.request.pair = p /\ (l = "t_in" \/ (l = "market" /\ forFee'[p] >= FeeOf(j.amount1)))
                 => FeeCovered(p) \/ (MayBuy(t, p) /\ ~MayBuy(t, p)'),
           \A p \in Pairs : forFee'[p] <= forFee[p] \/ FeeCovered(p),
           forFee' \in [Pairs -> Int]
    PROVE  SpareBounded'
  <1>1. /\ \A u \in Runs \ {t} : pc'[u] = pc[u] /\ job'[u] = job[u]
        /\ pc'[t] = l /\ job'[t] = j
    BY OthersStay
  <1>2. ASSUME NEW u \in Runs, NEW p \in Pairs, MayBuy(u, p)'
        PROVE  MayBuy(u, p)
    BY <1>1, <1>2 DEF MayBuy, Asked
  <1>3. BuysLeft' \subseteq BuysLeft
    BY <1>2 DEF BuysLeft
  <1>4. ASSUME NEW p \in Pairs, FeeCovered(p)'
        PROVE  FeeCovered(p) \/ \E u \in Runs : MayBuy(u, p) /\ ~MayBuy(u, p)'
    <2>1. PICK u \in Runs :
            /\ job'[u].request.pair = p
            /\ pc'[u] = "t_in" \/ (pc'[u] = "market" /\ forFee'[p] >= FeeOf(job'[u].amount1))
      BY <1>4 DEF FeeCovered
    <2>2. CASE u = t
      BY <1>1, <2>1, <2>2
    <2>3. CASE u # t /\ ~FeeCovered(p)
      <3>1. pc[u] = pc'[u] /\ job[u] = job'[u] /\ forFee'[p] <= forFee[p]
        BY <1>1, <2>3
      <3>2. FeeOf(job[u].amount1) \in Nat /\ forFee[p] \in Int /\ forFee'[p] \in Int
        BY FeeOfType DEF RunsInv, Job
      <3>3. FeeCovered(p)
        BY <2>1, <3>1, <3>2 DEF FeeCovered
      <3> QED
        BY <2>3, <3>3
    <2> QED
      BY <2>2, <2>3
  <1> QED
    BY <1>3, <1>4, QuietKeepsSpare DEF RunsInv

LEMMA RunStepKeepsSpare ==
    ASSUME RatesInv, RunsInv, RunsInv', overlaps \in Nat, SpareBounded, NEW t \in Runs, RunStep(t)
    PROVE  SpareBounded'
  <1>1. PICK l, j :
          /\ MovesTo(t, l, j)
          /\ \/ Finds(t, l, j) \/ Picks(t, l, j) \/ Pays(t, l, j) \/ Leaves(t, l, j)
             \/ MarketOrder(t) /\ l = "t_in" /\ Same(t, j)
             \/ TransferIn(t) /\ l = "t_out" /\ j = job[t]
             \/ CreateOrder(t) /\ l = "record" /\ j.todo = job[t].todo
    BY RunStepKinds
  <1>2. overlaps' = overlaps
    BY RunStepLabel
  <1>3. /\ forFee \in [Pairs -> Int] /\ forFee' \in [Pairs -> Int] /\ spare \in Nat
        /\ Shape(pc[t], job[t]) /\ job[t] \in Job
        /\ \A p \in Pairs : forFee[p] <= forFee[p]
    BY DEF RunsInv, Shaped
  <1>4. /\ \A u \in Runs \ {t} : pc'[u] = pc[u] /\ job'[u] = job[u]
        /\ pc'[t] = l /\ job'[t] = j
    BY <1>1, OthersStay
  <1>5. CASE Finds(t, l, j)
    <2>1. pc[t] = "get" /\ l = "next" /\ UNCHANGED <<forFee, spare>>
      BY <1>5 DEF Finds
    <2>2. \A p \in Pairs : MayBuy(t, p)
      BY <2>1 DEF MayBuy, Asked
    <2> QED
      BY <1>1, <1>2, <1>3, <2>1, <2>2, MoveKeepsSpare
  <1>6. CASE Picks(t, l, j)
    <2>1. /\ l \in {"order", "market"} /\ UNCHANGED <<forFee, spare>>
          /\ j.request \in job[t].todo /\ j.todo \subseteq job[t].todo
          /\ l = "market" => forFee[j.request.pair] < FeeOf(j.amount1)
      BY <1>6 DEF Picks
    <2>2. \A p \in Pairs :
             (\/ l = "get" \/ \E r \in j.todo : r.pair = p
              \/ l = "market" /\ j.request.pair = p) => MayBuy(t, p)
      BY <2>1 DEF MayBuy, Asked
    <2>3. j.request.pair \in Pairs /\ FeeOf(j.amount1) \in Nat
      <3>1. j \in Job
        BY <1>4 DEF RunsInv
      <3> QED
        BY <1>3, <2>1, <3>1, FeeOfType DEF Job, Request
    <2>4. l = "market" => ~(forFee'[j.request.pair] >= FeeOf(j.amount1))
      BY <1>3, <2>1, <2>3
    <2> QED
      BY <1>1, <1>2, <1>3, <2>1, <2>2, <2>4, MoveKeepsSpare
  <1>7. CASE Pays(t, l, j)
    <2>1. /\ l \in {"t_fee", "order"} /\ UNCHANGED spare /\ j.todo = job[t].todo
          /\ \A p \in Pairs : forFee'[p] <= forFee[p]
      BY <1>7 DEF Pays
    <2>2. \A p \in Pairs :
             (\/ l = "get" \/ \E r \in j.todo : r.pair = p
              \/ l = "market" /\ j.request.pair = p) => MayBuy(t, p)
      BY <2>1 DEF MayBuy, Asked
    <2> QED
      BY <1>1, <1>2, <1>3, <2>1, <2>2, MoveKeepsSpare
  <1>8. CASE Leaves(t, l, j)
    <2>1. /\ l \notin {"get", "market", "t_in"} /\ UNCHANGED <<forFee, spare>>
          /\ j.todo \subseteq job[t].todo
      BY <1>8 DEF Leaves, Ordering
    <2>2. \A p \in Pairs :
             (\/ l = "get" \/ \E r \in j.todo : r.pair = p
              \/ l = "market" /\ j.request.pair = p) => MayBuy(t, p)
      BY <2>1 DEF MayBuy, Asked
    <2> QED
      BY <1>1, <1>2, <1>3, <2>1, <2>2, MoveKeepsSpare
  <1>9. CASE CreateOrder(t) /\ l = "record" /\ j.todo = job[t].todo
    <2>1. UNCHANGED <<forFee, spare>>
      BY <1>9 DEF CreateOrder, feeVars
    <2>2. \A p \in Pairs :
             (\/ l = "get" \/ \E r \in j.todo : r.pair = p
              \/ l = "market" /\ j.request.pair = p) => MayBuy(t, p)
      BY <1>9 DEF MayBuy, Asked
    <2> QED
      BY <1>1, <1>2, <1>3, <1>9, <2>1, <2>2, MoveKeepsSpare
  <1>10. CASE TransferIn(t) /\ l = "t_out" /\ j = job[t]
    <2>1. /\ pc[t] = "t_in" /\ UNCHANGED spare
          /\ forFee' = [forFee EXCEPT ![job[t].request.pair] = @ + job[t].fee]
      BY <1>10 DEF TransferIn, FeeIncome
    <2>2. \A p \in Pairs :
             (\/ l = "get" \/ \E r \in j.todo : r.pair = p
              \/ l = "market" /\ j.request.pair = p) => MayBuy(t, p)
      BY <1>10 DEF MayBuy, Asked
    <2>3. FeeCovered(job[t].request.pair)
      BY <2>1 DEF FeeCovered
    <2>4. \A p \in Pairs : forFee'[p] <= forFee[p] \/ FeeCovered(p)
      BY <1>3, <2>1, <2>3
    <2> QED
      BY <1>1, <1>2, <1>3, <1>10, <2>1, <2>2, <2>4, MoveKeepsSpare
  <1>11. CASE MarketOrder(t) /\ l = "t_in" /\ Same(t, j)
    <2>p. PICK p : p = job[t].request.pair
      OBVIOUS
    <2>1. /\ pc[t] = "market" /\ UNCHANGED forFee
          /\ spare' = IF forFee[p] >= FeeOf(job[t].amount1) THEN spare + 1 ELSE spare
      BY <1>11, <2>p DEF MarketOrder, FeeBought
    <2>2. p \in Pairs /\ ~Asked(t, p)
      BY <1>3, <2>p, <2>1 DEF Shape, Ordering, Request, Asked
    <2>3. MayBuy(t, p) /\ ~MayBuy(t, p)'
      BY <1>4, <1>11, <2>p, <2>1, <2>2 DEF MayBuy, Asked, Same
    <2>4. CASE spare' = spare
      <3>1. \A q \in Pairs :
               (\/ l = "get" \/ \E r \in j.todo : r.pair = q
                \/ l = "market" /\ j.request.pair = q) => MayBuy(t, q)
        BY <1>11, <2>1 DEF MayBuy, Asked, Same
      <3>2. \A q \in Pairs : j.request.pair = q => MayBuy(t, q) /\ ~MayBuy(t, q)'
        BY <1>11, <2>p, <2>3 DEF Same
      <3> QED
        BY <1>1, <1>2, <1>3, <1>11, <2>1, <2>4, <3>1, <3>2, MoveKeepsSpare
    <2>5. CASE spare' = spare + 1
      <3>1. FeeCovered(p)
        <4>1. forFee[p] >= FeeOf(job[t].amount1)
          BY <1>3, <2>1, <2>5
        <4> QED
          BY <2>p, <2>1, <4>1 DEF FeeCovered
      <3>2. BuysLeft' = BuysLeft \ {<<t, p>>} /\ <<t, p>> \in BuysLeft
        <4>1. ASSUME NEW u \in Runs, NEW q \in Pairs
              PROVE  MayBuy(u, q)' <=> MayBuy(u, q) /\ <<u, q>> # <<t, p>>
          <5>1. CASE u = t
            BY <1>4, <1>11, <2>p, <2>1, <2>3, <5>1 DEF MayBuy, Asked, Same
          <5>2. CASE u # t
            BY <1>4, <5>2 DEF MayBuy, Asked
          <5> QED
            BY <5>1, <5>2
        <4> QED
          BY <2>2, <2>3, <4>1 DEF BuysLeft
      <3>3. FirstBuys \subseteq FirstBuys'
        <4> SUFFICES ASSUME NEW q \in FirstBuys PROVE q \in FirstBuys'
          OBVIOUS
        <4>1. q # p /\ q \in Pairs /\ ~FeeCovered(q)
          BY <3>1 DEF FirstBuys
        <4>2. \E u \in Runs : MayBuy(u, q)'
          <5>1. PICK u \in Runs : MayBuy(u, q)
            BY DEF FirstBuys
          <5>2. <<u, q>> \in BuysLeft'
            BY <3>2, <4>1, <5>1 DEF BuysLeft
          <5> QED
            BY <5>2 DEF BuysLeft
        <4>3. ~FeeCovered(q)'
          BY <1>4, <1>11, <2>p, <2>1, <4>1 DEF FeeCovered, Same
        <4> QED
          BY <4>1, <4>2, <4>3 DEF FirstBuys
      <3>4. /\ IsFiniteSet(BuysLeft) /\ IsFiniteSet(FirstBuys') /\ FirstBuys' \subseteq Pairs
            /\ BuysLeft \subseteq Runs \X Pairs
        <4>1. IsFiniteSet(Runs \X Pairs) /\ IsFiniteSet(Pairs)
          BY RatesAssumption, DaemonAssumption, FS_Product
        <4>2. BuysLeft \subseteq Runs \X Pairs /\ FirstBuys' \subseteq Pairs
          BY DEF BuysLeft, FirstBuys
        <4> QED
          BY <4>1, <4>2, FS_Subset
      <3>5. Cardinality(BuysLeft') = Cardinality(BuysLeft) - 1
        BY <3>2, <3>4, FS_RemoveElement
      <3>6. Cardinality(FirstBuys) <= Cardinality(FirstBuys')
        BY <3>3, <3>4, FS_Subset
      <3>7. /\ Cardinality(BuysLeft) \in Nat /\ Cardinality(FirstBuys) \in Nat
            /\ Cardinality(FirstBuys') \in Nat
        BY <3>3, <3>4, FS_Subset, FS_CardinalityType
      <3>8. overlaps * Cardinality(Pairs) \in Nat
        BY RatesAssumption, FS_CardinalityType
      <3> QED
        BY <1>2, <1>3, <2>5, <3>5, <3>6, <3>7, <3>8 DEF SpareBounded
    <2> QED
      BY <2>1, <2>4, <2>5
  <1> QED
    BY <1>1, <1>5, <1>6, <1>7, <1>8, <1>9, <1>10, <1>11

\* Runs that end leave less to be done, and no run but theirs changes.
LEMMA EndKeepsSpare ==
    ASSUME RunsInv, overlaps \in Nat, SpareBounded, Crash \/ \E t \in Runs : Throws(t)
    PROVE  SpareBounded'
  <1>1. UNCHANGED <<forFee, spare, overlaps>>
    BY DEF Crash, Throws, feeVars
  <1>2. \A u \in Runs : \/ pc'[u] = "idle" /\ job'[u] = NoJob
                        \/ pc'[u] = pc[u] /\ job'[u] = job[u]
    BY DEF Crash, Throws, Return, Goto, RunsInv
  <1>3. \A u \in Runs, p \in Pairs : MayBuy(u, p)' => MayBuy(u, p)
    BY <1>2, NoJobShape DEF MayBuy, Asked
  <1>4. \A p \in Pairs : FeeCovered(p)' => FeeCovered(p)
    BY <1>1, <1>2 DEF FeeCovered
  <1>5. BuysLeft' \subseteq BuysLeft
    BY <1>3 DEF BuysLeft
  <1> QED
    BY <1>1, <1>4, <1>5, QuietKeepsSpare DEF RunsInv

LEMMA ElsewhereKeepsSpare ==
    ASSUME RunsInv, overlaps \in Nat, SpareBounded, UNCHANGED <<spare, runVars, overlaps>>,
           \A p \in Pairs : forFee'[p] <= forFee[p], forFee' \in [Pairs -> Int]
    PROVE  SpareBounded'
  <1>1. UNCHANGED <<pc, job>>
    BY DEF runVars
  <1>2. BuysLeft' \subseteq BuysLeft
    BY <1>1 DEF BuysLeft, MayBuy, Asked
  <1>3. ASSUME NEW p \in Pairs, FeeCovered(p)'
        PROVE  FeeCovered(p)
    <2>1. PICK u \in Runs :
            /\ job[u].request.pair = p
            /\ pc[u] = "t_in" \/ (pc[u] = "market" /\ forFee'[p] >= FeeOf(job[u].amount1))
      BY <1>1, <1>3 DEF FeeCovered
    <2>2. FeeOf(job[u].amount1) \in Nat /\ forFee[p] \in Int /\ forFee'[p] \in Int
      BY FeeOfType DEF RunsInv, Job
    <2> QED
      BY <2>1, <2>2 DEF FeeCovered
  <1> QED
    BY <1>2, <1>3, QuietKeepsSpare DEF RunsInv

\* A run that starts adds every pair once to what is left to do; if no other is under
\* way, nothing else was left.
LEMMA StartRunSets ==
    ASSUME RunsInv, NEW t \in Runs, StartRun(t), NEW C \in SUBSET (Runs \X Pairs),
           \A x \in C : x[1] # t,
           NEW C1, C1 = C \cup ({t} \X Pairs)
    PROVE  /\ Cardinality(C) \in Nat /\ Cardinality(Pairs) \in Nat
           /\ Cardinality(C1) = Cardinality(C) + Cardinality(Pairs)
  <1>1. IsFiniteSet(Runs \X Pairs) /\ IsFiniteSet(Pairs) /\ Cardinality(Pairs) \in Nat
    BY RatesAssumption, DaemonAssumption, FS_Product, FS_CardinalityType
  <1>2. IsFiniteSet({t}) /\ Cardinality({t}) = 1
    BY FS_Singleton
  <1>3. IsFiniteSet({t} \X Pairs) /\ Cardinality({t} \X Pairs) = 1 * Cardinality(Pairs)
    BY <1>1, <1>2, FS_Product
  <1>4. IsFiniteSet(C) /\ Cardinality(C) \in Nat
    BY <1>1, FS_Subset, FS_CardinalityType
  <1>5. C \cap ({t} \X Pairs) = {}
    OBVIOUS
  <1>6. Cardinality(C1) = Cardinality(C) + Cardinality({t} \X Pairs) - Cardinality({})
    BY <1>3, <1>4, <1>5, FS_Union
  <1>7. Cardinality({}) = 0
    BY FS_EmptySet
  <1> QED
    BY <1>1, <1>3, <1>4, <1>6, <1>7

LEMMA StartRunState ==
    ASSUME RunsInv, overlaps \in Nat, NEW t \in Runs, StartRun(t)
    PROVE  /\ UNCHANGED <<forFee, spare, order, clashes, job>>
           /\ pc[t] = "idle" /\ pc'[t] = "get" /\ \A u \in Runs \ {t} : pc'[u] = pc[u]
           /\ job[t].todo = {}
           /\ \/ overlaps' = overlaps /\ \A u \in Runs : pc[u] = "idle" /\ job[u].todo = {}
              \/ overlaps' = overlaps + 1
                 /\ overlaps' * Cardinality(Pairs)
                      = overlaps * Cardinality(Pairs) + Cardinality(Pairs)
  <1>1. /\ UNCHANGED <<forFee, spare, order, clashes, job>>
        /\ pc[t] = "idle" /\ pc'[t] = "get" /\ \A u \in Runs \ {t} : pc'[u] = pc[u]
    BY DEF StartRun, feeVars, cellVars, RunsInv
  <1>2. \A u \in Runs : pc[u] = "idle" => job[u].todo = {}
    BY DEF RunsInv, Shaped, Shape
  <1>3. CASE Busy = {}
    BY <1>1, <1>2, <1>3 DEF StartRun, Busy
  <1>4. CASE Busy # {}
    <2>1. overlaps' = overlaps + 1
      BY <1>4 DEF StartRun
    <2>2. Cardinality(Pairs) \in Nat
      BY RatesAssumption, FS_CardinalityType
    <2>3. overlaps' * Cardinality(Pairs) = overlaps * Cardinality(Pairs) + Cardinality(Pairs)
      BY <2>1, <2>2
    <2> QED
      BY <1>1, <1>2, <2>1, <2>3
  <1> QED
    BY <1>3, <1>4

LEMMA StartRunKeepsSpare ==
    ASSUME RunsInv, overlaps \in Nat, SpareBounded, NEW t \in Runs, StartRun(t)
    PROVE  SpareBounded'
  <1>1. /\ UNCHANGED <<forFee, spare, job>>
        /\ pc[t] = "idle" /\ pc'[t] = "get" /\ \A u \in Runs \ {t} : pc'[u] = pc[u]
        /\ job[t].todo = {}
    BY StartRunState
  <1>2. ASSUME NEW u \in Runs, NEW p \in Pairs
        PROVE  /\ MayBuy(u, p)' <=> MayBuy(u, p) \/ u = t
               /\ MayBuy(u, p) => u # t
    BY <1>1 DEF MayBuy, Asked
  <1>3. /\ BuysLeft' = BuysLeft \cup ({t} \X Pairs) /\ BuysLeft \subseteq Runs \X Pairs
        /\ \A x \in BuysLeft : x[1] # t
    BY <1>2 DEF BuysLeft
  <1>4. /\ Cardinality(BuysLeft) \in Nat /\ Cardinality(Pairs) \in Nat
        /\ Cardinality(BuysLeft') = Cardinality(BuysLeft) + Cardinality(Pairs)
    BY <1>3, StartRunSets
  <1>5. \A p \in Pairs : FeeCovered(p)' <=> FeeCovered(p)
    BY <1>1 DEF FeeCovered
  <1>6. FirstBuys \subseteq FirstBuys' /\ FirstBuys' \subseteq Pairs
    BY <1>2, <1>5 DEF FirstBuys
  <1>7. /\ Cardinality(FirstBuys) \in Nat /\ Cardinality(FirstBuys') \in Nat
        /\ Cardinality(FirstBuys) <= Cardinality(FirstBuys')
    BY <1>6, RatesAssumption, FS_Subset, FS_CardinalityType
  <1>8. overlaps * Cardinality(Pairs) \in Nat /\ spare \in Nat
    BY <1>4 DEF RunsInv
  <1>9. CASE overlaps' = overlaps /\ \A u \in Runs : pc[u] = "idle" /\ job[u].todo = {}
    <2>1. BuysLeft = {} /\ FirstBuys = {}
      BY <1>9 DEF BuysLeft, FirstBuys, MayBuy, Asked
    <2>2. FirstBuys' = Pairs
      <3>1. \A p \in Pairs : ~FeeCovered(p)
        BY <1>9 DEF FeeCovered
      <3> QED
        BY <1>2, <1>5, <3>1 DEF FirstBuys
    <2>3. Cardinality(BuysLeft) = 0 /\ Cardinality(FirstBuys) = 0
      BY <2>1, FS_EmptySet
    <2> QED
      BY <1>1, <1>4, <1>8, <1>9, <2>2, <2>3 DEF SpareBounded
  <1>10. CASE /\ overlaps' = overlaps + 1
              /\ overlaps' * Cardinality(Pairs)
                   = overlaps * Cardinality(Pairs) + Cardinality(Pairs)
    BY <1>1, <1>4, <1>7, <1>8, <1>10 DEF SpareBounded
  <1> QED
    BY <1>9, <1>10, StartRunState

\* What happens to the orders and to for_fee elsewhere.
LEMMA FillsState ==
    ASSUME RunsInv, NEW i \in Ids, Fills(i) \/ Closes(i)
    PROVE  /\ UNCHANGED <<runVars, spare, clashes, overlaps>>
           /\ \A p \in Pairs : forFee'[p] <= forFee[p]
  <1>1. UNCHANGED <<runVars, spare, clashes, overlaps>>
    BY DEF Fills, Closes, FeeOutcome, feeVars, OrderFills, OrderCloses
  <1>2. forFee \in [Pairs -> Int] /\ FeeOf(order[i].amount1) \in Nat
    BY FeeOfType DEF RunsInv, Order
  <1>3. \A p \in Pairs : forFee'[p] <= forFee[p]
    BY <1>2 DEF Fills, Closes, FeeOutcome, feeVars
  <1> QED
    BY <1>1, <1>3

\* The invariant behind the second bound of TransfersBounded: unneeded market orders
\* placed, and those that may yet be, are at most one for each pair and overlap.
THEOREM SpareInvariant == Spec => []SpareBounded
  <1>1. Init => SpareBounded
    <2> SUFFICES ASSUME Init PROVE SpareBounded
      OBVIOUS
    <2>1. \A u \in Runs : pc[u] = "idle" /\ job[u].todo = {}
      BY NoJobShape DEF Init
    <2>2. BuysLeft = {} /\ FirstBuys = {}
      BY <2>1 DEF BuysLeft, FirstBuys, MayBuy, Asked
    <2>3. spare = 0 /\ overlaps = 0 /\ Cardinality(Pairs) \in Nat
      BY RatesAssumption, FS_CardinalityType DEF Init, FeeInit
    <2> QED
      BY <2>2, <2>3, FS_EmptySet DEF SpareBounded
  <1>2. /\ RatesInv /\ RunsInv /\ RunsInv' /\ FeesInv /\ SpareBounded /\ [Next]_vars
        => SpareBounded'
    <2> SUFFICES ASSUME RatesInv, RunsInv, RunsInv', FeesInv, SpareBounded, [Next]_vars
                 PROVE  SpareBounded'
      OBVIOUS
    <2>1. /\ overlaps \in Nat /\ forFee \in [Pairs -> Int] /\ forFee' \in [Pairs -> Int]
          /\ \A p \in Pairs : forFee[p] <= forFee[p]
      BY DaemonAssumption DEF FeesInv, RunsInv
    <2>2. ASSUME NEW t \in Runs, RunStep(t) PROVE SpareBounded'
      BY <2>1, <2>2, RunStepKeepsSpare
    <2>3. ASSUME NEW t \in Runs, StartRun(t) PROVE SpareBounded'
      BY <2>1, <2>3, StartRunKeepsSpare
    <2>4. CASE Crash \/ \E t \in Runs : Throws(t)
      BY <2>1, <2>4, EndKeepsSpare
    <2>5. ASSUME NEW i \in Ids, Fills(i) \/ Closes(i) PROVE SpareBounded'
      BY <2>1, <2>5, FillsState, ElsewhereKeepsSpare
    <2>6. CASE \/ LoopStep /\ ~\E t \in Runs : StartRun(t)
               \/ \E p \in Pairs : ActualizeFails(p) \/ GetActualRatesFails(p)
               \/ RatesThrow \/ OtherRejected
               \/ UNCHANGED vars
      <3>1. UNCHANGED <<forFee, spare, runVars, overlaps>>
        BY <2>6, LoopLeavesRuns DEF feeVars
      <3> QED
        BY <2>1, <3>1, ElsewhereKeepsSpare
    <2> QED
      BY <2>2, <2>3, <2>4, <2>5, <2>6 DEF Next, Fault
  <1> QED
    BY <1>1, <1>2, RatesInvariant, RunsInvariant, FeesInvariant, PTL DEF Spec

\* A market order goes unposted only by a failure, and one that was not needed is made
\* only by overlapping runs, once for each pair and overlap.
THEOREM TransfersAreBounded == Spec => []TransfersBounded
  <1>1. RunsInv /\ FeesInv /\ SpareBounded => TransfersBounded
    <2> SUFFICES ASSUME RunsInv, FeesInv, SpareBounded PROVE TransfersBounded
      OBVIOUS
    <2>1. unposted <= faults + Cardinality(TIn)
      BY RunSets DEF FeesInv, FeesPosted
    <2>2. \A p \in FirstBuys : \E x \in BuysLeft : x[2] = p
      <3> SUFFICES ASSUME NEW p \in FirstBuys PROVE \E x \in BuysLeft : x[2] = p
        OBVIOUS
      <3>1. PICK u \in Runs : MayBuy(u, p)
        BY DEF FirstBuys
      <3>2. <<u, p>> \in BuysLeft
        BY <3>1 DEF BuysLeft, FirstBuys
      <3> QED
        BY <3>2
    <2>3. BuysLeft \subseteq Runs \X Pairs /\ FirstBuys \subseteq Pairs
      BY DEF BuysLeft, FirstBuys
    <2>4. /\ Cardinality(BuysLeft) \in Nat /\ Cardinality(FirstBuys) \in Nat
          /\ Cardinality({}) + Cardinality(FirstBuys) <= Cardinality(BuysLeft) + Cardinality({})
      BY <2>2, <2>3, Counting
    <2>5. overlaps * Cardinality(Pairs) \in Nat /\ spare \in Nat /\ Cardinality({}) = 0
      BY RatesAssumption, DaemonAssumption, FS_CardinalityType, FS_EmptySet DEF FeesInv, RunsInv
    <2>6. spare <= overlaps * Cardinality(Pairs)
      BY <2>4, <2>5 DEF SpareBounded
    <2> QED
      BY <2>1, <2>6 DEF TransfersBounded, TIn
  <1> QED
    BY <1>1, RunsInvariant, FeesInvariant, SpareInvariant, PTL

-----------------------------------------------------------------------------
(* Cells.                                                                  *)

\* No order is added, and none that stays has moved.
Fading ==
    \A i \in Ids :
        /\ order'[i].status \in {"sent", "open", "filled"} =>
              /\ order[i].status \in {"sent", "open", "filled"}
              /\ order'[i].pair = order[i].pair /\ order'[i].rate = order[i].rate
        /\ order'[i].status = "sent" => order[i].status = "sent"

LEMMA FadingKeepsCells ==
    ASSUME Fading, NEW r
    PROVE  InCellOf(r)' # {} => InCellOf(r) # {}
  BY DEF Fading, InCellOf

LEMMA SameOrdersFade ==
    ASSUME UNCHANGED order
    PROVE  Fading
  BY DEF Fading

LEMMA RecordFades ==
    ASSUME RunsInv, NEW t \in Runs, Record(t)
    PROVE  Fading
  <1>1. /\ order' = [order EXCEPT ![job[t].id].status = "open"]
        /\ job[t].id \in Ids /\ order[job[t].id].status = "sent"
    BY DEF Record, Recorded, RunsInv, Shaped, Shape, OrdersSound
  <1>2. PICK n \in Ids : n = job[t].id
    BY <1>1
  <1>3. \A i \in Ids : i # n => order'[i] = order[i]
    BY <1>1, <1>2 DEF RunsInv
  <1>4. /\ order'[n].status = "open" /\ order[n].status = "sent"
        /\ order'[n].pair = order[n].pair /\ order'[n].rate = order[n].rate
    BY <1>1, <1>2 DEF RunsInv, Order
  <1> QED
    BY <1>3, <1>4 DEF Fading

LEMMA OrderEventFades ==
    ASSUME RunsInv, NEW i \in Ids, Fills(i) \/ Closes(i)
    PROVE  Fading
  <1>1. order \in [Ids -> Order]
    BY DEF RunsInv
  <1>2. CASE Closes(i)
    <2>1. order' = [order EXCEPT ![i] = ClosedOrder] /\ ClosedOrder.status = "closed"
      BY <1>2 DEF Closes, OrderCloses, ClosedOrder, NoOrder
    <2> HIDE DEF ClosedOrder
    <2> QED
      BY <1>1, <2>1 DEF Fading
  <1>3. CASE Fills(i)
    <2>1. PICK q \in Quotes : order' = [order EXCEPT
              ![i].status = IF q.ask = order[i].rate THEN "filled" ELSE "moved",
              ![i].rate = q.ask]
      BY <1>3 DEF Fills, OrderFills
    <2>2. order[i].status = "open"
      BY <1>3 DEF Fills, OrderFills
    <2>3. /\ order'[i].status = IF q.ask = order[i].rate THEN "filled" ELSE "moved"
          /\ order'[i].rate = q.ask /\ order'[i].pair = order[i].pair
      BY <1>1, <2>1 DEF Order
    <2>4. \A k \in Ids \ {i} : order'[k] = order[k]
      BY <1>1, <2>1
    <2> QED
      BY <2>2, <2>3, <2>4 DEF Fading
  <1> QED
    BY <1>2, <1>3

LEMMA EndFades ==
    ASSUME NEW S, Lost(S)
    PROVE  Fading
  <1>1. [ClosedOrder EXCEPT !.status = "lost"].status = "lost"
    BY DEF ClosedOrder, NoOrder
  <1> HIDE DEF ClosedOrder
  <1> QED
    BY <1>1 DEF Lost, Fading

LEMMA QuietKeepsClashes ==
    ASSUME ClashesBounded, clashes' = clashes, overlaps' = overlaps, clashes \in Nat,
           overlaps \in Nat, SendsLeft' \subseteq SendsLeft,
           \A p \in Pairs : CellTaken(p)' =>
              CellTaken(p) \/ \E u \in Runs : MaySend(u, p) /\ ~MaySend(u, p)'
    PROVE  ClashesBounded'
  <1>1. SendsLeft \in SUBSET (Runs \X Pairs) /\ FirstSends \subseteq Pairs
        /\ FirstSends' \subseteq Pairs
    BY DEF SendsLeft, FirstSends
  <1>2. ASSUME NEW p \in FirstSends \ FirstSends'
        PROVE  \E x \in SendsLeft \ SendsLeft' : x[2] = p
    <2>1. PICK u \in Runs : MaySend(u, p) /\ ~MaySend(u, p)'
      BY DEF FirstSends
    <2>2. <<u, p>> \in SendsLeft \ SendsLeft'
      BY <2>1 DEF SendsLeft, FirstSends
    <2> QED
      BY <2>2
  <1>3. /\ Cardinality(SendsLeft) \in Nat /\ Cardinality(SendsLeft') \in Nat
        /\ Cardinality(FirstSends) \in Nat /\ Cardinality(FirstSends') \in Nat
        /\ Cardinality(SendsLeft') + Cardinality(FirstSends)
             <= Cardinality(SendsLeft) + Cardinality(FirstSends')
    BY <1>1, <1>2, Counting
  <1>4. overlaps * Cardinality(Pairs) \in Nat
    BY RatesAssumption, FS_CardinalityType
  <1> QED
    BY <1>3, <1>4 DEF ClashesBounded

\* A step of one run that sends no order.
LEMMA MoveKeepsClashes ==
    ASSUME RunsInv, ClashesBounded, NEW t \in Runs, NEW l, NEW j, MovesTo(t, l, j), Fading,
           clashes' = clashes, overlaps' = overlaps, overlaps \in Nat,
           \A p \in Pairs :
              (\/ l = "get" \/ \E r \in j.todo : r.pair = p
               \/ l \in Ordering /\ j.request.pair = p) => MaySend(t, p),
           \A r \in j.todo : InCellOf(r) # {} => CellTaken(r.pair),
           l \in Ordering /\ InCellOf(j.request) # {} => CellTaken(j.request.pair)
    PROVE  ClashesBounded'
  <1>1. /\ \A u \in Runs \ {t} : pc'[u] = pc[u] /\ job'[u] = job[u]
        /\ pc'[t] = l /\ job'[t] = j
    BY OthersStay
  <1>2. ASSUME NEW u \in Runs, NEW p \in Pairs, MaySend(u, p)'
        PROVE  MaySend(u, p)
    BY <1>1, <1>2 DEF MaySend, Asked
  <1>3. SendsLeft' \subseteq SendsLeft
    BY <1>2 DEF SendsLeft
  <1>4. ASSUME NEW p \in Pairs, CellTaken(p)'
        PROVE  CellTaken(p)
    <2>1. CASE \E i \in Ids : order'[i].status = "sent" /\ order'[i].pair = p
      BY <2>1 DEF Fading, CellTaken
    <2>2. ASSUME NEW u \in Runs, NEW r \in job'[u].todo, r.pair = p, InCellOf(r)' # {}
          PROVE  CellTaken(p)
      <3>1. InCellOf(r) # {}
        BY <2>2, FadingKeepsCells
      <3> QED
        BY <1>1, <2>2, <3>1 DEF CellTaken
    <2>3. ASSUME NEW u \in Runs, pc'[u] \in Ordering, job'[u].request.pair = p,
                 NEW r, r = job'[u].request, InCellOf(r)' # {}
          PROVE  CellTaken(p)
      <3>1. InCellOf(r) # {}
        BY <2>3, FadingKeepsCells
      <3> QED
        BY <1>1, <2>3, <3>1 DEF CellTaken
    <2>4. \/ \E i \in Ids : order'[i].status = "sent" /\ order'[i].pair = p
          \/ \E u \in Runs : \E r \in job'[u].todo : r.pair = p /\ InCellOf(r)' # {}
          \/ \E u \in Runs : pc'[u] \in Ordering /\ job'[u].request.pair = p
                             /\ \E r : r = job'[u].request /\ InCellOf(r)' # {}
      <3>1. Ordering' = Ordering
        BY DEF Ordering
      <3> QED
        BY <1>4, <3>1 DEF CellTaken, InCellOf
    <2> QED
      BY <2>1, <2>2, <2>3, <2>4
  <1> QED
    BY <1>3, <1>4, QuietKeepsClashes DEF RunsInv

\* A pair found suitable has orders in its cell only if they are still to be recorded.
LEMMA SuitableCell ==
    ASSUME RatesInv, RunsInv, NEW p \in Suitable, InCellOf(RequestFor(p)) # {}
    PROVE  CellTaken(p)
  <1>1. PICK i \in Ids : /\ order[i].status \in {"sent", "open", "filled"} /\ order[i].pair = p
                         /\ Distance(order[i].rate, pair[p].sellRate) < cellSize[p]
    BY DEF InCellOf, RequestFor
  <1>2. p \in Pairs /\ \A k \in Active : Distance(order[k].rate, pair[p].sellRate) >= cellSize[p]
    BY DEF Suitable, CellFree
  <1>3. /\ order[i].rate \in Nat /\ pair[p].sellRate \in Nat /\ cellSize[p] \in Nat
    BY <1>2, CostType DEF RunsInv, Order
  <1>4. Distance(order[i].rate, pair[p].sellRate) \in Int
    BY <1>3 DEF Distance
  <1>5. i \notin Active
    BY <1>1, <1>2, <1>3, <1>4
  <1>6. order[i].status = "sent"
    BY <1>1, <1>5 DEF Active
  <1> QED
    BY <1>1, <1>6 DEF CellTaken

LEMMA RunStepKeepsClashes ==
    ASSUME RatesInv, RunsInv, RunsInv', overlaps \in Nat, ClashesBounded, NEW t \in Runs,
           RunStep(t), ~CreateOrder(t)
    PROVE  ClashesBounded'
  <1>1. PICK l, j :
          /\ MovesTo(t, l, j)
          /\ \/ Finds(t, l, j) \/ Picks(t, l, j) \/ Pays(t, l, j) \/ Leaves(t, l, j)
             \/ MarketOrder(t) /\ l = "t_in" /\ Same(t, j)
             \/ TransferIn(t) /\ l = "t_out" /\ j = job[t]
    BY RunStepKinds
  <1>2. overlaps' = overlaps
    BY RunStepLabel
  <1>3. \A r \in job[t].todo : InCellOf(r) # {} => CellTaken(r.pair)
    BY DEF CellTaken
  <1>4. pc[t] \in Ordering /\ InCellOf(job[t].request) # {} => CellTaken(job[t].request.pair)
    BY DEF CellTaken
  <1>5. CASE Finds(t, l, j)
    <2>1. /\ pc[t] = "get" /\ l = "next" /\ UNCHANGED <<order, clashes>>
          /\ \A r \in j.todo : \E p \in Suitable : r = RequestFor(p)
      BY <1>5 DEF Finds
    <2>2. \A p \in Pairs : MaySend(t, p)
      BY <2>1 DEF MaySend, Asked
    <2>3. \A r \in j.todo : InCellOf(r) # {} => CellTaken(r.pair)
      BY <2>1, SuitableCell, RequestForType
    <2>4. l \notin Ordering /\ Fading
      BY <2>1, SameOrdersFade DEF Ordering
    <2> QED
      BY <1>1, <1>2, <2>1, <2>2, <2>3, <2>4, MoveKeepsClashes
  <1>6. CASE Picks(t, l, j)
    <2>1. /\ l \in {"order", "market"} /\ UNCHANGED <<order, clashes>>
          /\ j.request \in job[t].todo /\ j.todo \subseteq job[t].todo
      BY <1>6 DEF Picks
    <2>2. \A p \in Pairs :
             (\/ l = "get" \/ \E r \in j.todo : r.pair = p
              \/ l \in Ordering /\ j.request.pair = p) => MaySend(t, p)
      BY <2>1 DEF MaySend, Asked
    <2>3. Fading
      BY <2>1, SameOrdersFade
    <2> QED
      BY <1>1, <1>2, <1>3, <2>1, <2>2, <2>3, MoveKeepsClashes
  <1>7. CASE Pays(t, l, j) \/ (MarketOrder(t) /\ l = "t_in" /\ Same(t, j))
                           \/ (TransferIn(t) /\ l = "t_out" /\ j = job[t])
    <2>1. /\ pc[t] \in Ordering /\ l \in Ordering /\ UNCHANGED <<order, clashes>>
          /\ j.todo = job[t].todo /\ j.request = job[t].request
      BY <1>7 DEF Pays, Same, MarketOrder, TransferIn, Ordering, cellVars
    <2>2. \A p \in Pairs :
             (\/ l = "get" \/ \E r \in j.todo : r.pair = p
              \/ l \in Ordering /\ j.request.pair = p) => MaySend(t, p)
      BY <2>1 DEF MaySend, Asked, Ordering
    <2>3. Fading
      BY <2>1, SameOrdersFade
    <2> QED
      BY <1>1, <1>2, <1>3, <1>4, <2>1, <2>2, <2>3, MoveKeepsClashes
  <1>8. CASE Leaves(t, l, j)
    <2>1. /\ l \notin Ordering \cup {"get"} /\ UNCHANGED clashes /\ j.todo \subseteq job[t].todo
      BY <1>8 DEF Leaves
    <2>2. \A p \in Pairs :
             (\/ l = "get" \/ \E r \in j.todo : r.pair = p
              \/ l \in Ordering /\ j.request.pair = p) => MaySend(t, p)
      BY <2>1 DEF MaySend, Asked
    <2>3. Fading
      BY <1>8, SameOrdersFade, RecordFades DEF Leaves
    <2> QED
      BY <1>1, <1>2, <1>3, <2>1, <2>2, <2>3, MoveKeepsClashes
  <1> QED
    BY <1>1, <1>5, <1>6, <1>7, <1>8

\* The order a run sends: a clash only if the cell was taken before.
LEMMA CreateOrderKeepsClashes ==
    ASSUME RunsInv, overlaps \in Nat, ClashesBounded, NEW t \in Runs, CreateOrder(t)
    PROVE  ClashesBounded'
  <1>1. /\ pc[t] = "order" /\ Shape("order", job[t]) /\ job[t] \in Job
        /\ RoomToOrder /\ Sent(job[t].request, Precise(job[t].amount1))
        /\ UNCHANGED overlaps
    BY DEF CreateOrder, RunsInv, Shaped
  <1>p. PICK p \in Pairs : p = job[t].request.pair
    BY <1>1 DEF Shape, Ordering, Request
  <1> DEFINE a == Precise(job[t].amount1)
             j == [job[t] EXCEPT !.id = NextId, !.cost = a * job[t].request.rate,
                                 !.request = NoRequest, !.amount1 = 0]
  <1>2. MovesTo(t, "record", j) /\ j.todo = job[t].todo
    BY <1>1 DEF CreateOrder, Goto, MovesTo, Job
  <1> HIDE DEF j
  <1>3. /\ \A u \in Runs \ {t} : pc'[u] = pc[u] /\ job'[u] = job[u]
        /\ pc'[t] = "record" /\ job'[t] = j
    BY <1>2, OthersStay
  <1>4. ~Asked(t, p) /\ MaySend(t, p) /\ ~MaySend(t, p)'
    <2>1. ~Asked(t, p)
      BY <1>1, <1>p DEF Asked, Shape, Ordering
    <2> QED
      BY <1>1, <1>p, <1>2, <1>3, <2>1 DEF MaySend, Asked, Ordering
  <1>5. SendsLeft' = SendsLeft \ {<<t, p>>} /\ <<t, p>> \in SendsLeft
    <2>1. ASSUME NEW u \in Runs, NEW q \in Pairs
          PROVE  MaySend(u, q)' <=> MaySend(u, q) /\ <<u, q>> # <<t, p>>
      <3>1. CASE u = t
        BY <1>1, <1>p, <1>2, <1>3, <1>4, <3>1 DEF MaySend, Asked, Ordering
      <3>2. CASE u # t
        BY <1>3, <3>2 DEF MaySend, Asked, Ordering
      <3> QED
        BY <3>1, <3>2
    <2> QED
      BY <1>4, <2>1 DEF SendsLeft
  <1>6. PICK n \in Ids : /\ \A i \in Ids \ {n} : order'[i] = order[i]
                         /\ order'[n].status = "sent" /\ order'[n].pair = p
    BY <1>1, <1>p, SentOrders
  <1>7. ASSUME NEW q \in Pairs, q # p, CellTaken(q)'
        PROVE  CellTaken(q)
    <2>1. ASSUME NEW r, r.pair = q, InCellOf(r)' # {}
          PROVE  InCellOf(r) # {}
      BY <1>6, <1>7, <2>1 DEF InCellOf
    <2>2. CASE \E i \in Ids : order'[i].status = "sent" /\ order'[i].pair = q
      BY <1>6, <1>7, <2>2 DEF CellTaken
    <2>3. ASSUME NEW u \in Runs, NEW r \in job'[u].todo, r.pair = q, InCellOf(r)' # {}
          PROVE  CellTaken(q)
      <3>1. InCellOf(r) # {} /\ r \in job[u].todo
        BY <1>2, <1>3, <2>1, <2>3
      <3> QED
        BY <2>3, <3>1 DEF CellTaken
    <2>4. ASSUME NEW u \in Runs, pc'[u] \in Ordering, job'[u].request.pair = q,
                 NEW r, r = job'[u].request, InCellOf(r)' # {}
          PROVE  CellTaken(q)
      <3>1. InCellOf(r) # {} /\ u # t
        BY <1>3, <2>1, <2>4 DEF Ordering
      <3> QED
        BY <1>3, <2>4, <3>1 DEF CellTaken
    <2>5. \/ \E i \in Ids : order'[i].status = "sent" /\ order'[i].pair = q
          \/ \E u \in Runs : \E r \in job'[u].todo : r.pair = q /\ InCellOf(r)' # {}
          \/ \E u \in Runs : pc'[u] \in Ordering /\ job'[u].request.pair = q
                             /\ \E r : r = job'[u].request /\ InCellOf(r)' # {}
      BY <1>7 DEF CellTaken, InCellOf, Ordering
    <2> QED
      BY <2>2, <2>3, <2>4, <2>5
  <1>8. FirstSends \ {p} \subseteq FirstSends'
    <2> SUFFICES ASSUME NEW q \in FirstSends, q # p PROVE q \in FirstSends'
      OBVIOUS
    <2>1. q \in Pairs /\ ~CellTaken(q)'
      BY <1>7 DEF FirstSends
    <2>2. PICK u \in Runs : MaySend(u, q)
      BY DEF FirstSends
    <2>3. <<u, q>> \in SendsLeft'
      BY <1>5, <2>1, <2>2 DEF SendsLeft
    <2>4. MaySend(u, q)'
      BY <2>3 DEF SendsLeft
    <2> QED
      BY <2>1, <2>4 DEF FirstSends
  <1>9. /\ IsFiniteSet(SendsLeft) /\ IsFiniteSet(FirstSends') /\ IsFiniteSet(FirstSends)
    <2>1. IsFiniteSet(Runs \X Pairs) /\ IsFiniteSet(Pairs)
      BY RatesAssumption, DaemonAssumption, FS_Product
    <2>2. SendsLeft \subseteq Runs \X Pairs /\ FirstSends' \subseteq Pairs /\ FirstSends \subseteq Pairs
      BY DEF SendsLeft, FirstSends
    <2> QED
      BY <2>1, <2>2, FS_Subset
  <1>10. /\ Cardinality(SendsLeft) \in Nat /\ Cardinality(FirstSends) \in Nat
         /\ Cardinality(FirstSends') \in Nat /\ overlaps * Cardinality(Pairs) \in Nat
         /\ clashes \in Nat
    BY <1>9, RatesAssumption, FS_CardinalityType DEF RunsInv
  <1>11. Cardinality(SendsLeft') = Cardinality(SendsLeft) - 1
    BY <1>5, <1>9, FS_RemoveElement
  <1>12. CASE InCellOf(job[t].request) = {}
    <2>1. clashes' = clashes
      BY <1>1, <1>12 DEF Sent
    <2>2. Cardinality(FirstSends) <= Cardinality(FirstSends') + 1
      <3>1. IsFiniteSet(FirstSends \ {p})
            /\ Cardinality(FirstSends \ {p}) <= Cardinality(FirstSends')
        BY <1>8, <1>9, FS_Subset
      <3>2. Cardinality(FirstSends \ {p}) =
              IF p \in FirstSends THEN Cardinality(FirstSends) - 1 ELSE Cardinality(FirstSends)
        BY <1>9, FS_RemoveElement
      <3>3. Cardinality(FirstSends \ {p}) \in Nat
        BY <3>1, FS_CardinalityType
      <3> QED
        BY <1>10, <3>1, <3>2, <3>3
    <2> QED
      BY <1>1, <1>10, <1>11, <2>1, <2>2 DEF ClashesBounded
  <1>13. CASE InCellOf(job[t].request) # {}
    <2>1. clashes' = clashes + 1
      BY <1>1, <1>13 DEF Sent
    <2>2. CellTaken(p)
      BY <1>1, <1>p, <1>13 DEF CellTaken, Ordering
    <2>3. FirstSends \subseteq FirstSends'
      BY <1>8, <2>2 DEF FirstSends
    <2>4. Cardinality(FirstSends) <= Cardinality(FirstSends')
      BY <1>9, <2>3, FS_Subset
    <2> QED
      BY <1>1, <1>10, <1>11, <2>1, <2>4 DEF ClashesBounded
  <1> QED
    BY <1>12, <1>13

LEMMA StartRunKeepsClashes ==
    ASSUME RunsInv, overlaps \in Nat, ClashesBounded, NEW t \in Runs, StartRun(t)
    PROVE  ClashesBounded'
  <1>1. /\ UNCHANGED <<order, clashes, job>>
        /\ pc[t] = "idle" /\ pc'[t] = "get" /\ \A u \in Runs \ {t} : pc'[u] = pc[u]
        /\ job[t].todo = {}
    BY StartRunState
  <1>2. ASSUME NEW u \in Runs, NEW p \in Pairs
        PROVE  /\ MaySend(u, p)' <=> MaySend(u, p) \/ u = t
               /\ MaySend(u, p) => u # t
    BY <1>1 DEF MaySend, Asked, Ordering
  <1>3. /\ SendsLeft' = SendsLeft \cup ({t} \X Pairs) /\ SendsLeft \subseteq Runs \X Pairs
        /\ \A x \in SendsLeft : x[1] # t
    BY <1>2 DEF SendsLeft
  <1>4. /\ Cardinality(SendsLeft) \in Nat /\ Cardinality(Pairs) \in Nat
        /\ Cardinality(SendsLeft') = Cardinality(SendsLeft) + Cardinality(Pairs)
    BY <1>3, StartRunSets
  <1>5. \A p \in Pairs : CellTaken(p)' <=> CellTaken(p)
    BY <1>1 DEF CellTaken, Ordering, InCellOf
  <1>6. FirstSends \subseteq FirstSends' /\ FirstSends' \subseteq Pairs
    BY <1>2, <1>5 DEF FirstSends
  <1>7. /\ Cardinality(FirstSends) \in Nat /\ Cardinality(FirstSends') \in Nat
        /\ Cardinality(FirstSends) <= Cardinality(FirstSends')
    BY <1>6, RatesAssumption, FS_Subset, FS_CardinalityType
  <1>8. overlaps * Cardinality(Pairs) \in Nat /\ clashes \in Nat
    BY <1>4 DEF RunsInv
  <1>9. CASE overlaps' = overlaps /\ \A u \in Runs : pc[u] = "idle" /\ job[u].todo = {}
    <2>1. SendsLeft = {} /\ FirstSends = {}
      BY <1>9 DEF SendsLeft, FirstSends, MaySend, Asked, Ordering
    <2>2. FirstSends' = Pairs
      <3>1. \A i \in Ids : order[i].status # "sent"
        BY <1>9 DEF RunsInv, OrdersSound
      <3>2. \A p \in Pairs : ~CellTaken(p)
        BY <1>9, <3>1 DEF CellTaken, Ordering
      <3> QED
        BY <1>2, <1>5, <3>2 DEF FirstSends
    <2>3. Cardinality(SendsLeft) = 0 /\ Cardinality(FirstSends) = 0
      BY <2>1, FS_EmptySet
    <2> QED
      BY <1>1, <1>4, <1>8, <1>9, <2>2, <2>3 DEF ClashesBounded
  <1>10. CASE /\ overlaps' = overlaps + 1
              /\ overlaps' * Cardinality(Pairs)
                   = overlaps * Cardinality(Pairs) + Cardinality(Pairs)
    BY <1>1, <1>4, <1>7, <1>8, <1>10 DEF ClashesBounded
  <1> QED
    BY <1>9, <1>10, StartRunState

\* Runs may end, orders may fade, and that is all.
LEMMA FadingKeepsClashes ==
    ASSUME RunsInv, overlaps \in Nat, ClashesBounded, Fading, UNCHANGED <<clashes, overlaps>>,
           \A u \in Runs : \/ pc'[u] = "idle" /\ job'[u] = NoJob
                           \/ pc'[u] = pc[u] /\ job'[u] = job[u]
    PROVE  ClashesBounded'
  <1>1. \A u \in Runs, p \in Pairs : MaySend(u, p)' => MaySend(u, p)
    BY NoJobShape DEF MaySend, Asked, Ordering
  <1>2. SendsLeft' \subseteq SendsLeft
    BY <1>1 DEF SendsLeft
  <1>3. ASSUME NEW p \in Pairs, CellTaken(p)'
        PROVE  CellTaken(p)
    <2>1. \A u \in Runs : \A r \in job'[u].todo : job'[u] = job[u]
      BY NoJobShape
    <2>2. \A u \in Runs : pc'[u] \in Ordering => pc'[u] = pc[u] /\ job'[u] = job[u]
      BY DEF Ordering
    <2>3. CASE \E i \in Ids : order'[i].status = "sent" /\ order'[i].pair = p
      BY <2>3 DEF Fading, CellTaken
    <2>4. ASSUME NEW u \in Runs, NEW r \in job'[u].todo, r.pair = p, InCellOf(r)' # {}
          PROVE  CellTaken(p)
      <3>1. InCellOf(r) # {} /\ r \in job[u].todo
        BY <2>1, <2>4, FadingKeepsCells
      <3> QED
        BY <2>4, <3>1 DEF CellTaken
    <2>5. ASSUME NEW u \in Runs, pc'[u] \in Ordering, job'[u].request.pair = p,
                 NEW r, r = job'[u].request, InCellOf(r)' # {}
          PROVE  CellTaken(p)
      <3>1. InCellOf(r) # {} /\ pc[u] \in Ordering /\ job'[u] = job[u]
        BY <2>2, <2>5, FadingKeepsCells
      <3> QED
        BY <2>5, <3>1 DEF CellTaken
    <2>6. \/ \E i \in Ids : order'[i].status = "sent" /\ order'[i].pair = p
          \/ \E u \in Runs : \E r \in job'[u].todo : r.pair = p /\ InCellOf(r)' # {}
          \/ \E u \in Runs : pc'[u] \in Ordering /\ job'[u].request.pair = p
                             /\ \E r : r = job'[u].request /\ InCellOf(r)' # {}
      BY <1>3 DEF CellTaken, InCellOf, Ordering
    <2> QED
      BY <2>3, <2>4, <2>5, <2>6
  <1> QED
    BY <1>2, <1>3, QuietKeepsClashes DEF RunsInv

\* The invariant behind CellsApart: orders placed in the cell of another, and those that
\* may yet be, are at most one for each pair and overlap.
THEOREM ClashesInvariant == Spec => []ClashesBounded
  <1>1. Init => ClashesBounded
    <2> SUFFICES ASSUME Init PROVE ClashesBounded
      OBVIOUS
    <2>1. \A u \in Runs : pc[u] = "idle" /\ job[u].todo = {}
      BY NoJobShape DEF Init
    <2>2. SendsLeft = {} /\ FirstSends = {}
      BY <2>1 DEF SendsLeft, FirstSends, MaySend, Asked, Ordering
    <2>3. clashes = 0 /\ overlaps = 0 /\ Cardinality(Pairs) \in Nat
      BY RatesAssumption, FS_CardinalityType DEF Init, CellsInit
    <2> QED
      BY <2>2, <2>3, FS_EmptySet DEF ClashesBounded
  <1>2. /\ RatesInv /\ RunsInv /\ RunsInv' /\ FeesInv /\ ClashesBounded /\ [Next]_vars
        => ClashesBounded'
    <2> SUFFICES ASSUME RatesInv, RunsInv, RunsInv', FeesInv, ClashesBounded, [Next]_vars
                 PROVE  ClashesBounded'
      OBVIOUS
    <2>1. overlaps \in Nat
      BY DaemonAssumption DEF FeesInv
    <2>2. ASSUME NEW t \in Runs, RunStep(t) PROVE ClashesBounded'
      BY <2>1, <2>2, RunStepKeepsClashes, CreateOrderKeepsClashes
    <2>3. ASSUME NEW t \in Runs, StartRun(t) PROVE ClashesBounded'
      BY <2>1, <2>3, StartRunKeepsClashes
    <2>4. CASE Crash \/ \E t \in Runs : Throws(t)
      <3>1. \A u \in Runs : \/ pc'[u] = "idle" /\ job'[u] = NoJob
                            \/ pc'[u] = pc[u] /\ job'[u] = job[u]
        BY <2>4 DEF Crash, Throws, Return, Goto, RunsInv
      <3>2. UNCHANGED <<clashes, overlaps>> /\ \E S : Lost(S)
        BY <2>4 DEF Crash, Throws, Lost
      <3> QED
        BY <2>1, <3>1, <3>2, EndFades, FadingKeepsClashes
    <2>5. ASSUME NEW i \in Ids, Fills(i) \/ Closes(i) PROVE ClashesBounded'
      <3>1. UNCHANGED <<pc, job, clashes, overlaps>>
        BY <2>5, FillsState DEF runVars
      <3> QED
        BY <2>1, <2>5, <3>1, OrderEventFades, FadingKeepsClashes
    <2>6. CASE \/ LoopStep /\ ~\E t \in Runs : StartRun(t)
               \/ \E p \in Pairs : ActualizeFails(p) \/ GetActualRatesFails(p)
               \/ RatesThrow \/ OtherRejected
               \/ UNCHANGED vars
      <3>1. UNCHANGED <<order, clashes, pc, job, overlaps>>
        BY <2>6, LoopLeavesRuns DEF cellVars, runVars
      <3> QED
        BY <2>1, <3>1, SameOrdersFade, FadingKeepsClashes
    <2> QED
      BY <2>2, <2>3, <2>4, <2>5, <2>6 DEF Next, Fault
  <1> QED
    BY <1>1, <1>2, RatesInvariant, RunsInvariant, FeesInvariant, PTL DEF Spec

\* An order is placed in the cell of another only if runs overlapped, and then at most
\* once for each pair and overlap, for any cell sizes, rates and number of runs.
THEOREM CellsKeptApart == Spec => []CellsApart
  <1>1. RunsInv /\ FeesInv /\ ClashesBounded => CellsApart
    <2> SUFFICES ASSUME RunsInv, FeesInv, ClashesBounded PROVE CellsApart
      OBVIOUS
    <2>1. \A p \in FirstSends : \E x \in SendsLeft : x[2] = p
      <3> SUFFICES ASSUME NEW p \in FirstSends PROVE \E x \in SendsLeft : x[2] = p
        OBVIOUS
      <3>1. PICK u \in Runs : MaySend(u, p)
        BY DEF FirstSends
      <3>2. <<u, p>> \in SendsLeft
        BY <3>1 DEF SendsLeft, FirstSends
      <3> QED
        BY <3>2
    <2>2. SendsLeft \subseteq Runs \X Pairs /\ FirstSends \subseteq Pairs
      BY DEF SendsLeft, FirstSends
    <2>3. /\ Cardinality(SendsLeft) \in Nat /\ Cardinality(FirstSends) \in Nat
          /\ Cardinality({}) + Cardinality(FirstSends) <= Cardinality(SendsLeft) + Cardinality({})
      BY <2>1, <2>2, Counting
    <2>4. overlaps * Cardinality(Pairs) \in Nat /\ clashes \in Nat /\ Cardinality({}) = 0
      BY RatesAssumption, DaemonAssumption, FS_CardinalityType, FS_EmptySet DEF FeesInv, RunsInv
    <2> QED
      BY <2>3, <2>4 DEF ClashesBounded, CellsApart
  <1> QED
    BY <1>1, RunsInvariant, FeesInvariant, ClashesInvariant, PTL

-----------------------------------------------------------------------------
(* Limits of the exchange.                                                 *)

\* The asks, and what purchases may be asked to cost: orderAmount, or the least cost of a
\* pair as the quote of some start of the program gave it.
Asks == {q.ask : q \in Quotes}

CostAt(q) == LET least == MinAmounts(q).minAmount2
             IN  IF least > OrderAmount THEN least ELSE OrderAmount

Costs == {CostAt(q) : q \in Quotes}

Leasts == {MinAmounts(q).minAmount1 : q \in Quotes}

\* The exchange's least amount is so many lots, and half a unit and a lot but one unit, at
\* any rate, do not lead from a cost below its least cost.
Margin ==
    /\ Limits.minAmount % Lot = 0
    /\ \A c \in Costs, rate \in Asks : 2 * c >= 2 * Limits.minCost + (2 * Lot - 1) * rate

\* a units at the rate pay the cost c, but for the half unit that divide may round off.
Covers(a, rate, c) == 2 * (a * rate) + rate > 2 * c

LEMMA Products ==
    ASSUME NEW a \in Nat, NEW b \in Nat, NEW c \in Nat
    PROVE  /\ a * b \in Nat /\ a * b = b * a /\ (a + 1) * c = a * c + c
           /\ a <= b => a * c <= b * c
  OBVIOUS

LEMMA QuotientBound ==
    ASSUME NEW a \in Nat, NEW b \in Nat \ {0}
    PROVE  2 * (Quotient(a, b) * b) + b > 2 * a
  <1> DEFINE n == 2 * a + b
             m == 2 * b
  <1>1. n \in Nat /\ m \in Nat \ {0} /\ Quotient(a, b) = n \div m
    BY DEF Quotient
  <1> HIDE DEF n, m
  <1>2. m * (n \div m) + m > n /\ n \div m \in Nat
    BY <1>1
  <1> DEFINE x == n \div m
  <1> HIDE DEF x
  <1>3. x \in Nat
    BY <1>2 DEF x
  <1>4. m * x = 2 * (x * b)
    BY <1>3 DEF m
  <1> QED
    <2> DEFINE y == m * x
               z == x * b
    <2>1. y + m > n /\ y = 2 * z /\ Quotient(a, b) = x /\ z \in Nat
      BY <1>1, <1>2, <1>3, <1>4, Products DEF x
    <2> HIDE DEF y, z
    <2>2. 2 * z + b > 2 * a
      BY <2>1 DEF n, m
    <2> QED
      BY <2>1, <2>2 DEF z

LEMMA QuotientUpper ==
    ASSUME NEW a \in Nat, NEW b \in Nat \ {0}
    PROVE  2 * (Quotient(a, b) * b) <= 2 * a + b
  <1> DEFINE n == 2 * a + b
             m == 2 * b
             x == n \div m
  <1>1. n \in Nat /\ m \in Nat \ {0} /\ Quotient(a, b) = x
    BY DEF Quotient
  <1> HIDE DEF n, m
  <1>2. m * (n \div m) <= n /\ n \div m \in Nat
    BY <1>1
  <1> HIDE DEF x
  <1>3. x \in Nat /\ m * x <= n
    BY <1>2 DEF x
  <1>4. m * x = 2 * (x * b)
    BY <1>3 DEF m
  <1> DEFINE y == m * x
             z == x * b
  <1>5. y <= n /\ y = 2 * z /\ z \in Nat
    BY <1>3, <1>4, Products
  <1> HIDE DEF y, z
  <1>6. 2 * z <= 2 * a + b
    BY <1>5 DEF n
  <1> QED
    BY <1>1, <1>6 DEF z

\* The arithmetic of MinAmounts: a fifth more is not less, and raising the least amount to
\* the least cost does not lower it.
LEMMA FifthMore ==
    ASSUME NEW a \in Nat
    PROVE  Quotient(a * 12, 10) \in Nat /\ Quotient(a * 12, 10) >= a
  <1> DEFINE x == Quotient(a * 12, 10)
  <1>1. a * 12 \in Nat /\ 10 \in Nat \ {0}
    OBVIOUS
  <1>2. x \in Nat /\ 2 * (x * 10) + 10 > 2 * (a * 12)
    BY <1>1, QuotientType, QuotientBound
  <1> HIDE DEF x
  <1>3. x >= a
    BY <1>2
  <1> QED
    BY <1>2, <1>3 DEF x

LEMMA RaisedAmount ==
    ASSUME NEW a \in Nat, NEW c \in Nat, NEW ask \in Nat \ {0}, ask * a < c
    PROVE  Quotient(c * 12, ask * 10) >= a
  <1> DEFINE x == Quotient(c * 12, ask * 10)
             b == ask * 10
  <1>1. c * 12 \in Nat /\ b \in Nat \ {0}
    OBVIOUS
  <1>2. x \in Nat /\ 2 * (x * b) + b > 2 * (c * 12)
    BY <1>1, QuotientType, QuotientBound
  <1> HIDE DEF x
  <1>3. x * b = 10 * (ask * x) /\ ask * x \in Nat /\ ask * a \in Nat
    BY <1>2 DEF b
  <1>4. CASE x < a
    <2>1. x + 1 <= a
      BY <1>2, <1>4
    <2>2. (x + 1) * ask <= a * ask /\ (x + 1) * ask = x * ask + ask
      BY <1>2, <2>1, Products
    <2>3. ask * x + ask <= ask * a
      BY <1>2, <2>2, Products
    <2> QED
      BY <1>2, <1>3, <2>3 DEF b
  <1>5. CASE x >= a
    BY <1>5 DEF x
  <1> QED
    BY <1>2, <1>4, <1>5

LEMMA MinAmountsMeet ==
    ASSUME NEW q \in Quotes
    PROVE  /\ MinAmounts(q).minAmount1 >= Limits.minAmount
           /\ MinAmounts(q).minAmount2 >= Limits.minCost
           /\ MinAmounts(q).minAmount2 > 0
  <1> DEFINE cost   == IF Limits.minCost = 0 THEN Limits.minAmount * q.bid ELSE Limits.minCost
             costs  == Quotient(cost, q.ask)
             amount0 == IF Limits.minAmount = 0 THEN costs ELSE Limits.minAmount
             near   == costs <= amount0
             amount1 == IF near THEN Quotient(amount0 * 12, 10) ELSE amount0
             amount2 == IF near THEN Quotient(cost * 12, 10) ELSE cost
             raised == Quotient(amount2 * 12, q.ask * 10)
  <1>1. /\ q.bid \in Nat \ {0} /\ q.ask \in Nat \ {0}
        /\ Limits.minAmount \in Nat /\ Limits.minCost \in Nat
        /\ Limits.minAmount + Limits.minCost > 0
    BY RatesAssumption
  <1>2. cost \in Nat /\ cost > 0 /\ cost >= Limits.minCost
    BY <1>1
  <1>3. costs \in Nat
    BY <1>1, <1>2, QuotientType
  <1>4. amount0 \in Nat /\ amount0 >= Limits.minAmount
    BY <1>1, <1>3
  <1>5. MinAmounts(q) = [minAmount1 |-> IF q.ask * amount1 < amount2 THEN raised ELSE amount1,
                         minAmount2 |-> amount2]
    BY DEF MinAmounts
  <1> HIDE DEF cost, costs, amount0, near
  <1>6. amount1 \in Nat /\ amount1 >= amount0 /\ amount2 \in Nat /\ amount2 >= cost
    BY <1>2, <1>4, FifthMore
  <1> HIDE DEF amount1, amount2
  <1>7. q.ask * amount1 < amount2 => raised >= amount1
    BY <1>1, <1>6, RaisedAmount
  <1>8. raised \in Nat
    <2>1. amount2 * 12 \in Nat /\ q.ask * 10 \in Nat \ {0}
      BY <1>1, <1>6
    <2> QED
      BY <2>1, QuotientType
  <1> HIDE DEF raised
  <1>9. /\ MinAmounts(q).minAmount1 = IF q.ask * amount1 < amount2 THEN raised ELSE amount1
        /\ MinAmounts(q).minAmount2 = amount2
    BY <1>5
  <1> HIDE DEF amount1, amount2
  <1> QED
    BY <1>1, <1>2, <1>4, <1>6, <1>7, <1>8, <1>9

-----------------------------------------------------------------------------
\* The amount prepareAmounts makes of a cost and a least amount, at an ask.
Prepared(a, rate) ==
    /\ rate \in Asks
    /\ \E c \in Costs, least \in Leasts :
          a = IF Quotient(c, rate) < least THEN least ELSE Quotient(c, rate)

\* What amountToPrecision leaves of such an amount.
Sendable(a, rate) == \E b \in Nat : Prepared(b, rate) /\ a = Precise(b)

\* What is kept with a pair once actualize has found its least amounts.
Priced ==
    \A p \in Pairs : pair[p].minAmount2 > 0 =>
        /\ pair[p].sellRate \in Asks /\ Cost(p) \in Costs
        /\ pair[p].minAmount1 \in Leasts

\* A request is of such a pair.
Asking(r) == pair[r.pair].minAmount2 > 0 /\ r.rate \in Asks /\ r.amount2 \in Costs

\* What run t asks for, and is about to order.
Proper(l, j) ==
    /\ \A r \in j.todo : Asking(r)
    /\ l \in Ordering => Prepared(j.amount1, j.request.rate)

LimitsInv ==
    /\ Priced
    /\ \A t \in Runs : Proper(pc[t], job[t])
    /\ \A i \in Ids : order[i].status \in {"sent", "open"} =>
          Sendable(order[i].amount1, order[i].rate)

LEMMA CostsType ==
    /\ \A rate \in Asks : rate \in Nat \ {0}
    /\ \A c \in Costs : c \in Nat \ {0}
  <1>1. \A q \in Quotes : MinAmounts(q).minAmount2 \in Nat
    BY MinAmountsType
  <1>2. \A q \in Quotes : CostAt(q) \in Nat \ {0}
    BY <1>1, CellsAssumption DEF CostAt
  <1> QED
    BY <1>2, QuoteType DEF Costs, Asks

\* prepareAmounts heeds the least amount, and buys for the cost but for the rounding.
LEMMA PreparedMeets ==
    ASSUME NEW a, NEW rate, Prepared(a, rate)
    PROVE  a \in Nat /\ a >= Limits.minAmount /\ \E c \in Costs : Covers(a, rate, c)
  <1>1. PICK c \in Costs, least \in Leasts :
           a = IF Quotient(c, rate) < least THEN least ELSE Quotient(c, rate)
    BY DEF Prepared
  <1> DEFINE x == Quotient(c, rate)
  <1>2. /\ c \in Nat /\ rate \in Nat \ {0} /\ Limits.minAmount \in Nat
        /\ least \in Nat /\ least >= Limits.minAmount
    BY CostsType, RatesAssumption, MinAmountsType, MinAmountsMeet DEF Leasts, Prepared
  <1>3. x \in Nat /\ 2 * (x * rate) + rate > 2 * c
    BY <1>2, QuotientType, QuotientBound
  <1>4. a = IF x < least THEN least ELSE x
    BY <1>1
  <1> HIDE DEF x
  <1>5. a \in Nat /\ a >= Limits.minAmount /\ x <= a
    BY <1>2, <1>3, <1>4
  <1>6. x * rate <= a * rate /\ x * rate \in Nat /\ a * rate \in Nat
    BY <1>2, <1>3, <1>5, Products
  <1>7. Covers(a, rate, c)
    BY <1>2, <1>3, <1>6 DEF Covers
  <1> QED
    BY <1>5, <1>7

\* An amount that is not less than so many lots is not cut to less.
LEMMA PreciseMeets ==
    ASSUME NEW a \in Nat, NEW least \in Nat, least % Lot = 0, least <= a
    PROVE  least <= Precise(a)
  <1> DEFINE b == Precise(a)
             n == b \div Lot
             k == least \div Lot
  <1>1. Lot \in Nat \ {0} /\ b \in Nat /\ b % Lot = 0 /\ a < b + Lot
    BY CellsAssumption, PreciseType
  <1> HIDE DEF b
  <1>2. n \in Nat /\ k \in Nat /\ b = Lot * n /\ least = Lot * k
    BY <1>1
  <1> HIDE DEF n, k
  <1>3. CASE b < least
    <2>1. n < k
      <3> SUFFICES ASSUME k <= n PROVE FALSE
        BY <1>2
      <3>1. k * Lot <= n * Lot /\ k * Lot = Lot * k /\ n * Lot = Lot * n
        BY <1>1, <1>2, Products
      <3>2. least <= b
        BY <1>2, <3>1
      <3> QED
        BY <1>1, <1>3, <3>2
    <2>2. (n + 1) * Lot <= k * Lot /\ (n + 1) * Lot = n * Lot + Lot
          /\ k * Lot = Lot * k /\ n * Lot = Lot * n
      BY <1>1, <1>2, <2>1, Products
    <2>3. b + Lot <= least
      BY <1>2, <2>2
    <2> QED
      BY <1>1, <2>3
  <1> QED
    BY <1>1, <1>3 DEF b

\* The pairs: actualize and setRates are all that writes them.
LEMMA PairSteps ==
    ASSUME [Next]_vars
    PROVE  \/ UNCHANGED pair
           \/ \E p \in Pairs : ActualizePair(p) \/ SetRates(p)
  <1>1. CASE \/ \E t \in Runs : RunStep(t) \/ Throws(t)
             \/ \E i \in Ids : Fills(i) \/ Closes(i)
             \/ UNCHANGED vars
    BY <1>1, RatesLeft DEF rateVars
  <1>2. CASE Fault /\ ~\E t \in Runs : Throws(t)
    BY <1>2 DEF Fault, ActualizeFails, GetActualRatesFails, RatesThrow, RatesLost, OtherRejected,
       Crash, RatesForgotten, rateVars
  <1>3. CASE LoopStep
    BY <1>3 DEF LoopStep, GetActualRates, CheckRate, NextIteration, CheckBegins, NoRunToStart,
       RunSettled, StartRun, RatesForwarded, rateVars
  <1> QED
    BY <1>1, <1>2, <1>3 DEF Next, Fault

LEMMA PricedKept ==
    ASSUME RatesInv, Priced, [Next]_vars
    PROVE  Priced' /\ \A p \in Pairs : pair[p].minAmount2 > 0 => pair'[p].minAmount2 > 0
  <1>1. pair \in [Pairs -> PairRow]
        /\ changed \in [Pairs -> Quotes \cup {NoQuote}]
    BY DEF RatesInv, RatesTypeOK
  <1>2. CASE UNCHANGED pair
    BY <1>2 DEF Priced, Cost, CostOf
  <1>3. ASSUME NEW p \in Pairs, ActualizePair(p)
        PROVE  Priced' /\ \A k \in Pairs : pair[k].minAmount2 > 0 => pair'[k].minAmount2 > 0
    <2>1. PICK q \in Quotes : Actualize(p, q)
      BY <1>3 DEF ActualizePair
    <2>2. /\ pair'[p].sellRate = q.ask /\ pair'[p].minAmount1 = MinAmounts(q).minAmount1
          /\ pair'[p].minAmount2 = MinAmounts(q).minAmount2
          /\ \A k \in Pairs \ {p} : pair'[k] = pair[k]
      BY <1>1, <2>1 DEF Actualize
    <2>3. pair'[p].minAmount2 > 0 /\ pair'[p].minAmount1 \in Leasts
      BY <2>2, MinAmountsMeet DEF Leasts
    <2>4. pair'[p].sellRate \in Asks /\ Cost(p)' \in Costs
      BY <2>2 DEF Asks, Costs, CostAt, Cost, CostOf
    <2>5. ASSUME NEW k \in Pairs \ {p}, pair'[k].minAmount2 > 0
          PROVE  /\ pair'[k].sellRate \in Asks /\ Cost(k)' \in Costs
                 /\ pair'[k].minAmount1 \in Leasts
      BY <2>2, <2>5 DEF Priced, Cost, CostOf
    <2>6. Priced'
      <3> SUFFICES ASSUME NEW k \in Pairs, pair'[k].minAmount2 > 0
                   PROVE  /\ pair'[k].sellRate \in Asks /\ Cost(k)' \in Costs
                          /\ pair'[k].minAmount1 \in Leasts
        BY DEF Priced, Asks, Costs, Leasts
      <3> QED
        BY <2>3, <2>4, <2>5
    <2> QED
      BY <2>2, <2>3, <2>6
  <1>4. ASSUME NEW p \in Pairs, SetRates(p)
        PROVE  Priced' /\ \A k \in Pairs : pair[k].minAmount2 > 0 => pair'[k].minAmount2 > 0
    <2>1. changed[p] \in Quotes /\ SetRate(p)
      BY <1>1, <1>4 DEF SetRates, Changed
    <2>2. /\ pair'[p].sellRate = changed[p].ask /\ pair'[p].minAmount1 = pair[p].minAmount1
          /\ \A k \in Pairs : pair'[k].minAmount2 = pair[k].minAmount2
          /\ \A k \in Pairs \ {p} : pair'[k] = pair[k]
      BY <1>1, <2>1 DEF SetRate
    <2>3. Priced'
      <3> SUFFICES ASSUME NEW k \in Pairs, pair'[k].minAmount2 > 0
                   PROVE  /\ pair'[k].sellRate \in Asks /\ Cost(k)' \in Costs
                          /\ pair'[k].minAmount1 \in Leasts
        BY DEF Priced, Asks, Costs, Leasts
      <3>1. Cost(k)' = Cost(k)
        BY <2>2 DEF Cost, CostOf
      <3>2. CASE k = p
        BY <2>1, <2>2, <3>1, <3>2 DEF Priced, Asks
      <3>3. CASE k # p
        BY <2>2, <3>1, <3>3 DEF Priced
      <3> QED
        BY <3>2, <3>3
    <2> QED
      BY <2>2, <2>3
  <1> QED
    BY <1>2, <1>3, <1>4, PairSteps

\* A run asks, prepares the amounts, and pays fees before it orders them.
LEMMA ProperStep ==
    ASSUME RatesInv, RunsInv, LimitsInv, NEW t \in Runs, RunStep(t)
    PROVE  \E l, j : MovesTo(t, l, j) /\ Proper(l, j)
  <1>1. PICK l, j :
          /\ MovesTo(t, l, j)
          /\ \/ Finds(t, l, j) \/ Picks(t, l, j) \/ Pays(t, l, j) \/ Leaves(t, l, j)
             \/ MarketOrder(t) /\ l = "t_in" /\ Same(t, j)
             \/ TransferIn(t) /\ l = "t_out" /\ j = job[t]
             \/ CreateOrder(t) /\ l = "record" /\ j.todo = job[t].todo
    BY RunStepKinds
  <1>2. pc'[t] = l /\ job'[t] = j /\ Proper(pc[t], job[t]) /\ job[t] \in Job /\ Shape(pc[t], job[t])
    BY <1>1, OthersStay DEF LimitsInv, RunsInv, Shaped
  <1>3. ASSUME Finds(t, l, j) PROVE Proper(l, j)
    <2>1. ASSUME NEW p \in Suitable
          PROVE  Asking(RequestFor(p))
      BY DEF LimitsInv, Priced, Suitable, Asking, RequestFor
    <2> QED
      BY <1>3, <2>1 DEF Finds, Proper, Ordering
  <1>4. ASSUME Picks(t, l, j) PROVE Proper(l, j)
    <2>1. PICK r \in job[t].todo : Create(t, r)
      BY <1>2, <1>4 DEF Picks, RunStep, Get, RunEnds, MarketOrder, TransferIn, TransferOut,
         TransferFee, CreateOrder, Refused, Record, OrderOutcome, FindCells, RecalcPair,
         RecalcCellSize, RecalcThrows, SaveCells, RecalcEnds, Return, Goto
    <2> DEFINE a == PrepareAmounts(r, pair[r.pair].minAmount1).amount1
    <2>2. j.request = r /\ j.amount1 = a
      <3>1. job' = [job EXCEPT ![t].todo = @ \ {r}, ![t].request = r, ![t].amount1 = a,
                               ![t].fee = FeeToBuy(r.pair, a)]
        BY <2>1 DEF Create
      <3> HIDE DEF a
      <3> QED
        BY <1>2, <3>1 DEF RunsInv, Job
    <2>3. r \in Request /\ r.pair \in Pairs /\ Asking(r)
      BY <1>2 DEF Job, Request, Proper
    <2>4. pair[r.pair].minAmount1 \in Leasts /\ r.rate \in Asks /\ r.amount2 \in Costs
      BY <2>3 DEF Asking, LimitsInv, Priced
    <2>5. Prepared(a, r.rate)
      BY <2>4 DEF Prepared, PrepareAmounts
    <2> HIDE DEF a
    <2> QED
      BY <1>2, <1>4, <2>2, <2>5 DEF Picks, Proper
  <1>5. ASSUME Pays(t, l, j) PROVE Proper(l, j)
    <2>1. TransferOut(t) \/ TransferFee(t)
      BY <1>5 DEF Pays, RunStep, Get, RunEnds, MarketOrder, TransferIn, Create,
         CreateOrder, Refused, Record, OrderOutcome, FindCells, RecalcPair, RecalcCellSize,
         RecalcThrows, SaveCells, RecalcEnds
    <2>2. j.amount1 = job[t].amount1
      BY <1>2, <2>1 DEF TransferOut, TransferFee, RunsInv, Job
    <2> QED
      BY <1>2, <1>5, <2>2 DEF Pays, Proper, Ordering
  <1>6. ASSUME Leaves(t, l, j) PROVE Proper(l, j)
    BY <1>2, <1>6 DEF Leaves, Proper
  <1>7. ASSUME \/ MarketOrder(t) /\ Same(t, j)
               \/ TransferIn(t) /\ j = job[t]
        PROVE  Proper(l, j)
    <2>1. pc[t] \in Ordering /\ j.todo = job[t].todo /\ j.request = job[t].request
      BY <1>7 DEF MarketOrder, TransferIn, Ordering, Same
    <2>2. j.amount1 = job[t].amount1
      BY <1>2, <1>7 DEF MarketOrder, RunsInv, Job
    <2> QED
      BY <1>2, <2>1, <2>2 DEF Proper
  <1>8. ASSUME l = "record", j.todo = job[t].todo PROVE Proper(l, j)
    BY <1>2, <1>8 DEF Proper, Ordering
  <1> QED
    BY <1>1, <1>3, <1>4, <1>5, <1>6, <1>7, <1>8

\* Statuses of an order whose row is, or may be, active.
Held == {"sent", "open", "filled", "moved"}

\* What a step that neither creates nor closes order i leaves of it: its rate may fall
\* when it fills, and a row that is not written is not active.
Kept(i) ==
    /\ order'[i].status \in Held =>
          /\ order[i].status \in Held
          /\ order'[i].amount1 = order[i].amount1 /\ order'[i].rate <= order[i].rate
    /\ order'[i].status \in {"sent", "open"} =>
          order[i].status \in {"sent", "open"} /\ order'[i].rate = order[i].rate
    /\ order'[i].status = "closed" <=> order[i].status = "closed"

OrdersKept == amount' <= amount /\ \A i \in Ids : Kept(i)

LEMMA SameKept ==
    ASSUME RunsInv, NEW i \in Ids, order'[i] = order[i]
    PROVE  Kept(i)
  <1>1. order[i].rate \in Nat
    BY DEF RunsInv, Order
  <1> QED
    BY <1>1 DEF Kept

LEMMA ClosesState ==
    ASSUME RunsInv, NEW k \in Ids, Closes(k)
    PROVE  /\ order[k].status \in {"open", "filled", "moved"} /\ order'[k].status = "closed"
           /\ amount' = amount + order[k].amount1 * order[k].rate
           /\ \A i \in Ids \ {k} : order'[i] = order[i]
  <1>1. order' = [order EXCEPT ![k] = ClosedOrder] /\ ClosedOrder.status = "closed"
    BY DEF Closes, OrderCloses, ClosedOrder, NoOrder
  <1> HIDE DEF ClosedOrder
  <1> QED
    BY <1>1 DEF Closes, OrderCloses, Active, RunsInv

\* The orders: one is created, or closed, or none is.
LEMMA OrderSteps ==
    ASSUME RatesInv, RunsInv, [Next]_vars
    PROVE  \/ OrdersKept
           \/ \E t \in Runs : CreateOrder(t)
           \/ \E i \in Ids : Closes(i)
  <1>1. order \in [Ids -> Order] /\ amount \in Int
    BY DEF RunsInv
  <1>2. UNCHANGED order /\ amount' <= amount => OrdersKept
    BY SameKept DEF OrdersKept
  <1>3. ASSUME NEW t \in Runs, RunStep(t), ~CreateOrder(t)
        PROVE  OrdersKept
    <2>1. /\ job[t].fee \in Nat /\ job[t].cost \in Nat /\ job[t].request.rate \in Nat
      BY DEF RunsInv, Job, Request, NoRequest
    <2>2. job[t].fee * job[t].request.rate \in Nat
      BY <2>1
    <2>3. CASE ~Record(t)
      <3>1. UNCHANGED order /\ amount' <= amount
        <4>1. CASE \/ Get(t) \/ RunEnds(t) \/ MarketOrder(t) \/ TransferIn(t)
                   \/ TransferFee(t) \/ Refused(t)
          BY <1>1, <4>1 DEF Get, RunEnds, MarketOrder, TransferIn, TransferFee, Refused, cellVars
        <4>2. CASE TransferOut(t)
          <5> DEFINE x == job[t].fee * job[t].request.rate
          <5>1. UNCHANGED order /\ amount' = amount - x /\ x \in Nat
            BY <2>2, <4>2 DEF TransferOut, Outcome
          <5> HIDE DEF x
          <5> QED
            BY <1>1, <5>1
        <4>3. CASE OrderOutcome(t)
          <5>1. UNCHANGED order /\ amount' = amount - job[t].cost
            BY <4>3 DEF OrderOutcome, Outcome
          <5> QED
            BY <1>1, <2>1, <5>1
        <4>4. CASE RecalcStep(t) \/ \E r \in job[t].todo : Create(t, r)
          <5>1. UNCHANGED <<order, amount>>
            BY <4>4, RecalcSteps DEF Create, cellVars
          <5> QED
            BY <1>1, <5>1
        <4> QED
          BY <1>3, <2>3, <4>1, <4>2, <4>3, <4>4 DEF RunStep, RecalcStep
      <3> QED
        BY <1>2, <3>1
    <2>4. CASE Record(t)
      <3>1. /\ order' = [order EXCEPT ![job[t].id].status = "open"]
            /\ job[t].id \in Ids /\ order[job[t].id].status = "sent" /\ amount' = amount
        BY <2>4 DEF Record, Recorded, RunsInv, Shaped, Shape, OrdersSound
      <3>2. PICK n \in Ids : n = job[t].id
        BY <3>1
      <3>3. \A i \in Ids : i # n => order'[i] = order[i]
        BY <1>1, <3>1, <3>2
      <3>4. /\ order'[n].rate = order[n].rate /\ order'[n].amount1 = order[n].amount1
            /\ order'[n].status = "open" /\ order[n].status = "sent" /\ order[n].rate \in Nat
        BY <1>1, <3>1, <3>2 DEF Order
      <3>5. Kept(n)
        BY <3>4 DEF Kept, Held
      <3> QED
        BY <1>1, <3>1, <3>3, <3>5, SameKept DEF OrdersKept
    <2> QED
      BY <2>3, <2>4
  <1>4. ASSUME NEW i \in Ids, Fills(i)
        PROVE  OrdersKept
    <2>1. PICK q \in Quotes :
            /\ q.ask <= order[i].rate
            /\ order' = [order EXCEPT
                  ![i].status = IF q.ask = order[i].rate THEN "filled" ELSE "moved",
                  ![i].rate = q.ask]
      BY <1>4 DEF Fills, OrderFills
    <2>2. /\ order[i].status = "open" /\ amount' = amount
          /\ \A k \in Ids \ {i} : order'[k] = order[k]
          /\ order'[i].status \in {"filled", "moved"}
          /\ order'[i].rate = q.ask /\ order'[i].amount1 = order[i].amount1
      BY <1>1, <1>4, <2>1 DEF Fills, OrderFills, Order
    <2>3. Kept(i)
      BY <2>1, <2>2 DEF Kept, Held
    <2> QED
      BY <1>1, <2>2, <2>3, SameKept DEF OrdersKept
  <1>5. ASSUME NEW S \in SUBSET Runs, Lost(Unrecorded(S))
        PROVE  OrdersKept
    <2>1. \A i \in Unrecorded(S) : order[i].status = "sent"
      BY DEF Unrecorded, RunsInv, OrdersSound
    <2>2. [ClosedOrder EXCEPT !.status = "lost"].status = "lost"
      BY DEF ClosedOrder, NoOrder
    <2>3. PICK lost : /\ lost.status = "lost"
                      /\ \A i \in Ids : order'[i] = IF i \in Unrecorded(S) THEN lost ELSE order[i]
      BY <1>5, <2>2 DEF Lost
    <2>4. ASSUME NEW i \in Ids PROVE Kept(i)
      <3>1. CASE i \in Unrecorded(S)
        BY <2>1, <2>3, <3>1 DEF Kept, Held
      <3>2. CASE i \notin Unrecorded(S)
        BY <2>3, <3>2, SameKept
      <3> QED
        BY <3>1, <3>2
    <2> QED
      BY <1>1, <1>5, <2>4 DEF OrdersKept, Lost
  <1>6. CASE Crash
    BY <1>5, <1>6 DEF Crash
  <1>7. ASSUME NEW t \in Runs, Throws(t) PROVE OrdersKept
    BY <1>5, <1>7 DEF Throws
  <1>8. CASE \E t \in Runs : StartRun(t)
    BY <1>1, <1>2, <1>8 DEF StartRun, cellVars
  <1>9. CASE \/ LoopStep /\ ~\E t \in Runs : StartRun(t)
             \/ \E p \in Pairs : ActualizeFails(p) \/ GetActualRatesFails(p)
             \/ RatesThrow \/ OtherRejected
             \/ UNCHANGED vars
    BY <1>1, <1>2, <1>9, LoopLeavesRuns DEF cellVars
  <1> QED
    BY <1>3, <1>4, <1>6, <1>7, <1>8, <1>9 DEF Next, Fault

\* Proper, of the state that follows.
Stays(l, j) ==
    /\ \A r \in j.todo :
          pair'[r.pair].minAmount2 > 0 /\ r.rate \in Asks /\ r.amount2 \in Costs
    /\ l \in Ordering => Prepared(j.amount1, j.request.rate)

\* What is proper stays so: the pairs keep their least amounts.
LEMMA ProperStays ==
    ASSUME NEW l, NEW j \in Job, Proper(l, j),
           \A p \in Pairs : pair[p].minAmount2 > 0 => pair'[p].minAmount2 > 0
    PROVE  Stays(l, j)
  <1>1. \A r \in j.todo : r.pair \in Pairs
    BY DEF Job, Request
  <1>2. \A r \in j.todo : pair'[r.pair].minAmount2 > 0 /\ r.rate \in Asks /\ r.amount2 \in Costs
    BY <1>1 DEF Proper, Asking
  <1> QED
    BY <1>2 DEF Proper, Stays

LEMMA RunsStayProper ==
    ASSUME RatesInv, RunsInv, RunsInv', LimitsInv, [Next]_vars
    PROVE  \A t \in Runs : Stays(pc'[t], job'[t])
  <1>1. \A p \in Pairs : pair[p].minAmount2 > 0 => pair'[p].minAmount2 > 0
    BY PricedKept DEF LimitsInv
  <1>2. \A u \in Runs : job[u] \in Job /\ job'[u] \in Job /\ Proper(pc[u], job[u])
    BY DEF RunsInv, LimitsInv, Job
  <1>3. \A u \in Runs : pc'[u] = pc[u] /\ job'[u] = job[u] => Stays(pc'[u], job'[u])
    BY <1>1, <1>2, ProperStays
  <1>4. ASSUME NEW t \in Runs, RunStep(t)
        PROVE  \A u \in Runs : Stays(pc'[u], job'[u])
    <2>1. PICK l, j : MovesTo(t, l, j) /\ Proper(l, j)
      BY <1>4, ProperStep
    <2>2. /\ \A u \in Runs \ {t} : pc'[u] = pc[u] /\ job'[u] = job[u]
          /\ pc'[t] = l /\ job'[t] = j
      BY <2>1, OthersStay
    <2>3. Stays(pc'[t], job'[t])
      BY <1>1, <1>2, <2>1, <2>2, ProperStays
    <2> QED
      BY <1>3, <2>2, <2>3
  <1>5. ASSUME NEW t \in Runs, StartRun(t)
        PROVE  \A u \in Runs : Stays(pc'[u], job'[u])
    <2>1. /\ \A u \in Runs \ {t} : pc'[u] = pc[u] /\ job'[u] = job[u]
          /\ pc'[t] = "get" /\ job'[t].todo = {}
      BY <1>5 DEF StartRun, RunsInv, Shaped, Shape
    <2>2. Stays(pc'[t], job'[t])
      BY <2>1 DEF Stays, Ordering
    <2> QED
      BY <1>3, <2>1, <2>2
  <1>6. CASE Crash \/ \E t \in Runs : Throws(t)
    <2>1. \A u \in Runs : \/ pc'[u] = "idle" /\ job'[u] = NoJob
                          \/ pc'[u] = pc[u] /\ job'[u] = job[u]
      BY <1>6 DEF Crash, Throws, Return, Goto, RunsInv
    <2>2. Stays("idle", NoJob)
      BY NoJobShape DEF Stays, Ordering
    <2> QED
      BY <1>3, <2>1, <2>2
  <1>7. CASE \E i \in Ids : Fills(i) \/ Closes(i)
    BY <1>3, <1>7, FillsState DEF runVars
  <1>8. CASE \/ LoopStep /\ ~\E t \in Runs : StartRun(t)
             \/ \E p \in Pairs : ActualizeFails(p) \/ GetActualRatesFails(p)
             \/ RatesThrow \/ OtherRejected
             \/ UNCHANGED vars
    BY <1>3, <1>8, LoopLeavesRuns DEF runVars
  <1> QED
    BY <1>4, <1>5, <1>6, <1>7, <1>8 DEF Next, Fault

LEMMA OrdersStayGood ==
    ASSUME RatesInv, RunsInv, LimitsInv, [Next]_vars
    PROVE  \A i \in Ids : order'[i].status \in {"sent", "open"} =>
              Sendable(order'[i].amount1, order'[i].rate)
  <1>1. CASE OrdersKept
    BY <1>1 DEF OrdersKept, Kept, Held, LimitsInv
  <1>2. ASSUME NEW t \in Runs, CreateOrder(t)
        PROVE  \A i \in Ids : order'[i].status \in {"sent", "open"} =>
                  Sendable(order'[i].amount1, order'[i].rate)
    <2> DEFINE r == job[t].request
               a == Precise(job[t].amount1)
    <2>1. Sendable(a, r.rate)
      BY <1>2 DEF CreateOrder, LimitsInv, Proper, Ordering, Sendable, RunsInv, Job
    <2>2. Sent(r, a) /\ RoomToOrder
      BY <1>2 DEF CreateOrder
    <2> HIDE DEF r, a
    <2>3. PICK n \in Ids :
            /\ order' = [order EXCEPT ![n] =
                  [status |-> "sent", pair |-> r.pair, rate |-> r.rate, amount1 |-> a]]
            /\ \A i \in Ids \ {n} : order'[i] = order[i]
      BY <2>2, SentOrders
    <2>4. order'[n].rate = r.rate /\ order'[n].amount1 = a
      BY <2>3 DEF RunsInv
    <2> QED
      BY <2>1, <2>3, <2>4 DEF LimitsInv
  <1>3. ASSUME NEW k \in Ids, Closes(k)
        PROVE  \A i \in Ids : order'[i].status \in {"sent", "open"} =>
                  Sendable(order'[i].amount1, order'[i].rate)
    <2>1. order'[k].status = "closed" /\ \A i \in Ids \ {k} : order'[i] = order[i]
      BY <1>3, ClosesState
    <2> QED
      BY <2>1 DEF LimitsInv
  <1> QED
    BY <1>1, <1>2, <1>3, OrderSteps

\* The invariant of the amounts: what a run is about to order, and what it has ordered, is
\* what prepareAmounts makes of a cost and a least amount that some quote gave, cut to
\* whole lots once it is ordered.
THEOREM LimitsInvariant == Spec => []LimitsInv
  <1>1. Init => LimitsInv
    <2> SUFFICES ASSUME Init PROVE LimitsInv
      OBVIOUS
    <2>1. \A p \in Pairs : pair[p].minAmount2 = 0
      BY DEF Init, RatesInit, NewPair
    <2>2. \A i \in Ids : order[i].status = "none"
      BY DEF Init, CellsInit, NoOrder
    <2>3. \A t \in Runs : pc[t] = "idle" /\ job[t].todo = {}
      BY NoJobShape DEF Init
    <2>4. \A t \in Runs : Proper(pc[t], job[t])
      BY <2>3 DEF Proper, Ordering
    <2> QED
      BY <2>1, <2>2, <2>4 DEF LimitsInv, Priced
  <1>2. RatesInv /\ RunsInv /\ RunsInv' /\ LimitsInv /\ [Next]_vars => LimitsInv'
    <2> SUFFICES ASSUME RatesInv, RunsInv, RunsInv', LimitsInv, [Next]_vars
                 PROVE  LimitsInv'
      OBVIOUS
    <2>1. Priced'
      BY PricedKept DEF LimitsInv
    <2>2. ASSUME NEW t \in Runs PROVE Proper(pc[t], job[t])'
      <3>1. Stays(pc'[t], job'[t])
        BY RunsStayProper
      <3> QED
        BY <3>1 DEF Stays, Proper, Asking, Prepared, Asks, Costs, Leasts
    <2>3. \A i \in Ids : order'[i].status \in {"sent", "open"} =>
              Sendable(order[i].amount1, order[i].rate)'
      BY OrdersStayGood DEF Sendable, Prepared, Asks, Costs, Leasts
    <2> QED
      BY <2>1, <2>2, <2>3 DEF LimitsInv
  <1> QED
    BY <1>1, <1>2, RatesInvariant, RunsInvariant, PTL DEF Spec

\* Every order sent has the least amount and the least cost of the exchange, at whatever
\* rate it is placed (prepareAmounts of BuyOrderService, from what actualize of PairService
\* found when the program started, and amountToPrecision of ApiService), if what a purchase
\* is asked to cost exceeds the least cost by what divide may round off and the precision
\* cuts off: half a unit, and a lot but one unit, at the rate.
THEOREM OrdersMeetLimits == ASSUME Margin PROVE Spec => []OrdersAcceptable
  <1>1. RunsInv /\ LimitsInv => OrdersAcceptable
    <2> SUFFICES ASSUME RunsInv, LimitsInv, NEW i \in Ids, order[i].status \in {"sent", "open"}
                 PROVE  /\ order[i].amount1 >= Limits.minAmount
                        /\ order[i].amount1 * order[i].rate >= Limits.minCost
      BY DEF OrdersAcceptable
    <2> DEFINE a == order[i].amount1
               rate == order[i].rate
    <2>1. PICK b \in Nat : Prepared(b, rate) /\ a = Precise(b)
      BY DEF LimitsInv, Sendable
    <2> HIDE DEF a, rate
    <2>2. b >= Limits.minAmount /\ \E c \in Costs : Covers(b, rate, c)
      BY <2>1, PreparedMeets
    <2>3. PICK c \in Costs : Covers(b, rate, c)
      BY <2>2
    <2>4. /\ rate \in Asks /\ rate \in Nat /\ c \in Nat /\ Lot \in Nat \ {0}
          /\ Limits.minCost \in Nat /\ Limits.minAmount \in Nat
      BY <2>1, CostsType, RatesAssumption, CellsAssumption DEF Prepared
    <2>5. a \in Nat /\ b < a + Lot /\ a >= Limits.minAmount
      BY <2>1, <2>2, <2>4, PreciseType, PreciseMeets DEF Margin
    <2> DEFINE x == a * rate
               y == b * rate
               z == (Lot - 1) * rate
    <2>6. 2 * c >= 2 * Limits.minCost + (2 * Lot - 1) * rate
      BY <2>4 DEF Margin
    <2>7. x \in Nat /\ y \in Nat /\ z \in Nat /\ y <= x + z
      <3>1. Lot - 1 \in Nat /\ a + (Lot - 1) \in Nat /\ b <= a + (Lot - 1)
        BY <2>4, <2>5
      <3>2. b * rate <= (a + (Lot - 1)) * rate
        BY <2>4, <3>1, Products
      <3>3. (a + (Lot - 1)) * rate = a * rate + (Lot - 1) * rate
        BY <2>4, <2>5, <3>1
      <3>4. x \in Nat /\ y \in Nat /\ z \in Nat
        BY <2>4, <2>5, <3>1, Products
      <3> QED
        BY <3>2, <3>3, <3>4
    <2>8. (2 * Lot - 1) * rate = 2 * z + rate
      BY <2>4
    <2>9. 2 * y + rate > 2 * c
      BY <2>3 DEF Covers
    <2> HIDE DEF x, y, z
    <2>10. x >= Limits.minCost
      BY <2>4, <2>6, <2>7, <2>8, <2>9
    <2> QED
      BY <2>5, <2>10 DEF x, a, rate
  <1> QED
    BY <1>1, RunsInvariant, LimitsInvariant, PTL

-----------------------------------------------------------------------------
\* What cell sizes make of the balance.

\* The arithmetic of calculateCellSize: k cells make the way d to the nearest of them, if
\* they are not so many that rounding each adds up to a cell.
LEMMA EvenCells ==
    ASSUME NEW d \in Nat \ {0}, NEW k \in Nat \ {0}, k * k <= 2 * d
    PROVE  LET c == Quotient(d, k)
           IN  /\ c \in Nat \ {0}
               /\ k \in {d \div c, d \div c + 1}
               /\ Distance(k * c, d) <= k
  <1> DEFINE c == Quotient(d, k)
             x == k * c
             n == d \div c
  <1>1. c \in Nat
    BY QuotientType
  <1>2. 2 * (c * k) + k > 2 * d /\ 2 * (c * k) <= 2 * d + k
    <2>1. 2 * (c * k) + k > 2 * d
      BY QuotientBound
    <2> QED
      BY <2>1, QuotientUpper
  <1> HIDE DEF c
  <1>3. c * k = x /\ x \in Nat
    BY <1>1, Products
  <1>4. 2 * x + k > 2 * d /\ 2 * x <= 2 * d + k
    BY <1>2, <1>3
  <1>5. k <= 2 * c
    <2> SUFFICES ASSUME 2 * c + 1 <= k PROVE FALSE
      BY <1>1
    <2> DEFINE m == 2 * c
    <2>1. m \in Nat /\ m + 1 <= k
      BY <1>1
    <2>2. m * k = 2 * x
      BY <1>1, <1>3
    <2> HIDE DEF m
    <2>3. (m + 1) * k = m * k + k /\ (m + 1) * k <= k * k
      BY <2>1, Products
    <2>4. m * k + k <= 2 * d
      BY <2>1, <2>3
    <2> HIDE DEF x
    <2> QED
      BY <1>3, <1>4, <2>2, <2>4
  <1>6. c > 0
    BY <1>1, <1>5
  <1>7. n \in Nat /\ c * n <= d /\ d < c * n + c
    BY <1>1, <1>6
  <1> HIDE DEF n
  <1>8. d < x + c /\ x <= d + c
    <2> HIDE DEF x
    <2> QED
      BY <1>1, <1>3, <1>4, <1>5
  <1>9. k <= n + 1
    <2> SUFFICES ASSUME n + 2 <= k PROVE FALSE
      BY <1>7
    <2>1. (n + 2) * c <= k * c /\ (n + 2) * c = n * c + 2 * c /\ n * c = c * n
      BY <1>1, <1>7, Products
    <2> DEFINE y == c * n
    <2>2. y + 2 * c <= x /\ d < y + c /\ y \in Nat
      BY <1>1, <1>7, <2>1
    <2> HIDE DEF x, y
    <2> QED
      BY <1>1, <1>3, <1>8, <2>2
  <1>10. n <= k
    <2> SUFFICES ASSUME k + 1 <= n PROVE FALSE
      BY <1>7
    <2>1. (k + 1) * c <= n * c /\ (k + 1) * c = k * c + c /\ n * c = c * n
      BY <1>1, <1>7, Products
    <2> DEFINE y == c * n
    <2>2. x + c <= y /\ y <= d /\ y \in Nat
      BY <1>1, <1>7, <2>1
    <2> HIDE DEF x, y
    <2> QED
      BY <1>1, <1>3, <1>8, <2>2
  <1>11. k \in {n, n + 1}
    BY <1>7, <1>9, <1>10
  <1>12. Distance(x, d) <= k
    <2> HIDE DEF x
    <2> QED
      BY <1>3, <1>4 DEF Distance
  <1> QED
    BY <1>1, <1>6, <1>11, <1>12 DEF c, n, x

Closed == {i \in Ids : order[i].status = "closed"}

\* No order costs more than R, and the balance is more than it was at first by no more
\* than the orders that were closed.
AmountInv(R) ==
    /\ \A i \in Ids : order[i].status \in Held => order[i].amount1 * order[i].rate <= R
    /\ amount <= Total + Cardinality(Closed) * R

\* The costs of orders: R is a bound of what prepareAmounts makes of any cost at any ask.
Costly(R) == \A rate \in Asks, a \in Nat : Prepared(a, rate) => a * rate <= R

LEMMA ClosedType ==
    /\ IsFiniteSet(Closed) /\ Cardinality(Closed) \in Nat /\ Cardinality(Closed) <= MaxOrders
  <1>1. Closed \subseteq Ids
    BY DEF Closed
  <1> QED
    BY <1>1, IdsFinite, FS_Subset, FS_CardinalityType

LEMMA AmountKept ==
    ASSUME NEW R \in Nat, Costly(R), RatesInv, RunsInv, RunsInv', LimitsInv, AmountInv(R),
           [Next]_vars
    PROVE  AmountInv(R)'
  <1> DEFINE Cheap == \A i \in Ids : order'[i].status \in Held =>
                         order'[i].amount1 * order'[i].rate <= R
             Bound == amount' <= Total + Cardinality(Closed') * R
  <1>1. \A i \in Ids : /\ order[i].amount1 \in Nat /\ order[i].rate \in Nat
                       /\ order'[i].amount1 \in Nat /\ order'[i].rate \in Nat
    BY DEF RunsInv, Order
  <1>2. amount \in Int /\ amount' \in Int /\ Total \in Nat
    BY CellsAssumption DEF RunsInv
  <1>3. Closed' = {i \in Ids : order'[i].status = "closed"}
    BY DEF Closed, Ids
  <1>4. CASE OrdersKept
    <2>1. Closed' = Closed
      BY <1>3, <1>4 DEF Closed, OrdersKept, Kept
    <2>2. Bound
      <3> DEFINE most == Total + Cardinality(Closed) * R
      <3>1. most \in Nat /\ amount <= most /\ amount' <= amount
        BY <1>2, <1>4, ClosedType, Products DEF AmountInv, OrdersKept
      <3> HIDE DEF most
      <3>2. amount' <= most
        BY <1>2, <3>1
      <3> QED
        BY <2>1, <3>2 DEF most
    <2>3. Cheap
      <3> SUFFICES ASSUME NEW i \in Ids, order'[i].status \in Held
                   PROVE  order'[i].amount1 * order'[i].rate <= R
        OBVIOUS
      <3> DEFINE a == order[i].amount1
                 b == order[i].rate
                 c == order'[i].rate
      <3>1. a * b <= R /\ order'[i].amount1 = a /\ c <= b
        BY <1>4 DEF AmountInv, OrdersKept, Kept
      <3>2. a \in Nat /\ b \in Nat /\ c \in Nat
        BY <1>1
      <3> HIDE DEF a, b, c
      <3>3. c * a <= b * a /\ c * a = a * c /\ b * a = a * b /\ a * c \in Nat /\ a * b \in Nat
        BY <3>1, <3>2, Products
      <3>4. a * c <= R
        BY <3>1, <3>3
      <3> QED
        BY <3>1, <3>4 DEF c
    <2> QED
      BY <1>3, <2>2, <2>3 DEF AmountInv, Held, Ids
  <1>5. ASSUME NEW t \in Runs, CreateOrder(t)
        PROVE  AmountInv(R)'
    <2> DEFINE r == job[t].request
               b == job[t].amount1
               a == Precise(b)
    <2>1. Prepared(b, r.rate) /\ b \in Nat /\ r.rate \in Nat
      BY <1>5, CostsType DEF CreateOrder, LimitsInv, Proper, Ordering, RunsInv, Job, Prepared
    <2>2. Sent(r, a) /\ RoomToOrder /\ amount' = amount
      BY <1>5 DEF CreateOrder, Sent
    <2>3. a * r.rate <= R
      <3>1. b * r.rate <= R
        BY <2>1 DEF Costly, Prepared
      <3>2. a \in Nat /\ a <= b
        BY <2>1, PreciseType
      <3> HIDE DEF r, b, a
      <3>3. a * r.rate <= b * r.rate /\ a * r.rate \in Nat /\ b * r.rate \in Nat
        BY <2>1, <3>2, Products
      <3> QED
        BY <3>1, <3>3
    <2> HIDE DEF r, a
    <2>4. NextId \in Ids /\ NextId \notin Used
          /\ order' = [order EXCEPT ![NextId] =
                [status |-> "sent", pair |-> r.pair, rate |-> r.rate, amount1 |-> a]]
          /\ \A i \in Ids \ {NextId} : order'[i] = order[i]
      BY <2>2, SentOrders
    <2>5. PICK n \in Ids :
            /\ order[n].status = "none" /\ order'[n].status = "sent"
            /\ order'[n].rate = r.rate /\ order'[n].amount1 = a
            /\ \A i \in Ids \ {n} : order'[i] = order[i]
      BY <2>4 DEF RunsInv, Used
    <2>6. Closed' = Closed
      BY <1>3, <2>5 DEF Closed
    <2>7. Cheap
      BY <2>3, <2>5 DEF AmountInv
    <2>8. Bound
      BY <2>2, <2>6 DEF AmountInv
    <2> QED
      BY <1>3, <2>7, <2>8 DEF AmountInv, Held, Ids
  <1>6. ASSUME NEW k \in Ids, Closes(k)
        PROVE  AmountInv(R)'
    <2> DEFINE x == order[k].amount1 * order[k].rate
               n == Cardinality(Closed)
    <2>1. /\ order[k].status \in Held /\ order[k].status # "closed"
          /\ order'[k].status = "closed" /\ amount' = amount + x
          /\ \A i \in Ids \ {k} : order'[i] = order[i]
      BY <1>6, ClosesState DEF Held
    <2>2. Closed' = Closed \cup {k} /\ k \notin Closed
      BY <1>3, <2>1 DEF Closed
    <2>3. Cardinality(Closed') = n + 1 /\ n \in Nat
      BY <2>2, ClosedType, FS_AddElement
    <2>4. Cheap
      BY <2>1 DEF AmountInv, Held
    <2>5. x \in Nat /\ x <= R /\ amount <= Total + n * R
      BY <1>1, <2>1, Products DEF AmountInv
    <2>6. n * R \in Nat /\ (n + 1) * R = n * R + R
      BY <2>3, Products
    <2> HIDE DEF x, n
    <2> DEFINE y == n * R
    <2>7. amount <= Total + y /\ y \in Nat /\ (n + 1) * R = y + R
      BY <2>5, <2>6
    <2> HIDE DEF y
    <2>8. amount' <= Total + (y + R)
      BY <1>2, <2>1, <2>5, <2>7
    <2>9. Bound
      BY <2>3, <2>7, <2>8
    <2> QED
      BY <1>3, <2>4, <2>9 DEF AmountInv, Held, Ids
  <1> QED
    BY <1>4, <1>5, <1>6, OrderSteps

\* The invariant of the balance: it exceeds what it was at first by no more than the orders
\* that were closed, each of which gives back what it cost at most.
THEOREM AmountInvariant ==
    ASSUME NEW R \in Nat, Costly(R)
    PROVE  Spec => []AmountInv(R)
  <1>1. Init => AmountInv(R)
    <2> SUFFICES ASSUME Init PROVE AmountInv(R)
      OBVIOUS
    <2>1. \A i \in Ids : order[i].status = "none"
      BY DEF Init, CellsInit, NoOrder
    <2>2. Closed = {} /\ amount = Total
      BY <2>1 DEF Closed, Init, CellsInit
    <2>3. Cardinality(Closed) * R = 0 /\ Total \in Nat
      BY <2>2, CellsAssumption, FS_EmptySet
    <2> QED
      BY <2>1, <2>2, <2>3 DEF AmountInv, Held
  <1>2. /\ RatesInv /\ RunsInv /\ RunsInv' /\ LimitsInv /\ AmountInv(R) /\ [Next]_vars
        => AmountInv(R)'
    BY AmountKept
  <1> QED
    BY <1>1, <1>2, RatesInvariant, RunsInvariant, LimitsInvariant, PTL DEF Spec

-----------------------------------------------------------------------------
\* What recalcCellSize holds between its awaits.

\* The steps after it has read the cells.
Reads == {"recalc", "balance", "save"}

\* The row it read has the least amounts actualize found, if any, and the size it is about
\* to save is of that row and of a balance that was there.
Computed(R, l, j) ==
    /\ l \in {"balance", "save"} /\ j.row.minAmount2 > 0 =>
          j.row.sellRate \in Asks /\ CostOf(j.row) \in Costs
    /\ l = "save" =>
          /\ ~DividesByZero(j.row, j.balance)
          /\ j.items[j.cell] = CellSize(j.row, j.balance)
          /\ j.balance <= Total + MaxOrders * R

\* It holds the cells as they are stored, but for the one it recalculated.
Unsaved(l, j, cells) ==
    l \in Reads => \A p \in Pairs : (l = "save" /\ p = j.cell) \/ j.items[p] = cells[p]

\* The row it read is the pair's still.
Current(l, j, pairs) == l \in {"balance", "save"} => j.row = pairs[j.cell]

\* Only of a run that others overlap are the cells written in between, and only of a run
\* that the loop does not await are the pairs.
CellsInv(R) ==
    /\ \A t \in Runs : Computed(R, pc[t], job[t])
    /\ overlaps = 0 => /\ \A t, u \in Busy : t = u
                       /\ \A t \in Runs : Unsaved(pc[t], job[t], cellSize)
    /\ mine \in Runs => Current(pc[mine], job[mine], pair)

\* What a step of recalcCellSize does.
Recalculates(t) ==
    \/ /\ pc'[t] = "recalc" /\ job'[t].items = cellSize /\ cellSize' = cellSize
    \/ /\ pc[t] = "recalc" /\ pc'[t] = "balance" /\ cellSize' = cellSize
       /\ job'[t].items = job[t].items /\ job'[t].row = pair[job'[t].cell]
       /\ job'[t].cell \in Pairs
    \/ /\ pc[t] = "balance" /\ pc'[t] = "save" /\ cellSize' = cellSize
       /\ job'[t].cell = job[t].cell /\ job'[t].row = job[t].row /\ job'[t].balance = amount
       /\ ~DividesByZero(job[t].row, amount)
       /\ job'[t].items = [job[t].items EXCEPT ![job[t].cell] = CellSize(job[t].row, amount)]
    \/ /\ pc'[t] = "next" /\ cellSize' = cellSize
    \/ /\ pc[t] = "save" /\ pc'[t] = "recalc"
       /\ cellSize' = job[t].items /\ job'[t].items = job[t].items

LEMMA RecalcDetail ==
    ASSUME RunsInv, NEW t \in Runs, RecalcStep(t)
    PROVE  Recalculates(t)
  <1>1. /\ job \in [Runs -> Job] /\ pc \in [Runs -> Labels] /\ job[t] \in Job
        /\ \A p \in job[t].left : p \in Pairs
    BY DEF RunsInv, Job
  <1>2. CASE FindCells(t)
    BY <1>1, <1>2 DEF FindCells, Goto, Job, cellVars, Recalculates
  <1>3. ASSUME NEW p \in job[t].left, RecalcPair(t, p)
        PROVE  Recalculates(t)
    <2>1. /\ pc[t] = "recalc" /\ pc'[t] = "balance" /\ cellSize' = cellSize
          /\ job'[t] = [job[t] EXCEPT !.left = @ \ {p}, !.cell = p, !.row = pair[p]]
      BY <1>1, <1>3 DEF RecalcPair, Goto, cellVars
    <2>2. job'[t].items = job[t].items /\ job'[t].row = pair[p] /\ job'[t].cell = p
      BY <1>1, <2>1 DEF Job
    <2> QED
      BY <1>1, <2>1, <2>2 DEF Recalculates
  <1>4. CASE RecalcCellSize(t)
    <2> DEFINE size == CellSize(job[t].row, amount)
    <2>1. /\ pc[t] = "balance" /\ pc'[t] = "save" /\ cellSize' = cellSize
          /\ ~DividesByZero(job[t].row, amount)
          /\ job'[t] = [job[t] EXCEPT !.items[job[t].cell] = size, !.balance = amount]
      BY <1>1, <1>4 DEF RecalcCellSize, Goto, cellVars
    <2> HIDE DEF size
    <2>2. /\ job'[t].items = [job[t].items EXCEPT ![job[t].cell] = size]
          /\ job'[t].row = job[t].row /\ job'[t].cell = job[t].cell /\ job'[t].balance = amount
      BY <1>1, <2>1 DEF Job
    <2> QED
      BY <2>1, <2>2 DEF Recalculates, size
  <1>5. CASE RecalcThrows(t) \/ RecalcEnds(t)
    BY <1>1, <1>5 DEF RecalcThrows, RecalcEnds, Goto, cellVars, Recalculates
  <1>6. CASE SaveCells(t)
    <2>1. /\ pc[t] = "save" /\ pc'[t] = "recalc" /\ cellSize' = job[t].items
          /\ job'[t] = [job[t] EXCEPT !.cell = "none", !.row = NewPair, !.balance = 0]
      BY <1>1, <1>6 DEF SaveCells, CellsSaved, Goto
    <2> HIDE DEF NewPair
    <2>2. job'[t].items = job[t].items
      BY <1>1, <2>1 DEF Job
    <2> QED
      BY <2>1, <2>2 DEF Recalculates
  <1> QED
    BY <1>2, <1>3, <1>4, <1>5, <1>6 DEF RecalcStep

\* Of them one writes the cells.
LEMMA CellsWritten ==
    ASSUME RunsInv, NEW t \in Runs, RecalcStep(t), cellSize' # cellSize
    PROVE  pc[t] = "save" /\ cellSize' = job[t].items
  BY RecalcDetail DEF Recalculates

\* What a run under way does to itself and to the cells.
LEMMA RunStepLeaves ==
    ASSUME RatesInv, RunsInv, NEW t \in Runs, RunStep(t)
    PROVE  /\ pc[t] # "idle"
           /\ \A u \in Runs \ {t} : pc'[u] = pc[u] /\ job'[u] = job[u]
           /\ overlaps' = overlaps
           /\ RecalcStep(t) \/ (cellSize' = cellSize /\ pc'[t] \notin Reads)
  <1>1. PICK l, j : MovesTo(t, l, j)
    BY RunStepKinds
  <1>2. \A u \in Runs \ {t} : pc'[u] = pc[u] /\ job'[u] = job[u]
    BY <1>1, OthersStay
  <1>3. pc \in [Runs -> Labels]
    BY DEF RunsInv
  <1>4. CASE RecalcStep(t)
    BY <1>2, <1>4, RecalcSteps DEF Recalcs
  <1>5. CASE \/ Get(t) \/ RunEnds(t) \/ MarketOrder(t) \/ TransferIn(t) \/ TransferFee(t)
             \/ Refused(t)
    BY <1>2, <1>3, <1>5 DEF Get, RunEnds, MarketOrder, TransferIn, TransferFee, Refused, Return,
       Goto, cellVars, Reads
  <1>6. CASE TransferOut(t) \/ OrderOutcome(t)
    BY <1>2, <1>3, <1>6 DEF TransferOut, OrderOutcome, Outcome, Goto, Reads
  <1>7. CASE CreateOrder(t) \/ Record(t)
    BY <1>2, <1>3, <1>7 DEF CreateOrder, Sent, Record, Recorded, Goto, Reads
  <1>8. CASE \E r \in job[t].todo : Create(t, r)
    BY <1>2, <1>3, <1>8 DEF Create, Goto, cellVars, Reads
  <1> QED
    BY <1>4, <1>5, <1>6, <1>7, <1>8 DEF RunStep, RecalcStep

\* Else a run begins, ends, or stays as it is.
LEMMA RecalcsElsewhere ==
    ASSUME RatesInv, RunsInv, [Next]_vars
    PROVE  \/ \E t \in Runs : RecalcStep(t)
           \/ /\ cellSize' = cellSize
              /\ \A u \in Runs : pc'[u] \notin Reads \/ (pc'[u] = pc[u] /\ job'[u] = job[u])
  <1>1. CASE \E t \in Runs : RunStep(t)
    BY <1>1, RunStepLeaves
  <1>2. CASE Crash \/ \E t \in Runs : Throws(t) \/ StartRun(t)
    BY <1>2 DEF Crash, Throws, Lost, Return, Goto, StartRun, cellVars, RunsInv, Reads
  <1>3. CASE \E i \in Ids : Fills(i) \/ Closes(i)
    BY <1>3 DEF Fills, OrderFills, Closes, OrderCloses, runVars
  <1>4. CASE \/ LoopStep /\ ~\E t \in Runs : StartRun(t)
             \/ \E k \in Pairs : ActualizeFails(k) \/ GetActualRatesFails(k)
             \/ RatesThrow \/ OtherRejected
             \/ UNCHANGED vars
    BY <1>4, LoopLeavesRuns DEF cellVars, runVars
  <1> QED
    BY <1>1, <1>2, <1>3, <1>4 DEF Next, Fault

\* Runs begin one after another, or they overlap.
LEMMA BusySteps ==
    ASSUME RatesInv, RunsInv, FeesInv, [Next]_vars, overlaps' = 0,
           overlaps = 0 => \A t, u \in Busy : t = u
    PROVE  overlaps = 0 /\ \A t, u \in Runs : pc'[t] # "idle" /\ pc'[u] # "idle" => t = u
  <1>1. overlaps \in Nat /\ pc \in [Runs -> Labels]
    BY DaemonAssumption DEF FeesInv, RunsInv
  <1> DEFINE Goal == overlaps = 0 /\ \A t, u \in Runs : pc'[t] # "idle" /\ pc'[u] # "idle" => t = u
  <1>2. ASSUME overlaps' = overlaps, \A t \in Runs : pc'[t] # "idle" => pc[t] # "idle"
        PROVE  Goal
    BY <1>2 DEF Busy
  <1>3. CASE \E t \in Runs : RunStep(t)
    <2>1. PICK t \in Runs : RunStep(t)
      BY <1>3
    <2>2. /\ pc[t] # "idle" /\ overlaps' = overlaps
          /\ \A u \in Runs \ {t} : pc'[u] = pc[u]
      BY <2>1, RunStepLeaves
    <2> QED
      BY <1>2, <2>2
  <1>4. CASE Crash \/ \E t \in Runs : Throws(t)
    BY <1>1, <1>2, <1>4 DEF Crash, Throws, Return, Goto
  <1>5. ASSUME NEW t \in Runs, StartRun(t)
        PROVE  Goal
    <2>1. Busy = {} /\ overlaps' = overlaps
      BY <1>1, <1>5 DEF StartRun
    <2>2. \A u \in Runs \ {t} : pc'[u] = "idle"
      BY <1>1, <1>5, <2>1 DEF StartRun, Busy
    <2> QED
      BY <2>1, <2>2
  <1>6. CASE \E i \in Ids : Fills(i) \/ Closes(i)
    BY <1>2, <1>6 DEF Fills, Closes, runVars
  <1>7. CASE \/ LoopStep /\ ~\E t \in Runs : StartRun(t)
             \/ \E k \in Pairs : ActualizeFails(k) \/ GetActualRatesFails(k)
             \/ RatesThrow \/ OtherRejected
             \/ UNCHANGED vars
    BY <1>2, <1>7, LoopLeavesRuns DEF runVars
  <1> QED
    BY <1>3, <1>4, <1>5, <1>6, <1>7 DEF Next, Fault

\* While the loop awaits a run, it leaves the pairs alone.
LEMMA MineSteps ==
    ASSUME RatesInv, RunsInv, FeesInv, [Next]_vars, mine' \in Runs
    PROVE  \/ mine' = mine /\ pair' = pair
           \/ StartRun(mine')
  <1>1. NoRun \notin Runs /\ (phase # "runs" => mine = NoRun)
    BY DaemonAssumption DEF FeesInv
  <1>2. CASE \/ \E t \in Runs : RunStep(t) \/ Throws(t)
             \/ \E i \in Ids : Fills(i) \/ Closes(i)
             \/ UNCHANGED vars
    BY <1>2, RatesLeft DEF rateVars
  <1>3. CASE \E t \in Runs : StartRun(t)
    BY <1>3 DEF StartRun
  <1>4. CASE \E p \in Pairs : ActualizePair(p) \/ SetRates(p)
    BY <1>1, <1>4 DEF ActualizePair, SetRates, loopVars
  <1>5. CASE \/ \E p \in Pairs : GetActualRates(p) \/ ActualizeFails(p) \/ GetActualRatesFails(p)
             \/ NextIteration \/ NoRunToStart \/ RunSettled \/ RatesThrow \/ OtherRejected
             \/ Crash
    <2>1. mine' \in {mine, NoRun}
      BY <1>5 DEF GetActualRates, ActualizeFails, GetActualRatesFails, NextIteration,
         NoRunToStart, RunSettled, RatesThrow, OtherRejected, Crash
    <2>2. pair' = pair
      BY <1>5 DEF GetActualRates, CheckRate, ActualizeFails, GetActualRatesFails, NextIteration,
         CheckBegins, NoRunToStart, RunSettled, RatesThrow, RatesLost, OtherRejected, Crash,
         RatesForgotten, rateVars
    <2> QED
      BY <1>1, <2>1, <2>2
  <1> QED
    BY <1>2, <1>3, <1>4, <1>5 DEF Next, LoopStep, Fault

\* A step of recalcCellSize, for the run that takes it.
LEMMA RecalcComputes ==
    ASSUME NEW R \in Nat, RatesInv, RunsInv, LimitsInv, AmountInv(R), CellsInv(R),
           NEW t \in Runs, Recalculates(t)
    PROVE  Computed(R, pc'[t], job'[t])
  <1>1. /\ job[t].items \in [Pairs -> Nat] /\ amount \in Int /\ Total \in Nat
        /\ pc[t] = "balance" => job[t].cell \in Pairs
    BY CellsAssumption DEF RunsInv, Job, Shaped, Shape
  <1>2. CASE pc'[t] \notin {"balance", "save"}
    BY <1>2 DEF Computed
  <1>3. CASE pc'[t] = "balance"
    <2>1. job'[t].row = pair[job'[t].cell] /\ job'[t].cell \in Pairs
      BY <1>3 DEF Recalculates
    <2>2. PICK p \in Pairs : p = job'[t].cell
      BY <2>1
    <2>3. pair[p].minAmount2 > 0 => pair[p].sellRate \in Asks /\ CostOf(pair[p]) \in Costs
      BY DEF LimitsInv, Priced, Cost
    <2> QED
      BY <1>3, <2>1, <2>2, <2>3 DEF Computed
  <1>4. CASE pc'[t] = "save"
    <2>1. /\ pc[t] = "balance"
          /\ job'[t].cell = job[t].cell /\ job'[t].row = job[t].row /\ job'[t].balance = amount
          /\ ~DividesByZero(job[t].row, amount)
          /\ job'[t].items = [job[t].items EXCEPT ![job[t].cell] = CellSize(job[t].row, amount)]
      BY <1>4 DEF Recalculates
    <2>2. job'[t].items[job[t].cell] = CellSize(job[t].row, amount)
      BY <1>1, <2>1
    <2>3. amount <= Total + MaxOrders * R
      <3> DEFINE x == MaxOrders * R
                 y == Cardinality(Closed) * R
      <3>1. x \in Nat /\ y \in Nat /\ y <= x
        BY ClosedType, CellsAssumption, Products
      <3>2. amount <= Total + y
        BY DEF AmountInv
      <3> HIDE DEF x, y
      <3>3. amount <= Total + x
        BY <1>1, <3>1, <3>2
      <3> QED
        BY <3>3 DEF x
    <2>4. job[t].row.minAmount2 > 0 => job[t].row.sellRate \in Asks /\ CostOf(job[t].row) \in Costs
      BY <2>1 DEF CellsInv, Computed
    <2> QED
      BY <1>4, <2>1, <2>2, <2>3, <2>4 DEF Computed
  <1> QED
    BY <1>2, <1>3, <1>4

LEMMA RecalcUnsaved ==
    ASSUME RunsInv, NEW t \in Runs, Recalculates(t), Unsaved(pc[t], job[t], cellSize)
    PROVE  Unsaved(pc'[t], job'[t], cellSize')
  <1>1. job[t].items \in [Pairs -> Nat] /\ cellSize \in [Pairs -> Nat]
    BY DEF RunsInv, Job
  <1>2. CASE pc'[t] = "recalc"
    BY <1>2 DEF Recalculates, Unsaved
  <1>3. CASE pc'[t] = "balance"
    BY <1>3 DEF Recalculates, Unsaved, Reads
  <1>4. CASE pc'[t] = "save"
    <2>1. /\ pc[t] = "balance" /\ cellSize' = cellSize /\ job'[t].cell = job[t].cell
          /\ job'[t].items = [job[t].items EXCEPT ![job[t].cell] = CellSize(job[t].row, amount)]
      BY <1>4 DEF Recalculates
    <2>2. \A p \in Pairs : p = job[t].cell \/ job'[t].items[p] = job[t].items[p]
      BY <1>1, <2>1
    <2> QED
      BY <1>4, <2>1, <2>2 DEF Unsaved, Reads
  <1> QED
    BY <1>2, <1>3, <1>4 DEF Unsaved, Reads

\* CellsInv, of the state that follows.
CellsStay(R) ==
    /\ \A t \in Runs : Computed(R, pc'[t], job'[t])
    /\ overlaps' = 0 => /\ \A t, u \in Runs : pc'[t] # "idle" /\ pc'[u] # "idle" => t = u
                        /\ \A t \in Runs : Unsaved(pc'[t], job'[t], cellSize')
    /\ \A m \in Runs : m = mine' => Current(pc'[m], job'[m], pair')

LEMMA CellsKept ==
    ASSUME NEW R \in Nat, RatesInv, RunsInv, FeesInv, LimitsInv, AmountInv(R),
           CellsInv(R), [Next]_vars
    PROVE  CellsStay(R)
  <1>1. overlaps' = 0 =>
            overlaps = 0 /\ \A t, u \in Runs : pc'[t] # "idle" /\ pc'[u] # "idle" => t = u
    BY BusySteps DEF CellsInv
  <1>2. overlaps = 0 => \A u \in Runs : Unsaved(pc[u], job[u], cellSize)
    BY DEF CellsInv
  <1>3. ASSUME cellSize' = cellSize,
               \A u \in Runs : pc'[u] \notin Reads \/ (pc'[u] = pc[u] /\ job'[u] = job[u])
        PROVE  CellsStay(R)
    <2>1. \A u \in Runs : Computed(R, pc'[u], job'[u])
      BY <1>3 DEF CellsInv, Computed, Reads
    <2>2. overlaps' = 0 => \A u \in Runs : Unsaved(pc'[u], job'[u], cellSize')
      BY <1>1, <1>2, <1>3 DEF Unsaved
    <2>3. ASSUME NEW m \in Runs, m = mine'
          PROVE  Current(pc'[m], job'[m], pair')
      <3>1. CASE mine = m /\ pair' = pair
        BY <1>3, <3>1 DEF CellsInv, Current, Reads
      <3>2. CASE StartRun(m)
        BY <3>2 DEF StartRun, RunsInv, Current
      <3> QED
        BY <2>3, <3>1, <3>2, MineSteps
    <2> QED
      BY <1>1, <2>1, <2>2, <2>3 DEF CellsStay
  <1>4. ASSUME NEW t \in Runs, RecalcStep(t)
        PROVE  CellsStay(R)
    <2>1. /\ Recalculates(t) /\ pc[t] # "idle"
          /\ \A u \in Runs \ {t} : pc'[u] = pc[u] /\ job'[u] = job[u]
          /\ pair' = pair /\ mine' = mine
      BY <1>4, RecalcDetail, RunStepLeaves, RecalcSteps DEF RunStep, RecalcStep, rateVars, loopVars
    <2>2. \A u \in Runs : Computed(R, pc'[u], job'[u])
      BY <2>1, RecalcComputes DEF CellsInv
    <2>3. overlaps' = 0 => \A u \in Runs : Unsaved(pc'[u], job'[u], cellSize')
      <3> SUFFICES ASSUME overlaps' = 0, NEW u \in Runs
                   PROVE  Unsaved(pc'[u], job'[u], cellSize')
        OBVIOUS
      <3>1. CASE u = t
        BY <1>1, <1>2, <2>1, <3>1, RecalcUnsaved
      <3>2. CASE u # t
        <4>1. pc[u] = "idle"
          BY <1>1, <2>1, <3>2 DEF CellsInv, Busy
        <4> QED
          BY <2>1, <3>2, <4>1 DEF Unsaved, Reads
      <3> QED
        BY <3>1, <3>2
    <2>4. ASSUME NEW m \in Runs, m = mine'
          PROVE  Current(pc'[m], job'[m], pair')
      <3>1. Current(pc[m], job[m], pair)
        BY <2>1, <2>4 DEF CellsInv
      <3>2. CASE m # t
        BY <2>1, <3>1, <3>2
      <3>3. CASE m = t
        BY <2>1, <3>1, <3>3 DEF Recalculates, Current
      <3> QED
        BY <3>2, <3>3
    <2> QED
      BY <1>1, <2>2, <2>3, <2>4 DEF CellsStay
  <1> QED
    BY <1>3, <1>4, RecalcsElsewhere

\* The invariant of recalcCellSize: what it is about to save is of a balance that was there,
\* and of rows that nobody wrote since, unless runs overlapped or the loop went on.
THEOREM CellsInvariant ==
    ASSUME NEW R \in Nat, Costly(R)
    PROVE  Spec => []CellsInv(R)
  <1>1. Init => CellsInv(R)
    <2> SUFFICES ASSUME Init PROVE CellsInv(R)
      OBVIOUS
    <2>1. \A t \in Runs : pc[t] = "idle"
      BY DEF Init
    <2> QED
      BY <2>1 DEF CellsInv, Computed, Unsaved, Current, Reads, Busy
  <1>2. ASSUME RatesInv, RunsInv, FeesInv, LimitsInv, AmountInv(R), CellsInv(R), [Next]_vars
        PROVE  CellsInv(R)'
    <2>1. CellsStay(R)
      BY <1>2, CellsKept
    <2> QED
      BY <2>1 DEF CellsStay, CellsInv, Busy, Computed, Unsaved, Current, Asks, Costs
  <1> QED
    BY <1>1, <1>2, RatesInvariant, RunsInvariant, FeesInvariant, LimitsInvariant,
       AmountInvariant, PTL DEF Spec

-----------------------------------------------------------------------------
\* The unit is fine: the hundredth of a rate is not rounded to zero, and the way from a
\* rate to the floor is long for the purchases a balance may pay for.
Fine(R) ==
    /\ \A rate \in Asks : rate >= 50
    /\ \A rate \in Asks, c \in Costs, k \in Nat :
          rate > MinRate /\ k * c <= Total + MaxOrders * R => k * k <= 2 * (rate - MinRate)

\* calculateCellSize, of the row of an actualized pair.
LEMMA CellSizeLasts ==
    ASSUME NEW R \in Nat, Fine(R), NEW row, row.sellRate \in Asks, CostOf(row) \in Costs,
           NEW balance \in Int, balance <= Total + MaxOrders * R, ~DividesByZero(row, balance)
    PROVE  Lasts(row, balance, CellSize(row, balance))
  <1> DEFINE rate == row.sellRate
             cost == CostOf(row)
             k    == MaxOrderCnt(row, balance)
             d    == rate - MinRate
             cell == CellSize(row, balance)
             part == IF k > 0 THEN Quotient(d, k) ELSE Quotient(-d, -k)
  <1>1. rate \in Nat \ {0} /\ rate >= 50 /\ cost \in Nat \ {0} /\ MinRate \in Nat
    BY CostsType, CellsAssumption DEF Fine
  <1>2. k = balance \div cost /\ k # 0
    BY DEF MaxOrderCnt, DividesByZero
  <1>3. cell = IF part > 0 THEN part ELSE Quotient(rate, 100)
    BY DEF CellSize
  <1>4. Lasts(row, balance, cell) <=>
             /\ cell > 0
             /\ d > 0 /\ balance >= 0 => \E m \in {d \div cell, 1 + d \div cell} :
                     /\ m * cost <= balance /\ balance < (m + 1) * cost
                     /\ Distance(m * cell, d) <= m
    BY DEF Lasts
  <1>5. d \in Int /\ \A c \in Costs, n \in Nat :
            d > 0 /\ n * c <= Total + MaxOrders * R => n * n <= 2 * d
    BY <1>1 DEF Fine
  <1>6. cost \in Costs
    OBVIOUS
  <1>7. Quotient(rate, 100) > 0
    <2> DEFINE x == Quotient(rate, 100)
    <2>1. rate \in Nat /\ 100 \in Nat \ {0}
      BY <1>1
    <2>2. x \in Nat /\ 2 * (x * 100) + 100 > 2 * rate
      BY <2>1, QuotientType, QuotientBound
    <2> HIDE DEF x
    <2>3. x > 0
      BY <1>1, <2>2
    <2> QED
      BY <2>3 DEF x
  <1> HIDE DEF rate, cost, k, d, cell
  <1>8. k \in Int /\ (balance >= 0 => k >= 0) /\ cost * k <= balance /\ balance < cost * k + cost
    BY <1>1, <1>2
  <1>9. CASE ~(d > 0 /\ balance >= 0)
    <2> HIDE DEF part
    <2>1. cell > 0
      BY <1>3, <1>7
    <2> QED
      BY <1>4, <1>9, <2>1 DEF cell
  <1>10. CASE d > 0 /\ balance >= 0
    <2> DEFINE c == Quotient(d, k)
    <2>1. d \in Nat \ {0} /\ k \in Nat \ {0}
      BY <1>2, <1>5, <1>8, <1>10
    <2>2. k * cost = cost * k /\ k * cost \in Nat /\ (k + 1) * cost = k * cost + cost
      BY <1>1, <2>1, Products
    <2>3. k * cost <= balance /\ balance < (k + 1) * cost
      BY <1>8, <2>2
    <2>4. k * cost <= Total + MaxOrders * R
      <3> DEFINE x == MaxOrders * R
                 z == k * cost
      <3>1. x \in Nat /\ Total \in Nat /\ z \in Nat /\ z <= balance /\ balance <= Total + x
        BY <2>2, <2>3, CellsAssumption, Products
      <3> HIDE DEF x, z
      <3>2. z <= Total + x
        BY <3>1
      <3> QED
        BY <3>2 DEF x, z
    <2>5. k * k <= 2 * d
      BY <1>5, <1>6, <1>10, <2>1, <2>4
    <2>6. c \in Nat \ {0} /\ k \in {d \div c, d \div c + 1} /\ Distance(k * c, d) <= k
      BY <2>1, <2>5, EvenCells
    <2>7. part = c
      BY <2>1
    <2> HIDE DEF c, part
    <2>8. cell = c /\ c > 0 /\ d \div c \in Nat
      BY <1>3, <2>1, <2>6, <2>7
    <2>9. k \in {d \div c, 1 + d \div c}
      <3> DEFINE n == d \div c
      <3>1. n \in Nat /\ k \in {n, n + 1}
        BY <2>6, <2>8
      <3> HIDE DEF n
      <3>2. k \in {n, 1 + n}
        BY <3>1
      <3> QED
        BY <3>2 DEF n
    <2>10. \E m \in {d \div c, 1 + d \div c} :
              /\ m * cost <= balance /\ balance < (m + 1) * cost
              /\ Distance(m * c, d) <= m
      BY <2>3, <2>6, <2>9
    <2> QED
      BY <1>4, <2>8, <2>10 DEF cell
  <1> QED
    BY <1>9, <1>10

\* recalcCellSize saves cells with which the balance it read lasts (calculateCellSize): as
\* many purchases as it pays for, one a cell, end at the floor; it undoes nothing that another
\* run saved in between, unless runs overlapped, and saves at no other rate than the pair's,
\* unless the loop went on without the run. R bounds what an order may cost, and the unit is
\* fine for the balance that may result.
THEOREM CellsMakeBalanceLast ==
    ASSUME NEW R \in Nat, Costly(R), Fine(R)
    PROVE  Spec => BalanceLasts
  <1> DEFINE Inv   == RatesInv /\ RunsInv /\ FeesInv /\ CellsInv(R)
             Saved == cellSize' # cellSize => \E t \in Runs :
                LET j == job[t]
                IN  /\ pc[t] = "save"
                    /\ j.row.minAmount2 > 0 => Lasts(j.row, j.balance, cellSize'[j.cell])
                    /\ overlaps = 0 => \A p \in Pairs \ {j.cell} : cellSize'[p] = cellSize[p]
                    /\ t = mine => j.row = pair[j.cell]
  <1>1. ASSUME Inv, [Next]_vars, cellSize' # cellSize
        PROVE  \E t \in Runs :
                  /\ pc[t] = "save"
                  /\ job[t].row.minAmount2 > 0 =>
                        Lasts(job[t].row, job[t].balance, cellSize'[job[t].cell])
                  /\ overlaps = 0 => \A p \in Pairs \ {job[t].cell} : cellSize'[p] = cellSize[p]
                  /\ t = mine => job[t].row = pair[job[t].cell]
    <2>1. PICK t \in Runs : RecalcStep(t)
      BY <1>1, RecalcsElsewhere
    <2>2. pc[t] = "save" /\ cellSize' = job[t].items
      BY <1>1, <2>1, CellsWritten
    <2>3. job[t].cell \in Pairs /\ job[t].balance \in Int
      BY <1>1, <2>2 DEF RunsInv, Job, Shaped, Shape
    <2>4. job[t].row.minAmount2 > 0 =>
              Lasts(job[t].row, job[t].balance, cellSize'[job[t].cell])
      <3> SUFFICES ASSUME job[t].row.minAmount2 > 0
                   PROVE  Lasts(job[t].row, job[t].balance, cellSize'[job[t].cell])
        OBVIOUS
      <3>1. Computed(R, "save", job[t])
        BY <1>1, <2>2 DEF CellsInv
      <3>2. /\ job[t].row.sellRate \in Asks /\ CostOf(job[t].row) \in Costs
            /\ job[t].balance <= Total + MaxOrders * R
            /\ ~DividesByZero(job[t].row, job[t].balance)
            /\ job[t].items[job[t].cell] = CellSize(job[t].row, job[t].balance)
        BY <3>1 DEF Computed
      <3> QED
        BY <2>2, <2>3, <3>2, CellSizeLasts
    <2>5. overlaps = 0 => \A p \in Pairs \ {job[t].cell} : cellSize'[p] = cellSize[p]
      BY <1>1, <2>2 DEF CellsInv, Unsaved, Reads
    <2>6. t = mine => job[t].row = pair[job[t].cell]
      BY <1>1, <2>2 DEF CellsInv, Current
    <2> QED
      BY <2>2, <2>4, <2>5, <2>6
  <1>2. Inv /\ [Next]_vars => [Saved]_vars
    BY <1>1
  <1>3. Spec => []Inv
    BY RatesInvariant, RunsInvariant, FeesInvariant, CellsInvariant, PTL
  <1> QED
    BY <1>2, <1>3, PTL DEF Spec, BalanceLasts
=============================================================================
