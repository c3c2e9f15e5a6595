--------------------------- MODULE EaseCusumProofs ---------------------------
(***************************************************************************)
(* What rests on the predictor of EASE.                                    *)
(*                                                                         *)
(* One predictor, for any threshold, rho and quota and any traffic: no     *)
(* history of demands drives the mean or the prediction more than one      *)
(* packet above the largest demand, so the 16 and 32 bit fields that hold  *)
(* them do not overflow.                                                   *)
(*                                                                         *)
(* Two predictors, of a child and of its parent: the trust of the child,   *)
(* for any threshold, any rho below 100, any quotas but 0, and queues and  *)
(* retries of any length.  An acknowledgment means that the parent has, or *)
(* had, the packet, so that it has counted the child or will; a count      *)
(* makes its next prediction positive; and what it listens to it keeps     *)
(* until it drops the child.                                               *)
(***************************************************************************)
EXTENDS EasePair, EasePredictor, TLAPS

USE CusumAssumption

-----------------------------------------------------------------------------
(* One predictor *)

USE PredictorAssumption

\* A weighted mean with weights Rho and 100 - Rho lies below the larger of the
\* two values.
LEMMA WeightedMean ==
  ASSUME NEW a \in Nat, NEW b \in Nat, NEW m \in Nat, a <= m, b <= m
  PROVE  (Rho * a + (100 - Rho) * b) \div 100 \in 0 .. m
<1>1. Rho \in Nat /\ 100 - Rho \in Nat
  OBVIOUS
<1>2. Rho * a \in Nat /\ Rho * a <= Rho * m
  BY <1>1
<1>3. (100 - Rho) * b \in Nat /\ (100 - Rho) * b <= (100 - Rho) * m
  BY <1>1
<1>4. Rho * m + (100 - Rho) * m = 100 * m
  BY <1>1
<1>5. Rho * m \in Nat /\ (100 - Rho) * m \in Nat
  BY <1>1
<1> DEFINE x == Rho * a + (100 - Rho) * b
<1>6. x \in Nat /\ x <= 100 * m
  BY <1>2, <1>3, <1>4, <1>5
<1> HIDE DEF x
<1>7. x \div 100 \in 0 .. m
  BY <1>6
<1> QED
  BY <1>7 DEF x

\* The adjusted demand is at most one packet above the demand.
LEMMA AdjustedBound ==
  ASSUME NEW D \in Nat, NEW predicted \in Nat
  PROVE  Adjusted(D, predicted) \in D .. D + 1
BY DEF Adjusted

\* An update keeps mean and prediction below one packet above the larger of the
\* demand E that bounded them and the new demand D.
LEMMA CusumBound ==
  ASSUME NEW D \in Nat, NEW E \in Nat, D <= E,
         NEW p \in [mu : 0 .. 100 * (E + 1), s : 0 .. Threshold, predicted : Nat]
  PROVE  Cusum(p, D) \in [mu : 0 .. 100 * (E + 1), s : 0 .. Threshold,
                          predicted : 0 .. E + 1]
<1> DEFINE dt == 100 * Adjusted(D, p.predicted)
           s == IF p.s + dt - p.mu < 0 THEN 0 ELSE p.s + dt - p.mu
           mean == (Rho * p.mu + (100 - Rho) * dt) \div 100
           mu == IF s > Threshold THEN dt ELSE mean
<1>1. dt \in 0 .. 100 * (E + 1)
  <2>1. Adjusted(D, p.predicted) \in D .. D + 1
    BY AdjustedBound
  <2> QED
    BY <2>1
<1>2. p.mu \in 0 .. 100 * (E + 1) /\ p.s \in 0 .. Threshold
  OBVIOUS
<1>3. mean \in 0 .. 100 * (E + 1)
  <2>1. p.mu \in Nat /\ dt \in Nat /\ 100 * (E + 1) \in Nat
        /\ p.mu <= 100 * (E + 1) /\ dt <= 100 * (E + 1)
    BY <1>1, <1>2
  <2> HIDE DEF dt
  <2> QED
    BY <2>1, WeightedMean
<1>4. s \in Nat
  BY <1>1, <1>2
<1> HIDE DEF dt, mean
<1>5. mu \in 0 .. 100 * (E + 1)
  BY <1>1, <1>3
<1>6. (IF s > Threshold THEN 0 ELSE s) \in 0 .. Threshold
  BY <1>4
<1> HIDE DEF s, mu
<1>7. (IF mu > 0 THEN (mu + 99) \div 100 ELSE 0) \in 0 .. E + 1
  BY <1>5
<1>8. Cusum(p, D) = [mu |-> mu, s |-> IF s > Threshold THEN 0 ELSE s,
                     predicted |-> IF mu > 0 THEN (mu + 99) \div 100 ELSE 0]
  BY DEF Cusum, mu, s, mean, dt
<1> QED
  BY <1>5, <1>6, <1>7, <1>8

LEMMA InitBounded == PredictorInit => Bounded
<1> SUFFICES ASSUME PredictorInit PROVE Bounded
  OBVIOUS
<1>1. demand \in Demands /\ demand \in Nat
  BY DEF PredictorInit
<1>2. estimate.mu \in 0 .. 100 * (demand + 1) /\ estimate.predicted \in 0 .. demand + 1
      /\ estimate.s \in 0 .. Threshold
  BY <1>1 DEF PredictorInit, NoPrediction
<1> QED
  BY <1>1, <1>2 DEF PredictorInit, Bounded

\* The record keeps its shape; Bounded says what its fields hold.
Shape == estimate \in [mu : Nat, s : Nat, predicted : Nat]

LEMMA UpdateBounded ==
  ASSUME Bounded, Shape, NEW D \in Demands, Update(D)
  PROVE  Bounded' /\ Shape'
<1>1. PICK E \in Demands : /\ estimate.mu \in 0 .. 100 * (E + 1)
                          /\ estimate.predicted \in 0 .. E + 1
  BY DEF Bounded
<1>2. PICK F \in Demands : D <= F /\ E <= F
  BY <1>1
<1>3. estimate \in [mu : 0 .. 100 * (F + 1), s : 0 .. Threshold, predicted : Nat]
  <2>1. /\ estimate.mu \in 0 .. 100 * (F + 1) /\ estimate.s \in 0 .. Threshold
        /\ estimate.predicted \in Nat
    BY <1>1, <1>2 DEF Bounded
  <2> QED
    BY <2>1 DEF Shape
<1>4. Cusum(estimate, D) \in [mu : 0 .. 100 * (F + 1), s : 0 .. Threshold,
                       predicted : 0 .. F + 1]
  BY <1>2, <1>3, CusumBound
<1>5. Capped(Cusum(estimate, D)) \in [mu : 0 .. 100 * (F + 1), s : 0 .. Threshold,
                               predicted : 0 .. F + 1]
  BY <1>4 DEF Capped
<1>6. estimate' \in [mu : 0 .. 100 * (F + 1), s : 0 .. Threshold, predicted : 0 .. F + 1]
  BY <1>5 DEF Update
<1> QED
  BY <1>6 DEF Update, Bounded, Shape

\* Mean, sum and prediction stay within what the traffic can cause.
THEOREM AlwaysBounded == PredictorSpec => []Bounded
<1>1. PredictorInit => Bounded /\ Shape
  BY InitBounded DEF PredictorInit, NoPrediction, Shape
<1>2. Bounded /\ Shape /\ [PredictorNext]_predictorVars => Bounded' /\ Shape'
  <2> SUFFICES ASSUME Bounded, Shape, [PredictorNext]_predictorVars
               PROVE  Bounded' /\ Shape'
    OBVIOUS
  <2>1. CASE Settle
    BY <2>1 DEF Settle, Bounded, Shape
  <2>2. CASE UNCHANGED predictorVars
    BY <2>2 DEF predictorVars, Bounded, Shape
  <2> QED
    BY <2>1, <2>2, UpdateBounded DEF PredictorNext
<1> QED
  BY <1>1, <1>2, PTL DEF PredictorSpec

HIDE PredictorAssumption

-----------------------------------------------------------------------------
(* The predictors of a child and of its parent *)

USE PairAssumption

\* An entry that is not in use is a new one.
Unused == ~par.known => par.entry = NewEntry

Inv == TypeOK /\ Unused /\ (Trusts \/ heard => Reason)

-----------------------------------------------------------------------------
(* The operators the actions are built from *)

\* The weighted mean of two natural numbers is one; it is positive if the second
\* has weight and is at least 100.
LEMMA MeanPositive ==
  ASSUME NEW a \in Nat, NEW b \in Nat
  PROVE  /\ (Rho * a + (100 - Rho) * b) \div 100 \in Nat
         /\ Rho < 100 /\ b >= 100 => (Rho * a + (100 - Rho) * b) \div 100 > 0
<1>1. Rho * a \in Nat /\ (100 - Rho) * b \in Nat
  OBVIOUS
<1>2. Rho < 100 /\ b >= 100 => (100 - Rho) * b >= 100
  <2> SUFFICES ASSUME Rho < 100, b >= 100 PROVE (100 - Rho) * b >= 100
    OBVIOUS
  <2>1. 100 - Rho \in Nat /\ 100 - Rho >= 1
    OBVIOUS
  <2>2. (100 - Rho) * b >= 1 * b
    BY <2>1
  <2> QED
    BY <2>2
<1> DEFINE x == Rho * a
           y == (100 - Rho) * b
<1>3. x \in Nat /\ y \in Nat /\ (Rho < 100 /\ b >= 100 => y >= 100)
  BY <1>1, <1>2
<1> HIDE DEF x, y
<1>4. (x + y) \div 100 \in Nat /\ (Rho < 100 /\ b >= 100 => (x + y) \div 100 > 0)
  BY <1>3
<1> QED
  BY <1>4 DEF x, y

\* An update keeps the types; a slotframe with a packet yields a prediction.
LEMMA CusumPositive ==
  ASSUME NEW p \in Predictor, NEW D \in Nat
  PROVE  /\ Cusum(p, D) \in Predictor
         /\ Rho < 100 /\ D > 0 => Cusum(p, D).predicted > 0
<1> DEFINE dt == 100 * Adjusted(D, p.predicted)
           s == IF p.s + dt - p.mu < 0 THEN 0 ELSE p.s + dt - p.mu
           mean == (Rho * p.mu + (100 - Rho) * dt) \div 100
           mu == IF s > Threshold THEN dt ELSE mean
           cells == IF mu > 0 THEN (mu + 99) \div 100 ELSE 0
<1>1. p.mu \in Nat /\ p.s \in Nat /\ p.predicted \in Nat
  BY DEF Predictor
<1>2. dt \in Nat /\ (D > 0 => dt >= 100)
  BY <1>1 DEF Adjusted
<1>3. s \in Nat
  BY <1>1, <1>2
<1> HIDE DEF dt
<1>4. mean \in Nat /\ (Rho < 100 /\ D > 0 => mean > 0)
  BY <1>1, <1>2, MeanPositive
<1> HIDE DEF s, mean
<1>5. mu \in Nat /\ (Rho < 100 /\ D > 0 => mu > 0)
  BY <1>2, <1>4
<1> HIDE DEF mu
<1>6. cells \in Nat /\ (mu > 0 => cells > 0)
  BY <1>5
<1>7. Cusum(p, D) = [mu |-> mu, s |-> IF s > Threshold THEN 0 ELSE s,
                     predicted |-> cells]
  BY DEF Cusum, cells, mu, s, mean, dt
<1> HIDE DEF cells
<1> QED
  BY <1>3, <1>5, <1>6, <1>7 DEF Predictor

\* A boundary leaves no trust in the child that was not there.
LEMMA ChildBoundaryKeeps ==
  ASSUME NEW v \in Child
  PROVE  /\ ChildBoundary(v) \in Child
         /\ ChildBoundary(v).txThis \/ ChildBoundary(v).txLast => v.txThis \/ v.txLast
<1> DEFINE self == Cusum(v.self, v.pkts)
           link == v.link \/ (~v.had /\ self.predicted > 0)
           had == v.had \/ self.predicted > 0
           u == ChildUpdate(v)
<1>1. self \in Predictor /\ link \in BOOLEAN /\ had \in BOOLEAN
  BY CusumPositive DEF Child
<1>2. v.txThis \in BOOLEAN /\ v.seen \in BOOLEAN /\ v.late \in BOOLEAN
  BY DEF Child
<1> DEFINE w == [v EXCEPT !.self = self, !.pkts = 0, !.link = link, !.had = had]
<1>3. u = [w EXCEPT !.txLast = v.txThis, !.txThis = FALSE, !.exhausted = FALSE]
  BY DEF ChildUpdate
<1> HIDE DEF self, link, had
<1>4. w \in Child /\ w.txThis = v.txThis
  BY <1>1, <1>2 DEF Child
<1> HIDE DEF w, u
<1>5. u \in Child
  BY <1>2, <1>3, <1>4 DEF Child
<1>6. u.txThis \/ u.txLast => v.txThis
  BY <1>2, <1>3, <1>4 DEF Child
<1>7. \/ ChildBoundary(v) = [u EXCEPT !.late = FALSE, !.seen = TRUE]
      \/ ChildBoundary(v) = [v EXCEPT !.late = FALSE, !.seen = TRUE]
  BY DEF ChildBoundary, u
<1>8. CASE ChildBoundary(v) = [u EXCEPT !.late = FALSE, !.seen = TRUE]
  BY <1>5, <1>6, <1>8 DEF Child
<1>9. CASE ChildBoundary(v) = [v EXCEPT !.late = FALSE, !.seen = TRUE]
  BY <1>9 DEF Child
<1> QED
  BY <1>7, <1>8, <1>9

\* An update of the entry turns a count into a cell and keeps a cell.
LEMMA ParentUpdateKeeps ==
  ASSUME NEW e \in Entry, NEW q \in Quotas, NEW within \in BOOLEAN
  PROVE  /\ ParentUpdate(e, q, within) \in Entry
         /\ Rho < 100 /\ 0 \notin Quotas /\ (e.listens \/ e.pkts > 0) =>
              ParentUpdate(e, q, within).listens
<1> DEFINE c == Cusum(e.c, e.pkts)
           p == IF c.predicted > q THEN q ELSE c.predicted
           t == IF within THEN q ELSE p
           tokens == IF t = 0 THEN 1 ELSE t
           listens == e.listens \/ p > 0
           d == [c EXCEPT !.predicted = p]
<1>1. e.c \in Predictor /\ e.pkts \in Nat /\ e.listens \in BOOLEAN /\ q \in Nat
  BY DEF Entry
<1>2. c \in Predictor /\ (Rho < 100 /\ e.pkts > 0 => c.predicted > 0)
  BY <1>1, CusumPositive
<1>3. c.predicted \in Nat
  BY <1>2 DEF Predictor
<1> HIDE DEF c
<1>4. p \in Nat /\ (Rho < 100 /\ 0 \notin Quotas /\ e.pkts > 0 => p > 0)
  BY <1>1, <1>2, <1>3
<1> HIDE DEF p
<1>5. d \in Predictor
  BY <1>2, <1>4 DEF Predictor
<1>6. tokens \in Nat
  BY <1>1, <1>4
<1>7. listens \in BOOLEAN
  OBVIOUS
<1>8. Rho < 100 /\ 0 \notin Quotas /\ (e.listens \/ e.pkts > 0) => listens
  BY <1>4
<1>9. ParentUpdate(e, q, within) =
        [c |-> d, pkts |-> 0, tokens |-> tokens, listens |-> listens]
  BY DEF ParentUpdate, d, c, p
<1> HIDE DEF d, tokens, listens
<1> QED
  BY <1>5, <1>6, <1>7, <1>8, <1>9 DEF Entry

\* A boundary in the parent takes away no reason.
LEMMA ParentBoundaryKeeps ==
  ASSUME NEW v \in Parent, ~v.known => v.entry = NewEntry,
         NEW q \in Quotas, NEW within \in BOOLEAN, NEW w,
         w = ParentBoundary(v, q, within)
  PROVE  /\ w \in Parent /\ w.known = v.known
         /\ ~w.known => w.entry = NewEntry
         /\ Rho < 100 /\ 0 \notin Quotas /\ (v.entry.listens \/ v.entry.pkts > 0) =>
              w.entry.listens \/ w.entry.pkts > 0
<1> DEFINE u == ParentUpdate(v.entry, q, within)
<1>1. u \in Entry /\ (Rho < 100 /\ 0 \notin Quotas
                        /\ (v.entry.listens \/ v.entry.pkts > 0) => u.listens)
  BY ParentUpdateKeeps DEF Parent
<1>2. w = [v EXCEPT !.late = FALSE, !.seen = TRUE,
                    !.entry = IF v.late /\ v.seen /\ v.known THEN u ELSE v.entry]
  BY DEF ParentBoundary, Parent
<1> HIDE DEF u
<1> QED
  BY <1>1, <1>2 DEF Parent

-----------------------------------------------------------------------------
(* The actions *)

LEMMA OfferStep ==
  ASSUME Inv, Offer
  PROVE  Inv'
<1> DEFINE v == ChildBoundary(child)
           cell == SelectedCell(v)
<1>1. child \in Child /\ queue \in Seq(Cells)
  BY DEF Inv, TypeOK
<1>2. v \in Child /\ (v.txThis \/ v.txLast => child.txThis \/ child.txLast)
  BY <1>1, ChildBoundaryKeeps
<1>3. cell \in Cells /\ (cell = "dedicated" => v.txLast)
  BY DEF SelectedCell, Cells
<1>4. /\ child' = v /\ queue' = Append(queue, cell) /\ Len(queue) < QueueMax
      /\ UNCHANGED <<par, tx, heard, rx, done, left, forgot>>
  BY DEF Offer
<1> HIDE DEF v, cell
<1>5. queue' \in Seq(Cells) /\ Len(queue') <= QueueMax
  BY <1>1, <1>3, <1>4
<1>6. Trusts' => Trusts
  <2>1. \A i \in DOMAIN queue' : queue'[i] = "dedicated" =>
          cell = "dedicated" \/ (i \in DOMAIN queue /\ queue[i] = "dedicated")
    BY <1>1, <1>3, <1>4
  <2> QED
    BY <1>2, <1>3, <1>4, <2>1 DEF Trusts
<1> QED
  BY <1>2, <1>4, <1>5, <1>6 DEF Inv, TypeOK, Unused, Reason

LEMMA SentStep ==
  ASSUME Inv, Sent
  PROVE  Inv'
<1> DEFINE v == ChildBoundary(child)
<1>1. v \in Child /\ (v.txThis \/ v.txLast => child.txThis \/ child.txLast)
  BY ChildBoundaryKeeps DEF Inv, TypeOK
<1>2. /\ child' = IF done = "ok" THEN [v EXCEPT !.pkts = @ + 1, !.txThis = TRUE] ELSE v
      /\ done' = "none"
      /\ UNCHANGED <<par, queue, tx, heard, rx, left, forgot>>
  BY DEF Sent
<1> HIDE DEF v
<1>3. child' \in Child /\ (child'.txThis \/ child'.txLast =>
                             done = "ok" \/ child.txThis \/ child.txLast)
  <2>1. CASE done = "ok"
    <3>1. v.pkts + 1 \in Nat /\ child' = [v EXCEPT !.pkts = v.pkts + 1, !.txThis = TRUE]
      BY <1>1, <1>2, <2>1 DEF Child
    <3> QED
      BY <1>1, <2>1, <3>1 DEF Child
  <2>2. CASE done # "ok"
    BY <1>1, <1>2, <2>2
  <2> QED
    BY <2>1, <2>2
<1>4. Trusts' => Trusts
  BY <1>2, <1>3 DEF Trusts
<1> QED
  BY <1>2, <1>3, <1>4 DEF Inv, TypeOK, Unused, Reason

LEMMA ChildOtherStep ==
  ASSUME Inv, ChildOther
  PROVE  Inv'
<1>1. /\ child' \in Child
      /\ child'.txThis \/ child'.txLast => child.txThis \/ child.txLast
  BY ChildBoundaryKeeps DEF Inv, TypeOK, ChildOther
<1>2. Trusts' => Trusts
  BY <1>1 DEF Trusts, ChildOther
<1> QED
  BY <1>1, <1>2 DEF Inv, TypeOK, Unused, Reason, ChildOther

LEMMA RebuildStep ==
  ASSUME Inv, Rebuild
  PROVE  Inv'
<1>1. PICK v \in {child, ChildBoundary(child)} :
        child' = [v EXCEPT !.link = v.self.predicted > 0]
  BY DEF Rebuild
<1>2. v \in Child /\ (v.txThis \/ v.txLast => child.txThis \/ child.txLast)
  BY ChildBoundaryKeeps DEF Inv, TypeOK
<1> DEFINE b == v.self.predicted > 0
<1>3. /\ child' \in Child
      /\ child'.txThis \/ child'.txLast => child.txThis \/ child.txLast
  <2>1. b \in BOOLEAN /\ child' = [v EXCEPT !.link = b]
    BY <1>1
  <2> HIDE DEF b
  <2> QED
    BY <1>2, <2>1 DEF Child
<1>4. Trusts' => Trusts
  BY <1>3 DEF Trusts, Rebuild
<1> QED
  BY <1>3, <1>4 DEF Inv, TypeOK, Unused, Reason, Rebuild

\* The entry of a child that is heard.
LEMMA HeardCounts ==
  ASSUME NEW e \in Entry
  PROVE  Heard(e) \in Entry /\ Heard(e).pkts > 0
<1> DEFINE n == e.pkts + 1
           t == IF e.tokens > 0 THEN e.tokens - 1 ELSE 0
<1>1. n \in Nat /\ n > 0 /\ t \in Nat
  BY DEF Entry
<1>2. Heard(e) = [e EXCEPT !.pkts = n, !.tokens = t]
  BY DEF Heard, Entry
<1> HIDE DEF n, t
<1> QED
  BY <1>1, <1>2 DEF Entry

LEMMA NewEntryType == NewEntry \in Entry
BY DEF NewEntry, Entry, NoPrediction, Predictor

LEMMA ReceivedStep ==
  ASSUME Rho < 100, 0 \notin Quotas, Inv, Received
  PROVE  Inv'
<1>1. PICK q \in Quotas, within \in BOOLEAN, room \in BOOLEAN :
        LET v == ParentBoundary(par, q, within)
        IN  IF v.known \/ room
            THEN /\ par' = [v EXCEPT !.known = TRUE,
                                    !.entry = Heard(IF v.known THEN @ ELSE NewEntry)]
                 /\ forgot' = FALSE
            ELSE par' = v /\ forgot' = TRUE
  BY DEF Received
<1> DEFINE v == ParentBoundary(par, q, within)
<1>2. v \in Parent /\ (~v.known => v.entry = NewEntry)
  BY ParentBoundaryKeeps DEF Inv, TypeOK, Unused
<1> DEFINE e == IF v.known THEN v.entry ELSE NewEntry
<1>3. \/ par' = [v EXCEPT !.known = TRUE, !.entry = Heard(e)] /\ forgot' = FALSE
      \/ par' = v /\ forgot' = TRUE
  BY <1>1
<1>4. e \in Entry
  BY <1>2, NewEntryType DEF Parent
<1>5. Heard(e) \in Entry /\ Heard(e).pkts > 0
  BY <1>4, HeardCounts
<1> HIDE DEF v, e
<1>6. par' \in Parent /\ forgot' \in BOOLEAN /\ Unused' /\ Reason'
  BY <1>2, <1>3, <1>5 DEF Parent, Unused, Reason
<1> QED
  BY <1>6 DEF Received, Inv, TypeOK

LEMMA ParentOtherStep ==
  ASSUME Rho < 100, 0 \notin Quotas, Inv, ParentOther
  PROVE  Inv'
<1>1. PICK q \in Quotas, within \in BOOLEAN : par' = ParentBoundary(par, q, within)
  BY DEF ParentOther
<1>2. /\ par' \in Parent /\ Unused'
      /\ par.entry.listens \/ par.entry.pkts > 0 =>
           par'.entry.listens \/ par'.entry.pkts > 0
  BY <1>1, ParentBoundaryKeeps DEF Inv, TypeOK, Unused
<1> QED
  BY <1>2 DEF ParentOther, Inv, TypeOK, Trusts, Reason

LEMMA AddedStep ==
  ASSUME Inv, Added
  PROVE  Inv'
<1>1. par.entry = NewEntry /\ par'.entry = NewEntry /\ par' \in Parent /\ par'.known
  BY NewEntryType DEF Added, Inv, TypeOK, Unused, Parent
<1> QED
  BY <1>1 DEF Added, Inv, TypeOK, Unused, Trusts, Reason

LEMMA RemovedStep ==
  ASSUME Inv, Removed
  PROVE  Inv'
<1>1. PICK late \in {par.late, FALSE} :
        par' = [par EXCEPT !.known = FALSE, !.entry = NewEntry, !.late = late,
                           !.seen = @ \/ ~late]
  BY DEF Removed
<1>2. par' \in Parent /\ Unused'
  BY <1>1, NewEntryType DEF Inv, TypeOK, Parent, Unused
<1> QED
  BY <1>2 DEF Removed, Inv, TypeOK, Reason

\* What the end of a transmission does to the queue.
LEMMA EndOfTxKeeps ==
  ASSUME Inv, NEW acked \in BOOLEAN, NEW arrived \in BOOLEAN, queue # <<>>,
         EndOfTx(acked, arrived)
  PROVE  /\ queue' \in Seq(Cells) /\ Len(queue') <= QueueMax
         /\ tx' \in 0 .. MaxTx - 1 /\ heard' \in BOOLEAN
         /\ done' \in {"none", "ok", "noack"}
         /\ heard' => arrived
         /\ done' = "ok" => acked \/ done = "ok"
         /\ \A i \in DOMAIN queue' : queue'[i] = "dedicated" =>
              \E k \in DOMAIN queue : queue[k] = "dedicated"
<1>1. queue \in Seq(Cells) /\ Len(queue) <= QueueMax /\ tx \in 0 .. MaxTx - 1
      /\ done \in {"none", "ok", "noack"}
  BY DEF Inv, TypeOK
<1>2. CASE acked \/ tx + 1 >= MaxTx
  <2>1. /\ queue' = Tail(queue) /\ tx' = 0 /\ heard' = FALSE
        /\ done' = IF acked THEN "ok" ELSE "noack"
    BY <1>2 DEF EndOfTx
  <2>2. /\ queue' \in Seq(Cells) /\ Len(queue') = Len(queue) - 1
        /\ \A i \in DOMAIN queue' : i + 1 \in DOMAIN queue /\ queue'[i] = queue[i + 1]
    BY <1>1, <2>1
  <2>3. \A i \in DOMAIN queue' : queue'[i] = "dedicated" =>
          \E k \in DOMAIN queue : queue[k] = "dedicated"
    BY <2>2
  <2>4. Len(queue') <= QueueMax
    BY <1>1, <2>2
  <2>5. tx' \in 0 .. MaxTx - 1 /\ heard' = FALSE /\ done' \in {"none", "ok", "noack"}
    BY <2>1
  <2>6. done' = "ok" => acked
    BY <2>1
  <2> QED
    BY <2>2, <2>3, <2>4, <2>5, <2>6
<1>3. CASE ~(acked \/ tx + 1 >= MaxTx)
  <2>1. tx' = tx + 1 /\ heard' = arrived /\ UNCHANGED <<queue, done>>
    BY <1>3 DEF EndOfTx
  <2> QED
    BY <1>1, <1>3, <2>1
<1> QED
  BY <1>2, <1>3

LEMMA LostFrameStep ==
  ASSUME NEW cell \in Cells, Inv, LostFrame(cell)
  PROVE  Inv'
<1>1. queue # <<>> /\ EndOfTx(FALSE, heard) /\ left' = left \ {cell}
      /\ UNCHANGED <<child, par, rx, forgot>>
  BY DEF LostFrame, Transmits, Fits
<1>2. heard \in BOOLEAN
  BY DEF Inv, TypeOK
<1>3. /\ queue' \in Seq(Cells) /\ Len(queue') <= QueueMax
      /\ tx' \in 0 .. MaxTx - 1 /\ heard' \in BOOLEAN
      /\ done' \in {"none", "ok", "noack"}
      /\ heard' => heard
      /\ done' = "ok" => done = "ok"
      /\ \A i \in DOMAIN queue' : queue'[i] = "dedicated" =>
           \E k \in DOMAIN queue : queue[k] = "dedicated"
  BY <1>1, <1>2, EndOfTxKeeps
<1>4. Trusts' => Trusts
  BY <1>1, <1>3 DEF Trusts
<1> QED
  BY <1>1, <1>3, <1>4 DEF Inv, TypeOK, Unused, Reason

LEMMA DeliveredStep ==
  ASSUME NEW cell \in Cells, NEW acked \in BOOLEAN, Inv, Delivered(cell, acked)
  PROVE  Inv'
<1>1. queue # <<>> /\ EndOfTx(acked, TRUE) /\ left' = left \ {cell} /\ ~rx
      /\ rx' = ~heard /\ UNCHANGED <<par, forgot>>
      /\ child' = [child EXCEPT !.exhausted =
                     @ \/ (acked /\ par.known /\ par.entry.tokens = 0)]
  BY DEF Delivered, Transmits, Fits
<1>2. /\ queue' \in Seq(Cells) /\ Len(queue') <= QueueMax
      /\ tx' \in 0 .. MaxTx - 1 /\ heard' \in BOOLEAN
      /\ done' \in {"none", "ok", "noack"}
  BY <1>1, EndOfTxKeeps
<1>3. child' \in Child
  BY <1>1 DEF Inv, TypeOK, Child
<1>4. Reason'
  BY <1>1 DEF Inv, TypeOK, Reason
<1> QED
  BY <1>1, <1>2, <1>3, <1>4 DEF Inv, TypeOK, Unused

LEMMA IdleSlotStep ==
  ASSUME NEW cell \in Cells, Inv, IdleSlot(cell)
  PROVE  Inv'
BY DEF IdleSlot, Inv, TypeOK, Unused, Trusts, Reason

LEMMA NextSlotframeStep ==
  ASSUME Inv, NextSlotframe
  PROVE  Inv'
<1>1. /\ child' \in Child /\ par' \in Parent
      /\ child'.txThis = child.txThis /\ child'.txLast = child.txLast
      /\ par'.entry = par.entry /\ par'.known = par.known
  BY DEF NextSlotframe, Inv, TypeOK, Child, Parent
<1> QED
  BY <1>1 DEF NextSlotframe, Inv, TypeOK, Unused, Trusts, Reason

LEMMA Initially ==
  ASSUME Init
  PROVE  Inv
<1>1. child \in Child /\ par \in Parent
  BY NewEntryType DEF Init, Child, Parent, NoPrediction, Predictor
<1>2. ~Trusts /\ ~heard
  BY DEF Init, Trusts
<1>3. queue \in Seq(Cells) /\ Len(queue) <= QueueMax /\ tx \in 0 .. MaxTx - 1
  BY DEF Init
<1>4. Unused
  BY DEF Init, Unused
<1> QED
  BY <1>1, <1>2, <1>3, <1>4 DEF Init, Inv, TypeOK

-----------------------------------------------------------------------------
(* The theorem *)

\* A child uses the dedicated cell only on the strength of a packet that its parent
\* has counted or is about to, unless the parent has dropped it since: however
\* the counts, the slotframe boundaries and the predictions of the two differ
\* (ease.c).  Some of the mean must come from the last slotframe, and the parent
\* must not grant a quota of 0.
THEOREM TrustIsJustified ==
  ASSUME Rho < 100, 0 \notin Quotas
  PROVE  Spec => []TrustHasReason
<1>1. Init => Inv
  BY Initially
<1>2. Inv /\ [Next]_vars => Inv'
  <2> SUFFICES ASSUME Inv, [Next]_vars PROVE Inv'
    OBVIOUS
  <2>1. CASE Offer \/ Sent \/ ChildOther \/ Rebuild
    BY <2>1, OfferStep, SentStep, ChildOtherStep, RebuildStep
  <2>2. CASE Received \/ ParentOther \/ Added \/ Removed
    BY <2>2, ReceivedStep, ParentOtherStep, AddedStep, RemovedStep
  <2>3. ASSUME NEW cell \in Cells, Slot(cell) PROVE Inv'
    BY <2>3, IdleSlotStep, LostFrameStep, DeliveredStep DEF Slot
  <2>4. CASE NextSlotframe
    BY <2>4, NextSlotframeStep
  <2>5. CASE UNCHANGED vars
    BY <2>5 DEF vars, Inv, TypeOK, Unused, Trusts, Reason
  <2> QED
    BY <2>1, <2>2, <2>3, <2>4, <2>5 DEF Next
<1>3. Inv => TrustHasReason
  BY DEF Inv, TrustHasReason
<1> QED
  BY <1>1, <1>2, <1>3, PTL DEF Spec
=============================================================================
