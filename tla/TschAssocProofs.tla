--------------------------- MODULE TschAssocProofs ---------------------------
(***************************************************************************)
(* Keepalives and time sources, for any neighbors and any sizes of queues  *)
(* and rings, any number of parent switches and of neighbors that fall     *)
(* silent.                                                                 *)
(*                                                                         *)
(* A keepalive in the rings always has a poll of the process that reports  *)
(* it, and every report requests the next keepalive or the switch to       *)
(* another source, which does.  So the chain of keepalives could break     *)
(* only in one of the handlers; each ends with a request, a timer or a     *)
(* keepalive in the queue if it found one of them.                         *)
(*                                                                         *)
(* The handler goes through its two rings with recursive functions.  What  *)
(* it does to a node is stated with sets of nodes that every report, or    *)
(* every frame, leads back into.                                           *)
(***************************************************************************)
EXTENDS TschAssoc, FiniteSetTheorems, SequenceTheorems, TLAPS

USE AssocAssumption

Reports == [to : Nbr, ret : TxResults]
Frames == [src : Nbr, kind : FrameKinds]

-----------------------------------------------------------------------------
(* Induction over the natural numbers, from a fact of the library: the     *)
(* strict subset relation is well-founded on finite sets, such as 0 .. n.  *)

\* Every set of natural numbers that is not empty has a least element.
LEMMA LeastElement ==
  ASSUME NEW T \in SUBSET Nat, T # {}
  PROVE  \E x \in T : \A y \in T : x <= y
<1> DEFINE F == {0 .. n : n \in T}
<1>1. F # {}
  OBVIOUS
<1>2. F \subseteq FiniteSubsetsOf(Nat)
  <2>1. ASSUME NEW n \in T PROVE 0 .. n \in FiniteSubsetsOf(Nat)
    <3>1. n \in Nat /\ 0 \in Int /\ n \in Int
      OBVIOUS
    <3>2. IsFiniteSet(0 .. n)
      BY <3>1, FS_Interval
    <3> QED
      BY <3>1, <3>2 DEF FiniteSubsetsOf
  <2> QED
    BY <2>1
<1>3. IsWellFoundedOn(StrictSubsetOrdering(Nat), FiniteSubsetsOf(Nat))
  BY FS_StrictSubsetOrderingWellFounded
<1>4. PICK I \in F : \A J \in F : <<J, I>> \notin StrictSubsetOrdering(Nat)
  <2> HIDE DEF F
  <2> QED
    BY <1>1, <1>2, <1>3, WFMin
<1>5. PICK x \in T : I = 0 .. x
  OBVIOUS
<1>6. ASSUME NEW y \in T, y < x PROVE FALSE
  <2>1. 0 .. y \subseteq 0 .. x /\ 0 .. y # 0 .. x
    BY <1>6
  <2>2. 0 .. y \in SUBSET Nat /\ 0 .. x \in SUBSET Nat
    BY <1>6
  <2>3. <<0 .. y, 0 .. x>> \in StrictSubsetOrdering(Nat)
    BY <2>1, <2>2 DEF StrictSubsetOrdering
  <2> QED
    BY <1>4, <1>5, <2>3
<1> QED
  BY <1>6

\* A set with 0 and the successors of its numbers holds every number.
LEMMA Induction ==
  ASSUME NEW S, 0 \in S, \A n \in Nat : n \in S => n + 1 \in S
  PROVE  \A n \in Nat : n \in S
<1> SUFFICES ASSUME Nat \ S # {} PROVE FALSE
  OBVIOUS
<1>1. PICK x \in Nat \ S : \A y \in Nat \ S : x <= y
  BY LeastElement
<1>2. x # 0 /\ x - 1 \in Nat
  BY <1>1
<1>3. x - 1 \in S
  BY <1>1, <1>2
<1> QED
  BY <1>1, <1>2, <1>3

-----------------------------------------------------------------------------
(* The two rings                                                           *)

\* The recursive functions of AfterInput and AfterDone.
InputSteps(s) ==
  LET after[i \in 0 .. Len(s.input)] ==
        IF i = 0 THEN s ELSE RxInput(after[i - 1], s.input[i])
  IN after

DoneSteps(s) ==
  LET after[i \in 0 .. Len(s.done)] ==
        IF i = 0 THEN s ELSE KeepaliveSent(after[i - 1], s.done[i])
  IN after

\* g is such a function as far as index k.
UnfoldsInput(g, s, k) ==
  g = [i \in 0 .. k |-> IF i = 0 THEN s ELSE RxInput(g[i - 1], s.input[i])]

UnfoldsDone(g, s, k) ==
  g = [i \in 0 .. k |-> IF i = 0 THEN s ELSE KeepaliveSent(g[i - 1], s.done[i])]

LEMMA InputUnfolds ==
  ASSUME NEW s, Len(s.input) \in Nat
  PROVE  UnfoldsInput(InputSteps(s), s, Len(s.input))
<1> DEFINE S == {k \in Nat : \E g : UnfoldsInput(g, s, k)}
<1>1. 0 \in S
  <2>1. UnfoldsInput([i \in 0 .. 0 |-> s], s, 0)
    BY DEF UnfoldsInput
  <2> QED
    BY <2>1
<1>2. ASSUME NEW k \in Nat, k \in S PROVE k + 1 \in S
  <2>1. PICK g : UnfoldsInput(g, s, k)
    BY <1>2
  <2> DEFINE h == [i \in 0 .. k + 1 |->
                     IF i = k + 1 THEN RxInput(g[k], s.input[k + 1]) ELSE g[i]]
  <2>2. ASSUME NEW i \in 0 .. k + 1
        PROVE  h[i] = IF i = 0 THEN s ELSE RxInput(h[i - 1], s.input[i])
    BY <2>1 DEF UnfoldsInput
  <2>3. UnfoldsInput(h, s, k + 1)
    BY <2>2 DEF UnfoldsInput
  <2> QED
    BY <2>3
<1> HIDE DEF S
<1>3. Len(s.input) \in S
  BY <1>1, <1>2, Induction
<1>4. PICK g : UnfoldsInput(g, s, Len(s.input))
  BY <1>3 DEF S
<1> QED
  BY <1>4 DEF InputSteps, UnfoldsInput

LEMMA DoneUnfolds ==
  ASSUME NEW s, Len(s.done) \in Nat
  PROVE  UnfoldsDone(DoneSteps(s), s, Len(s.done))
<1> DEFINE S == {k \in Nat : \E g : UnfoldsDone(g, s, k)}
<1>1. 0 \in S
  <2>1. UnfoldsDone([i \in 0 .. 0 |-> s], s, 0)
    BY DEF UnfoldsDone
  <2> QED
    BY <2>1
<1>2. ASSUME NEW k \in Nat, k \in S PROVE k + 1 \in S
  <2>1. PICK g : UnfoldsDone(g, s, k)
    BY <1>2
  <2> DEFINE h == [i \in 0 .. k + 1 |->
                     IF i = k + 1 THEN KeepaliveSent(g[k], s.done[k + 1]) ELSE g[i]]
  <2>2. ASSUME NEW i \in 0 .. k + 1
        PROVE  h[i] = IF i = 0 THEN s ELSE KeepaliveSent(h[i - 1], s.done[i])
    BY <2>1 DEF UnfoldsDone
  <2>3. UnfoldsDone(h, s, k + 1)
    BY <2>2 DEF UnfoldsDone
  <2> QED
    BY <2>3
<1> HIDE DEF S
<1>3. Len(s.done) \in S
  BY <1>1, <1>2, Induction
<1>4. PICK g : UnfoldsDone(g, s, Len(s.done))
  BY <1>3 DEF S
<1> QED
  BY <1>4 DEF DoneSteps, UnfoldsDone

\* What every frame of the ring preserves, the handling of all of them does.
LEMMA InputInduction ==
  ASSUME NEW s, s.input \in Seq(Frames), NEW S, s \in S,
         \A t \in S, frame \in Frames : RxInput(t, frame) \in S
  PROVE  AfterInput(s) \in S
<1> DEFINE n == Len(s.input)
           f == InputSteps(s)
           K == {k \in Nat : k <= n => f[k] \in S}
<1>1. n \in Nat /\ \A i \in 1 .. n : s.input[i] \in Frames
  OBVIOUS
<1>2. f = [i \in 0 .. n |-> IF i = 0 THEN s ELSE RxInput(f[i - 1], s.input[i])]
  BY <1>1, InputUnfolds DEF UnfoldsInput
<1>3. AfterInput(s) = f[n]
  BY DEF AfterInput, InputSteps
<1> HIDE DEF f, n
<1>4. 0 \in K
  BY <1>1, <1>2
<1>5. ASSUME NEW k \in Nat, k \in K PROVE k + 1 \in K
  <2> SUFFICES ASSUME k + 1 <= n PROVE f[k + 1] \in S
    BY <1>1
  <2>1. f[k + 1] = RxInput(f[k], s.input[k + 1])
    BY <1>1, <1>2
  <2>2. f[k] \in S /\ s.input[k + 1] \in Frames
    BY <1>1, <1>5
  <2> QED
    BY <2>1, <2>2
<1>6. n \in K
  <2> HIDE DEF K
  <2> QED
    BY <1>1, <1>4, <1>5, Induction
<1> QED
  BY <1>1, <1>3, <1>6

\* The same for the reports; and what each of them establishes holds after the
\* last, if there is one.
LEMMA DoneInduction ==
  ASSUME NEW s, s.done \in Seq(Reports), NEW S, NEW T, T \subseteq S, s \in S,
         \A t \in S, i \in 1 .. Len(s.done) : KeepaliveSent(t, s.done[i]) \in T
  PROVE  /\ AfterDone(s) \in S
         /\ s.done # <<>> => AfterDone(s) \in T
         /\ s.done = <<>> => AfterDone(s) = s
<1> DEFINE n == Len(s.done)
           f == DoneSteps(s)
           K == {k \in Nat : k <= n => f[k] \in S /\ (k > 0 => f[k] \in T)}
<1>1. n \in Nat /\ (s.done = <<>> <=> n = 0)
  OBVIOUS
<1>2. f = [i \in 0 .. n |-> IF i = 0 THEN s ELSE KeepaliveSent(f[i - 1], s.done[i])]
  BY <1>1, DoneUnfolds DEF UnfoldsDone
<1>3. AfterDone(s) = f[n]
  BY DEF AfterDone, DoneSteps
<1>4. \A t \in S, i \in 1 .. n : KeepaliveSent(t, s.done[i]) \in T
  OBVIOUS
<1> HIDE DEF f, n
<1>5. f[0] = s /\ 0 \in K
  BY <1>1, <1>2
<1>6. ASSUME NEW k \in Nat, k \in K PROVE k + 1 \in K
  <2> SUFFICES ASSUME k + 1 <= n PROVE f[k + 1] \in T
    BY <1>1
  <2>1. f[k + 1] = KeepaliveSent(f[k], s.done[k + 1])
    BY <1>1, <1>2
  <2>2. f[k] \in S /\ k + 1 \in 1 .. n
    BY <1>1, <1>6
  <2> QED
    BY <1>4, <2>1, <2>2
<1>7. n \in K
  <2> HIDE DEF K
  <2> QED
    BY <1>1, <1>5, <1>6, Induction
<1> QED
  BY <1>1, <1>3, <1>5, <1>7

-----------------------------------------------------------------------------
(* The operators the handlers are built from                               *)

\* Nodes whose keepalives are timed exactly while there is a time source.
Timed == {t \in Nodes : t.kaOn = (t.ts # NoNbr)}

\* The next keepalive is requested, and the process polled for it.
Requested(t) == t.status # "unchanged" /\ t.pending

\* t differs from s neither in its rings nor by an association.
Along(s, t) == t.done = s.done /\ t.input = s.input /\ (t.assoc => s.assoc)

LEMMA ScheduleFacts ==
  ASSUME NEW s \in Timed, NEW t, t \in {Schedule(s, FALSE), Schedule(s, TRUE)}
  PROVE  /\ t \in Timed /\ Requested(t) /\ Along(s, t)
         /\ t.assoc = s.assoc /\ t.ts = s.ts
<1> DEFINE send(b) == IF b \/ s.status = "send" THEN "send" ELSE "schedule"
           u(c) == [s EXCEPT !.pending = TRUE, !.status = c]
<1>1. s \in Nodes /\ s.kaOn = (s.ts # NoNbr)
  BY DEF Timed
<1>2. PICK c \in {"send", "schedule"} : t = u(c)
  <2>1. Schedule(s, FALSE) = u(send(FALSE)) /\ Schedule(s, TRUE) = u(send(TRUE))
    BY <1>1 DEF Schedule, Nodes
  <2>2. send(FALSE) \in {"send", "schedule"} /\ send(TRUE) \in {"send", "schedule"}
    OBVIOUS
  <2> HIDE DEF send, u
  <2> QED
    BY <2>1, <2>2
<1>3. u(c) \in Nodes /\ u(c).kaOn = s.kaOn /\ u(c).ts = s.ts /\ u(c).assoc = s.assoc
      /\ u(c).pending /\ u(c).status = c /\ u(c).done = s.done /\ u(c).input = s.input
  BY <1>1 DEF Nodes
<1> HIDE DEF u
<1> QED
  BY <1>1, <1>2, <1>3 DEF Timed, Requested, Along

LEMMA DisassociateFacts ==
  ASSUME NEW s \in Timed
  PROVE  /\ Disassociate(s) \in Timed /\ Along(s, Disassociate(s))
         /\ Disassociate(s).ts = s.ts
         /\ Disassociate(s).status = s.status
         /\ Disassociate(s).pending = s.pending
         /\ Disassociate(s).queue = s.queue
         /\ Disassociate(s).timer = s.timer
         /\ ~Disassociate(s).assoc
BY DEF Disassociate, Timed, Nodes, Along

LEMMA UpdateTimeSourceFacts ==
  ASSUME NEW s \in Timed, NEW new \in Nbr \cup {NoNbr}
  PROVE  /\ UpdateTimeSource(s, new) \in Timed /\ Along(s, UpdateTimeSource(s, new))
         /\ UpdateTimeSource(s, new).ts = new
         /\ UpdateTimeSource(s, new) = s \/ Requested(UpdateTimeSource(s, new))
         /\ UpdateTimeSource(s, new).assoc = s.assoc
<1>1. CASE new = s.ts
  BY <1>1 DEF UpdateTimeSource, Along
<1>2. CASE new # s.ts
  <2> DEFINE t == [s EXCEPT !.ts = new, !.kaOn = new # NoNbr,
                            !.queue = [n \in Nbr |-> IF n = s.ts THEN 0 ELSE @[n]]]
  <2>1. t \in Timed /\ t.ts = new /\ t.assoc = s.assoc /\ Along(s, t)
    <3>1. [n \in Nbr |-> IF n = s.ts THEN 0 ELSE s.queue[n]] \in [Nbr -> 0 .. QueueMax]
      BY DEF Timed, Nodes
    <3>2. t = [s EXCEPT !.ts = new, !.kaOn = new # NoNbr,
                        !.queue = [n \in Nbr |-> IF n = s.ts THEN 0 ELSE s.queue[n]]]
      BY DEF Timed, Nodes
    <3> HIDE DEF t
    <3> DEFINE q == [n \in Nbr |-> IF n = s.ts THEN 0 ELSE s.queue[n]]
    <3>3. t = [s EXCEPT !.ts = new, !.kaOn = new # NoNbr, !.queue = q]
      BY <3>2
    <3>4. q \in [Nbr -> 0 .. QueueMax]
      BY <3>1
    <3> HIDE DEF q
    <3> QED
      BY <3>3, <3>4 DEF Timed, Nodes, Along
  <2> DEFINE u == UpdateTimeSource(s, new)
  <2>2. u = Schedule(t, FALSE)
    BY <1>2 DEF UpdateTimeSource
  <2> HIDE DEF t, u
  <2>3. u \in Timed /\ Requested(u) /\ Along(t, u) /\ u.ts = t.ts /\ u.assoc = t.assoc
    BY <2>1, <2>2, ScheduleFacts
  <2>4. Along(s, u)
    BY <2>1, <2>3 DEF Along
  <2> QED
    BY <2>1, <2>3, <2>4 DEF u
<1> QED
  BY <1>1, <1>2

\* Every report of a keepalive requests the next one.  It replaces a time source
\* only if this is the one that did not acknowledge.
LEMMA KeepaliveSentFacts ==
  ASSUME NEW s \in Timed, NEW ka \in Reports
  PROVE  /\ KeepaliveSent(s, ka) \in Timed /\ Requested(KeepaliveSent(s, ka))
         /\ Along(s, KeepaliveSent(s, ka))
         /\ \/ KeepaliveSent(s, ka).ts = s.ts
            \/ s.ts = NoNbr
            \/ ka = [to |-> s.ts, ret |-> "NOACK"]
<1>1. CASE ka.ret # "NOACK" \/ s.ts \notin {NoNbr, ka.to}
  <2>1. KeepaliveSent(s, ka) = Schedule(s, FALSE)
    BY <1>1 DEF KeepaliveSent, Resynchronize
  <2> QED
    BY <2>1, ScheduleFacts
<1>2. CASE ka.ret = "NOACK" /\ s.ts \in {NoNbr, ka.to} /\ s.lastEb = NoNbr
  <2> DEFINE t == IF s.synced THEN s ELSE Disassociate(s)
  <2> DEFINE u == KeepaliveSent(s, ka)
  <2>1. u = Schedule(t, FALSE)
    BY <1>2 DEF KeepaliveSent, Resynchronize
  <2>2. t \in Timed /\ t.ts = s.ts /\ Along(s, t)
    BY DisassociateFacts DEF Along
  <2> HIDE DEF t, u
  <2>3. u \in Timed /\ Requested(u) /\ Along(t, u) /\ u.ts = t.ts
    BY <2>1, <2>2, ScheduleFacts
  <2>4. Along(s, u)
    BY <2>2, <2>3 DEF Along
  <2> QED
    BY <2>2, <2>3, <2>4 DEF u
<1>3. CASE ka.ret = "NOACK" /\ s.ts \in {NoNbr, ka.to} /\ s.lastEb # NoNbr
  <2> DEFINE t == UpdateTimeSource(s, s.lastEb)
             u == [t EXCEPT !.lastEb = NoNbr]
             r == KeepaliveSent(s, ka)
  <2>1. r = Schedule(u, TRUE)
    BY <1>3 DEF KeepaliveSent, Resynchronize
  <2>2. t \in Timed /\ Along(s, t)
    BY UpdateTimeSourceFacts DEF Timed, Nodes
  <2> HIDE DEF t
  <2>3. u \in Timed /\ Along(s, u)
    BY <2>2 DEF Timed, Nodes, Along
  <2> HIDE DEF u, r
  <2>4. s.ts = NoNbr \/ ka = [to |-> s.ts, ret |-> "NOACK"]
    BY <1>3 DEF Reports
  <2>5. r \in Timed /\ Requested(r) /\ Along(u, r)
    BY <2>1, <2>3, ScheduleFacts
  <2>6. Along(s, r)
    BY <2>3, <2>5 DEF Along
  <2> QED
    BY <2>4, <2>5, <2>6 DEF r
<1> QED
  BY <1>1, <1>2, <1>3

\* Frames change neither the source nor what there is of keepalives.
LEMMA RxInputFacts ==
  ASSUME NEW s \in Timed, NEW frame \in Frames
  PROVE  /\ RxInput(s, frame) \in Timed /\ Along(s, RxInput(s, frame))
         /\ RxInput(s, frame).ts = s.ts
         /\ RxInput(s, frame).status = s.status
         /\ RxInput(s, frame).pending = s.pending
         /\ RxInput(s, frame).queue = s.queue
         /\ RxInput(s, frame).timer = s.timer
<1>1. CASE frame.kind = "data"
  BY <1>1 DEF RxInput, Along
<1>2. CASE frame.kind # "data" /\ frame.src # s.ts
  <2>1. RxInput(s, frame) = [s EXCEPT !.lastEb = frame.src] /\ frame.src \in Nbr
    BY <1>2 DEF RxInput, EbInput, Frames
  <2> QED
    BY <2>1 DEF Timed, Nodes, Along
<1>3. CASE frame.kind # "data" /\ frame.src = s.ts
  <2>1. RxInput(s, frame) = IF frame.kind = "bad EB" THEN Disassociate(s) ELSE s
    BY <1>3 DEF RxInput, EbInput
  <2> QED
    BY <2>1, DisassociateFacts DEF Along
<1> QED
  BY <1>1, <1>2, <1>3

\* A keepalive that is due is queued for the source, or requested again.
LEMMA KeepaliveSendFacts ==
  ASSUME NEW s \in Timed
  PROVE  /\ KeepaliveSend(s) \in Timed /\ Along(s, KeepaliveSend(s))
         /\ KeepaliveSend(s).ts = s.ts /\ KeepaliveSend(s).assoc = s.assoc
         /\ \/ Requested(KeepaliveSend(s))
            \/ /\ KeepaliveSend(s).status = s.status
               /\ KeepaliveSend(s).pending = s.pending
         /\ s.assoc /\ s.ts # NoNbr =>
              \/ Requested(KeepaliveSend(s))
              \/ \E n \in Nbr : KeepaliveSend(s).queue[n] > 0
<1> DEFINE t == [s EXCEPT !.timer = FALSE]
           u == [t EXCEPT !.queue[s.ts] = @ + 1]
<1>1. /\ t \in Timed /\ Along(s, t)
      /\ t.ts = s.ts
      /\ t.assoc = s.assoc
      /\ t.status = s.status
      /\ t.pending = s.pending
      /\ t.queue = s.queue
  BY DEF Timed, Nodes, Along
<1> HIDE DEF t
<1>2. CASE ~s.assoc \/ s.ts = NoNbr
  <2>1. KeepaliveSend(s) = t
    BY <1>2 DEF KeepaliveSend, t
  <2> QED
    BY <1>1, <1>2, <2>1
<1>3. CASE s.assoc /\ s.ts # NoNbr /\ s.queue[s.ts] < QueueMax
  <2>1. KeepaliveSend(s) = u
    BY <1>3 DEF KeepaliveSend, t
  <2>2. s.ts \in Nbr /\ t.queue \in [Nbr -> 0 .. QueueMax] /\ t.queue[s.ts] < QueueMax
    BY <1>1, <1>3 DEF Timed, Nodes
  <2> DEFINE q == [t.queue EXCEPT ![s.ts] = @ + 1]
  <2> q \in [Nbr -> 0 .. QueueMax] /\ q[s.ts] > 0
    BY <2>2
  <2> u = [t EXCEPT !.queue = q]
    BY <1>1 DEF Timed, Nodes
  <2> HIDE DEF q, u
  <2>3. /\ u \in Timed /\ Along(t, u) /\ u.queue[s.ts] > 0
        /\ u.ts = t.ts
        /\ u.assoc = t.assoc
        /\ u.status = t.status
        /\ u.pending = t.pending
    BY <1>1, <2>2 DEF Timed, Nodes, Along
  <2> QED
    BY <1>1, <2>1, <2>2, <2>3 DEF Along
<1>4. CASE s.assoc /\ s.ts # NoNbr /\ ~(s.queue[s.ts] < QueueMax)
  <2> DEFINE r == KeepaliveSend(s)
  <2>1. r = Schedule(t, FALSE)
    BY <1>4 DEF KeepaliveSend, t
  <2> HIDE DEF r
  <2>2. r \in Timed /\ Requested(r) /\ Along(t, r) /\ r.ts = t.ts /\ r.assoc = t.assoc
    BY <1>1, <2>1, ScheduleFacts
  <2>3. Along(s, r)
    BY <1>1, <2>2 DEF Along
  <2> QED
    BY <1>1, <2>2, <2>3 DEF r
<1> QED
  BY <1>2, <1>3, <1>4

\* A request is turned into a timer or a keepalive; there is one left only if the
\* process has been polled for it.
LEMMA KeepaliveProcessPendingFacts ==
  ASSUME NEW s \in Timed
  PROVE  LET t == KeepaliveProcessPending(s)
         IN  /\ t \in Timed /\ Along(s, t) /\ t.ts = s.ts /\ t.assoc = s.assoc
             /\ s.status = "unchanged" => t = s
             /\ s.status # "unchanged" => t.pending \/ t.status = "unchanged"
             /\ s.status # "unchanged" /\ s.assoc /\ s.ts # NoNbr =>
                  Requested(t) \/ t.timer \/ \E n \in Nbr : t.queue[n] > 0
<1> DEFINE u == [s EXCEPT !.status = "unchanged"]
           r == KeepaliveProcessPending(s)
<1>1. /\ u \in Timed /\ Along(s, u) /\ u.status = "unchanged"
      /\ u.ts = s.ts /\ u.assoc = s.assoc /\ s.kaOn = (s.ts # NoNbr)
  BY DEF Timed, Nodes, Along
<1>2. CASE s.status = "unchanged"
  <2>1. r = s
    BY <1>2 DEF KeepaliveProcessPending
  <2> QED
    BY <1>2, <2>1 DEF Along
<1>3. CASE s.assoc /\ s.status = "send"
  <2>1. r = KeepaliveSend(u)
    BY <1>3 DEF KeepaliveProcessPending
  <2> HIDE DEF u, r
  <2>2. /\ r \in Timed /\ Along(u, r) /\ r.ts = u.ts /\ r.assoc = u.assoc
        /\ Requested(r) \/ (r.status = u.status /\ r.pending = u.pending)
        /\ u.assoc /\ u.ts # NoNbr =>
             Requested(r) \/ \E n \in Nbr : r.queue[n] > 0
    BY <1>1, <2>1, KeepaliveSendFacts
  <2>3. Along(s, r)
    BY <1>1, <2>2 DEF Along
  <2>4. r.pending \/ r.status = "unchanged"
    BY <1>1, <2>2 DEF Requested
  <2>5. s.status # "unchanged" /\ s.assoc /\ s.ts # NoNbr =>
          Requested(r) \/ r.timer \/ \E n \in Nbr : r.queue[n] > 0
    BY <1>1, <2>2
  <2> QED
    BY <1>1, <1>3, <2>2, <2>3, <2>4, <2>5 DEF r
<1>4. CASE s.status # "unchanged" /\ ~(s.assoc /\ s.status = "send")
  <2>1. r = [u EXCEPT !.timer = s.assoc /\ s.kaOn]
    BY <1>4 DEF KeepaliveProcessPending
  <2>2. /\ r \in Timed /\ Along(u, r) /\ r.status = u.status
        /\ r.ts = u.ts /\ r.assoc = u.assoc /\ r.timer = (s.assoc /\ s.kaOn)
    BY <1>1, <2>1 DEF Timed, Nodes, Along
  <2> HIDE DEF u, r
  <2>3. Along(s, r)
    BY <1>1, <2>2 DEF Along
  <2> QED
    BY <1>1, <1>4, <2>2, <2>3 DEF r
<1> QED
  BY <1>2, <1>3, <1>4

-----------------------------------------------------------------------------
(* The pending events process                                              *)

\* What the received frames leave of a node.
LEMMA InputFacts ==
  ASSUME NEW s \in Timed
  PROVE  LET t == AfterInput(s)
         IN  /\ t \in Timed /\ Along(s, t)
             /\ t.ts = s.ts /\ t.status = s.status /\ t.pending = s.pending
             /\ t.queue = s.queue /\ t.timer = s.timer
<1> DEFINE S == {t \in Timed : /\ Along(s, t)
                               /\ t.ts = s.ts /\ t.status = s.status
                               /\ t.pending = s.pending
                               /\ t.queue = s.queue /\ t.timer = s.timer}
<1>1. s \in S /\ s.input \in Seq(Frames)
  BY DEF Along, Timed, Nodes, Frames
<1>2. ASSUME NEW t \in S, NEW frame \in Frames PROVE RxInput(t, frame) \in S
  <2> DEFINE u == RxInput(t, frame)
  <2>1. /\ u \in Timed /\ Along(t, u)
        /\ u.ts = t.ts /\ u.status = t.status /\ u.pending = t.pending
        /\ u.queue = t.queue /\ u.timer = t.timer
    BY RxInputFacts
  <2> HIDE DEF u
  <2>2. u \in S
    BY <2>1 DEF Along
  <2> QED
    BY <2>2 DEF u
<1> HIDE DEF S
<1>3. AfterInput(s) \in S
  BY <1>1, <1>2, InputInduction
<1> QED
  BY <1>3 DEF S

\* What the reports leave of it.
LEMMA DoneFacts ==
  ASSUME NEW s \in Timed
  PROVE  LET t == AfterDone(s)
         IN  /\ t \in Timed /\ Along(s, t)
             /\ IF s.done = <<>> THEN t = s ELSE Requested(t)
             /\ \/ t.ts = s.ts
                \/ s.ts = NoNbr
                \/ \E i \in 1 .. Len(s.done) :
                     s.done[i] = [to |-> s.ts, ret |-> "NOACK"]
<1> DEFINE Failed == \E i \in 1 .. Len(s.done) :
                       s.done[i] = [to |-> s.ts, ret |-> "NOACK"]
           S == {t \in Timed : Along(s, t) /\ (t.ts = s.ts \/ s.ts = NoNbr \/ Failed)}
           T == {t \in S : Requested(t)}
<1>1. s \in S /\ s.done \in Seq(Reports)
  BY DEF Along, Timed, Nodes, Reports
<1>2. ASSUME NEW t \in S, NEW i \in 1 .. Len(s.done)
      PROVE  KeepaliveSent(t, s.done[i]) \in T
  <2> DEFINE u == KeepaliveSent(t, s.done[i])
  <2>1. s.done[i] \in Reports
    BY <1>1
  <2>2. /\ u \in Timed /\ Along(t, u) /\ Requested(u)
        /\ \/ u.ts = t.ts \/ t.ts = NoNbr
           \/ s.done[i] = [to |-> t.ts, ret |-> "NOACK"]
    BY <2>1, KeepaliveSentFacts
  <2> HIDE DEF u
  <2>3. Along(s, u)
    BY <2>2 DEF Along
  <2>4. u.ts = s.ts \/ s.ts = NoNbr \/ Failed
    BY <2>2
  <2>5. u \in T
    BY <2>2, <2>3, <2>4
  <2> QED
    BY <2>5 DEF u
<1>3. T \subseteq S
  OBVIOUS
<1> HIDE DEF S, T
<1>4. /\ AfterDone(s) \in S
      /\ s.done # <<>> => AfterDone(s) \in T
      /\ s.done = <<>> => AfterDone(s) = s
  BY <1>1, <1>2, <1>3, DoneInduction
<1> QED
  BY <1>4 DEF S, T

\* What is left of a keepalive when the handler has ended, wherever it was before.
Alive(t) ==
  Requested(t) \/ t.timer \/ \E n \in Nbr : t.queue[n] > 0

LEMMA PendingEventsFacts ==
  ASSUME NEW s \in Timed
  PROVE  LET t == PendingEvents(s)
         IN  /\ t \in Timed /\ t.done = <<>> /\ t.input = <<>> /\ (t.assoc => s.assoc)
             /\ t.pending \/ t.status = "unchanged"
             /\ t.assoc /\ t.ts # NoNbr =>
                  \/ Alive(t)
                  \/ /\ s.done = <<>> /\ s.status = "unchanged" /\ t.ts = s.ts
                     /\ t.timer = s.timer /\ t.queue = s.queue
             /\ \/ t.ts = s.ts
                \/ s.ts = NoNbr
                \/ \E i \in 1 .. Len(s.done) :
                     s.done[i] = [to |-> s.ts, ret |-> "NOACK"]
<1> DEFINE rx == AfterInput(s)
           tx == AfterDone(rx)
           u == [tx EXCEPT !.input = <<>>, !.done = <<>>]
           t == PendingEvents(s)
<1>1. /\ rx \in Timed /\ Along(s, rx)
      /\ rx.ts = s.ts /\ rx.status = s.status /\ rx.pending = s.pending
      /\ rx.queue = s.queue /\ rx.timer = s.timer
  BY InputFacts
<1> HIDE DEF rx
<1>2. /\ tx \in Timed /\ Along(rx, tx)
      /\ IF rx.done = <<>> THEN tx = rx ELSE Requested(tx)
      /\ \/ tx.ts = rx.ts
         \/ rx.ts = NoNbr
         \/ \E i \in 1 .. Len(rx.done) :
              rx.done[i] = [to |-> rx.ts, ret |-> "NOACK"]
  BY <1>1, DoneFacts
<1> HIDE DEF tx
<1>3. /\ u \in Timed /\ u.done = <<>> /\ u.input = <<>>
      /\ u.ts = tx.ts /\ u.status = tx.status /\ u.pending = tx.pending
      /\ u.queue = tx.queue /\ u.timer = tx.timer /\ u.assoc = tx.assoc
  <2>1. <<>> \in Seq([to : Nbr, ret : TxResults])
        /\ <<>> \in Seq([src : Nbr, kind : FrameKinds])
    OBVIOUS
  <2> QED
    BY <1>2, <2>1 DEF Timed, Nodes
<1>4. t = KeepaliveProcessPending(u)
  BY DEF PendingEvents, tx, rx
<1> HIDE DEF u, t
<1>5. /\ t \in Timed /\ Along(u, t) /\ t.ts = u.ts /\ t.assoc = u.assoc
      /\ u.status = "unchanged" => t = u
      /\ u.status # "unchanged" => t.pending \/ t.status = "unchanged"
      /\ u.status # "unchanged" /\ u.assoc /\ u.ts # NoNbr => Alive(t)
  BY <1>3, <1>4, KeepaliveProcessPendingFacts DEF Alive
<1>6. t.done = <<>> /\ t.input = <<>> /\ (t.assoc => s.assoc)
  BY <1>1, <1>2, <1>3, <1>5 DEF Along
<1>7. t.pending \/ t.status = "unchanged"
  BY <1>5
<1>8. ASSUME t.assoc, t.ts # NoNbr
      PROVE  \/ Alive(t)
             \/ /\ s.done = <<>> /\ s.status = "unchanged" /\ t.ts = s.ts
                /\ t.timer = s.timer /\ t.queue = s.queue
  BY <1>1, <1>2, <1>3, <1>5, <1>8 DEF Along, Requested
<1>9. \/ t.ts = s.ts
      \/ s.ts = NoNbr
      \/ \E i \in 1 .. Len(s.done) : s.done[i] = [to |-> s.ts, ret |-> "NOACK"]
  BY <1>1, <1>2, <1>3, <1>5 DEF Along
<1> QED
  BY <1>5, <1>6, <1>7, <1>8, <1>9 DEF t

-----------------------------------------------------------------------------
(* The invariant                                                           *)

\* What is left to the process, it has been polled for.
Polled(t) ==
  \/ t.pending
  \/ t.status = "unchanged" /\ t.done = <<>> /\ t.input = <<>>

\* There is room in the rings, also for the report of the keepalive in the air, a.
Fits(t, a) ==
  /\ Len(t.input) <= RingMax
  /\ Len(t.done) + (IF a = NoNbr THEN 0 ELSE 1) <= RingMax

GoesOn(t, a) ==
  t.assoc /\ t.ts # NoNbr =>
    Alive(t) \/ a # NoNbr \/ (t.done # <<>> /\ t.pending)

Good(t, a) == t \in Timed /\ Polled(t) /\ Fits(t, a) /\ GoesOn(t, a)

Inv ==
  /\ Good(node, air)
  /\ chain \in BOOLEAN /\ age \in {"fresh", "old"}
  /\ air \in Nbr \cup {NoNbr}
  /\ dead \subseteq Nbr

\* A node with a request is good if its rings are.
LEMMA RequestedIsGood ==
  ASSUME NEW a, NEW s, Good(s, a), NEW t \in Timed, Requested(t),
         t.done = s.done, t.input = s.input
  PROVE  Good(t, a)
BY DEF Good, Polled, Fits, GoesOn, Alive, Requested

LEMMA DisassociateGood ==
  ASSUME NEW a, NEW s, Good(s, a)
  PROVE  Good(Disassociate(s), a)
<1> DEFINE t == Disassociate(s)
<1>1. /\ t \in Timed /\ Along(s, t) /\ ~t.assoc
      /\ t.status = s.status /\ t.pending = s.pending
  BY DisassociateFacts DEF Good
<1> HIDE DEF t
<1>2. Good(t, a)
  BY <1>1 DEF Good, Polled, Fits, GoesOn, Along
<1> QED
  BY <1>2 DEF t

LEMMA UpdateTimeSourceGood ==
  ASSUME NEW a, NEW s, Good(s, a), NEW new \in Nbr \cup {NoNbr}
  PROVE  Good(UpdateTimeSource(s, new), a)
<1> DEFINE t == UpdateTimeSource(s, new)
<1>1. t \in Timed /\ Along(s, t) /\ (t = s \/ Requested(t))
  BY UpdateTimeSourceFacts DEF Good
<1> HIDE DEF t
<1>2. Good(t, a)
  BY <1>1, RequestedIsGood DEF Along
<1> QED
  BY <1>2 DEF t

\* After association the first keepalive is requested.
LEMMA AssociateGood ==
  ASSUME NEW a, NEW s, Good(s, a), NEW src \in Nbr
  PROVE  Good(Associate(s, src), a)
<1> DEFINE t == UpdateTimeSource(s, src)
           u == [t EXCEPT !.assoc = TRUE, !.synced = FALSE, !.phase = "run",
                          !.polled = FALSE]
           v == Associate(s, src)
<1>1. t \in Timed /\ Along(s, t)
  BY UpdateTimeSourceFacts DEF Good
<1> HIDE DEF t
<1>2. u \in Timed /\ u.done = t.done /\ u.input = t.input
  BY <1>1 DEF Timed, Nodes
<1>3. v = Schedule(u, FALSE)
  BY DEF Associate, u, t
<1> HIDE DEF u, v
<1>4. v \in Timed /\ Requested(v) /\ Along(u, v)
  BY <1>2, <1>3, ScheduleFacts
<1>5. Good(v, a)
  BY <1>1, <1>2, <1>4, RequestedIsGood DEF Along
<1> QED
  BY <1>5 DEF v

\* A reset leaves no time source and nothing to report.
LEMMA ResetGood ==
  ASSUME NEW a, NEW s, Good(s, a)
  PROVE  Good(Reset(s), a)
<1> DEFINE t == PendingEvents(s)
           u == UpdateTimeSource(t, NoNbr)
           v == Reset(s)
<1>1. t \in Timed /\ t.done = <<>> /\ t.input = <<>>
  BY PendingEventsFacts DEF Good
<1> HIDE DEF t
<1>2. u \in Timed /\ u.done = <<>> /\ u.input = <<>> /\ u.ts = NoNbr
  BY <1>1, UpdateTimeSourceFacts DEF Along
<1> DEFINE q == [n \in Nbr |-> 0]
           b == u.pending \/ \E n \in Nbr : t.queue[n] > 0
<1>3. v = [u EXCEPT !.queue = q, !.lastEb = NoNbr, !.status = "unchanged",
                    !.pending = b]
  BY <1>2 DEF Reset, u, t, Timed, Nodes
<1> HIDE DEF u, v
<1>4. q \in [Nbr -> 0 .. QueueMax] /\ b \in BOOLEAN
  BY <1>2 DEF Timed, Nodes
<1> HIDE DEF q, b
<1>5. /\ v \in Timed /\ v.done = <<>> /\ v.input = <<>>
      /\ v.status = "unchanged" /\ v.ts = NoNbr
  BY <1>2, <1>3, <1>4 DEF Timed, Nodes
<1>6. Len(s.done) \in Nat /\ RingMax \in Nat \ {0}
  BY DEF Good, Timed, Nodes
<1>7. Good(v, a)
  BY <1>5, <1>6 DEF Good, Polled, Fits, GoesOn
<1> QED
  BY <1>7 DEF v

\* The handler ends with a request, a timer or a keepalive in the queue, unless it
\* found nothing to do for keepalives.
LEMMA HandlePendingGood ==
  ASSUME NEW a, NEW s, Good(s, a)
  PROVE  Good(PendingEvents([s EXCEPT !.pending = FALSE]), a)
<1> DEFINE r == [s EXCEPT !.pending = FALSE]
           t == PendingEvents(r)
<1>1. /\ r \in Timed /\ r.done = s.done /\ r.status = s.status
      /\ r.ts = s.ts /\ r.timer = s.timer /\ r.queue = s.queue /\ r.assoc = s.assoc
  BY DEF Good, Timed, Nodes
<1> HIDE DEF r
<1>2. /\ t \in Timed /\ t.done = <<>> /\ t.input = <<>> /\ (t.assoc => r.assoc)
      /\ t.pending \/ t.status = "unchanged"
      /\ t.assoc /\ t.ts # NoNbr =>
           \/ Alive(t)
           \/ /\ r.done = <<>> /\ r.status = "unchanged" /\ t.ts = r.ts
              /\ t.timer = r.timer /\ t.queue = r.queue
  BY <1>1, PendingEventsFacts
<1> HIDE DEF t
<1>3. Polled(t) /\ Fits(t, a)
  BY <1>2 DEF Polled, Fits
<1>4. GoesOn(t, a)
  BY <1>1, <1>2 DEF Good, GoesOn, Alive, Requested
<1> QED
  BY <1>2, <1>3, <1>4 DEF Good, t, r

LEMMA KeepaliveSendGood ==
  ASSUME NEW a, NEW s, Good(s, a)
  PROVE  Good(KeepaliveSend(s), a)
<1> DEFINE t == KeepaliveSend(s)
<1>1. /\ t \in Timed /\ Along(s, t) /\ t.ts = s.ts /\ t.assoc = s.assoc
      /\ \/ Requested(t)
         \/ t.status = s.status /\ t.pending = s.pending
      /\ s.assoc /\ s.ts # NoNbr =>
           Requested(t) \/ \E n \in Nbr : t.queue[n] > 0
  BY KeepaliveSendFacts DEF Good
<1> HIDE DEF t
<1>2. Good(t, a)
  BY <1>1 DEF Good, Polled, Fits, GoesOn, Alive, Requested, Along
<1> QED
  BY <1>2 DEF t

-----------------------------------------------------------------------------
(* The steps                                                               *)

LEMMA InitInv == Init => Inv
<1> SUFFICES ASSUME Init PROVE Inv
  OBVIOUS
<1>1. [n \in Nbr |-> 0] \in [Nbr -> 0 .. QueueMax]
  OBVIOUS
<1>2. <<>> \in Seq([to : Nbr, ret : TxResults])
      /\ <<>> \in Seq([src : Nbr, kind : FrameKinds])
  OBVIOUS
<1>3. node \in Timed /\ node.ts = NoNbr /\ node.status = "unchanged"
      /\ node.done = <<>> /\ node.input = <<>>
  BY <1>1, <1>2 DEF Init, Timed, Nodes
<1>4. Good(node, air)
  BY <1>3 DEF Init, Good, Polled, Fits, GoesOn
<1> QED
  BY <1>4 DEF Init, Inv

LEMMA ScanOnceGood ==
  ASSUME Inv, NEW s, Good(s, air), ScanOnce(s), UNCHANGED <<air, dead>>
  PROVE  Inv'
<1>1. CASE /\ node' = [s EXCEPT !.phase = "scan", !.polled = FALSE]
           /\ UNCHANGED <<chain, age>>
  <2>1. Good(node', air)
    BY <1>1 DEF Good, Timed, Nodes, Polled, Fits, GoesOn, Alive, Requested
  <2> QED
    BY <1>1, <2>1 DEF Inv
<1>2. ASSUME NEW src \in EbSrc,
             node' = Associate(s, src), chain' = TRUE, age' = "fresh"
      PROVE  Inv'
  <2>1. src \in Nbr
    BY DEF EbSrc
  <2>2. Good(node', air)
    BY <1>2, <2>1, AssociateGood
  <2> QED
    BY <1>2, <2>2 DEF Inv
<1> QED
  BY <1>1, <1>2 DEF ScanOnce

\* The end of a slot changes a node only by a disassociation.
LEMMA EndSlotGood ==
  ASSUME Inv, NEW s, NEW a \in {"fresh", "old"}, Good(s, air'), EndSlot(s, a),
         air' \in Nbr \cup {NoNbr}, UNCHANGED dead
  PROVE  Inv'
<1>1. Good(node', air')
  BY DisassociateGood DEF EndSlot
<1> QED
  BY <1>1 DEF EndSlot, Inv

LEMMA SlotTxEndInv ==
  ASSUME Inv, NEW ret \in TxResults, SlotTxEnd(ret)
  PROVE  Inv'
<1> DEFINE q == [node.queue EXCEPT ![air] = IF @ > 0 THEN @ - 1 ELSE 0]
           d == Append(node.done, [to |-> air, ret |-> ret])
           t == [node EXCEPT !.queue = q, !.done = d, !.pending = TRUE]
           sync == ret = "OK" /\ air = node.ts
           u == IF sync THEN Schedule(t, FALSE) ELSE t
           a == IF sync THEN "fresh" ELSE age
<1>1. air \in Nbr /\ air # NoNbr /\ air' = NoNbr /\ UNCHANGED dead
  BY DEF Inv, SlotTxEnd
<1>2. /\ node \in Timed /\ node.done \in Seq(Reports) /\ node.queue \in [Nbr -> 0 .. QueueMax]
      /\ Len(node.done) + 1 <= RingMax /\ Len(node.input) <= RingMax
  BY <1>1 DEF Inv, Good, Fits, Timed, Nodes, Reports
<1>3. q \in [Nbr -> 0 .. QueueMax]
  BY <1>1, <1>2
<1>4. d \in Seq(Reports) /\ d # <<>> /\ Len(d) <= RingMax
  <2>1. [to |-> air, ret |-> ret] \in Reports
    BY <1>1 DEF Reports
  <2> QED
    BY <1>2, <2>1
<1>5. EndSlot(u, a)
  BY <1>2 DEF SlotTxEnd, Timed, Nodes
<1> HIDE DEF q, d
<1>6. t \in Timed /\ t.done = d /\ t.input = node.input /\ t.pending
  BY <1>2, <1>3, <1>4 DEF Timed, Nodes, Reports
<1> HIDE DEF t
<1>7. Good(t, air')
  BY <1>1, <1>2, <1>4, <1>6 DEF Good, Polled, Fits, GoesOn
<1>8. Good(u, air')
  <2>1. CASE sync
    <3> DEFINE v == Schedule(t, FALSE)
    <3>1. v \in Timed /\ Requested(v) /\ Along(t, v)
      BY <1>6, ScheduleFacts
    <3> HIDE DEF v
    <3>2. Good(v, air')
      BY <1>7, <3>1, RequestedIsGood DEF Along
    <3> QED
      BY <2>1, <3>2 DEF v
  <2>2. CASE ~sync
    BY <1>7, <2>2
  <2> QED
    BY <2>1, <2>2
<1>9. a \in {"fresh", "old"}
  BY DEF Inv
<1> HIDE DEF u, a
<1> QED
  BY <1>1, <1>5, <1>8, <1>9, EndSlotGood

LEMMA SlotRxInv ==
  ASSUME Inv, NEW n \in Nbr, NEW kind \in FrameKinds, SlotRx(n, kind)
  PROVE  Inv'
<1> DEFINE f == Append(node.input, [src |-> n, kind |-> kind])
           t == [node EXCEPT !.pending = TRUE, !.input = f]
           v == [t EXCEPT !.synced = TRUE]
           sync == n = node.ts
           u == IF sync THEN Schedule(v, FALSE) ELSE t
           a == IF sync THEN "fresh" ELSE age
<1>1. UNCHANGED <<air, dead>> /\ air \in Nbr \cup {NoNbr}
  BY DEF Inv, SlotRx
<1>2. /\ node \in Timed /\ node.input \in Seq(Frames)
      /\ Len(node.input) < RingMax
  BY DEF Inv, Good, Timed, Nodes, Frames, SlotRx
<1>3. f \in Seq(Frames) /\ Len(f) <= RingMax
  <2>1. [src |-> n, kind |-> kind] \in Frames
    BY DEF Frames
  <2> QED
    BY <1>2, <2>1
<1>4. EndSlot(u, a)
  BY <1>2 DEF SlotRx, Timed, Nodes
<1> HIDE DEF f
<1>5. /\ t \in Timed /\ t.input = f /\ t.pending /\ t.done = node.done
      /\ t.status = node.status /\ t.ts = node.ts /\ t.assoc = node.assoc
      /\ t.timer = node.timer /\ t.queue = node.queue
  BY <1>2, <1>3 DEF Timed, Nodes, Frames
<1> HIDE DEF t
<1>6. Good(t, air)
  BY <1>1, <1>3, <1>5 DEF Inv, Good, Polled, Fits, GoesOn, Alive, Requested
<1>7. v \in Timed /\ v.done = t.done /\ v.input = t.input
  BY <1>5 DEF Timed, Nodes
<1> HIDE DEF v
<1>8. Good(u, air)
  <2>1. CASE sync
    <3> DEFINE w == Schedule(v, FALSE)
    <3>1. w \in Timed /\ Requested(w) /\ Along(v, w)
      BY <1>7, ScheduleFacts
    <3> HIDE DEF w
    <3>2. Good(w, air)
      BY <1>6, <1>7, <3>1, RequestedIsGood DEF Along
    <3> QED
      BY <2>1, <3>2 DEF w
  <2>2. CASE ~sync
    BY <1>6, <2>2
  <2> QED
    BY <2>1, <2>2
<1>9. a \in {"fresh", "old"}
  BY DEF Inv
<1> HIDE DEF u, a
<1> QED
  BY <1>1, <1>4, <1>8, <1>9, EndSlotGood

LEMMA NextInv == Inv /\ [Next]_vars => Inv'
<1> SUFFICES ASSUME Inv, [Next]_vars PROVE Inv'
  OBVIOUS
<1>1. CASE Scan
  BY <1>1, ScanOnceGood DEF Scan, Inv
<1>2. CASE Leave
  <2>1. Good(Reset(node), air)
    BY ResetGood DEF Inv
  <2> QED
    BY <1>2, <2>1, ScanOnceGood DEF Leave
<1>3. CASE HandlePending
  <2>1. Good(node', air')
    BY <1>3, HandlePendingGood DEF HandlePending, Inv
  <2> QED
    BY <1>3, <2>1 DEF HandlePending, Inv
<1>4. CASE KeepaliveTimer
  <2>1. Good(node', air')
    BY <1>4, KeepaliveSendGood DEF KeepaliveTimer, Inv
  <2> QED
    BY <1>4, <2>1 DEF KeepaliveTimer, Inv
<1>5. CASE SlotIdle
  <2>1. CASE node.assoc
    <3>1. EndSlot(node, age) /\ UNCHANGED <<air, dead>>
      BY <1>5, <2>1 DEF SlotIdle
    <3>2. Good(node, air') /\ age \in {"fresh", "old"} /\ air' \in Nbr \cup {NoNbr}
      BY <3>1 DEF Inv
    <3> QED
      BY <3>1, <3>2, EndSlotGood
  <2>2. CASE ~node.assoc
    BY <1>5, <2>2 DEF SlotIdle, Inv
  <2> QED
    BY <2>1, <2>2
<1>6. CASE TimePasses
  BY <1>6 DEF TimePasses, Inv
<1>7. ASSUME NEW n \in Nbr \cup {NoNbr}, ParentSwitch(n) PROVE Inv'
  <2>1. Good(node', air')
    BY <1>7, UpdateTimeSourceGood DEF ParentSwitch, Inv
  <2> QED
    BY <1>7, <2>1 DEF ParentSwitch, Inv
<1>8. ASSUME NEW n \in Nbr, SlotTx(n) PROVE Inv'
  <2>1. Good(node', air')
    BY <1>8 DEF SlotTx, Inv, Good, Fits, GoesOn, Timed, Nodes
  <2> QED
    BY <1>8, <2>1 DEF SlotTx, Inv
<1>9. ASSUME NEW n \in Nbr, FallSilent(n) PROVE Inv'
  BY <1>9 DEF FallSilent, Inv
<1>10. ASSUME NEW n \in Nbr, NEW kind \in FrameKinds, SlotRx(n, kind) PROVE Inv'
  BY <1>10, SlotRxInv
<1>11. ASSUME NEW ret \in TxResults, SlotTxEnd(ret) PROVE Inv'
  BY <1>11, SlotTxEndInv
<1>12. CASE UNCHANGED vars
  BY <1>12 DEF vars, Inv
<1> QED
  BY <1>1, <1>2, <1>3, <1>4, <1>5, <1>6, <1>7, <1>8, <1>9, <1>10, <1>11, <1>12
  DEF Next

-----------------------------------------------------------------------------
(* The theorems                                                            *)

THEOREM InductiveInvariant == Spec => []Inv
BY InitInv, NextInv, PTL DEF Spec

\* The variables keep their types, the timeout of keepalives follows the time
\* source, and neither ring overflows.
THEOREM TypeCorrect == Spec => []TypeOK
<1>1. Inv => TypeOK
  BY DEF Inv, Good, Timed, Fits, TypeOK
<1> QED
  BY InductiveInvariant, <1>1, PTL

\* Keepalives never stop while a node follows a time source.
THEOREM KeepalivesGoOn == Spec => []KeepaliveGoesOn
<1>1. Inv => KeepaliveGoesOn
  BY DEF Inv, Good, GoesOn, Alive, Requested, KeepaliveGoesOn
<1> QED
  BY InductiveInvariant, <1>1, PTL

\* The pending events replace a time source only if a keepalive to it failed.
THEOREM OnlyFailuresOfSource == Spec => FailureOfSourceItself
<1> DEFINE A == HandlePending /\ node.ts # NoNbr /\ node'.ts # node.ts =>
                  \E i \in DOMAIN node.done :
                    node.done[i] = [to |-> node.ts, ret |-> "NOACK"]
<1>1. ASSUME Inv, HandlePending, node.ts # NoNbr, node'.ts # node.ts
      PROVE  \E i \in DOMAIN node.done :
               node.done[i] = [to |-> node.ts, ret |-> "NOACK"]
  <2> DEFINE r == [node EXCEPT !.pending = FALSE]
  <2>1. r \in Timed /\ r.done = node.done /\ r.ts = node.ts
        /\ node.done \in Seq([to : Nbr, ret : TxResults])
    BY <1>1 DEF Inv, Good, Timed, Nodes
  <2>2. node' = PendingEvents(r)
    BY <1>1 DEF HandlePending
  <2> HIDE DEF r
  <2>3. \/ node'.ts = r.ts
        \/ r.ts = NoNbr
        \/ \E i \in 1 .. Len(r.done) : r.done[i] = [to |-> r.ts, ret |-> "NOACK"]
    BY <2>1, <2>2, PendingEventsFacts
  <2> QED
    BY <1>1, <2>1, <2>3
<1>2. Inv => A
  BY <1>1
<1>3. Inv /\ [Next]_vars => [A]_vars
  BY <1>2
<1> QED
  BY InductiveInvariant, <1>3, PTL DEF Spec, FailureOfSourceItself
=============================================================================
