-------------------------- MODULE TschScheduleProofs --------------------------
(***************************************************************************)
(* Proofs about TschSchedule, for any slotframes, sizes, links and         *)
(* neighbors.                                                              *)
(*                                                                         *)
(* A slot that transmits keeps its link.  It depends on three parts of the *)
(* code together: the process waits for the end of a slot before it locks, *)
(* no queue gives a packet to a slot that starts while TSCH is locked, and *)
(* only a process with the lock clears current_link.                       *)
(*                                                                         *)
(* The schedule is whole whenever TSCH is not locked; with that the loops  *)
(* of tsch_schedule_get_next_active_link are shown to find the right link  *)
(* and the right backup link by induction over the lists; and with that    *)
(* the links of the slot operation are those of the schedule and of        *)
(* bursts.  The counters of the neighbors need, besides, a schedule of no  *)
(* more links than a byte counts.                                          *)
(***************************************************************************)
EXTENDS TschSchedule, FiniteSetTheorems, FunctionTheorems, SequenceTheorems, TLAPS

-----------------------------------------------------------------------------
(* Lists *)

\* No element twice.
Unique(q) == \A i, j \in DOMAIN q : q[i] = q[j] => i = j

\* A list is as long as it has elements, if none is there twice.
LEMMA UniqueLength ==
  ASSUME NEW S, NEW q \in Seq(S), Unique(q)
  PROVE  IsFiniteSet(Elements(q)) /\ Cardinality(Elements(q)) = Len(q)
<1>1. Len(q) \in Nat /\ DOMAIN q = 1 .. Len(q)
  OBVIOUS
<1>2. q \in Bijection(1 .. Len(q), Elements(q))
  <2>1. q \in [1 .. Len(q) -> Elements(q)]
    BY <1>1 DEF Elements
  <2>2. \A i, j \in 1 .. Len(q) : q[i] = q[j] => i = j
    BY <1>1 DEF Unique
  <2>3. \A b \in Elements(q) : \E i \in 1 .. Len(q) : q[i] = b
    BY <1>1 DEF Elements
  <2> QED
    BY <2>1, <2>2, <2>3, Fun_IsBij
<1>3. ExistsBijection(1 .. Len(q), Elements(q))
  BY <1>2 DEF ExistsBijection
<1> QED
  BY <1>1, <1>3, FS_CountingElements, FS_NatBijection

LEMMA ElementsType ==
  ASSUME NEW S, NEW q \in Seq(S)
  PROVE  /\ Elements(q) \subseteq S
         /\ q = <<>> <=> Elements(q) = {}
         /\ q # <<>> => Head(q) \in Elements(q)
<1>1. /\ Len(q) \in Nat /\ DOMAIN q = 1 .. Len(q)
      /\ \A i \in 1 .. Len(q) : q[i] \in S
  OBVIOUS
<1>2. Elements(q) \subseteq S
  BY <1>1 DEF Elements
<1>3. ASSUME q = <<>> PROVE Elements(q) = {}
  BY <1>3 DEF Elements
<1>4. ASSUME q # <<>> PROVE Head(q) \in Elements(q)
  <2>1. 1 \in 1 .. Len(q) /\ Head(q) = q[1]
    BY <1>4
  <2> QED
    BY <1>1, <2>1 DEF Elements
<1> QED
  BY <1>2, <1>3, <1>4

LEMMA AppendElements ==
  ASSUME NEW S, NEW q \in Seq(S), NEW b \in S
  PROVE  /\ Append(q, b) \in Seq(S)
         /\ Elements(Append(q, b)) = Elements(q) \cup {b}
         /\ Unique(q) /\ b \notin Elements(q) => Unique(Append(q, b))
<1> DEFINE r == Append(q, b)
<1>1. /\ r \in Seq(S) /\ Len(q) \in Nat /\ Len(r) = Len(q) + 1
      /\ r[Len(q) + 1] = b
      /\ \A i \in 1 .. Len(q) : r[i] = q[i]
  OBVIOUS
<1>2. DOMAIN r = 1 .. Len(q) + 1 /\ DOMAIN q = 1 .. Len(q)
  OBVIOUS
<1> HIDE DEF r
<1>3. Elements(r) = Elements(q) \cup {b}
  <2>1. \A i \in 1 .. Len(q) + 1 : i \in 1 .. Len(q) \/ i = Len(q) + 1
    BY <1>1
  <2>2. \A i \in 1 .. Len(q) : i \in 1 .. Len(q) + 1
    BY <1>1
  <2>3. Len(q) + 1 \in 1 .. Len(q) + 1
    BY <1>1
  <2> QED
    BY <1>1, <1>2, <2>1, <2>2, <2>3 DEF Elements
<1>4. ASSUME Unique(q), b \notin Elements(q) PROVE Unique(r)
  <2>1. \A i \in 1 .. Len(q) : r[i] # b
    BY <1>1, <1>2, <1>4 DEF Elements
  <2>2. \A i, j \in 1 .. Len(q) : r[i] = r[j] => i = j
    BY <1>1, <1>2, <1>4 DEF Unique
  <2> QED
    BY <1>1, <1>2, <2>1, <2>2 DEF Unique
<1> QED
  BY <1>1, <1>3, <1>4 DEF r

\* What list_remove leaves.
LEMMA WithoutElements ==
  ASSUME NEW S, NEW q \in Seq(S), Unique(q), NEW b
  PROVE  /\ Without(q, b) \in Seq(S)
         /\ Elements(Without(q, b)) = Elements(q) \ {b}
         /\ Unique(Without(q, b))
         /\ q # <<>> /\ b = Head(q) => Without(q, b) = Tail(q)
<1>1. CASE b \notin Elements(q)
  <2>1. q # <<>> => Head(q) \in Elements(q)
    BY DEF Elements
  <2> QED
    BY <1>1, <2>1 DEF Without
<1>2. CASE b \in Elements(q)
  <2> DEFINE First(i) == q[i] = b /\ \A j \in 1 .. i - 1 : q[j] # b
             at == CHOOSE i \in DOMAIN q : First(i)
             r == [i \in 1 .. Len(q) - 1 |-> q[IF i < at THEN i ELSE i + 1]]
  <2>1. at \in DOMAIN q /\ First(at)
    <3>1. PICK i \in DOMAIN q : q[i] = b
      BY <1>2 DEF Elements
    <3>2. DOMAIN q = 1 .. Len(q) /\ Len(q) \in Nat
      OBVIOUS
    <3>3. First(i)
      BY <3>1, <3>2 DEF Unique
    <3> HIDE DEF First
    <3> QED
      BY <3>3
  <2>2. Without(q, b) = r
    BY <1>2 DEF Without
  <2>3. /\ Len(q) \in Nat /\ DOMAIN q = 1 .. Len(q) /\ at \in 1 .. Len(q)
        /\ q[at] = b
    BY <2>1
  <2> HIDE DEF at
  <2>4. ASSUME NEW i \in 1 .. Len(q) - 1
        PROVE  /\ r[i] = q[IF i < at THEN i ELSE i + 1]
               /\ (IF i < at THEN i ELSE i + 1) \in 1 .. Len(q)
               /\ (IF i < at THEN i ELSE i + 1) # at
    BY <2>3
  <2>5. r \in Seq(S) /\ Len(r) = Len(q) - 1 /\ DOMAIN r = 1 .. Len(q) - 1
    <3>1. \A i \in 1 .. Len(q) : q[i] \in S
      BY <2>3
    <3>2. \A i \in 1 .. Len(q) - 1 : r[i] \in S
      BY <2>4, <3>1
    <3>3. Len(q) - 1 \in Nat
      BY <2>3
    <3> QED
      BY <3>2, <3>3
  <2> HIDE DEF r
  <2>6. ASSUME NEW k \in 1 .. Len(q), k # at
        PROVE  \E i \in 1 .. Len(q) - 1 : r[i] = q[k]
    <3>1. CASE k < at
      <4>1. k \in 1 .. Len(q) - 1
        BY <2>3, <3>1
      <4> QED
        BY <2>4, <3>1, <4>1
    <3>2. CASE at < k
      <4>1. k - 1 \in 1 .. Len(q) - 1 /\ ~(k - 1 < at) /\ (k - 1) + 1 = k
        BY <2>3, <3>2
      <4> QED
        BY <2>4, <4>1
    <3> QED
      BY <2>3, <2>6, <3>1, <3>2
  <2>7. Elements(r) = Elements(q) \ {b}
    <3>1. \A k \in 1 .. Len(q) : q[k] = b <=> k = at
      BY <2>3 DEF Unique
    <3>2. \A i \in 1 .. Len(q) - 1 : r[i] # b /\ \E k \in 1 .. Len(q) : r[i] = q[k]
      BY <2>4, <3>1
    <3>3. ASSUME NEW x \in Elements(r) PROVE x \in Elements(q) \ {b}
      BY <2>3, <2>5, <3>2 DEF Elements
    <3>4. ASSUME NEW x \in Elements(q) \ {b} PROVE x \in Elements(r)
      <4>1. PICK k \in 1 .. Len(q) : q[k] = x
        BY <2>3 DEF Elements
      <4>2. \E i \in 1 .. Len(q) - 1 : r[i] = x
        BY <2>6, <3>1, <4>1
      <4> QED
        BY <2>5, <4>2 DEF Elements
    <3> QED
      BY <3>3, <3>4
  <2>8. Unique(r)
    <3> SUFFICES ASSUME NEW i \in 1 .. Len(q) - 1, NEW j \in 1 .. Len(q) - 1, r[i] = r[j]
                 PROVE  i = j
      BY <2>5 DEF Unique
    <3> DEFINE k == IF i < at THEN i ELSE i + 1
               m == IF j < at THEN j ELSE j + 1
    <3>1. k \in 1 .. Len(q) /\ m \in 1 .. Len(q) /\ q[k] = q[m]
      BY <2>4
    <3>2. k = m
      BY <2>3, <3>1 DEF Unique
    <3> QED
      BY <2>3, <3>2
  <2>9. ASSUME q # <<>>, b = Head(q) PROVE r = Tail(q)
    <3>1. at = 1
      BY <2>3, <2>9 DEF Unique
    <3>2. Len(Tail(q)) = Len(q) - 1 /\ Tail(q) \in Seq(S)
      BY <2>9
    <3>3. \A i \in 1 .. Len(q) - 1 : Tail(q)[i] = q[i + 1] /\ r[i] = q[i + 1]
      BY <2>3, <2>4, <2>9, <3>1
    <3> QED
      BY <2>5, <3>2, <3>3
  <2> QED
    BY <2>2, <2>5, <2>7, <2>8, <2>9
<1> QED
  BY <1>1, <1>2

-----------------------------------------------------------------------------
(* Induction over the natural numbers, from a fact of the library: the     *)
(* strict subset relation is well-founded on finite sets, such as 0 .. n.  *)

\* Every set of natural numbers that is not empty has a least element.
LEMMA LeastElement ==
  ASSUME NEW T \in SUBSET Nat, T # {}
  PROVE  \E x \in T : \A y \in T : x <= y
<1> DEFINE F == {0 .. n : n \in T}
<1>1. F # {}
  OBVIOUS
<1>2. F \subseteq FiniteSubsetsOf(Nat)
  <2>1. ASSUME NEW n \in T PROVE 0 .. n \in FiniteSubsetsOf(Nat)
    <3>1. n \in Nat /\ 0 \in Int /\ n \in Int
      OBVIOUS
    <3>2. IsFiniteSet(0 .. n)
      BY <3>1, FS_Interval
    <3> QED
      BY <3>1, <3>2 DEF FiniteSubsetsOf
  <2> QED
    BY <2>1
<1>3. IsWellFoundedOn(StrictSubsetOrdering(Nat), FiniteSubsetsOf(Nat))
  BY FS_StrictSubsetOrderingWellFounded
<1>4. PICK I \in F : \A J \in F : <<J, I>> \notin StrictSubsetOrdering(Nat)
  <2> HIDE DEF F
  <2> QED
    BY <1>1, <1>2, <1>3, WFMin
<1>5. PICK x \in T : I = 0 .. x
  OBVIOUS
<1>6. ASSUME NEW y \in T, y < x PROVE FALSE
  <2>1. 0 .. y \subseteq 0 .. x /\ 0 .. y # 0 .. x
    BY <1>6
  <2>2. 0 .. y \in SUBSET Nat /\ 0 .. x \in SUBSET Nat
    BY <1>6
  <2>3. <<0 .. y, 0 .. x>> \in StrictSubsetOrdering(Nat)
    BY <2>1, <2>2 DEF StrictSubsetOrdering
  <2> QED
    BY <1>4, <1>5, <2>3
<1> QED
  BY <1>6

\* A set with 0 and the successors of its numbers holds every number.
LEMMA Induction ==
  ASSUME NEW S, 0 \in S, \A n \in Nat : n \in S => n + 1 \in S
  PROVE  \A n \in Nat : n \in S
<1> SUFFICES ASSUME Nat \ S # {} PROVE FALSE
  OBVIOUS
<1>1. PICK x \in Nat \ S : \A y \in Nat \ S : x <= y
  BY LeastElement
<1>2. x # 0 /\ x - 1 \in Nat
  BY <1>1
<1>3. x - 1 \in S
  BY <1>1, <1>2
<1> QED
  BY <1>1, <1>2, <1>3

-----------------------------------------------------------------------------
(* The lock, and the link of a slot that transmits *)

\* The process holds the lock in its critical sections and nowhere else.
HeldWhenLocked == locked <=> pc \in {"locked", "raw"}

\* A slot transmits only while TSCH is not locked.
SenderExcludesLock == slot = "tx" => ~locked

Inv == HeldWhenLocked /\ SenderExcludesLock /\ SenderKeepsLink

\* No end of a slot leaves it transmitting.
LEMMA EndSlotIsOut ==
  ASSUME NEW c, NEW b, NEW f, EndSlot(c, b, f)
  PROVE  slot' = "out"
BY DEF EndSlot

\* What a slot runs is a link, and it has a packet only while TSCH is not
\* locked.
LEMMA ChosenIsLink ==
  ASSUME current # NoLink, NEW c \in Chosen
  PROVE  c.l # NoLink /\ (c.packet => ~locked)
BY DEF Chosen, CanSend, GivesWay

\* Initially there is neither slot nor lock.
LEMMA InitInv == Init => Inv
BY DEF Init, Inv, HeldWhenLocked, SenderExcludesLock, SenderKeepsLink

\* Slots do not touch the lock, and start only with a link.
LEMMA SlotKeepsInv == Inv /\ Slot => Inv'
<1> SUFFICES ASSUME Inv, Slot PROVE Inv'
  OBVIOUS
<1>1. CASE SlotStart
  <2>1. PICK c \in Chosen :
          slot' = (IF c.packet THEN "tx" ELSE "rx") /\ current' = c.l
    BY <1>1 DEF SlotStart
  <2>2. UNCHANGED <<locked, pc>> /\ current # NoLink
    BY <1>1 DEF SlotStart, MayStart, lockVars, procVars
  <2>3. c.l # NoLink /\ (c.packet => ~locked)
    BY <2>2, ChosenIsLink
  <2> QED BY <2>1, <2>2, <2>3 DEF Inv, HeldWhenLocked, SenderExcludesLock, SenderKeepsLink
<1>2. CASE SlotIdle \/ SlotSkipped \/ \E b \in BOOLEAN : SlotEnd(b)
  <2>1. UNCHANGED <<locked, pc>>
    BY <1>2 DEF SlotIdle, SlotSkipped, SlotEnd, lockVars, procVars
  <2>2. slot' = "out"
    BY <1>2, EndSlotIsOut DEF SlotIdle, SlotSkipped, SlotEnd
  <2> QED BY <2>1, <2>2 DEF Inv, HeldWhenLocked, SenderExcludesLock, SenderKeepsLink
<1> QED BY <1>1, <1>2 DEF Slot

\* Beginning an operation asks for the lock and takes nothing.
LEMMA OperationInv == Inv /\ Operation => Inv'
<1> SUFFICES ASSUME Inv, Operation PROVE Inv'
  OBVIOUS
<1>1. PICK o : Begin(o)
  BY DEF Operation, AddLink, RemoveLink, AddSlotframe, RemoveSlotframe
<1>2. pc = "idle" /\ pc' = "wait" /\ UNCHANGED <<locked, slot, current>>
  BY <1>1 DEF Begin, Ask, slotVars
<1> QED BY <1>2 DEF Inv, HeldWhenLocked, SenderExcludesLock, SenderKeepsLink

\* The process takes the lock when no slot runs, changes the schedule while
\* it holds it, and gives it back.
LEMMA FinishInv == Inv /\ Finish => Inv'
<1> SUFFICES ASSUME Inv, Finish PROVE Inv'
  OBVIOUS
<1>1. CASE LockTake
  BY <1>1 DEF LockTake, slotVars, Inv, HeldWhenLocked, SenderExcludesLock, SenderKeepsLink
<1>2. CASE Unlink
  <2>1. pc = "locked" /\ ~locked' /\ UNCHANGED slot
    BY <1>2 DEF Unlink
  <2>2. pc' \notin {"locked", "raw"}
    BY <1>2 DEF Unlink, AfterRemoval, Ask
  <2> QED BY <2>1, <2>2 DEF Inv, HeldWhenLocked, SenderExcludesLock, SenderKeepsLink
<1>3. CASE List
  <2>1. UNCHANGED <<slot, current>> /\ locked
    BY <1>3 DEF List, AddsLink, slotVars, Inv, HeldWhenLocked
  <2>2. locked' <=> pc' \in {"locked", "raw"}
    BY <1>3, <2>1 DEF List
  <2> QED BY <2>1, <2>2 DEF Inv, HeldWhenLocked, SenderExcludesLock, SenderKeepsLink
<1>4. CASE Initialise
  BY <1>4 DEF Initialise, slotVars, Inv, HeldWhenLocked, SenderExcludesLock, SenderKeepsLink
<1>5. CASE ChangeFrames
  BY <1>5 DEF ChangeFrames, slotVars, Inv, HeldWhenLocked, SenderExcludesLock, SenderKeepsLink
<1> QED BY <1>1, <1>2, <1>3, <1>4, <1>5 DEF Finish

\* Every step preserves the invariant.
LEMMA NextInv == Inv /\ [Next]_vars => Inv'
<1> SUFFICES ASSUME Inv, [Next]_vars PROVE Inv'
  OBVIOUS
<1>1. CASE Slot
  BY <1>1, SlotKeepsInv
<1>2. CASE Operation
  BY <1>2, OperationInv
<1>3. CASE Finish
  BY <1>3, FinishInv
<1>4. CASE \E n \in Unicast : NbrComes(n) \/ NbrGoes(n)
  BY <1>4 DEF NbrComes, NbrGoes, slotVars, lockVars, procVars, Inv,
     HeldWhenLocked, SenderExcludesLock, SenderKeepsLink
<1>5. CASE UNCHANGED vars
  BY <1>5 DEF vars, slotVars, lockVars, procVars, Inv, HeldWhenLocked,
     SenderExcludesLock, SenderKeepsLink
<1> QED BY <1>1, <1>2, <1>3, <1>4, <1>5 DEF Next, Process

\* Whatever the schedule and the operations on it, a slot that transmits has
\* its link until it ends, although the lock does not keep slots from
\* starting.
THEOREM SenderAlwaysKeepsLink == Spec => []SenderKeepsLink
<1>1. Inv => SenderKeepsLink
  BY DEF Inv
<1> QED BY InitInv, NextInv, <1>1, PTL DEF Spec

-----------------------------------------------------------------------------
(* The shape of the schedule, and what the process does to it *)

Kinds == {"none", "add", "replace", "refill", "remove", "removeFrame", "addFrame"}

Shape ==
  /\ frames \in Seq(Handles)
  /\ lists \in [Handles -> Seq(Blocks)]
  /\ link \in [Blocks -> Requests \cup {NoRequest}]

\* No block is listed twice, and only slotframes of the list have links.
Apart ==
  /\ Unique(frames)
  /\ \A s \in Handles : Unique(lists[s])
  /\ \A s, t \in Handles : \A b \in Blocks :
       b \in Elements(lists[s]) /\ b \in Elements(lists[t]) => s = t
  /\ \A s \in Handles : lists[s] # <<>> => s \in Elements(frames)

\* The listed block that is not initialised.
IsRaw(b) == pc = "raw" /\ b = op.l

\* Every other listed block holds a link of its slotframe.
Filled ==
  \A s \in Handles : \A b \in Elements(lists[s]) :
    IsRaw(b) \/ (link[b] \in Requests /\ link[b].sf = s)

OpType == [kind : Kinds, sf : Nat, request : Requests \cup {NoRequest},
           l : Blocks \cup {NoLink}]

\* The operation o fits the schedule, as long as the block it adds is not
\* listed.
Fits(o) ==
  /\ o \in OpType /\ o.sf \in Handles /\ o.kind # "none"
  /\ o.kind \in {"add", "replace", "refill"} =>
       o.request \in Requests /\ o.request.sf = o.sf /\ o.sf \in Elements(frames)
  /\ o.kind \in {"replace", "remove"} => o.l \in Elements(lists[o.sf])
  /\ o.kind \in {"add", "refill"} => o.l = NoLink
  /\ o.kind = "removeFrame" => o.sf \in Elements(frames) /\ o.l = FirstLink(o.sf)
  /\ o.kind = "addFrame" => o.sf \notin Elements(frames) /\ o.l = NoLink

OpInv ==
  /\ pc \in {"idle", "wait", "locked", "raw"}
  /\ op \in OpType
  /\ {locked, lockRequested} \subseteq BOOLEAN
  /\ pc \in {"wait", "locked"} => Fits(op)
  /\ pc = "raw" =>
       /\ op.kind \in {"add", "refill"} /\ op.sf \in Handles
       /\ op.request \in Requests /\ op.request.sf = op.sf
       /\ op.sf \in Elements(frames) /\ op.l \in Elements(lists[op.sf])

Whole == Shape /\ Apart /\ Filled /\ OpInv

LEMMA ListTypes ==
  ASSUME Shape, NEW s \in Handles
  PROVE  /\ lists[s] \in Seq(Blocks)
         /\ Elements(lists[s]) \subseteq Blocks
         /\ lists[s] = <<>> <=> Elements(lists[s]) = {}
         /\ lists[s] # <<>> => Head(lists[s]) \in Elements(lists[s])
<1>1. lists[s] \in Seq(Blocks)
  BY DEF Shape
<1> QED
  BY <1>1, ElementsType

LEMMA NothingType == Nothing \in OpType
BY DEF Nothing, OpType, Kinds

LEMMA WholeInit == Init => Whole
<1> SUFFICES ASSUME Init PROVE Whole
  OBVIOUS
<1>1. Elements(<<>>) = {}
  BY DEF Elements
<1>2. Shape
  BY DEF Init, Shape
<1>3. Apart
  BY <1>1 DEF Init, Apart, Unique
<1>4. Filled
  BY <1>1 DEF Init, Filled
<1>5. OpInv
  BY NothingType DEF Init, OpInv
<1> QED
  BY <1>2, <1>3, <1>4, <1>5 DEF Whole

\* What touches neither the schedule nor the process.
LEMMA WholeSame ==
  ASSUME Whole, UNCHANGED <<schedVars, lockVars, procVars>>
  PROVE  Whole'
BY DEF Whole, Shape, Apart, Filled, IsRaw, OpInv, Fits, FirstLink, schedVars, lockVars,
       procVars

\* Steps that leave the lists alone and the process at an operation that fits.
LEMMA WholeAsk ==
  ASSUME Whole, pc # "raw", UNCHANGED schedVars,
         pc' \in {"wait", "locked"}, Fits(op'),
         locked' \in BOOLEAN, lockRequested' \in BOOLEAN
  PROVE  Whole'
<1>1. Shape' /\ Apart'
  BY DEF Whole, Shape, Apart, schedVars
<1>2. Filled'
  BY DEF Whole, Filled, IsRaw, schedVars
<1>3. OpInv'
  <2>1. Fits(op)' /\ op' \in OpType
    BY DEF Fits, FirstLink, schedVars
  <2> QED
    BY <2>1 DEF OpInv
<1> QED
  BY <1>1, <1>2, <1>3 DEF Whole

\* The link that is found at a timeslot is in the slotframe.
LEMMA LinkAtListed ==
  ASSUME Shape, NEW s \in Handles, NEW ts, LinkAt(s, ts) # NoLink
  PROVE  LinkAt(s, ts) \in Elements(lists[s])
<1> DEFINE at == {i \in DOMAIN lists[s] : link[lists[s][i]].ts = ts}
           least == CHOOSE i \in at : \A j \in at : i <= j
<1>1. at # {} /\ LinkAt(s, ts) = lists[s][least]
  BY DEF LinkAt
<1>2. at \in SUBSET Nat
  BY DEF Shape
<1>3. \E i \in at : \A j \in at : i <= j
  <2> HIDE DEF at
  <2> QED
    BY <1>1, <1>2, LeastElement
<1>4. least \in DOMAIN lists[s]
  <2>1. least \in at
    <3> HIDE DEF at
    <3> QED
      BY <1>3
  <2> QED
    BY <2>1
<1> QED
  BY <1>1, <1>4 DEF Elements

LEMMA WholeOperation == Whole /\ Operation => Whole'
<1> SUFFICES ASSUME Whole, Operation PROVE Whole'
  OBVIOUS
<1>1. ASSUME NEW o, Begin(o), Fits(o) PROVE Whole'
  <2>1. /\ pc = "idle" /\ UNCHANGED schedVars /\ pc' = "wait" /\ op' = o
        /\ locked' = locked /\ lockRequested' = TRUE
    BY <1>1 DEF Begin, Ask
  <2>2. locked' \in BOOLEAN
    BY <2>1 DEF Whole, OpInv
  <2> QED
    BY <1>1, <2>1, <2>2, WholeAsk
<1>2. ASSUME NEW r \in Requests, NEW doRemove \in BOOLEAN, AddLink(r, doRemove) PROVE Whole'
  <2> DEFINE old == IF doRemove THEN LinkAt(r.sf, r.ts) ELSE NoLink
             o == [kind |-> IF old = NoLink THEN "add" ELSE "replace",
                   sf |-> r.sf, request |-> r, l |-> old]
  <2>1. r.sf \in Elements(frames) /\ Begin(o)
    BY <1>2 DEF AddLink
  <2>2. r.sf \in Handles /\ r.sf \in Nat
    BY RequestAssumption, HandleAssumption
  <2>3. old # NoLink => old \in Elements(lists[r.sf])
    BY <2>2, LinkAtListed DEF Whole
  <2>4. old \in Blocks \cup {NoLink}
    BY <2>2, <2>3, ListTypes DEF Whole
  <2> HIDE DEF old
  <2>5. Fits(o)
    BY <2>1, <2>2, <2>3, <2>4 DEF Fits, OpType, Kinds
  <2> QED
    BY <1>1, <2>1, <2>5
<1>3. ASSUME NEW s \in Handles, NEW l \in Blocks, RemoveLink(s, l) PROVE Whole'
  <2> DEFINE o == [Nothing EXCEPT !.kind = "remove", !.sf = s, !.l = l]
  <2>1. l \in Elements(lists[s]) /\ Begin(o)
    BY <1>3 DEF RemoveLink
  <2>2. Fits(o)
    BY <2>1, HandleAssumption DEF Fits, OpType, Kinds, Nothing
  <2> QED
    BY <1>1, <2>1, <2>2
<1>4. ASSUME NEW s \in Handles, RemoveSlotframe(s) PROVE Whole'
  <2> DEFINE o == [Nothing EXCEPT !.kind = "removeFrame", !.sf = s, !.l = FirstLink(s)]
  <2>1. s \in Elements(frames) /\ Begin(o)
    BY <1>4 DEF RemoveSlotframe
  <2>2. FirstLink(s) \in Blocks \cup {NoLink}
    BY ListTypes DEF FirstLink, Whole
  <2>3. Fits(o)
    BY <2>1, <2>2, HandleAssumption DEF Fits, OpType, Kinds, Nothing
  <2> QED
    BY <1>1, <2>1, <2>3
<1>5. ASSUME NEW s \in Handles, AddSlotframe(s) PROVE Whole'
  <2> DEFINE o == [Nothing EXCEPT !.kind = "addFrame", !.sf = s]
  <2>1. s \notin Elements(frames) /\ Begin(o)
    BY <1>5 DEF AddSlotframe
  <2>2. Fits(o)
    BY <2>1, HandleAssumption DEF Fits, OpType, Kinds, Nothing
  <2> QED
    BY <1>1, <2>1, <2>2
<1> QED
  BY <1>2, <1>3, <1>4, <1>5 DEF Operation

LEMMA WholeLockTake == Whole /\ LockTake => Whole'
<1> SUFFICES ASSUME Whole, LockTake PROVE Whole'
  OBVIOUS
<1>1. /\ pc = "wait" /\ pc' = "locked" /\ UNCHANGED <<schedVars, op>>
      /\ locked' = TRUE /\ lockRequested' = FALSE
  BY DEF LockTake
<1>2. Fits(op)
  BY <1>1 DEF Whole, OpInv
<1> QED
  BY <1>1, <1>2, WholeAsk

\* One list changes, to one without elements of the others.
LEMMA ListChanges ==
  ASSUME Shape, Apart, NEW s \in Handles, NEW q \in Seq(Blocks), Unique(q),
         \A t \in Handles : \A b \in Blocks :
           b \in Elements(q) /\ b \in Elements(lists[t]) => s = t,
         q # <<>> => s \in Elements(frames),
         lists' = [lists EXCEPT ![s] = q], frames' = frames,
         link' \in [Blocks -> Requests \cup {NoRequest}]
  PROVE  /\ Shape' /\ Apart'
         /\ \A t \in Handles : lists'[t] = IF t = s THEN q ELSE lists[t]
<1>1. lists' \in [Handles -> Seq(Blocks)] /\ frames' \in Seq(Handles)
  BY DEF Shape
<1>2. \A t \in Handles : lists'[t] = IF t = s THEN q ELSE lists[t]
  BY DEF Shape
<1>3. \A t \in Handles : Unique(lists'[t])
  BY <1>2 DEF Apart
<1>4. \A t, u \in Handles : \A b \in Blocks :
        b \in Elements(lists'[t]) /\ b \in Elements(lists'[u]) => t = u
  BY <1>2 DEF Apart
<1>5. \A t \in Handles : lists'[t] # <<>> => t \in Elements(frames')
  BY <1>2 DEF Apart
<1> QED
  BY <1>1, <1>2, <1>3, <1>4, <1>5 DEF Shape, Apart

\* The link that is removed, and what remains of its slotframe.
LEMMA UnlinkFacts ==
  ASSUME Whole, Unlink
  PROVE  /\ op.sf \in Handles /\ op.l \in Elements(lists[op.sf]) /\ op.l \in Blocks
         /\ op.kind \in {"replace", "remove", "removeFrame"}
         /\ link[op.l] \in Requests
         /\ Shape' /\ Apart' /\ frames' = frames
         /\ \A t \in Handles : t # op.sf => lists'[t] = lists[t]
         /\ Elements(lists'[op.sf]) = Elements(lists[op.sf]) \ {op.l}
         /\ op.kind = "removeFrame" => lists'[op.sf] = Tail(lists[op.sf])
         /\ \A b \in Blocks : b # op.l => link'[b] = link[b]
<1>1. /\ pc = "locked" /\ op.l # NoLink /\ frames' = frames
      /\ lists' = [lists EXCEPT ![op.sf] = Without(lists[op.sf], op.l)]
      /\ link' = IF op.l = backup THEN link ELSE [link EXCEPT ![op.l] = NoRequest]
  BY DEF Unlink, Unlist, Freed
<1>2. Fits(op) /\ Shape /\ Apart
  BY <1>1 DEF Whole, OpInv
<1>3. /\ op.sf \in Handles /\ op.kind \in {"replace", "remove", "removeFrame"}
      /\ op.kind = "removeFrame" => op.l = FirstLink(op.sf)
      /\ op.kind # "removeFrame" => op.l \in Elements(lists[op.sf])
  BY <1>1, <1>2 DEF Fits, OpType, Kinds
<1> DEFINE q == lists[op.sf]
           w == Without(q, op.l)
<1>4. /\ q \in Seq(Blocks) /\ Elements(q) \subseteq Blocks
      /\ q # <<>> => Head(q) \in Elements(q)
  BY <1>2, <1>3, ListTypes
<1>5. /\ op.l \in Elements(q)
      /\ op.kind = "removeFrame" => q # <<>> /\ op.l = Head(q)
  <2>1. CASE op.kind = "removeFrame"
    <3>1. q # <<>> /\ op.l = Head(q)
      BY <1>1, <1>3, <2>1 DEF FirstLink
    <3> QED
      BY <1>4, <3>1
  <2> QED
    BY <1>3, <2>1
<1>6. op.l \in Blocks
  BY <1>4, <1>5
<1>7. Unique(q)
  BY <1>2, <1>3 DEF Apart
<1>8. /\ w \in Seq(Blocks) /\ Elements(w) = Elements(q) \ {op.l} /\ Unique(w)
      /\ op.kind = "removeFrame" => w = Tail(q)
  <2> HIDE DEF q
  <2> QED
    BY <1>4, <1>5, <1>7, WithoutElements
<1>9. link' \in [Blocks -> Requests \cup {NoRequest}] /\ \A b \in Blocks : b # op.l => link'[b] = link[b]
  <2>1. link \in [Blocks -> Requests \cup {NoRequest}]
    BY <1>2 DEF Shape
  <2> QED
    BY <1>1, <1>6, <2>1
<1>10. \A t \in Handles : \A b \in Blocks :
         b \in Elements(w) /\ b \in Elements(lists[t]) => op.sf = t
  BY <1>2, <1>3, <1>8 DEF Apart
<1>11. w # <<>> => op.sf \in Elements(frames)
  <2>1. q # <<>>
    BY <1>4, <1>5 DEF Elements
  <2> QED
    BY <1>2, <1>3, <2>1 DEF Apart
<1>12. lists' = [lists EXCEPT ![op.sf] = w]
  BY <1>1
<1>13. /\ Shape' /\ Apart'
       /\ \A t \in Handles : lists'[t] = IF t = op.sf THEN w ELSE lists[t]
  <2> HIDE DEF w
  <2>1. PICK v \in Seq(Blocks) : v = w
    BY <1>8
  <2>2. PICK s \in Handles : s = op.sf
    BY <1>3
  <2>3. /\ Unique(v) /\ (v # <<>> => s \in Elements(frames))
        /\ \A t \in Handles : \A b \in Blocks :
             b \in Elements(v) /\ b \in Elements(lists[t]) => s = t
        /\ lists' = [lists EXCEPT ![s] = v] /\ frames' = frames
        /\ link' \in [Blocks -> Requests \cup {NoRequest}] /\ Shape /\ Apart
    BY <1>1, <1>2, <1>8, <1>9, <1>10, <1>11, <1>12, <2>1, <2>2
  <2>4. /\ Shape' /\ Apart'
        /\ \A t \in Handles : lists'[t] = IF t = s THEN v ELSE lists[t]
    BY ONLY <2>3, ListChanges
  <2>5. \A t \in Handles : lists'[t] = IF t = op.sf THEN w ELSE lists[t]
    BY <2>1, <2>2, <2>4
  <2> QED
    BY <2>4, <2>5
<1>14. link[op.l] \in Requests
  BY <1>1, <1>3, <1>5 DEF Whole, Filled, IsRaw
<1> QED
  BY <1>1, <1>3, <1>5, <1>6, <1>8, <1>9, <1>13, <1>14

LEMMA WholeUnlink == Whole /\ Unlink => Whole'
<1> SUFFICES ASSUME Whole, Unlink PROVE Whole'
  OBVIOUS
<1>1. pc = "locked" /\ op.l # NoLink /\ locked' = FALSE /\ AfterRemoval
  BY DEF Unlink
<1>2. Fits(op) /\ lockRequested \in BOOLEAN /\ op \in OpType
  BY <1>1 DEF Whole, OpInv
<1>3. pc' # "raw"
  BY <1>1 DEF AfterRemoval, Ask
<1>4. Filled'
  <2>1. ASSUME NEW s \in Handles, NEW b \in Elements(lists'[s])
        PROVE  b \in Elements(lists[s]) /\ b # op.l /\ b \in Blocks
    <3>1. b \in Elements(lists[s]) /\ (s = op.sf => b # op.l)
      BY UnlinkFacts
    <3>2. b \in Blocks
      BY <3>1, ListTypes DEF Whole
    <3> QED
      BY <3>1, <3>2, UnlinkFacts DEF Whole, Apart
  <2>2. ASSUME NEW s \in Handles, NEW b \in Elements(lists'[s])
        PROVE  link'[b] \in Requests /\ link'[b].sf = s
    <3>1. link'[b] = link[b]
      BY <2>1, UnlinkFacts
    <3> QED
      BY <1>1, <2>1, <3>1 DEF Whole, Filled, IsRaw
  <2> QED
    BY <2>2 DEF Filled
<1>5. OpInv'
  <2>1. CASE op.kind = "replace"
    <3>1. /\ op' = [op EXCEPT !.kind = "refill", !.l = NoLink]
          /\ pc' = "wait" /\ lockRequested' = TRUE
      BY <1>1, <2>1 DEF AfterRemoval, Ask
    <3>2. op' \in OpType /\ op'.kind = "refill" /\ op'.l = NoLink /\ op'.sf = op.sf
          /\ op'.request = op.request
      BY <1>2, <3>1 DEF OpType, Kinds
    <3>3. Fits(op)'
      BY <1>2, <2>1, <3>2, UnlinkFacts DEF Fits
    <3> QED
      BY <1>1, <3>1, <3>2, <3>3 DEF OpInv
  <2>2. CASE op.kind = "removeFrame"
    <3> DEFINE rest == Tail(lists[op.sf])
               next == IF rest = <<>> THEN NoLink ELSE Head(rest)
    <3>1. op' = [op EXCEPT !.l = next] /\ pc' = "wait" /\ lockRequested' = TRUE
      BY <1>1, <2>2 DEF AfterRemoval, Ask
    <3>2. next = FirstLink(op.sf)' /\ next \in Blocks \cup {NoLink}
      <4>1. lists'[op.sf] = rest
        BY <2>2, UnlinkFacts
      <4>2. rest # <<>> => Head(rest) \in Blocks
        <5>1. /\ Elements(lists'[op.sf]) \subseteq Blocks
              /\ lists'[op.sf] # <<>> => Head(lists'[op.sf]) \in Elements(lists'[op.sf])
          <6>1. lists'[op.sf] \in Seq(Blocks)
            BY UnlinkFacts DEF Shape
          <6> QED
            BY <6>1, ElementsType
        <5> QED
          BY <4>1, <5>1
      <4>3. op'.sf = op.sf
        BY <1>2, <3>1 DEF OpType
      <4> QED
        BY <4>1, <4>2, <4>3 DEF FirstLink
    <3> HIDE DEF next
    <3>3. op' \in OpType /\ op'.kind = "removeFrame" /\ op'.l = next /\ op'.sf = op.sf
      BY <1>2, <2>2, <3>1, <3>2 DEF OpType, Kinds
    <3>4. op'.sf \in Elements(frames') /\ op'.sf \in Handles
      BY <1>2, <2>2, <3>3, UnlinkFacts DEF Fits
    <3>5. Fits(op)'
      BY <3>2, <3>3, <3>4 DEF Fits
    <3> QED
      BY <1>1, <3>1, <3>3, <3>5 DEF OpInv
  <2>3. CASE op.kind = "remove"
    BY <1>1, <1>2, <2>3, NothingType DEF AfterRemoval, OpInv
  <2> QED
    BY <2>1, <2>2, <2>3, UnlinkFacts
<1> QED
  BY <1>4, <1>5, UnlinkFacts DEF Whole

LEMMA WholeList == Whole /\ List => Whole'
<1> SUFFICES ASSUME Whole, List PROVE Whole'
  OBVIOUS
<1>1. /\ pc = "locked" /\ op.kind \in {"add", "refill"} /\ op.l = NoLink
      /\ UNCHANGED <<frames, link, lockRequested>>
  BY DEF List, AddsLink, lockVars
<1>2. Fits(op) /\ op \in OpType /\ locked \in BOOLEAN /\ lockRequested \in BOOLEAN
  BY <1>1 DEF Whole, OpInv
<1>3. CASE FreeBlocks = {}
  <2>1. pc' = "idle" /\ op' = Nothing /\ UNCHANGED lists /\ locked' = FALSE
    BY <1>3 DEF List
  <2>2. Shape' /\ Apart' /\ Filled'
    BY <1>1, <2>1 DEF Whole, Shape, Apart, Filled, IsRaw
  <2>3. OpInv'
    BY <1>1, <1>2, <2>1, NothingType DEF OpInv
  <2> QED
    BY <2>2, <2>3 DEF Whole
<1>4. CASE FreeBlocks # {}
  <2>1. PICK b \in FreeBlocks :
          /\ lists' = [lists EXCEPT ![op.sf] = Append(lists[op.sf], b)]
          /\ op' = [op EXCEPT !.l = b] /\ pc' = "raw" /\ locked' = locked
    BY <1>4 DEF List
  <2> DEFINE r == Append(lists[op.sf], b)
  <2>2. /\ op.sf \in Handles /\ op.sf \in Elements(frames)
        /\ op.request \in Requests /\ op.request.sf = op.sf
    BY <1>1, <1>2 DEF Fits
  <2>3. b \in Blocks /\ \A s \in Handles : b \notin Elements(lists[s])
    BY DEF FreeBlocks, Listed
  <2>4. lists[op.sf] \in Seq(Blocks) /\ Unique(lists[op.sf])
    BY <2>2 DEF Whole, Shape, Apart
  <2>5. r \in Seq(Blocks) /\ Unique(r) /\ Elements(r) = Elements(lists[op.sf]) \cup {b}
    BY <2>2, <2>3, <2>4, AppendElements
  <2>6. \A t \in Handles : \A c \in Blocks :
          c \in Elements(r) /\ c \in Elements(lists[t]) => op.sf = t
    BY <2>2, <2>3, <2>5 DEF Whole, Apart
  <2>7. lists' = [lists EXCEPT ![op.sf] = r]
    BY <2>1
  <2>8. link' \in [Blocks -> Requests \cup {NoRequest}] /\ frames' = frames
    BY <1>1 DEF Whole, Shape
  <2>9. /\ Shape' /\ Apart'
        /\ \A t \in Handles : lists'[t] = IF t = op.sf THEN r ELSE lists[t]
    <3> HIDE DEF r
    <3> QED
      BY <2>2, <2>5, <2>6, <2>7, <2>8, ListChanges DEF Whole
  <2>10. /\ op' \in OpType /\ op'.kind = op.kind /\ op'.l = b /\ op'.sf = op.sf
         /\ op'.request = op.request
    BY <1>2, <2>1, <2>3 DEF OpType
  <2>11. Filled'
    <3>1. ASSUME NEW s \in Handles, NEW c \in Elements(lists'[s])
          PROVE  c = b \/ c \in Elements(lists[s])
      BY <2>5, <2>9
    <3>2. ASSUME NEW s \in Handles, NEW c \in Elements(lists[s])
          PROVE  link'[c] \in Requests /\ link'[c].sf = s
      BY <1>1 DEF Whole, Filled, IsRaw
    <3> QED
      BY <2>1, <2>10, <3>1, <3>2 DEF Filled, IsRaw
  <2>12. OpInv'
    <3>1. op'.l \in Elements(lists'[op'.sf])
      BY <2>2, <2>5, <2>9, <2>10
    <3> QED
      BY <1>1, <1>2, <2>1, <2>2, <2>10, <3>1 DEF OpInv
  <2> QED
    BY <2>9, <2>11, <2>12 DEF Whole
<1> QED
  BY <1>3, <1>4

LEMMA WholeInitialise == Whole /\ Initialise => Whole'
<1> SUFFICES ASSUME Whole, Initialise PROVE Whole'
  OBVIOUS
<1>1. /\ pc = "raw" /\ link' = [link EXCEPT ![op.l] = op.request]
      /\ pc' = "idle" /\ op' = Nothing /\ UNCHANGED <<frames, lists, lockRequested>>
      /\ locked' = FALSE
  BY DEF Initialise
<1>2. /\ op.sf \in Handles /\ op.request \in Requests /\ op.request.sf = op.sf
      /\ op.l \in Elements(lists[op.sf]) /\ lockRequested \in BOOLEAN
  BY <1>1 DEF Whole, OpInv
<1>3. op.l \in Blocks
  BY <1>2, ListTypes DEF Whole
<1>4. /\ link' \in [Blocks -> Requests \cup {NoRequest}]
      /\ link'[op.l] = op.request
      /\ \A b \in Blocks : b # op.l => link'[b] = link[b]
  BY <1>1, <1>2, <1>3 DEF Whole, Shape
<1>5. Shape' /\ Apart'
  BY <1>1, <1>4 DEF Whole, Shape, Apart
<1>6. Filled'
  <2>1. ASSUME NEW s \in Handles, NEW b \in Elements(lists[s])
        PROVE  link'[b] \in Requests /\ link'[b].sf = s
    <3>1. b \in Blocks
      BY ListTypes DEF Whole
    <3>2. CASE b = op.l
      <4>1. s = op.sf
        BY <1>2, <3>1, <3>2 DEF Whole, Apart
      <4> QED
        BY <1>2, <1>4, <3>2, <4>1
    <3>3. CASE b # op.l
      BY <1>4, <3>1, <3>3 DEF Whole, Filled, IsRaw
    <3> QED
      BY <3>2, <3>3
  <2> QED
    BY <1>1, <2>1 DEF Filled
<1>7. OpInv'
  BY <1>1, <1>2, NothingType DEF OpInv
<1> QED
  BY <1>5, <1>6, <1>7 DEF Whole

LEMMA WholeChangeFrames == Whole /\ ChangeFrames => Whole'
<1> SUFFICES ASSUME Whole, ChangeFrames PROVE Whole'
  OBVIOUS
<1>1. /\ pc = "locked" /\ op.kind \in {"addFrame", "removeFrame"} /\ op.l = NoLink
      /\ pc' = "idle" /\ op' = Nothing /\ UNCHANGED <<lists, link, lockRequested>>
      /\ locked' = FALSE
      /\ frames' = IF op.kind = "addFrame" THEN Append(frames, op.sf)
                   ELSE Without(frames, op.sf)
  BY DEF ChangeFrames
<1>2. Fits(op) /\ lockRequested \in BOOLEAN
  BY <1>1 DEF Whole, OpInv
<1>3. frames \in Seq(Handles) /\ Unique(frames) /\ op.sf \in Handles
  BY <1>2 DEF Whole, Shape, Apart, Fits
<1>4. /\ frames' \in Seq(Handles) /\ Unique(frames')
      /\ \A s \in Elements(frames) : s = op.sf \/ s \in Elements(frames')
  <2>1. CASE op.kind = "addFrame"
    <3>1. op.sf \notin Elements(frames)
      BY <1>2, <2>1 DEF Fits
    <3> QED
      BY <1>1, <1>3, <2>1, <3>1, AppendElements
  <2>2. CASE op.kind = "removeFrame"
    BY <1>1, <1>3, <2>2, WithoutElements
  <2> QED
    BY <1>1, <2>1, <2>2
<1>5. op.kind = "removeFrame" => lists[op.sf] = <<>>
  BY <1>1, <1>2, <1>3, ListTypes, NameAssumption DEF Fits, FirstLink, Whole
<1>6. op.kind = "addFrame" => lists[op.sf] = <<>>
  BY <1>1, <1>2, <1>3 DEF Fits, Whole, Apart
<1>7. Shape'
  BY <1>1, <1>4 DEF Whole, Shape
<1>8. \A s \in Handles : lists[s] # <<>> => s \in Elements(frames')
  BY <1>1, <1>4, <1>5, <1>6 DEF Whole, Apart
<1>9. Apart'
  BY <1>1, <1>4, <1>8 DEF Whole, Apart
<1>10. Filled'
  BY <1>1 DEF Whole, Filled, IsRaw
<1>11. OpInv'
  BY <1>1, <1>2, NothingType DEF OpInv
<1> QED
  BY <1>7, <1>9, <1>10, <1>11 DEF Whole

LEMMA WholeNext == Whole /\ [Next]_vars => Whole'
<1> SUFFICES ASSUME Whole, [Next]_vars PROVE Whole'
  OBVIOUS
<1>1. CASE Slot
  <2>1. UNCHANGED <<schedVars, lockVars, procVars>>
    BY <1>1 DEF Slot, SlotStart, SlotIdle, SlotSkipped, SlotEnd
  <2> QED
    BY <2>1, WholeSame
<1>2. CASE Operation
  BY <1>2, WholeOperation
<1>3. CASE Finish
  BY <1>3, WholeLockTake, WholeUnlink, WholeList, WholeInitialise, WholeChangeFrames
     DEF Finish
<1>4. CASE \E n \in Unicast : NbrComes(n) \/ NbrGoes(n)
  <2>1. UNCHANGED <<schedVars, lockVars, procVars>>
    BY <1>4 DEF NbrComes, NbrGoes
  <2> QED
    BY <2>1, WholeSame
<1>5. CASE UNCHANGED vars
  <2>1. UNCHANGED <<schedVars, lockVars, procVars>>
    BY <1>5 DEF vars
  <2> QED
    BY <2>1, WholeSame
<1> QED
  BY <1>1, <1>2, <1>3, <1>4, <1>5 DEF Next, Process

\* Whatever operations come, and wherever slots interrupt them, the schedule is
\* whole whenever TSCH is not locked.
THEOREM AlwaysWhole == Spec => []WholeWhenUnlocked
<1>1. Inv /\ Whole => WholeWhenUnlocked
  <2> SUFFICES ASSUME Inv, Whole, ~locked PROVE WholeWhenUnlocked
    BY DEF WholeWhenUnlocked
  <2>1. pc # "raw"
    BY DEF Inv, HeldWhenLocked
  <2>2. ASSUME NEW s \in Handles, NEW i \in DOMAIN lists[s]
        PROVE  /\ lists[s][i] \in Elements(lists[s]) /\ lists[s][i] \in Blocks
               /\ link[lists[s][i]] \in Requests /\ link[lists[s][i]].sf = s
               /\ s \in Elements(frames)
    <3>1. lists[s][i] \in Elements(lists[s])
      BY DEF Elements
    <3>2. lists[s][i] \in Blocks /\ lists[s] # <<>>
      BY <3>1, ListTypes DEF Whole
    <3> QED
      BY <2>1, <3>1, <3>2 DEF Whole, Filled, IsRaw, Apart
  <2>3. ASSUME NEW s \in Handles, NEW i \in DOMAIN lists[s],
               NEW t \in Handles, NEW j \in DOMAIN lists[t], lists[t][j] = lists[s][i]
        PROVE  t = s /\ j = i
    <3>1. t = s
      BY <2>2, <2>3 DEF Whole, Apart
    <3> QED
      BY <2>3, <3>1 DEF Whole, Apart, Unique
  <2>4. Cardinality(Elements(frames)) = Len(frames)
    BY UniqueLength DEF Whole, Shape, Apart
  <2>5. \A s \in Handles : \A i \in DOMAIN lists[s] : link[lists[s][i]] # NoRequest
    BY <2>2, RequestAssumption
  <2> QED
    BY <2>2, <2>3, <2>4, <2>5 DEF WholeWhenUnlocked
<1> QED
  BY InitInv, NextInv, WholeInit, WholeNext, <1>1, PTL DEF Spec

-----------------------------------------------------------------------------
(* All links, in the order of the lists *)

LEMMA ConcatElements ==
  ASSUME NEW S, NEW p \in Seq(S), NEW q \in Seq(S)
  PROVE  p \o q \in Seq(S) /\ Elements(p \o q) = Elements(p) \cup Elements(q)
<1> DEFINE r == p \o q
<1>1. /\ Len(p) \in Nat /\ Len(q) \in Nat /\ r \in Seq(S) /\ Len(r) = Len(p) + Len(q)
      /\ DOMAIN p = 1 .. Len(p) /\ DOMAIN q = 1 .. Len(q) /\ DOMAIN r = 1 .. Len(p) + Len(q)
      /\ \A i \in 1 .. Len(p) + Len(q) : r[i] = IF i <= Len(p) THEN p[i] ELSE q[i - Len(p)]
  OBVIOUS
<1> HIDE DEF r
<1>2. ASSUME NEW x \in Elements(r) PROVE x \in Elements(p) \cup Elements(q)
  <2>1. PICK i \in 1 .. Len(p) + Len(q) : x = r[i]
    BY <1>1 DEF Elements
  <2>2. CASE i <= Len(p)
    <3>1. i \in 1 .. Len(p) /\ x = p[i]
      BY <1>1, <2>1, <2>2
    <3> QED
      BY <1>1, <3>1 DEF Elements
  <2>3. CASE ~(i <= Len(p))
    <3>1. i - Len(p) \in 1 .. Len(q) /\ x = q[i - Len(p)]
      BY <1>1, <2>1, <2>3
    <3> QED
      BY <1>1, <3>1 DEF Elements
  <2> QED
    BY <2>2, <2>3
<1>3. ASSUME NEW x \in Elements(p) PROVE x \in Elements(r)
  <2>1. PICK i \in 1 .. Len(p) : x = p[i]
    BY <1>1 DEF Elements
  <2>2. i \in 1 .. Len(p) + Len(q) /\ r[i] = x
    BY <1>1, <2>1
  <2> QED
    BY <1>1, <2>2 DEF Elements
<1>4. ASSUME NEW x \in Elements(q) PROVE x \in Elements(r)
  <2>1. PICK i \in 1 .. Len(q) : x = q[i]
    BY <1>1 DEF Elements
  <2>2. i + Len(p) \in 1 .. Len(p) + Len(q) /\ ~(i + Len(p) <= Len(p))
        /\ (i + Len(p)) - Len(p) = i
    BY <1>1
  <2>3. r[i + Len(p)] = x
    BY <1>1, <2>1, <2>2
  <2> QED
    BY <1>1, <2>2, <2>3 DEF Elements
<1> QED
  BY <1>1, <1>2, <1>3, <1>4 DEF r

\* The recursive function of AllLinks.
UpTo ==
  LET upTo[i \in 0 .. Len(frames)] ==
        IF i = 0 THEN <<>> ELSE upTo[i - 1] \o lists[frames[i]]
  IN upTo

\* g is that function as far as index k.
UpToUnfolds(g, k) ==
  g = [i \in 0 .. k |-> IF i = 0 THEN <<>> ELSE g[i - 1] \o lists[frames[i]]]

\* There is such a function: the first k values extend to the first k + 1.
LEMMA UpToExists ==
  ASSUME frames \in Seq(Handles)
  PROVE  UpToUnfolds(UpTo, Len(frames))
<1> DEFINE S == {k \in Nat : \E g : UpToUnfolds(g, k)}
<1>1. 0 \in S
  <2>1. UpToUnfolds([i \in 0 .. 0 |-> <<>>], 0)
    BY DEF UpToUnfolds
  <2> QED
    BY <2>1
<1>2. ASSUME NEW k \in Nat, k \in S PROVE k + 1 \in S
  <2>1. PICK g : UpToUnfolds(g, k)
    BY <1>2
  <2> DEFINE h == [i \in 0 .. k + 1 |-> IF i = k + 1 THEN g[k] \o lists[frames[k + 1]] ELSE g[i]]
  <2>2. ASSUME NEW i \in 0 .. k + 1
        PROVE  h[i] = IF i = 0 THEN <<>> ELSE h[i - 1] \o lists[frames[i]]
    <3>1. CASE i = k + 1
      <4>1. k \in 0 .. k + 1 /\ k # k + 1 /\ i - 1 = k /\ i # 0
        BY <3>1
      <4>2. h[k] = g[k]
        BY <4>1
      <4> QED
        BY <3>1, <4>1, <4>2
    <3>2. CASE i \in 0 .. k
      <4>1. g[i] = IF i = 0 THEN <<>> ELSE g[i - 1] \o lists[frames[i]]
        BY <2>1, <3>2 DEF UpToUnfolds
      <4>2. i # k + 1 /\ (i # 0 => i - 1 \in 0 .. k + 1 /\ i - 1 # k + 1)
        BY <3>2
      <4>3. h[i] = g[i] /\ (i # 0 => h[i - 1] = g[i - 1])
        BY <4>2
      <4> QED
        BY <4>1, <4>3
    <3> QED
      BY <3>1, <3>2
  <2>3. UpToUnfolds(h, k + 1)
    BY <2>2 DEF UpToUnfolds
  <2> QED
    BY <2>3
<1> HIDE DEF S
<1>3. Len(frames) \in S
  BY <1>1, <1>2, Induction
<1>4. PICK g : UpToUnfolds(g, Len(frames))
  BY <1>3 DEF S
<1> QED
  BY <1>4 DEF UpTo, UpToUnfolds

\* The list holds every listed block and nothing else.
LEMMA AllLinksListed ==
  ASSUME Shape, Apart
  PROVE  /\ AllLinks \in Seq(Blocks)
         /\ Elements(AllLinks) = {b \in Blocks : Listed(b)}
<1> DEFINE n == Len(frames)
           Holds(g) == \A b : b \in Elements(UpTo[g]) <=>
                         \E j \in 1 .. g : b \in Elements(lists[frames[j]])
           P(g) == UpTo[g] \in Seq(Blocks) /\ Holds(g)
           S == {g \in Nat : g <= n => P(g)}
<1>1. n \in Nat /\ \A i \in 1 .. n : frames[i] \in Handles
  BY DEF Shape
<1>2. UpTo = [i \in 0 .. n |-> IF i = 0 THEN <<>> ELSE UpTo[i - 1] \o lists[frames[i]]]
  BY UpToExists DEF UpToUnfolds, Shape
<1>3. 0 \in S
  <2>1. UpTo[0] = <<>>
    BY <1>1, <1>2
  <2>2. Elements(<<>>) = {} /\ <<>> \in Seq(Blocks)
    BY DEF Elements
  <2>3. \A j : j \notin 1 .. 0
    OBVIOUS
  <2>4. P(0)
    BY <2>1, <2>2, <2>3
  <2> QED
    BY <2>4
<1>4. ASSUME NEW g \in Nat, g \in S PROVE g + 1 \in S
  <2> SUFFICES ASSUME g + 1 <= n PROVE P(g + 1)
    OBVIOUS
  <2>1. P(g)
    BY <1>1, <1>4
  <2>2. UpTo[g + 1] = UpTo[g] \o lists[frames[g + 1]]
    <3>1. g + 1 \in 0 .. n /\ g + 1 # 0 /\ (g + 1) - 1 = g
      BY <1>1
    <3> QED
      BY <1>2, <3>1
  <2>3. frames[g + 1] \in Handles /\ lists[frames[g + 1]] \in Seq(Blocks)
    BY <1>1 DEF Shape
  <2>4. /\ UpTo[g + 1] \in Seq(Blocks)
        /\ Elements(UpTo[g + 1]) = Elements(UpTo[g]) \cup Elements(lists[frames[g + 1]])
    BY <2>1, <2>2, <2>3, ConcatElements
  <2>5. \A j : j \in 1 .. g + 1 <=> j \in 1 .. g \/ j = g + 1
    OBVIOUS
  <2>6. Holds(g + 1)
    BY <2>1, <2>4, <2>5
  <2> QED
    BY <2>4, <2>6
<1>5. P(n)
  <2>1. n \in S
    <3> HIDE DEF S, n
    <3> QED
      BY <1>1, <1>3, <1>4, Induction
  <2> QED
    BY <1>1, <2>1
<1>6. AllLinks = UpTo[n]
  BY DEF AllLinks, UpTo
<1>7. ASSUME NEW b \in Blocks PROVE Listed(b) <=> \E j \in 1 .. n : b \in Elements(lists[frames[j]])
  <2>1. ASSUME NEW s \in Handles, b \in Elements(lists[s])
        PROVE  \E j \in 1 .. n : b \in Elements(lists[frames[j]])
    <3>1. s \in Elements(frames)
      BY <2>1, ListTypes DEF Apart
    <3>2. DOMAIN frames = 1 .. n
      BY DEF Shape
    <3> QED
      BY <2>1, <3>1, <3>2 DEF Elements
  <2> QED
    BY <1>1, <2>1 DEF Listed
<1>8. Elements(UpTo[n]) \subseteq Blocks
  BY <1>5, ElementsType
<1> HIDE DEF n
<1> QED
  BY <1>5, <1>6, <1>7, <1>8

-----------------------------------------------------------------------------
(* The next active link *)

\* What a link holds, if it is initialised.
LEMMA LinkFields ==
  ASSUME NEW l, link[l] \in Requests
  PROVE  /\ link[l].sf \in Handles /\ link[l].sf \in Nat
         /\ Size[link[l].sf] \in Nat \ {0} /\ link[l].ts \in 0 .. Size[link[l].sf] - 1
         /\ link[l].tx \in BOOLEAN /\ link[l].rx \in BOOLEAN /\ link[l].addr \in Addrs
BY RequestAssumption, HandleAssumption

\* The slots until link l, if l can be active at all.
LEMMA TimeToRange ==
  ASSUME NEW a \in Nat, NEW l, link[l] \in Requests
  PROVE  /\ TimeTo(a, l) \in 1 .. Size[link[l].sf]
         /\ (a + TimeTo(a, l)) % Size[link[l].sf] = link[l].ts
<1> DEFINE z == Size[link[l].sf]
           ts == link[l].ts
           t == a % z
           k == a \div z
<1>1. z \in Nat \ {0} /\ ts \in 0 .. z - 1
  BY LinkFields
<1>2. TimeTo(a, l) = IF ts > t THEN ts - t ELSE z + ts - t
  BY DEF TimeTo
<1> HIDE DEF z, ts
<1>3. t \in 0 .. z - 1 /\ k \in Nat /\ a = z * k + t
  BY <1>1
<1> HIDE DEF t, k
<1>4. TimeTo(a, l) \in 1 .. z
  BY <1>1, <1>2, <1>3
<1>5. ASSUME NEW m \in Nat PROVE (z * m + ts) % z = ts
  BY <1>1
<1>6. CASE ts > t
  <2>1. a + TimeTo(a, l) = z * k + ts
    BY <1>1, <1>2, <1>3, <1>6
  <2> QED
    BY <1>3, <1>4, <1>5, <2>1 DEF z, ts
<1>7. CASE ~(ts > t)
  <2>1. a + TimeTo(a, l) = z * (k + 1) + ts
    BY <1>1, <1>2, <1>3, <1>7
  <2>2. k + 1 \in Nat
    BY <1>3
  <2> QED
    BY <1>4, <1>5, <2>1, <2>2 DEF z, ts
<1> QED
  BY <1>6, <1>7

\* How many packets wait for the address of a transmit link.
LEMMA PacketsType ==
  ASSUME NEW q \in PacketCounts, NEW l, link[l] \in Requests, link[l].tx
  PROVE  q[link[l].addr] \in Nat
BY DEF PacketCounts

\* Before is an order.
LEMMA BeforeOrder ==
  ASSUME NEW q \in PacketCounts, NEW k, NEW l, NEW c,
         link[k] \in Requests, link[l] \in Requests, link[c] \in Requests
  PROVE  /\ ~Before(l, l, q)
         /\ Before(k, l, q) /\ Before(l, c, q) => Before(k, c, q)
<1>1. /\ link[k].sf \in Nat /\ link[l].sf \in Nat /\ link[c].sf \in Nat
      /\ link[k].tx \in BOOLEAN /\ link[l].tx \in BOOLEAN /\ link[c].tx \in BOOLEAN
  BY LinkFields
<1>2. /\ link[k].tx => q[link[k].addr] \in Nat
      /\ link[l].tx => q[link[l].addr] \in Nat
      /\ link[c].tx => q[link[c].addr] \in Nat
  BY PacketsType
<1> QED
  BY <1>1, <1>2 DEF Before

\* The comparisons of the code follow this order.
LEMMA NewBestOrder ==
  ASSUME NEW q \in PacketCounts, NEW c \in Blocks, NEW l \in Blocks,
         link[c] \in Requests, link[l] \in Requests
  PROVE  /\ Before(l, c, q) => NewBest(c, l, q) = l
         /\ ~Before(l, c, q) => NewBest(c, l, q) \in {c, NoLink}
<1>1. /\ link[l].sf \in Nat /\ link[c].sf \in Nat
      /\ link[l].tx \in BOOLEAN /\ link[c].tx \in BOOLEAN
  BY LinkFields
<1>2. /\ link[l].tx => q[link[l].addr] \in Nat
      /\ link[c].tx => q[link[c].addr] \in Nat
  BY PacketsType
<1>3. CASE link[l].tx # link[c].tx
  BY <1>1, <1>3 DEF Before, NewBest
<1>4. CASE link[l].tx = link[c].tx /\ link[l].sf # link[c].sf
  BY <1>1, <1>4 DEF Before, NewBest
<1>5. CASE link[l].tx = link[c].tx /\ link[l].sf = link[c].sf
  <2>1. NewBest(c, l, q) = Comparator(c, l, q)
    BY <1>5 DEF NewBest
  <2>2. Before(l, c, q) <=> link[l].tx /\ link[c].tx /\ q[link[l].addr] > q[link[c].addr]
    BY <1>1, <1>5 DEF Before
  <2> QED
    BY <1>1, <1>2, <1>5, <2>1, <2>2 DEF Comparator
<1> QED
  BY <1>3, <1>4, <1>5

\* What the loop has found among the links D: an earliest one that no other
\* of the earliest comes before, and a backup of the lowest handle among the
\* others that can receive.
Best(f, D, a, q) ==
  /\ f.best \in D /\ f.time = TimeTo(a, f.best)
  /\ \A l \in D : f.time <= TimeTo(a, l)
  /\ \A l \in D : TimeTo(a, l) = f.time => ~Before(l, f.best, q)
Backup(f, D, a) ==
  /\ f.backup \in D \cup {NoLink}
  /\ f.backup # NoLink => TimeTo(a, f.backup) = f.time /\ link[f.backup].rx
  /\ \A l \in D : TimeTo(a, l) = f.time /\ l # f.best /\ link[l].rx =>
       f.backup # NoLink /\ link[f.backup].sf <= link[l].sf
Found(f, D, a, q) ==
  IF D = {} THEN f = NothingActive ELSE Best(f, D, a, q) /\ Backup(f, D, a)

\* One more link is visited.
LEMMA VisitFound ==
  ASSUME NEW a \in Nat, NEW q \in PacketCounts, NEW D \in SUBSET Blocks,
         NEW l \in Blocks, link[l] \in Requests, \A k \in D : link[k] \in Requests,
         NEW f, Found(f, D, a, q)
  PROVE  Found(Visit(a, q, f, l), D \cup {l}, a, q)
<1> DEFINE t == TimeTo(a, l)
           g == Visit(a, q, f, l)
           E == D \cup {l}
<1>1. t \in Nat /\ \A k \in D : TimeTo(a, k) \in Nat
  BY TimeToRange, LinkFields
<1>2. ~Before(l, l, q) /\ link[l].sf \in Nat /\ \A k \in D : link[k].sf \in Nat
  BY BeforeOrder, LinkFields
<1>3. l # NoLink /\ NoLink \notin D
  BY NameAssumption
<1>4. CASE f.best = NoLink \/ t < f.time
  <2>1. g = [best |-> l, backup |-> NoLink, time |-> t]
    BY <1>4 DEF Visit
  <2>2. \A k \in D : t < TimeTo(a, k)
    <3>1. CASE D = {}
      BY <3>1
    <3>2. CASE D # {}
      BY <1>1, <1>3, <1>4, <3>2 DEF Found, Best
    <3> QED
      BY <3>1, <3>2
  <2>3. Best(g, E, a, q)
    BY <1>1, <1>2, <2>1, <2>2 DEF Best
  <2>4. Backup(g, E, a)
    BY <1>1, <2>1, <2>2 DEF Backup
  <2> QED
    BY <2>3, <2>4 DEF Found
<1>5. CASE f.best # NoLink /\ ~(t < f.time)
  <2>1. D # {} /\ Best(f, D, a, q) /\ Backup(f, D, a)
    BY <1>5 DEF Found, NothingActive
  <2>2. f.best \in D /\ f.time \in Nat /\ f.time = TimeTo(a, f.best)
    BY <1>1, <2>1 DEF Best
  <2>3. CASE t # f.time
    <3>1. g = f
      BY <1>5, <2>3 DEF Visit
    <3>2. f.time < t
      BY <1>1, <1>5, <2>2, <2>3
    <3>3. Best(f, E, a, q) /\ Backup(f, E, a)
      BY <1>1, <2>1, <2>2, <3>2 DEF Best, Backup
    <3> QED
      BY <3>1, <3>3 DEF Found
  <2>4. CASE t = f.time
    <3> DEFINE nb == NewBest(f.best, l, q)
               s1 == Spare(f.backup, l, nb)
               s2 == Spare(s1, f.best, nb)
    <3>1. g = [best |-> IF nb = NoLink THEN f.best ELSE nb, backup |-> s2, time |-> t]
      BY <1>5, <2>4 DEF Visit
    <3>2. /\ Before(l, f.best, q) => nb = l
          /\ ~Before(l, f.best, q) => nb \in {f.best, NoLink}
      BY <2>2, NewBestOrder
    <3> HIDE DEF nb
    <3>3. Best(g, E, a, q)
      <4>1. g.time = t /\ g.best = IF nb = NoLink THEN f.best ELSE nb
        BY <3>1
      <4>2. CASE Before(l, f.best, q)
        <5>1. g.best = l
          BY <1>3, <3>2, <4>1, <4>2
        <5>2. ASSUME NEW k \in D, TimeTo(a, k) = t PROVE ~Before(k, l, q)
          <6>1. ~Before(k, f.best, q) /\ link[k] \in Requests /\ link[f.best] \in Requests
            BY <2>1, <2>2, <2>4, <5>2 DEF Best
          <6> QED
            BY <4>2, <6>1, BeforeOrder
        <5> QED
          BY <1>2, <2>1, <2>4, <4>1, <5>1, <5>2, <1>1 DEF Best
      <4>3. CASE ~Before(l, f.best, q)
        <5>1. g.best = f.best
          BY <3>2, <4>1, <4>3
        <5> QED
          BY <1>1, <2>1, <2>2, <2>4, <4>1, <4>3, <5>1 DEF Best
      <4> QED
        BY <4>2, <4>3
    <3>4. Backup(g, E, a)
      <4>1. /\ s1 \in {f.backup, l}
            /\ s1 = l /\ s1 # f.backup => link[l].rx
            /\ f.backup # NoLink => s1 # NoLink /\ link[s1].sf <= link[f.backup].sf
            /\ nb # l /\ link[l].rx => s1 # NoLink /\ link[s1].sf <= link[l].sf
        BY <1>2, <1>3, <2>1 DEF Spare, Backup
      <4> HIDE DEF s1
      <4>2. link[s1].sf \in Nat \/ s1 = NoLink
        BY <1>2, <2>1, <4>1 DEF Backup
      <4>3. /\ s2 \in {s1, f.best}
            /\ s2 = f.best /\ s2 # s1 => link[f.best].rx
            /\ s1 # NoLink => s2 # NoLink /\ link[s2].sf <= link[s1].sf
            /\ nb # f.best /\ link[f.best].rx => s2 # NoLink /\ link[s2].sf <= link[f.best].sf
        BY <1>2, <1>3, <2>2, <4>2 DEF Spare
      <4> HIDE DEF s2
      <4>4. link[s2].sf \in Nat \/ s2 = NoLink
        BY <1>2, <2>2, <4>2, <4>3
      <4>5. g.backup = s2 /\ g.time = t /\ g.best = IF nb = NoLink THEN f.best ELSE nb
        BY <3>1
      <4>6. s2 \in E \cup {NoLink}
        BY <2>1, <2>2, <4>1, <4>3 DEF Backup
      <4>7. s2 # NoLink => TimeTo(a, s2) = t /\ link[s2].rx
        BY <2>1, <2>2, <2>4, <4>1, <4>3 DEF Backup
      <4>8. ASSUME NEW k \in E, TimeTo(a, k) = t, k # g.best, link[k].rx
            PROVE  s2 # NoLink /\ link[s2].sf <= link[k].sf
        <5>1. link[k].sf \in Nat
          BY <1>2
        <5>2. CASE k = f.best
          <6>1. nb # f.best
            BY <1>3, <2>2, <4>5, <4>8, <5>2
          <6> QED
            BY <4>3, <4>8, <5>2, <6>1
        <5>3. CASE k = l /\ k # f.best
          <6>1. nb # l
            BY <1>3, <4>5, <4>8, <5>3
          <6> QED
            BY <4>1, <4>2, <4>3, <4>4, <4>8, <5>1, <5>3, <6>1
        <5>4. CASE k \in D /\ k # f.best
          <6>1. f.backup # NoLink /\ link[f.backup].sf <= link[k].sf /\ link[f.backup].sf \in Nat
            BY <1>2, <2>1, <2>4, <4>8, <5>4 DEF Backup
          <6> QED
            BY <4>1, <4>2, <4>3, <4>4, <5>1, <6>1
        <5> QED
          BY <5>2, <5>3, <5>4
      <4> QED
        BY <4>5, <4>6, <4>7, <4>8 DEF Backup
    <3> QED
      BY <3>3, <3>4 DEF Found
  <2> QED
    BY <2>3, <2>4
<1> QED
  BY <1>4, <1>5

\* The recursive function of Search.
Rounds(a, q) ==
  LET links == AllLinks
      found[i \in 0 .. Len(links)] ==
        IF i = 0 THEN NothingActive ELSE Visit(a, q, found[i - 1], links[i])
  IN found

\* g is that function as far as index k.
RoundsUnfold(g, a, q, k) ==
  g = [i \in 0 .. k |->
         IF i = 0 THEN NothingActive ELSE Visit(a, q, g[i - 1], AllLinks[i])]

LEMMA RoundsExist ==
  ASSUME NEW a, NEW q, AllLinks \in Seq(Blocks)
  PROVE  RoundsUnfold(Rounds(a, q), a, q, Len(AllLinks))
<1> DEFINE S == {k \in Nat : \E g : RoundsUnfold(g, a, q, k)}
<1>1. 0 \in S
  <2>1. RoundsUnfold([i \in 0 .. 0 |-> NothingActive], a, q, 0)
    BY DEF RoundsUnfold
  <2> QED
    BY <2>1
<1>2. ASSUME NEW k \in Nat, k \in S PROVE k + 1 \in S
  <2>1. PICK g : RoundsUnfold(g, a, q, k)
    BY <1>2
  <2> DEFINE h == [i \in 0 .. k + 1 |->
                     IF i = k + 1 THEN Visit(a, q, g[k], AllLinks[k + 1]) ELSE g[i]]
  <2>2. ASSUME NEW i \in 0 .. k + 1
        PROVE  h[i] = IF i = 0 THEN NothingActive ELSE Visit(a, q, h[i - 1], AllLinks[i])
    <3>1. CASE i = k + 1
      <4>1. k \in 0 .. k + 1 /\ k # k + 1 /\ i - 1 = k /\ i # 0
        BY <3>1
      <4>2. h[k] = g[k]
        BY <4>1
      <4> QED
        BY <3>1, <4>1, <4>2
    <3>2. CASE i \in 0 .. k
      <4>1. g[i] = IF i = 0 THEN NothingActive ELSE Visit(a, q, g[i - 1], AllLinks[i])
        BY <2>1, <3>2 DEF RoundsUnfold
      <4>2. i # k + 1 /\ (i # 0 => i - 1 \in 0 .. k + 1 /\ i - 1 # k + 1)
        BY <3>2
      <4>3. h[i] = g[i] /\ (i # 0 => h[i - 1] = g[i - 1])
        BY <4>2
      <4> QED
        BY <4>1, <4>3
    <3> QED
      BY <3>1, <3>2
  <2>3. RoundsUnfold(h, a, q, k + 1)
    BY <2>2 DEF RoundsUnfold
  <2> QED
    BY <2>3
<1> HIDE DEF S
<1>3. Len(AllLinks) \in S
  BY <1>1, <1>2, Induction
<1>4. PICK g : RoundsUnfold(g, a, q, Len(AllLinks))
  BY <1>3 DEF S
<1> QED
  BY <1>4 DEF Rounds, RoundsUnfold

\* Every link that can be found is initialised while TSCH is not locked.
LEMMA ActiveLinks ==
  ASSUME Inv, Whole, ~locked
  PROVE  /\ AllLinks \in Seq(Blocks)
         /\ \A l \in Elements(AllLinks) : l \in Blocks /\ Listed(l) /\ link[l] \in Requests
<1>1. pc # "raw"
  BY DEF Inv, HeldWhenLocked
<1> QED
  BY <1>1, AllLinksListed DEF Whole, Listed, Filled, IsRaw

\* The loops find what they should, whatever the order of the lists.
LEMMA SearchFound ==
  ASSUME Inv, Whole, ~locked, NEW a \in Nat, NEW q \in PacketCounts
  PROVE  Found(Search(a, q), Elements(AllLinks), a, q)
<1> DEFINE n == Len(AllLinks)
           D(i) == {AllLinks[j] : j \in 1 .. i}
           R == Rounds(a, q)
           P(i) == Found(R[i], D(i), a, q)
           S == {i \in Nat : i <= n => P(i)}
<1>1. /\ n \in Nat /\ DOMAIN AllLinks = 1 .. n
      /\ \A j \in 1 .. n : AllLinks[j] \in Blocks /\ link[AllLinks[j]] \in Requests
  BY ActiveLinks DEF Elements
<1>2. R = [i \in 0 .. n |->
             IF i = 0 THEN NothingActive ELSE Visit(a, q, R[i - 1], AllLinks[i])]
  BY RoundsExist, ActiveLinks DEF RoundsUnfold
<1> HIDE DEF n, R
<1>3. 0 \in S
  <2>1. R[0] = NothingActive
    BY <1>1, <1>2
  <2>2. D(0) = {}
    OBVIOUS
  <2> QED
    BY <2>1, <2>2 DEF Found
<1>4. ASSUME NEW i \in Nat, i \in S PROVE i + 1 \in S
  <2> SUFFICES ASSUME i + 1 <= n PROVE P(i + 1)
    OBVIOUS
  <2>1. P(i)
    BY <1>1, <1>4
  <2>2. R[i + 1] = Visit(a, q, R[i], AllLinks[i + 1])
    <3>1. i + 1 \in 0 .. n /\ i + 1 # 0 /\ (i + 1) - 1 = i
      BY <1>1
    <3> QED
      BY <1>2, <3>1
  <2>3. D(i + 1) = D(i) \cup {AllLinks[i + 1]}
    <3>1. \A j : j \in 1 .. i + 1 <=> j \in 1 .. i \/ j = i + 1
      OBVIOUS
    <3> QED
      BY <3>1
  <2>4. \A k \in D(i) : k \in Blocks /\ link[k] \in Requests
    <3>1. \A j \in 1 .. i : j \in 1 .. n
      BY <1>1
    <3> QED
      BY <1>1, <3>1
  <2>5. AllLinks[i + 1] \in Blocks /\ link[AllLinks[i + 1]] \in Requests
    <3>1. i + 1 \in 1 .. n
      BY <1>1
    <3> QED
      BY <1>1, <3>1
  <2>6. D(i) \in SUBSET Blocks
    BY <2>4
  <2> HIDE DEF D
  <2>7. Found(Visit(a, q, R[i], AllLinks[i + 1]), D(i) \cup {AllLinks[i + 1]}, a, q)
    BY <2>1, <2>4, <2>5, <2>6, VisitFound
  <2> QED
    BY <2>2, <2>3, <2>7
<1>5. P(n)
  <2>1. n \in S
    <3> HIDE DEF S
    <3> QED
      BY <1>1, <1>3, <1>4, Induction
  <2> QED
    BY <1>1, <2>1
<1>6. Search(a, q) = R[n]
  BY DEF Search, Rounds, R, n
<1>7. D(n) = Elements(AllLinks)
  BY <1>1 DEF Elements
<1> HIDE DEF D
<1> QED
  BY <1>5, <1>6, <1>7

\* What a slot finds in the schedule.
LEMMA NextActiveType ==
  ASSUME Inv, Whole, NEW a \in Nat, NEW q \in PacketCounts, NEW n, n = NextActive(a, q)
  PROVE  /\ n.best \in Blocks \cup {NoLink} /\ n.backup \in Blocks \cup {NoLink}
         /\ n.time \in Nat
         /\ n.best # NoLink => Listed(n.best) /\ ~IsRaw(n.best)
<1>1. CASE locked
  BY <1>1 DEF NextActive, NothingActive
<1>2. CASE ~locked
  <2>1. Found(n, Elements(AllLinks), a, q)
    BY <1>2, SearchFound DEF NextActive
  <2>2. pc # "raw"
    BY <1>2 DEF Inv, HeldWhenLocked
  <2>3. CASE Elements(AllLinks) = {}
    BY <2>1, <2>3 DEF Found, NothingActive
  <2>4. CASE Elements(AllLinks) # {}
    <3>1. /\ n.best \in Elements(AllLinks) /\ n.time = TimeTo(a, n.best)
          /\ n.backup \in Elements(AllLinks) \cup {NoLink}
      BY <2>1, <2>4 DEF Found, Best, Backup
    <3>2. n.time \in Nat
      <4>1. link[n.best] \in Requests
        BY <1>2, <3>1, ActiveLinks
      <4>2. TimeTo(a, n.best) \in Nat
        BY <4>1, TimeToRange, LinkFields
      <4> QED
        BY <3>1, <4>2
    <3> QED
      BY <1>2, <2>2, <3>1, <3>2, ActiveLinks DEF IsRaw
  <2> QED
    BY <2>3, <2>4
<1> QED
  BY <1>1, <1>2

\* The choice of the code is the choice of the properties.
LEMMA ChoiceFound ==
  ASSUME Inv, Whole, ~locked, asn \in Nat
  PROVE  ChoiceIsRight
<1> SUFFICES ASSUME NEW q \in PacketCounts
             PROVE  LET n == NextActive(asn, q)
                        es == Earliest(asn)
                        listens == IF GivesWay(n.best, n.backup) THEN n.backup ELSE n.best
                    IN IF es = {} THEN n = NothingActive
                       ELSE /\ n.best \in es /\ n.time = TimeTo(asn, n.best)
                            /\ n.time \in 1 .. Size[link[n.best].sf]
                            /\ (asn + n.time) % Size[link[n.best].sf] = link[n.best].ts
                            /\ \A l \in es : ~Before(l, n.best, q)
                            /\ listens \in es
                            /\ \A l \in es : link[l].rx =>
                                 link[listens].rx /\ link[listens].sf <= link[l].sf
  BY DEF ChoiceIsRight
<1> DEFINE n == NextActive(asn, q)
           es == Earliest(asn)
           D == Elements(AllLinks)
           listens == IF GivesWay(n.best, n.backup) THEN n.backup ELSE n.best
<1>1. Found(n, D, asn, q)
  BY SearchFound DEF NextActive
<1>2. /\ NoLink \notin D
      /\ \A l \in D : /\ link[l] \in Requests /\ link[l].sf \in Nat
                      /\ TimeTo(asn, l) \in Nat
                      /\ TimeTo(asn, l) \in 1 .. Size[link[l].sf]
                      /\ (asn + TimeTo(asn, l)) % Size[link[l].sf] = link[l].ts
  <2>1. \A l \in D : l \in Blocks /\ link[l] \in Requests
    BY ActiveLinks
  <2>2. ASSUME NEW l \in D
        PROVE  /\ link[l].sf \in Nat /\ Size[link[l].sf] \in Nat
               /\ TimeTo(asn, l) \in 1 .. Size[link[l].sf]
               /\ (asn + TimeTo(asn, l)) % Size[link[l].sf] = link[l].ts
    BY <2>1, TimeToRange, LinkFields
  <2>3. \A l \in D : TimeTo(asn, l) \in Nat
    BY <2>2
  <2> HIDE DEF D
  <2> QED
    BY <2>1, <2>2, <2>3, NameAssumption
<1>3. es = {l \in D : \A k \in D : TimeTo(asn, l) <= TimeTo(asn, k)}
  BY DEF Earliest
<1> HIDE DEF n, es, D
<1>4. CASE D = {}
  <2>1. es = {} /\ n = NothingActive
    BY <1>1, <1>3, <1>4 DEF Found
  <2> QED
    BY <2>1 DEF n, es
<1>5. CASE D # {}
  <2>1. Best(n, D, asn, q) /\ Backup(n, D, asn)
    BY <1>1, <1>5 DEF Found
  <2>2. n.best \in D /\ n.time = TimeTo(asn, n.best) /\ \A l \in D : n.time <= TimeTo(asn, l)
    BY <2>1 DEF Best
  <2>3. \A l \in D : l \in es <=> TimeTo(asn, l) = n.time
    BY <1>2, <1>3, <2>2
  <2>4. n.best \in es /\ es \subseteq D
    BY <1>3, <2>2, <2>3
  <2>5. \A l \in es : ~Before(l, n.best, q)
    BY <2>1, <2>3, <2>4 DEF Best
  <2>6. /\ n.backup # NoLink => n.backup \in es /\ link[n.backup].rx
        /\ \A l \in es : l # n.best /\ link[l].rx =>
             n.backup # NoLink /\ link[n.backup].sf <= link[l].sf
    BY <2>1, <2>3, <2>4 DEF Backup
  <2>7. listens \in es
    BY <2>4, <2>6 DEF GivesWay
  <2>8. ASSUME NEW l \in es, link[l].rx
        PROVE  link[listens].rx /\ link[listens].sf <= link[l].sf
    <3>1. /\ link[l].sf \in Nat /\ link[n.best].sf \in Nat
          /\ n.backup # NoLink => link[n.backup].sf \in Nat
      BY <1>2, <2>4, <2>6
    <3>2. CASE GivesWay(n.best, n.backup)
      <4>1. listens = n.backup /\ n.backup # NoLink
        BY <3>2 DEF GivesWay
      <4>2. l = n.best => link[n.backup].sf < link[l].sf
        BY <2>8, <3>2 DEF GivesWay
      <4> QED
        BY <2>6, <2>8, <3>1, <4>1, <4>2
    <3>3. CASE ~GivesWay(n.best, n.backup)
      <4>1. listens = n.best
        BY <3>3
      <4>2. n.backup # NoLink => link[n.best].rx /\ ~(link[n.backup].sf < link[n.best].sf)
        BY <3>3 DEF GivesWay
      <4> QED
        BY <2>6, <2>8, <3>1, <4>1, <4>2
    <3> QED
      BY <3>2, <3>3
  <2>9. /\ n.time \in 1 .. Size[link[n.best].sf]
        /\ (asn + n.time) % Size[link[n.best].sf] = link[n.best].ts
    BY <1>2, <2>2
  <2>10. es # {}
    BY <2>4
  <2> QED
    BY <2>2, <2>4, <2>5, <2>7, <2>8, <2>9, <2>10 DEF n, es
<1> QED
  BY <1>4, <1>5

-----------------------------------------------------------------------------
(* The slot operation *)

\* The links of a slot and of the next one.  While a link is needed, for a slot
\* that runs or for a burst, current_link and the channel are those of the slot
\* with which the burst began, unless the link was removed.
SlotInv ==
  /\ {current, backup, first.l} \subseteq Blocks \cup {NoLink}
  /\ slot \in {"out", "tx", "rx"} /\ asn \in 0 .. Cycle - 1
  /\ {burst, fellBack, cut} \subseteq BOOLEAN
  /\ slot # "out" => ~burst
  /\ current # NoLink /\ ~fellBack => Listed(current) /\ ~IsRaw(current)
  /\ (burst \/ slot # "out") /\ ~cut =>
       current # NoLink /\ current = first.l /\ channel = first.chan
  /\ burst /\ slot = "out" /\ ~cut => backup = NoLink

LEMMA SlotInit == Init => SlotInv
<1> SUFFICES ASSUME Init PROVE SlotInv
  OBVIOUS
<1>1. 0 \in 0 .. Cycle - 1
  BY HandleAssumption
<1> QED
  BY <1>1 DEF Init, NoSlot, SlotInv

\* Where the loop at the end of a slot is.
WalkType ==
  [current : Blocks \cup {NoLink}, backup : Blocks \cup {NoLink},
   asn : 0 .. Cycle - 1, burst : BOOLEAN, fellBack : BOOLEAN]

LEMMA RescheduleWalk ==
  ASSUME Inv, Whole, NEW w \in WalkType, NEW q \in PacketCounts,
         NEW v, v = Reschedule(w, q)
  PROVE  /\ v \in WalkType /\ v.burst = w.burst
         /\ w.burst /\ w.current # NoLink =>
              v.current = w.current /\ v.backup = NoLink /\ v.fellBack = w.fellBack
         /\ ~(w.burst /\ w.current # NoLink) =>
              ~v.fellBack /\ (v.current # NoLink => Listed(v.current) /\ ~IsRaw(v.current))
<1>1. \A i \in Nat : i % Cycle \in 0 .. Cycle - 1
  BY HandleAssumption
<1>2. w.asn \in Nat /\ (w.asn + 1) % Cycle \in 0 .. Cycle - 1
  BY <1>1, HandleAssumption DEF WalkType
<1>3. CASE w.burst /\ w.current # NoLink
  <2>1. v = [w EXCEPT !.backup = NoLink, !.asn = (w.asn + 1) % Cycle]
    BY <1>3 DEF Reschedule
  <2> QED
    BY <1>2, <1>3, <2>1 DEF WalkType
<1>4. CASE ~(w.burst /\ w.current # NoLink)
  <2> DEFINE n == NextActive(w.asn, q)
  <2>1. v = [w EXCEPT !.current = n.best, !.backup = n.backup,
                      !.asn = (w.asn + n.time) % Cycle, !.fellBack = FALSE]
    BY <1>4 DEF Reschedule
  <2>2. /\ n.best \in Blocks \cup {NoLink} /\ n.backup \in Blocks \cup {NoLink}
        /\ n.time \in Nat
        /\ n.best # NoLink => Listed(n.best) /\ ~IsRaw(n.best)
    BY <1>2, NextActiveType
  <2> HIDE DEF n
  <2>3. (w.asn + n.time) % Cycle \in 0 .. Cycle - 1
    BY <1>1, <1>2, <2>2
  <2>4. v \in WalkType /\ v.burst = w.burst /\ v.current = n.best /\ v.fellBack = FALSE
    BY <2>1, <2>2, <2>3 DEF WalkType
  <2> QED
    BY <1>4, <2>2, <2>4
<1> QED
  BY <1>3, <1>4

\* The end of a slot on link c: a burst replays it, else what is next is in
\* the schedule.
LEMMA EndSlotWalk ==
  ASSUME Inv, Whole, SlotInv, NEW c \in Blocks \cup {NoLink}, NEW b \in BOOLEAN,
         NEW f \in BOOLEAN, EndSlot(c, b, f)
  PROVE  /\ {current', backup'} \subseteq Blocks \cup {NoLink}
         /\ asn' \in 0 .. Cycle - 1 /\ fellBack' \in BOOLEAN
         /\ slot' = "out" /\ burst' = b /\ cut' = (cut /\ b)
         /\ channel' = (IF b THEN channel ELSE 0) /\ first' = (IF b THEN first ELSE NoSlot)
         /\ b /\ c # NoLink => current' = c /\ backup' = NoLink /\ fellBack' = f
         /\ ~(b /\ c # NoLink) =>
              (current' # NoLink => Listed(current') /\ ~IsRaw(current'))
<1> DEFINE u == [current |-> c, backup |-> backup, asn |-> asn, burst |-> b, fellBack |-> f]
<1>1. PICK w : /\ w \in Outcomes(u) \cup UNION {Outcomes(v) : v \in Outcomes(u)}
               /\ current' = w.current /\ backup' = w.backup
               /\ asn' = w.asn /\ fellBack' = w.fellBack
  BY DEF EndSlot
<1>2. /\ u \in WalkType /\ u.burst = b /\ u.current = c /\ u.fellBack = f
  BY DEF WalkType, SlotInv
<1> HIDE DEF u
<1>3. ASSUME NEW v \in Outcomes(u)
      PROVE  /\ v \in WalkType /\ v.burst = b
             /\ b /\ c # NoLink => v.current = c /\ v.backup = NoLink /\ v.fellBack = f
             /\ ~(b /\ c # NoLink) =>
                  (v.current # NoLink => Listed(v.current) /\ ~IsRaw(v.current))
  <2>1. PICK q \in PacketCounts : v = Reschedule(u, q)
    BY <1>3 DEF Outcomes
  <2> QED
    BY <1>2, <2>1, RescheduleWalk
<1>4. ASSUME NEW v \in Outcomes(u), NEW t \in Outcomes(v)
      PROVE  /\ t \in WalkType /\ t.burst = b
             /\ b /\ v.current # NoLink =>
                  t.current = v.current /\ t.backup = NoLink /\ t.fellBack = v.fellBack
             /\ ~(b /\ v.current # NoLink) =>
                  (t.current # NoLink => Listed(t.current) /\ ~IsRaw(t.current))
  <2>1. PICK q \in PacketCounts : t = Reschedule(v, q)
    BY <1>4 DEF Outcomes
  <2> QED
    BY <1>3, <2>1, RescheduleWalk
<1>5. /\ w \in WalkType
      /\ b /\ c # NoLink => w.current = c /\ w.backup = NoLink /\ w.fellBack = f
      /\ ~(b /\ c # NoLink) =>
           (w.current # NoLink => Listed(w.current) /\ ~IsRaw(w.current))
  <2>1. CASE w \in Outcomes(u)
    BY <1>3, <2>1
  <2>2. CASE \E v \in Outcomes(u) : w \in Outcomes(v)
    <3>1. PICK v \in Outcomes(u) : w \in Outcomes(v)
      BY <2>2
    <3> QED
      BY <1>3, <1>4, <3>1
  <2> QED
    BY <1>1, <2>1, <2>2
<1>6. /\ slot' = "out" /\ burst' = b /\ cut' = (cut /\ b)
      /\ channel' = (IF b THEN channel ELSE 0) /\ first' = (IF b THEN first ELSE NoSlot)
  BY DEF EndSlot
<1> QED
  BY <1>1, <1>5, <1>6 DEF WalkType

\* A step that ends a slot, or skips one.
LEMMA SlotEnds ==
  ASSUME Inv, Whole, SlotInv, NEW c \in Blocks \cup {NoLink}, NEW b \in BOOLEAN,
         NEW f \in BOOLEAN, EndSlot(c, b, f), UNCHANGED <<schedVars, procVars>>,
         b => c = current /\ f = fellBack,
         b => burst \/ slot # "out"
  PROVE  SlotInv'
<1>1. /\ {current', backup'} \subseteq Blocks \cup {NoLink}
      /\ asn' \in 0 .. Cycle - 1 /\ fellBack' \in BOOLEAN
      /\ slot' = "out" /\ burst' = b /\ cut' = (cut /\ b)
      /\ b => UNCHANGED <<channel, first>>
      /\ ~b => first' = NoSlot
      /\ b /\ c # NoLink => current' = c /\ backup' = NoLink /\ fellBack' = f
      /\ ~(b /\ c # NoLink) =>
           (current' # NoLink => Listed(current') /\ ~IsRaw(current'))
  BY EndSlotWalk
<1>2. \A l : Listed(l)' <=> Listed(l)
  BY DEF Listed, schedVars
<1>3. \A l : IsRaw(l)' <=> IsRaw(l)
  BY DEF IsRaw, procVars
<1>4. current' # NoLink /\ ~fellBack' => Listed(current') /\ ~IsRaw(current')
  BY <1>1 DEF SlotInv
<1>5. b /\ ~cut' => /\ current' # NoLink /\ current' = first'.l /\ channel' = first'.chan
                    /\ backup' = NoLink
  BY <1>1 DEF SlotInv
<1>8. first'.l \in Blocks \cup {NoLink}
  BY <1>1 DEF SlotInv, NoSlot
<1>6. Listed(current)' <=> Listed(current')
  BY DEF Listed, schedVars
<1>7. IsRaw(current)' <=> IsRaw(current')
  BY DEF IsRaw, procVars
<1> QED
  BY <1>1, <1>4, <1>5, <1>6, <1>7, <1>8 DEF SlotInv

LEMMA SlotSteps == Inv /\ Whole /\ SlotInv /\ Slot => SlotInv'
<1> SUFFICES ASSUME Inv, Whole, SlotInv, Slot PROVE SlotInv'
  OBVIOUS
<1>1. CASE SlotStart
  <2>1. PICK c \in Chosen :
          /\ slot' = (IF c.packet THEN "tx" ELSE "rx") /\ current' = c.l
          /\ fellBack' = (fellBack \/ c.l # current)
          /\ IF burst THEN UNCHANGED <<channel, first>>
             ELSE \E asked \in PacketChannels :
                    /\ channel' = ChannelOffset(c, asked)
                    /\ first' = [l |-> c.l, chan |-> ChannelOffset(c, asked)]
    BY <1>1 DEF SlotStart
  <2>2. /\ MayStart /\ burst' = FALSE /\ cut' = (cut /\ burst)
        /\ UNCHANGED <<schedVars, backup, asn, procVars>>
    BY <1>1 DEF SlotStart
  <2>3. c.l \in {current, backup} /\ c.l # NoLink
    BY <2>2, ChosenIsLink DEF Chosen, MayStart
  <2>4. Listed(current)' <=> Listed(current')
    BY <2>2 DEF Listed, schedVars
  <2>5. IsRaw(current)' <=> IsRaw(current')
    BY <2>2 DEF IsRaw, procVars
  <2>6. current' # NoLink /\ ~fellBack' => Listed(current') /\ ~IsRaw(current')
    BY <2>1 DEF SlotInv
  <2>7. /\ first'.l \in Blocks \cup {NoLink}
        /\ ~cut' => current' = first'.l /\ channel' = first'.chan
    <3>1. CASE burst
      \* The backup link is gone: the slot runs the link of the burst.
      <4>1. ~cut => c.l = current /\ current = first.l /\ channel = first.chan
        BY <2>2, <2>3, <3>1 DEF SlotInv, MayStart
      <4> QED
        BY <2>1, <2>2, <3>1, <4>1 DEF SlotInv
    <3>2. CASE ~burst
      <4>1. PICK asked \in PacketChannels :
              /\ channel' = ChannelOffset(c, asked)
              /\ first' = [l |-> c.l, chan |-> ChannelOffset(c, asked)]
        BY <2>1, <3>2
      <4>2. first'.l = c.l /\ first'.chan = channel'
        BY <4>1
      <4>3. c.l \in Blocks \cup {NoLink}
        BY <2>3 DEF SlotInv
      <4> QED
        BY <2>1, <4>2, <4>3
    <3> QED
      BY <3>1, <3>2
  <2>8. fellBack' \in BOOLEAN /\ cut' \in BOOLEAN /\ current' \in Blocks /\ slot' \in {"tx", "rx"}
    BY <2>1, <2>2, <2>3 DEF SlotInv
  <2> QED
    BY <2>1, <2>2, <2>3, <2>4, <2>5, <2>6, <2>7, <2>8 DEF SlotInv
<1>2. CASE SlotIdle
  <2>1. PICK c \in Chosen : EndSlot(c.l, FALSE, fellBack \/ c.l # current)
    BY <1>2 DEF SlotIdle
  <2>2. c.l \in Blocks \cup {NoLink} /\ (fellBack \/ c.l # current) \in BOOLEAN
    BY DEF Chosen, SlotInv
  <2>3. UNCHANGED <<schedVars, procVars>>
    BY <1>2 DEF SlotIdle
  <2> QED
    BY <2>1, <2>2, <2>3, SlotEnds
<1>3. CASE SlotSkipped
  <2>1. EndSlot(current, burst, fellBack) /\ UNCHANGED <<schedVars, procVars>>
    BY <1>3 DEF SlotSkipped
  <2>2. current \in Blocks \cup {NoLink} /\ burst \in BOOLEAN /\ fellBack \in BOOLEAN
    BY DEF SlotInv
  <2> QED
    BY <2>1, <2>2, SlotEnds
<1>4. ASSUME NEW b \in BOOLEAN, SlotEnd(b) PROVE SlotInv'
  <2>1. /\ slot # "out" /\ EndSlot(current, b, fellBack)
        /\ UNCHANGED <<schedVars, procVars>>
    BY <1>4 DEF SlotEnd
  <2>2. current \in Blocks \cup {NoLink} /\ fellBack \in BOOLEAN
    BY DEF SlotInv
  <2> QED
    BY <2>1, <2>2, SlotEnds
<1> QED
  BY <1>1, <1>2, <1>3, <1>4 DEF Slot

\* A step of a process that leaves the slot operation alone.
LEMMA SlotKept ==
  ASSUME SlotInv, UNCHANGED <<slotVars, cut>>,
         current # NoLink /\ ~fellBack =>
           Listed(current)' /\ ~IsRaw(current)'
  PROVE  SlotInv'
BY DEF SlotInv, slotVars

LEMMA SlotProcess == Whole /\ SlotInv /\ Process => SlotInv'
<1> SUFFICES ASSUME Whole, SlotInv, Process PROVE SlotInv'
  OBVIOUS
<1>1. ASSUME pc' # "raw", UNCHANGED <<slotVars, cut, lists, link>> PROVE SlotInv'
  <2>1. Listed(current) => Listed(current)'
    BY <1>1 DEF Listed, slotVars
  <2>2. ~IsRaw(current)'
    BY <1>1 DEF IsRaw
  <2> QED
    BY <1>1, <2>1, <2>2, SlotKept DEF SlotInv
<1>2. CASE Operation
  <2>1. PICK o : Begin(o)
    BY <1>2 DEF Operation, AddLink, RemoveLink, AddSlotframe, RemoveSlotframe
  <2> QED
    BY <1>1, <2>1 DEF Begin, Ask, schedVars
<1>3. CASE LockTake
  BY <1>1, <1>3 DEF LockTake, schedVars
<1>4. CASE Unlink
  <2>1. /\ pc' # "raw"
        /\ current' = IF op.l = current THEN NoLink ELSE current
        /\ cut' = (cut \/ (op.l = current /\ (burst \/ slot # "out")))
        /\ first' = IF op.l = current THEN NoSlot ELSE first
        /\ UNCHANGED <<slot, backup, burst, channel, asn, fellBack>>
    BY <1>4 DEF Unlink, AfterRemoval, Ask
  <2>2. ~IsRaw(current)'
    BY <2>1 DEF IsRaw
  <2>3. current # NoLink => current \in Blocks
    BY DEF SlotInv
  <2>4. ASSUME Listed(current), op.l # current PROVE Listed(current)'
    <3>1. PICK s \in Handles : current \in Elements(lists[s])
      BY <2>4 DEF Listed
    <3>2. current \in Elements(lists'[s])
      BY <1>4, <2>4, <3>1, UnlinkFacts
    <3> QED
      BY <2>1, <2>4, <3>2 DEF Listed
  <2>5. first'.l \in Blocks \cup {NoLink}
    BY <2>1 DEF SlotInv, NoSlot
  <2> QED
    BY <2>1, <2>2, <2>4, <2>5 DEF SlotInv
<1>5. CASE List
  <2>1. UNCHANGED <<link, slotVars, cut>>
    BY <1>5 DEF List
  <2>2. CASE FreeBlocks = {}
    <3>1. pc' # "raw" /\ UNCHANGED lists
      BY <1>5, <2>2 DEF List
    <3> QED
      BY <1>1, <2>1, <3>1
  <2>3. CASE FreeBlocks # {}
    <3>1. PICK b \in FreeBlocks :
            /\ lists' = [lists EXCEPT ![op.sf] = Append(lists[op.sf], b)]
            /\ op' = [op EXCEPT !.l = b]
      BY <1>5, <2>3 DEF List
    <3>2. op.sf \in Handles /\ lists[op.sf] \in Seq(Blocks) /\ b \in Blocks /\ op \in OpType
      <4>1. op.sf \in Handles /\ op \in OpType
        BY <1>5 DEF List, AddsLink, Whole, OpInv, Fits
      <4> QED
        BY <4>1 DEF Whole, Shape, FreeBlocks
    <3>3. op'.l = b /\ ~Listed(b)
      BY <3>1, <3>2 DEF OpType, FreeBlocks
    <3>4. /\ Elements(lists'[op.sf]) = Elements(lists[op.sf]) \cup {b}
          /\ \A s \in Handles : s # op.sf => lists'[s] = lists[s]
      <4>1. lists'[op.sf] = Append(lists[op.sf], b)
            /\ \A s \in Handles : s # op.sf => lists'[s] = lists[s]
        BY <3>1, <3>2 DEF Whole, Shape
      <4> QED
        BY <3>2, <4>1, AppendElements
    <3>5. Listed(current) => Listed(current)'
      BY <2>1, <3>4 DEF Listed, slotVars
    <3>6. Listed(current) => ~IsRaw(current)'
      BY <2>1, <3>3 DEF IsRaw, slotVars
    <3> QED
      BY <2>1, <3>5, <3>6, SlotKept DEF SlotInv
  <2> QED
    BY <2>2, <2>3
<1>6. CASE Initialise
  <2>1. /\ pc = "raw" /\ pc' # "raw" /\ link' = [link EXCEPT ![op.l] = op.request]
        /\ UNCHANGED <<lists, slotVars, cut>>
    BY <1>6 DEF Initialise
  <2>2. Listed(current) => Listed(current)'
    BY <2>1 DEF Listed, slotVars
  <2>3. ~IsRaw(current)'
    BY <2>1 DEF IsRaw
  <2> QED
    BY <2>1, <2>2, <2>3, SlotKept DEF SlotInv
<1>7. CASE ChangeFrames
  BY <1>1, <1>7 DEF ChangeFrames
<1>8. CASE \E n \in Unicast : NbrComes(n) \/ NbrGoes(n)
  BY <1>1, <1>8 DEF NbrComes, NbrGoes, schedVars, procVars
<1> QED
  BY <1>2, <1>3, <1>4, <1>5, <1>6, <1>7, <1>8 DEF Process, Finish

LEMMA SlotNext == Inv /\ Whole /\ SlotInv /\ [Next]_vars => SlotInv'
<1> SUFFICES ASSUME Inv, Whole, SlotInv, UNCHANGED vars PROVE SlotInv'
  BY SlotSteps, SlotProcess DEF Next
<1> QED
  BY DEF vars, schedVars, slotVars, procVars, SlotInv, Listed, IsRaw

LEMMA ScheduleInvariant == Spec => [](Inv /\ Whole /\ SlotInv)
BY InitInv, NextInv, WholeInit, WholeNext, SlotInit, SlotNext, PTL DEF Spec

\* The link of the next slot or of the one that runs is in the schedule, unless
\* it was a backup link, although processes remove links under the slots.
THEOREM AlwaysScheduled == Spec => []CurrentIsScheduled
<1>1. SlotInv => CurrentIsScheduled
  BY DEF SlotInv, CurrentIsScheduled
<1> QED
  BY ScheduleInvariant, <1>1, PTL

\* All slots of a burst run the link of the first and stay on the channel that
\* was chosen there, the link's or the one its packet asked for, whatever later
\* packets ask for, and no backup link takes over; unless the link was removed.
THEOREM BurstsKeepChannel == Spec => []BurstKeepsChannel
<1>1. SlotInv => BurstKeepsChannel
  BY DEF SlotInv, BurstKeepsChannel
<1> QED
  BY ScheduleInvariant, <1>1, PTL

\* In every state in which a slot may ask for the next active link it gets the
\* right one and the right backup: the order in which links and slotframes were
\* added makes no difference.
THEOREM ChoiceIsAlwaysRight == Spec => []ChoiceIsRight
<1>1. Inv /\ Whole /\ SlotInv => ChoiceIsRight
  <2>1. SlotInv => asn \in Nat
    BY HandleAssumption DEF SlotInv
  <2>2. locked => ChoiceIsRight
    BY DEF ChoiceIsRight
  <2> QED
    BY <2>1, <2>2, ChoiceFound
<1> QED
  BY ScheduleInvariant, <1>1, PTL

-----------------------------------------------------------------------------
(* The counters *)

Live(b) == Listed(b) /\ ~IsRaw(b)
\* The links that the neighbor n counts, all of them or those not shared.
Counted(n) == {b \in Blocks : Live(b) /\ link[b].tx /\ link[b].addr = n}
Own(n) == {b \in Counted(n) : ~link[b].shared}

NbrInv ==
  /\ nbrs \subseteq Addrs /\ Broadcast \in nbrs /\ uncounted \subseteq Addrs
  /\ count \in [Addrs -> 0 .. 255] /\ dedicated \in [Addrs -> 0 .. 255]

\* The counters are right in the middle of operations too, and an address
\* without a neighbor has no links.
CountInv ==
  \A n \in Addrs \ uncounted :
    /\ n \in nbrs => /\ count[n] = Cardinality(Counted(n))
                     /\ dedicated[n] = Cardinality(Own(n))
    /\ n \notin nbrs => Counted(n) = {}

\* The counters are bytes: there are no more links than they can count.  The
\* default of TSCH_SCHEDULE_MAX_LINKS is 32.
FewLinks == IsFiniteSet(Blocks) /\ Cardinality(Blocks) <= 255

LEMMA RequestFields ==
  ASSUME NEW r \in Requests
  PROVE  r.tx \in BOOLEAN /\ r.shared \in BOOLEAN /\ r.addr \in Addrs
BY RequestAssumption

LEMMA CountedFinite ==
  ASSUME FewLinks, NEW T \in SUBSET Blocks
  PROVE  IsFiniteSet(T) /\ Cardinality(T) \in 0 .. 255
<1>1. IsFiniteSet(Blocks) /\ Cardinality(Blocks) \in Nat
  BY FS_CardinalityType DEF FewLinks
<1>2. IsFiniteSet(T) /\ Cardinality(T) <= Cardinality(Blocks)
  BY <1>1, FS_Subset
<1>3. Cardinality(T) \in Nat
  BY <1>2, FS_CardinalityType
<1> QED
  BY <1>1, <1>2, <1>3 DEF FewLinks

LEMMA NbrInit == Init => NbrInv /\ CountInv
<1> SUFFICES ASSUME Init PROVE NbrInv /\ CountInv
  OBVIOUS
<1>1. NbrInv
  BY DEF Init, NbrInv, Addrs
<1>2. \A b : ~Live(b)
  BY DEF Init, Live, Listed, Elements
<1>3. \A n : Counted(n) = {} /\ Own(n) = {}
  BY <1>2 DEF Counted, Own
<1>4. Cardinality({}) = 0
  BY FS_EmptySet
<1>5. \A n \in Addrs : count[n] = 0 /\ dedicated[n] = 0
  BY DEF Init
<1> QED
  BY <1>1, <1>3, <1>4, <1>5 DEF CountInv

\* A step that changes no link that is counted.
LEMMA CountedSame ==
  ASSUME \A b \in Blocks : /\ Live(b)' <=> Live(b)
                           /\ Live(b) => link'[b] = link[b]
  PROVE  \A n : Counted(n)' = Counted(n) /\ Own(n)' = Own(n)
<1>1. \A n : Counted(n)' = {b \in Blocks : Live(b)' /\ link'[b].tx /\ link'[b].addr = n}
  BY DEF Counted
<1>2. \A n : Counted(n)' = Counted(n)
  BY <1>1 DEF Counted
<1>3. \A n : \A b \in Counted(n) : Live(b) /\ b \in Blocks
  BY DEF Counted
<1>4. \A n : Own(n)' = {b \in Counted(n)' : ~link'[b].shared}
  BY DEF Own
<1> QED
  BY <1>2, <1>3, <1>4 DEF Own

LEMMA CountKept ==
  ASSUME CountInv, UNCHANGED nbrVars,
         \A b \in Blocks : /\ Live(b)' <=> Live(b)
                           /\ Live(b) => link'[b] = link[b]
  PROVE  CountInv'
<1>1. \A n : Counted(n)' = Counted(n) /\ Own(n)' = Own(n)
  BY CountedSame
<1>2. UNCHANGED <<nbrs, count, dedicated, uncounted>>
  BY DEF nbrVars
<1> QED
  BY <1>1, <1>2 DEF CountInv

\* What a byte counts down to.
LEMMA DecrementByte ==
  ASSUME NEW k \in 1 .. 255
  PROVE  Decrement(k) = k - 1
BY DEF Decrement

LEMMA DecrementType == \A k \in 0 .. 255 : Decrement(k) \in 0 .. 255
BY DEF Decrement

\* The table and its bytes, whatever the counters count.
LEMMA NbrNext == Whole /\ NbrInv /\ [Next]_vars => NbrInv'
<1> SUFFICES ASSUME Whole, NbrInv, [Next]_vars PROVE NbrInv'
  OBVIOUS
<1>1. ASSUME UNCHANGED nbrVars PROVE NbrInv'
  BY <1>1 DEF NbrInv, nbrVars
<1>2. CASE Slot \/ Operation \/ LockTake \/ List \/ ChangeFrames \/ UNCHANGED vars
  <2>1. Operation => \E o : Begin(o)
    BY DEF Operation, AddLink, RemoveLink, AddSlotframe, RemoveSlotframe
  <2>2. UNCHANGED nbrVars
    BY <1>2, <2>1 DEF Slot, SlotStart, SlotIdle, SlotSkipped, SlotEnd, Begin, LockTake,
                      List, ChangeFrames, vars
  <2> QED
    BY <1>1, <2>2
<1>3. CASE Unlink
  <2> DEFINE r == link[op.l]
  <2>1. /\ count' = [n \in Addrs |-> IF Uncounts(r, n) THEN Decrement(count[n]) ELSE count[n]]
        /\ dedicated' = [n \in Addrs |-> IF Uncounts(r, n) /\ ~r.shared
                                        THEN Decrement(dedicated[n]) ELSE dedicated[n]]
        /\ UNCHANGED <<nbrs, uncounted>>
    BY <1>3 DEF Unlink, Uncount
  <2>2. \A n \in Addrs : /\ count[n] \in 0 .. 255 /\ Decrement(count[n]) \in 0 .. 255
                         /\ dedicated[n] \in 0 .. 255 /\ Decrement(dedicated[n]) \in 0 .. 255
    BY DecrementType DEF NbrInv
  <2> HIDE DEF r
  <2> QED
    BY <2>1, <2>2 DEF NbrInv
<1>4. CASE Initialise
  <2>1. PICK r \in Requests : r = op.request /\ Count(r)
    BY <1>4 DEF Initialise, Whole, OpInv
  <2>2. PICK a \in Addrs : a = r.addr
    BY RequestFields
  <2>3. CASE ~r.tx
    BY <1>1, <2>1, <2>3 DEF Count
  <2>4. CASE r.tx /\ (a \in nbrs \/ Cardinality(nbrs) < MaxNbrs)
    <3> DEFINE was(f) == IF a \in nbrs THEN f[a] ELSE 0
               c == (was(count) + 1) % 256
               d == (was(dedicated) + IF r.shared THEN 0 ELSE 1) % 256
    <3>1. /\ nbrs' = nbrs \cup {a} /\ UNCHANGED uncounted
          /\ count' = [count EXCEPT ![a] = c] /\ dedicated' = [dedicated EXCEPT ![a] = d]
      BY <2>1, <2>2, <2>4 DEF Count
    <3>2. was(count) \in Nat /\ was(dedicated) \in Nat
      BY DEF NbrInv
    <3> HIDE DEF was
    <3>3. \A k \in Nat : k % 256 \in 0 .. 255
      OBVIOUS
    <3>4. was(count) + 1 \in Nat /\ (was(dedicated) + IF r.shared THEN 0 ELSE 1) \in Nat
      BY <3>2
    <3>5. c \in 0 .. 255 /\ d \in 0 .. 255
      BY <3>3, <3>4
    <3> HIDE DEF c, d
    <3> QED
      BY <3>1, <3>5 DEF NbrInv
  <2>5. CASE r.tx /\ ~(a \in nbrs \/ Cardinality(nbrs) < MaxNbrs)
    <3>1. uncounted' = uncounted \cup {a} /\ UNCHANGED <<nbrs, count, dedicated>>
      BY <2>1, <2>2, <2>5 DEF Count
    <3> QED
      BY <3>1 DEF NbrInv
  <2> QED
    BY <2>3, <2>4, <2>5, RequestFields
<1>5. ASSUME NEW n \in Unicast, NbrComes(n) \/ NbrGoes(n) PROVE NbrInv'
  <2>1. n \in Addrs /\ n # Broadcast
    BY NameAssumption DEF Addrs
  <2> QED
    BY <1>5, <2>1 DEF NbrComes, NbrGoes, NbrInv
<1> QED
  BY <1>2, <1>3, <1>4, <1>5 DEF Next, Process, Finish

\* An element less.
LEMMA OneLess ==
  ASSUME FewLinks, NEW T \in SUBSET Blocks, NEW b \in T, NEW k, k = Cardinality(T)
  PROVE  Decrement(k) = Cardinality(T \ {b})
<1>1. IsFiniteSet(T) /\ Cardinality(T) \in 0 .. 255
  BY CountedFinite
<1>2. IsFiniteSet(T \ {b}) /\ Cardinality(T \ {b}) = Cardinality(T) - 1
  BY <1>1, FS_RemoveElement
<1>3. Cardinality(T \ {b}) \in Nat
  BY <1>2, FS_CardinalityType
<1> QED
  BY <1>1, <1>2, <1>3, DecrementByte

\* An element more.
LEMMA OneMore ==
  ASSUME FewLinks, NEW T \in SUBSET Blocks, NEW b \in Blocks, b \notin T,
         NEW k, k = Cardinality(T)
  PROVE  (k + 1) % 256 = Cardinality(T \cup {b})
<1>1. IsFiniteSet(T) /\ Cardinality(T) \in 0 .. 255
  BY CountedFinite
<1>2. Cardinality(T \cup {b}) = Cardinality(T) + 1
  BY <1>1, FS_AddElement
<1>3. Cardinality(T \cup {b}) \in 0 .. 255
  <2>1. T \cup {b} \in SUBSET Blocks
    OBVIOUS
  <2> HIDE DEF FewLinks
  <2> QED
    BY <2>1, CountedFinite
<1> QED
  BY <1>1, <1>2, <1>3

LEMMA CountUnlink ==
  ASSUME FewLinks, Whole, NbrInv, CountInv, Unlink
  PROVE  CountInv'
<1> DEFINE r == link[op.l]
<1>1. /\ count' = [n \in Addrs |-> IF Uncounts(r, n) THEN Decrement(count[n]) ELSE count[n]]
      /\ dedicated' = [n \in Addrs |-> IF Uncounts(r, n) /\ ~r.shared
                                      THEN Decrement(dedicated[n]) ELSE dedicated[n]]
      /\ UNCHANGED <<nbrs, uncounted>>
      /\ pc = "locked" /\ pc' # "raw"
  BY DEF Unlink, Uncount, AfterRemoval, Ask
<1>2. /\ r \in Requests /\ op.l \in Blocks /\ op.sf \in Handles
      /\ op.l \in Elements(lists[op.sf])
      /\ \A b \in Blocks : b # op.l => link'[b] = link[b]
  BY UnlinkFacts
<1>3. r.tx \in BOOLEAN /\ r.shared \in BOOLEAN
  BY <1>2, RequestFields
<1>5. \A b \in Blocks : Live(b)' <=> Live(b) /\ b # op.l
  <2>1. ASSUME NEW b \in Blocks, NEW s \in Handles
        PROVE  b \in Elements(lists'[s]) <=> b \in Elements(lists[s]) /\ b # op.l
    <3>1. CASE s = op.sf
      BY <3>1, UnlinkFacts
    <3>2. CASE s # op.sf
      <4>1. lists'[s] = lists[s] /\ op.l \notin Elements(lists[s])
        BY <1>2, <3>2, UnlinkFacts DEF Whole, Apart
      <4> QED
        BY <4>1
    <3> QED
      BY <3>1, <3>2
  <2> QED
    BY <1>1, <2>1 DEF Live, Listed, IsRaw
<1>6. Live(op.l)
  BY <1>1, <1>2 DEF Live, Listed, IsRaw
<1>7. \A n : /\ Counted(n)' = Counted(n) \ {op.l}
             /\ Own(n)' = Own(n) \ {op.l}
  <2>1. \A n : Counted(n)' = {b \in Blocks : Live(b)' /\ link'[b].tx /\ link'[b].addr = n}
    BY DEF Counted
  <2>2. \A n : Counted(n)' = Counted(n) \ {op.l}
    BY <1>2, <1>5, <2>1 DEF Counted
  <2>3. \A n : \A b \in Counted(n) : b \in Blocks
    BY DEF Counted
  <2>4. \A n : Own(n)' = {b \in Counted(n)' : ~link'[b].shared}
    BY DEF Own
  <2> QED
    BY <1>2, <2>2, <2>3, <2>4 DEF Own
<1>8. ASSUME NEW n \in Addrs \ uncounted
      PROVE  /\ n \in nbrs => /\ count'[n] = Cardinality(Counted(n)')
                              /\ dedicated'[n] = Cardinality(Own(n)')
             /\ n \notin nbrs => Counted(n)' = {}
  <2>1. /\ n \in nbrs => count[n] = Cardinality(Counted(n)) /\ dedicated[n] = Cardinality(Own(n))
        /\ n \notin nbrs => Counted(n) = {}
    BY DEF CountInv
  <2>2. Counted(n) \in SUBSET Blocks /\ Own(n) \in SUBSET Blocks
    BY DEF Counted, Own
  <2>3. op.l \in Counted(n) <=> r.tx /\ r.addr = n
    BY <1>2, <1>6 DEF Counted
  <2>4. op.l \in Own(n) <=> r.tx /\ r.addr = n /\ ~r.shared
    BY <2>3 DEF Own
  <2>5. /\ count'[n] = IF Uncounts(r, n) THEN Decrement(count[n]) ELSE count[n]
        /\ dedicated'[n] = IF Uncounts(r, n) /\ ~r.shared
                           THEN Decrement(dedicated[n]) ELSE dedicated[n]
    BY <1>1
  <2>6. n \in nbrs => count'[n] = Cardinality(Counted(n)')
    <3>1. CASE op.l \in Counted(n)
      BY <1>7, <2>1, <2>2, <2>3, <2>5, <3>1, OneLess DEF Uncounts
    <3>2. CASE op.l \notin Counted(n)
      <4>1. Counted(n)' = Counted(n)
        BY <1>7, <3>2
      <4> QED
        BY <2>1, <2>3, <2>5, <3>2, <4>1 DEF Uncounts
    <3> QED
      BY <3>1, <3>2
  <2>7. n \in nbrs => dedicated'[n] = Cardinality(Own(n)')
    <3>1. CASE op.l \in Own(n)
      BY <1>7, <2>1, <2>2, <2>4, <2>5, <3>1, OneLess DEF Uncounts
    <3>2. CASE op.l \notin Own(n)
      <4>1. Own(n)' = Own(n)
        BY <1>7, <3>2
      <4> QED
        BY <2>1, <2>4, <2>5, <3>2, <4>1 DEF Uncounts
    <3> QED
      BY <3>1, <3>2
  <2> QED
    BY <1>7, <2>1, <2>6, <2>7
<1> QED
  BY <1>1, <1>8 DEF CountInv

LEMMA CountInitialise ==
  ASSUME FewLinks, Whole, NbrInv, CountInv, Initialise
  PROVE  CountInv'
<1>1. PICK r \in Requests, l \in Blocks :
        /\ r = op.request /\ l = op.l /\ Listed(l)
        /\ pc = "raw" /\ pc' = "idle" /\ link' = [link EXCEPT ![l] = r]
        /\ UNCHANGED lists /\ Count(r)
  <2>1. op.request \in Requests /\ op.sf \in Handles /\ op.l \in Elements(lists[op.sf])
    BY DEF Initialise, Whole, OpInv
  <2>2. op.l \in Blocks /\ Listed(op.l)
    BY <2>1, ListTypes DEF Whole, Listed
  <2> QED
    BY <2>1, <2>2 DEF Initialise
<1>2. PICK a \in Addrs : a = r.addr
  BY RequestFields
<1>3. r.tx \in BOOLEAN /\ r.shared \in BOOLEAN
  BY RequestFields
<1>4. link'[l] = r /\ \A b \in Blocks : b # l => link'[b] = link[b]
  BY <1>1 DEF Whole, Shape
<1>5. \A b \in Blocks : Live(b)' <=> Live(b) \/ b = l
  <2>1. \A b : Listed(b)' <=> Listed(b)
    BY <1>1 DEF Listed
  <2>2. \A b : ~IsRaw(b)' /\ (IsRaw(b) <=> b = l)
    BY <1>1 DEF IsRaw
  <2> QED
    BY <1>1, <2>1, <2>2 DEF Live
<1>6. ~Live(l)
  BY <1>1 DEF Live, IsRaw
<1>7. \A n : /\ Counted(n)' = IF r.tx /\ a = n THEN Counted(n) \cup {l} ELSE Counted(n)
             /\ Own(n)' = IF r.tx /\ a = n /\ ~r.shared THEN Own(n) \cup {l} ELSE Own(n)
             /\ l \notin Counted(n) /\ l \notin Own(n)
  <2>1. \A n : Counted(n)' = {b \in Blocks : Live(b)' /\ link'[b].tx /\ link'[b].addr = n}
    BY DEF Counted
  <2>2. \A n : l \notin Counted(n) /\ l \notin Own(n)
    BY <1>6 DEF Counted, Own
  <2>3. \A n : \A b : b \in Counted(n)' <=> b \in Counted(n) \/ (b = l /\ r.tx /\ a = n)
    BY <1>2, <1>4, <1>5, <1>6, <2>1 DEF Counted
  <2>4. \A n : Own(n)' = {b \in Counted(n)' : ~link'[b].shared}
    BY DEF Own
  <2>5. \A n : \A b : b \in Own(n)' <=>
                 b \in Own(n) \/ (b = l /\ r.tx /\ a = n /\ ~r.shared)
    <3>1. \A n : \A b \in Counted(n) : b \in Blocks /\ b # l
      BY <2>2 DEF Counted
    <3> QED
      BY <1>4, <2>3, <2>4, <3>1 DEF Own
  <2> QED
    BY <2>2, <2>3, <2>5
<1>8. Counted(a) \in SUBSET Blocks /\ Own(a) \in SUBSET Blocks
  BY DEF Counted, Own
<1>9. CASE ~r.tx
  <2>1. UNCHANGED <<nbrs, count, dedicated, uncounted>>
    BY <1>1, <1>9 DEF Count, nbrVars
  <2>2. \A n : Counted(n)' = Counted(n) /\ Own(n)' = Own(n)
    BY <1>7, <1>9
  <2> QED
    BY <2>1, <2>2 DEF CountInv
<1>10. CASE r.tx /\ (a \in nbrs \/ Cardinality(nbrs) < MaxNbrs)
  <2>1. PICK c \in 0 .. 255, d \in 0 .. 255 :
          /\ c = (IF a \in nbrs THEN count[a] ELSE 0)
          /\ d = (IF a \in nbrs THEN dedicated[a] ELSE 0)
    <3>1. /\ (IF a \in nbrs THEN count[a] ELSE 0) \in 0 .. 255
          /\ (IF a \in nbrs THEN dedicated[a] ELSE 0) \in 0 .. 255
      BY DEF NbrInv
    <3> QED
      BY <3>1
  <2>2. /\ nbrs' = nbrs \cup {a} /\ UNCHANGED uncounted
        /\ count' = [count EXCEPT ![a] = (c + 1) % 256]
        /\ dedicated' = [dedicated EXCEPT ![a] = (d + IF r.shared THEN 0 ELSE 1) % 256]
    <3> DEFINE was(f) == IF r.addr \in nbrs THEN f[r.addr] ELSE 0
    <3>1. /\ nbrs' = nbrs \cup {r.addr} /\ UNCHANGED uncounted
          /\ count' = [count EXCEPT ![r.addr] = (was(count) + 1) % 256]
          /\ dedicated' = [dedicated EXCEPT ![r.addr] =
               (was(dedicated) + IF r.shared THEN 0 ELSE 1) % 256]
      BY <1>1, <1>2, <1>10 DEF Count
    <3>2. was(count) = c /\ was(dedicated) = d
      BY <1>2, <2>1
    <3> HIDE DEF was
    <3> QED
      BY <1>2, <3>1, <3>2
  <2>3. /\ count'[a] = (c + 1) % 256
        /\ r.shared => dedicated'[a] = d
        /\ ~r.shared => dedicated'[a] = (d + 1) % 256
    <3>1. /\ count'[a] = (c + 1) % 256
          /\ dedicated'[a] = (d + IF r.shared THEN 0 ELSE 1) % 256
      BY <2>2 DEF NbrInv
    <3>2. (d + 0) % 256 = d
      BY <2>1
    <3> QED
      BY <1>3, <3>1, <3>2
  <2>4. \A n \in Addrs : n # a => count'[n] = count[n] /\ dedicated'[n] = dedicated[n]
    BY <2>2 DEF NbrInv
  <2>5. ASSUME a \notin uncounted
        PROVE  c = Cardinality(Counted(a)) /\ d = Cardinality(Own(a))
    <3>1. CASE a \in nbrs
      BY <2>1, <2>5, <3>1 DEF CountInv
    <3>2. CASE a \notin nbrs
      <4>1. Counted(a) = {} /\ Own(a) = {}
        BY <2>5, <3>2 DEF CountInv, Own
      <4> QED
        BY <2>1, <3>2, <4>1, FS_EmptySet
    <3> QED
      BY <3>1, <3>2
  <2>6. ASSUME a \notin uncounted
        PROVE  count'[a] = Cardinality(Counted(a)') /\ dedicated'[a] = Cardinality(Own(a)')
    <3>1. count'[a] = Cardinality(Counted(a)')
      <4>1. Counted(a)' = Counted(a) \cup {l} /\ l \notin Counted(a)
        BY <1>7, <1>10
      <4>2. (c + 1) % 256 = Cardinality(Counted(a) \cup {l})
        BY <1>8, <2>5, <2>6, <4>1, OneMore
      <4> QED
        BY <2>3, <4>1, <4>2
    <3>2. CASE r.shared
      <4>1. Own(a)' = Own(a)
        BY <1>7, <3>2
      <4> QED
        BY <2>3, <2>5, <2>6, <3>1, <3>2, <4>1
    <3>3. CASE ~r.shared
      <4>1. Own(a)' = Own(a) \cup {l} /\ l \notin Own(a)
        BY <1>7, <1>10, <3>3
      <4>2. (d + 1) % 256 = Cardinality(Own(a) \cup {l})
        BY <1>8, <2>5, <2>6, <4>1, OneMore
      <4> QED
        BY <2>3, <3>1, <3>3, <4>1, <4>2
    <3> QED
      BY <3>2, <3>3
  <2>7. \A n \in Addrs : n # a => Counted(n)' = Counted(n) /\ Own(n)' = Own(n)
    BY <1>7
  <2>8. ASSUME NEW n \in Addrs \ uncounted
        PROVE  /\ n \in nbrs' => /\ count'[n] = Cardinality(Counted(n)')
                                 /\ dedicated'[n] = Cardinality(Own(n)')
               /\ n \notin nbrs' => Counted(n)' = {}
    <3>1. CASE n = a
      BY <2>2, <2>6, <3>1
    <3>2. CASE n # a
      BY <2>2, <2>4, <2>7, <3>2 DEF CountInv
    <3> QED
      BY <3>1, <3>2
  <2> QED
    BY <2>2, <2>8 DEF CountInv
<1>11. CASE r.tx /\ ~(a \in nbrs \/ Cardinality(nbrs) < MaxNbrs)
  <2>1. uncounted' = uncounted \cup {a} /\ UNCHANGED <<nbrs, count, dedicated>>
    BY <1>1, <1>2, <1>11 DEF Count
  <2>2. \A n \in Addrs : n # a => Counted(n)' = Counted(n) /\ Own(n)' = Own(n)
    BY <1>7
  <2> QED
    BY <2>1, <2>2 DEF CountInv
<1> QED
  BY <1>3, <1>9, <1>10, <1>11

LEMMA CountList ==
  ASSUME Whole, NbrInv, CountInv, List
  PROVE  CountInv'
<1>1. pc = "locked" /\ UNCHANGED <<link, nbrVars>>
  BY DEF List, AddsLink
<1>2. CASE FreeBlocks = {}
  <2>1. pc' = "idle" /\ UNCHANGED lists
    BY <1>2 DEF List
  <2>2. \A b \in Blocks : Live(b)' <=> Live(b)
    BY <1>1, <2>1 DEF Live, Listed, IsRaw
  <2> QED
    BY <1>1, <2>2, CountKept
<1>3. CASE FreeBlocks # {}
  <2>1. PICK b \in FreeBlocks :
          /\ lists' = [lists EXCEPT ![op.sf] = Append(lists[op.sf], b)]
          /\ op' = [op EXCEPT !.l = b] /\ pc' = "raw"
    BY <1>3 DEF List
  <2>2. op.sf \in Handles /\ lists[op.sf] \in Seq(Blocks) /\ b \in Blocks /\ op \in OpType
    <3>1. op.sf \in Handles /\ op \in OpType
      BY <1>1 DEF Whole, OpInv, Fits
    <3> QED
      BY <3>1 DEF Whole, Shape, FreeBlocks
  <2>3. op'.l = b /\ ~Listed(b)
    BY <2>1, <2>2 DEF OpType, FreeBlocks
  <2>4. ASSUME NEW c \in Blocks PROVE Listed(c)' <=> Listed(c) \/ c = b
    <3>1. lists'[op.sf] = Append(lists[op.sf], b)
          /\ \A s \in Handles : s # op.sf => lists'[s] = lists[s]
      BY <2>1, <2>2 DEF Whole, Shape
    <3>2. Elements(lists'[op.sf]) = Elements(lists[op.sf]) \cup {b}
      BY <2>2, <3>1, AppendElements
    <3>3. \A s \in Handles : c \in Elements(lists'[s]) <=>
                               c \in Elements(lists[s]) \/ (s = op.sf /\ c = b)
      BY <3>1, <3>2
    <3> QED
      BY <2>2, <3>3 DEF Listed
  <2>5. \A c \in Blocks : (IsRaw(c)' <=> c = b) /\ ~IsRaw(c)
    BY <1>1, <2>1, <2>3 DEF IsRaw
  <2>6. \A c \in Blocks : Live(c)' <=> Live(c)
    BY <2>3, <2>4, <2>5 DEF Live
  <2> QED
    BY <1>1, <2>6, CountKept
<1> QED
  BY <1>2, <1>3

LEMMA CountNeighbors ==
  ASSUME NbrInv, CountInv, NEW n \in Unicast, NbrComes(n) \/ NbrGoes(n), FewLinks
  PROVE  CountInv'
<1>1. \A m : Counted(m)' = Counted(m) /\ Own(m)' = Own(m)
  <2>1. UNCHANGED <<lists, link, pc, op>>
    BY DEF NbrComes, NbrGoes, schedVars, procVars
  <2>2. \A b \in Blocks : Live(b)' <=> Live(b)
    BY <2>1 DEF Live, Listed, IsRaw
  <2> QED
    BY <2>1, <2>2, CountedSame
<1>2. n \in Addrs /\ n # Broadcast
  BY NameAssumption DEF Addrs
<1>3. CASE NbrComes(n)
  <2>1. /\ n \notin nbrs /\ nbrs' = nbrs \cup {n} /\ UNCHANGED uncounted
        /\ count' = [count EXCEPT ![n] = 0] /\ dedicated' = [dedicated EXCEPT ![n] = 0]
    BY <1>3 DEF NbrComes
  <2>3. /\ count'[n] = 0 /\ dedicated'[n] = 0
        /\ \A m \in Addrs : m # n => count'[m] = count[m] /\ dedicated'[m] = dedicated[m]
    BY <1>2, <2>1 DEF NbrInv
  <2>4. n \notin uncounted => Cardinality(Counted(n)) = 0 /\ Cardinality(Own(n)) = 0
    <3>1. n \notin uncounted => Counted(n) = {} /\ Own(n) = {}
      BY <1>2, <2>1 DEF CountInv, Own
    <3> QED
      BY <3>1, FS_EmptySet
  <2>5. CountInv'
    BY <1>1, <1>2, <2>1, <2>3, <2>4 DEF CountInv
  <2> QED
    BY <2>5
<1>4. CASE NbrGoes(n)
  <2>1. /\ n \in nbrs /\ count[n] = 0 /\ nbrs' = nbrs \ {n}
        /\ UNCHANGED <<count, dedicated, uncounted>>
    BY <1>4 DEF NbrGoes
  <2>3. n \notin uncounted => Counted(n) = {}
    <3>1. n \notin uncounted => Cardinality(Counted(n)) = 0
      BY <1>2, <2>1 DEF CountInv
    <3>2. Counted(n) \in SUBSET Blocks
      BY DEF Counted
    <3>3. IsFiniteSet(Counted(n))
      BY <3>2, CountedFinite
    <3> QED
      BY <3>1, <3>3, FS_EmptySet
  <2>4. CountInv'
    BY <1>1, <2>1, <2>3 DEF CountInv
  <2> QED
    BY <2>4
<1> QED
  BY <1>3, <1>4

LEMMA CountNext ==
  ASSUME FewLinks
  PROVE  Whole /\ NbrInv /\ CountInv /\ [Next]_vars => CountInv'
<1> SUFFICES ASSUME Whole, NbrInv, CountInv, [Next]_vars PROVE CountInv'
  OBVIOUS
<1>1. ASSUME pc # "raw", pc' # "raw", UNCHANGED <<lists, link, nbrVars>>
      PROVE  CountInv'
  <2>1. \A b \in Blocks : Live(b)' <=> Live(b)
    BY <1>1 DEF Live, Listed, IsRaw
  <2> QED
    BY <1>1, <2>1, CountKept
<1>2. ASSUME UNCHANGED <<schedVars, procVars, nbrVars>> PROVE CountInv'
  <2>1. \A b \in Blocks : Live(b)' <=> Live(b)
    BY <1>2 DEF Live, Listed, IsRaw, schedVars, procVars
  <2> QED
    BY <1>2, <2>1, CountKept DEF schedVars
<1>3. CASE Slot
  BY <1>2, <1>3 DEF Slot, SlotStart, SlotIdle, SlotSkipped, SlotEnd
<1>4. CASE Operation
  <2>1. PICK o : Begin(o)
    BY <1>4 DEF Operation, AddLink, RemoveLink, AddSlotframe, RemoveSlotframe
  <2> QED
    BY <1>1, <2>1 DEF Begin, Ask, schedVars
<1>5. CASE Finish
  <2>1. CASE LockTake
    BY <1>1, <2>1 DEF LockTake, schedVars
  <2>2. CASE ChangeFrames
    BY <1>1, <2>2 DEF ChangeFrames
  <2> QED
    BY <1>5, <2>1, <2>2, CountUnlink, CountInitialise, CountList DEF Finish
<1>6. CASE \E n \in Unicast : NbrComes(n) \/ NbrGoes(n)
  BY <1>6, CountNeighbors
<1>7. CASE UNCHANGED vars
  BY <1>2, <1>7 DEF vars
<1> QED
  BY <1>3, <1>4, <1>5, <1>6, <1>7 DEF Next, Process

\* Between operations the counters of a neighbor are those of its links, in a
\* schedule of no more links than a byte counts, unless there was no room for
\* the neighbor when one of its links was added.
THEOREM CountersMatch == ASSUME FewLinks PROVE Spec => []CountsMatch
<1>1. Whole /\ NbrInv /\ CountInv => CountsMatch
  <2> SUFFICES ASSUME Whole, NbrInv, CountInv, pc = "idle", NEW n \in nbrs \ uncounted
               PROVE  /\ count[n] = Cardinality(TxLinks(n))
                      /\ dedicated[n] = Cardinality({l \in TxLinks(n) : ~link[l].shared})
    BY DEF CountsMatch
  <2>1. \A b : ~IsRaw(b)
    BY DEF IsRaw
  <2>2. Elements(AllLinks) = {b \in Blocks : Listed(b)}
    BY AllLinksListed DEF Whole
  <2>3. TxLinks(n) = Counted(n)
    BY <2>1, <2>2 DEF TxLinks, Counted, Live
  <2>4. n \in Addrs
    BY DEF NbrInv
  <2> QED
    BY <2>3, <2>4 DEF CountInv, Own
<1>2. Whole /\ NbrInv /\ CountInv /\ [Next]_vars => CountInv'
  BY CountNext
<1> QED
  BY ScheduleInvariant, NbrNext, NbrInit, <1>1, <1>2, PTL DEF Spec

\* Every variable holds a value of its range: the counters stay bytes, and the
\* contents of blocks are links that were asked for.
THEOREM TypeCorrect == Spec => []TypeOK
<1>1. Whole /\ SlotInv /\ NbrInv => TypeOK
  <2> SUFFICES ASSUME Whole, SlotInv, NbrInv
               PROVE  TypeOK
    OBVIOUS
  <2>1. /\ frames \in Seq(Handles) /\ lists \in [Handles -> Seq(Blocks)]
        /\ link \in [Blocks -> Requests \cup {NoRequest}]
    BY DEF Whole, Shape
  <2>2. /\ {current, backup} \subseteq Blocks \cup {NoLink}
        /\ first.l \in Blocks \cup {NoLink}
        /\ slot \in {"out", "tx", "rx"} /\ asn \in 0 .. Cycle - 1
        /\ {burst, locked, lockRequested, fellBack, cut} \subseteq BOOLEAN
    BY DEF Whole, Shape, OpInv, SlotInv
  <2>3. /\ nbrs \subseteq Addrs /\ uncounted \subseteq Addrs
        /\ count \in [Addrs -> 0 .. 255] /\ dedicated \in [Addrs -> 0 .. 255]
    BY DEF NbrInv
  <2>4. /\ pc \in {"idle", "wait", "locked", "raw"}
        /\ op.request \in Requests \cup {NoRequest} /\ op.l \in Blocks \cup {NoLink}
    BY DEF Whole, OpInv, OpType
  <2> QED
    BY <2>1, <2>2, <2>3, <2>4 DEF TypeOK
<1> QED
  BY ScheduleInvariant, NbrInit, NbrNext, <1>1, PTL DEF Spec
=============================================================================
