------------------------- MODULE RingBufIndexProofs -------------------------
(***************************************************************************)
(* Theorems about RingBufIndex, for every size of the ring and every set   *)
(* of values.                                                              *)
(***************************************************************************)
EXTENDS RingBufIndex, SequenceTheorems, TLAPS

-----------------------------------------------------------------------------
(* The arithmetic of the indexes *)

\* NextIndex stays in the ring and never maps an index to itself.
LEMMA NextIndexLemma ==
  \A i \in Indexes :
    /\ NextIndex(i) \in Indexes
    /\ NextIndex(i) = IF i = Size - 1 THEN 0 ELSE i + 1
BY SizeAssumption, SMT DEF NextIndex, Indexes

\* The number of elements, without the modulo.
LEMMA DistanceLemma ==
  \A i, j \in Indexes :
    /\ (i - j) % Size \in Indexes
    /\ (i - j) % Size = IF i >= j THEN i - j ELSE i - j + Size
BY SizeAssumption, SMT DEF Indexes

\* Advancing one end of a ring that has room, or an element, changes the
\* number of elements by one.
LEMMA AdvanceLemma ==
  \A p, g \in Indexes :
    /\ (p - g) % Size # Size - 1
         => (NextIndex(p) - g) % Size = ((p - g) % Size) + 1
    /\ (p - g) % Size # 0
         => (p - NextIndex(g)) % Size = ((p - g) % Size) - 1
<1> SUFFICES ASSUME NEW p \in Indexes, NEW g \in Indexes
             PROVE  /\ (p - g) % Size # Size - 1
                         => (NextIndex(p) - g) % Size = ((p - g) % Size) + 1
                    /\ (p - g) % Size # 0
                         => (p - NextIndex(g)) % Size = ((p - g) % Size) - 1
  OBVIOUS
<1> DEFINE np == NextIndex(p)
           ng == NextIndex(g)
<1>1. /\ np \in Indexes /\ np = IF p = Size - 1 THEN 0 ELSE p + 1
      /\ ng \in Indexes /\ ng = IF g = Size - 1 THEN 0 ELSE g + 1
  BY NextIndexLemma
<1>2. (p - g) % Size = IF p >= g THEN p - g ELSE p - g + Size
  BY DistanceLemma
<1> HIDE DEF np, ng
<1>3. (np - g) % Size = IF np >= g THEN np - g ELSE np - g + Size
  BY <1>1, DistanceLemma
<1>4. (p - ng) % Size = IF p >= ng THEN p - ng ELSE p - ng + Size
  BY <1>1, DistanceLemma
<1>5. /\ (p - g) % Size # Size - 1 => (np - g) % Size = ((p - g) % Size) + 1
      /\ (p - g) % Size # 0 => (p - ng) % Size = ((p - g) % Size) - 1
  BY <1>1, <1>2, <1>3, <1>4, SizeAssumption, SMT DEF Indexes
<1> QED
  BY <1>5 DEF np, ng

-----------------------------------------------------------------------------
(* The inductive invariant: a peek is good until the put or the get that   *)
(* follows it.  The producer's room cannot shrink, since only the producer *)
(* adds elements, and the consumer's element cannot go, since only the     *)
(* consumer removes one.                                                   *)

RoomKept == ppc \in {"fill", "put", "store"} => ~Full
ElementKept == cpc \in {"use", "get", "store"} => ~Empty

\* The slot was written when the put comes.
SlotFilled == ppc \in {"put", "store"} => array[pidx] \in Values

IInv == TypeOK /\ PeekHolds /\ RoomKept /\ ElementKept /\ SlotFilled

LEMMA InitIInv == Init => IInv
BY SizeAssumption, SMT
   DEF Init, IInv, TypeOK, PeekHolds, RoomKept, ElementKept, SlotFilled,
       Indexes, NoIndex

LEMMA ProducerIInv == IInv /\ Producer => IInv'
<1> SUFFICES ASSUME IInv, Producer PROVE IInv'
  OBVIOUS
<1> USE DEF IInv, TypeOK, PeekHolds, RoomKept, ElementKept, SlotFilled,
           consumer
<1>1. CASE ProducerPeek
  BY <1>1, SizeAssumption, DistanceLemma, SMT
     DEF ProducerPeek, PeekPut, Full, Empty, Elements, NoIndex, Indexes
<1>2. CASE ProducerFill
  BY <1>2, SMT DEF ProducerFill, Full, Empty, Elements, NoIndex
<1>3. CASE ProducerPutTest
  BY <1>3, SMT DEF ProducerPutTest, Full, Empty, Elements
<1>4. CASE ProducerPutStore
  <2>1. put_ptr' \in Indexes
    BY <1>4, NextIndexLemma DEF ProducerPutStore
  <2>2. ElementKept'
    <3>1. Elements \in Indexes /\ Elements # Size - 1
      BY <1>4, DistanceLemma DEF ProducerPutStore, Elements, Full
    <3>2. Elements' = Elements + 1
      BY <1>4, <3>1, AdvanceLemma DEF ProducerPutStore, Elements
    <3> QED
      BY <3>1, <3>2, SizeAssumption, SMT DEF Empty, Indexes
  <2> QED
    BY <1>4, <2>1, <2>2, SMT DEF ProducerPutStore, NoIndex
<1>5. CASE ProducerGivesUp
  BY <1>5, SMT DEF ProducerGivesUp, Full, Empty, Elements, NoIndex
<1> QED
  BY <1>1, <1>2, <1>3, <1>4, <1>5 DEF Producer

LEMMA ConsumerIInv == IInv /\ Consumer => IInv'
<1> SUFFICES ASSUME IInv, Consumer PROVE IInv'
  OBVIOUS
<1> USE DEF IInv, TypeOK, PeekHolds, RoomKept, ElementKept, SlotFilled,
           producer
<1>1. CASE ConsumerPeek
  BY <1>1, SizeAssumption, DistanceLemma, SMT
     DEF ConsumerPeek, PeekGet, Full, Empty, Elements, NoIndex, Indexes
<1>2. CASE ConsumerUse
  BY <1>2, SMT DEF ConsumerUse, Full, Empty, Elements, NoIndex
<1>3. CASE ConsumerGetTest
  BY <1>3, SMT DEF ConsumerGetTest, Full, Empty, Elements
<1>4. CASE ConsumerGetStore
  <2>1. get_ptr' \in Indexes
    BY <1>4, NextIndexLemma DEF ConsumerGetStore
  <2>2. RoomKept'
    <3>1. Elements \in Indexes /\ Elements # 0
      BY <1>4, DistanceLemma DEF ConsumerGetStore, Elements, Empty
    <3>2. Elements' = Elements - 1
      BY <1>4, <3>1, AdvanceLemma DEF ConsumerGetStore, Elements
    <3> QED
      BY <3>1, <3>2, SizeAssumption, SMT DEF Full, Indexes
  <2> QED
    BY <1>4, <2>1, <2>2, SMT DEF ConsumerGetStore, NoIndex
<1> QED
  BY <1>1, <1>2, <1>3, <1>4 DEF Consumer

LEMMA StutterIInv == IInv /\ UNCHANGED vars => IInv'
BY SMT DEF IInv, TypeOK, PeekHolds, RoomKept, ElementKept, SlotFilled,
           vars, Full, Empty, Elements

\* The invariant holds in every state of every run of the two users.
THEOREM InductiveInvariant == Spec => []IInv
<1>1. IInv /\ [Next]_vars => IInv'
  BY ProducerIInv, ConsumerIInv, StutterIInv DEF Next
<1> QED
  BY InitIInv, <1>1, PTL DEF Spec

-----------------------------------------------------------------------------
(* The properties the runs check *)

\* Every index a user works with is an index of the array.
THEOREM TypeCorrect == Spec => []TypeOK
<1>1. IInv => TypeOK
  BY DEF IInv
<1> QED
  BY InductiveInvariant, <1>1, PTL

\* A put or a get after a successful peek works on the peeked slot and is
\* never refused (the callers ignore its result).
THEOREM PeekIsGood == Spec => []PeekHolds
<1>1. IInv => PeekHolds
  BY DEF IInv
<1> QED
  BY InductiveInvariant, <1>1, PTL

\* No element is overwritten before it was removed.
THEOREM NeverOverwrites == Spec => []NoOverwrite
<1>1. ASSUME IInv, ppc \in {"fill", "put", "store"} PROVE ~Occupied(pidx)
  <2>1. pidx = put_ptr
    BY <1>1 DEF IInv, PeekHolds
  <2>2. Elements \in Indexes
    BY <1>1, DistanceLemma DEF IInv, TypeOK, Elements
  <2>3. ~(Elements < Elements)
    BY <2>2, SizeAssumption, SMT DEF Indexes
  <2> QED
    BY <2>1, <2>3 DEF Occupied, Elements
<1>2. IInv => NoOverwrite
  BY <1>1 DEF NoOverwrite
<1> QED
  BY InductiveInvariant, <1>2, PTL

\* The consumer never reads a slot the producer may be writing.
THEOREM NeverReadsStale == Spec => []NoStaleRead
<1>1. IInv => NoStaleRead
  BY SizeAssumption, DistanceLemma, SMT
     DEF IInv, TypeOK, PeekHolds, ElementKept, NoStaleRead, Occupied,
         Elements, Empty, Indexes
<1> QED
  BY InductiveInvariant, <1>1, PTL

-----------------------------------------------------------------------------
(* The ring implements the bounded queue *)

\* Where the k-th oldest element is.
Slot(k) == (get_ptr + k - 1) % Size
Window == [k \in 1 .. Elements |-> array[Slot(k)]]

\* The slots of the window are in the ring, distinct from the one after the
\* last, which is where the producer writes.
LEMMA WindowLemma ==
  ASSUME TypeOK
  PROVE  /\ Elements \in Indexes
         /\ \A k \in 1 .. Elements : Slot(k) \in Indexes /\ Slot(k) # put_ptr
         /\ Slot(Elements + 1) = put_ptr
         /\ Elements # 0 => Slot(1) = get_ptr
<1> USE DEF TypeOK
<1>1. /\ Elements \in Indexes
      /\ Elements = IF put_ptr >= get_ptr THEN put_ptr - get_ptr
                    ELSE put_ptr - get_ptr + Size
  BY DistanceLemma DEF Elements
<1>2. \A g, i \in Indexes :
        (g + i) % Size = IF g + i < Size THEN g + i ELSE g + i - Size
  BY SizeAssumption, SMT DEF Indexes
<1>3. ASSUME NEW k \in 1 .. Elements + 1
      PROVE  Slot(k) = IF get_ptr + (k - 1) < Size THEN get_ptr + (k - 1)
                       ELSE get_ptr + (k - 1) - Size
  <2>1. k - 1 \in Indexes /\ get_ptr + k - 1 = get_ptr + (k - 1)
    BY <1>1, SizeAssumption, SMT DEF Indexes
  <2> QED
    BY <1>2, <2>1 DEF Slot
<1>4. ASSUME NEW k \in 1 .. Elements
      PROVE  Slot(k) \in Indexes /\ Slot(k) # put_ptr
  BY <1>1, <1>3, SizeAssumption, SMT DEF Indexes
<1>5. Slot(Elements + 1) = put_ptr
  <2>1. get_ptr + (Elements + 1) - 1 = get_ptr + Elements
    BY <1>1, SMT DEF Indexes
  <2>2. (get_ptr + Elements) % Size
          = IF get_ptr + Elements < Size THEN get_ptr + Elements
            ELSE get_ptr + Elements - Size
    BY <1>1, <1>2
  <2>3. (get_ptr + Elements) % Size = put_ptr
    BY <1>1, <2>2, SizeAssumption, SMT DEF Indexes
  <2> QED
    BY <2>1, <2>3 DEF Slot
<1>6. ASSUME Elements # 0 PROVE Slot(1) = get_ptr
  <2>1. 1 \in 1 .. Elements + 1
    BY <1>1, SMT DEF Indexes
  <2>2. Slot(1) = IF get_ptr + (1 - 1) < Size THEN get_ptr + (1 - 1)
                  ELSE get_ptr + (1 - 1) - Size
    BY <1>3, <2>1
  <2> QED
    BY <2>2, SizeAssumption, SMT DEF Indexes
<1> QED
  BY <1>1, <1>4, <1>5, <1>6

Contents == Values \cup {NoValue}

WindowOK ==
  /\ Window \in Seq(Contents)
  /\ Len(Window) = Elements
  /\ \A k \in 1 .. Elements : Window[k] = array[Slot(k)]

LEMMA WindowIsSeq == TypeOK => WindowOK
<1> SUFFICES ASSUME TypeOK PROVE WindowOK
  OBVIOUS
<1>1. Elements \in Nat
  BY WindowLemma, SizeAssumption, SMT DEF Indexes
<1>2. \A k \in 1 .. Elements : array[Slot(k)] \in Contents
  BY WindowLemma DEF TypeOK, Contents
<1>3. Window \in [1 .. Elements -> Contents]
  BY <1>2 DEF Window
<1>4. Window \in Seq(Contents)
  BY <1>1, <1>3, SMT
<1>5. Len(Window) = Elements
  BY <1>1, <1>3, <1>4, LenProperties, SMT
<1> QED
  BY <1>4, <1>5 DEF Window, WindowOK

\* A put appends the slot it commits.
LEMMA PutAppends ==
  ASSUME IInv, ProducerPutStore
  PROVE  /\ Elements < Size - 1
         /\ array[pidx] \in Values
         /\ Window' = Append(Window, array[pidx])
<1>1. TypeOK /\ TypeOK' /\ pidx = put_ptr /\ array[pidx] \in Values
  BY ProducerIInv DEF IInv, PeekHolds, SlotFilled, ProducerPutStore, Producer
<1>2. Elements \in Indexes /\ Elements # Size - 1
  BY <1>1, WindowLemma DEF IInv, RoomKept, Full, ProducerPutStore
<1>3. Elements' = Elements + 1
  BY <1>1, <1>2, AdvanceLemma DEF ProducerPutStore, consumer, Elements, TypeOK
<1>4. Elements < Size - 1 /\ Elements \in Nat
  BY <1>2, SizeAssumption, SMT DEF Indexes
<1>5. \A k \in 1 .. Elements + 1 : Slot(k)' = Slot(k)
  BY DEF ProducerPutStore, consumer, Slot
<1>6. Window' = [k \in 1 .. Elements + 1 |-> array[Slot(k)]]
  BY <1>3, <1>5 DEF Window, ProducerPutStore
<1>7. array[Slot(Elements + 1)] = array[pidx]
  BY <1>1, WindowLemma
<1>8. Window' = Append(Window, array[pidx])
  <2>1. Append(Window, array[pidx])
          = [k \in 1 .. Elements + 1 |->
               IF k = Elements + 1 THEN array[pidx] ELSE Window[k]]
    <3>1. Window \in Seq(Contents) /\ Len(Window) = Elements
      BY <1>1, WindowIsSeq DEF WindowOK
    <3> QED
      BY <3>1, <1>4, SMT
  <2>2. ASSUME NEW k \in 1 .. Elements + 1
        PROVE  array[Slot(k)]
                 = IF k = Elements + 1 THEN array[pidx] ELSE Window[k]
    <3>1. CASE k = Elements + 1
      BY <3>1, <1>7
    <3>2. CASE k # Elements + 1
      <4>1. k \in 1 .. Elements
        BY <3>2, <1>4, SMT
      <4> QED
        BY <3>2, <4>1, <1>1, WindowIsSeq DEF WindowOK
    <3> QED
      BY <3>1, <3>2
  <2> QED
    BY <1>6, <2>1, <2>2
<1> QED
  BY <1>1, <1>4, <1>8

\* A get removes the head.
LEMMA GetRemovesHead ==
  ASSUME IInv, ConsumerGetStore
  PROVE  Window # <<>> /\ Window' = Tail(Window)
<1>1. TypeOK /\ TypeOK'
  BY ConsumerIInv DEF IInv, Consumer
<1>2. Elements \in Indexes /\ Elements # 0
  BY <1>1, WindowLemma DEF IInv, ElementKept, Empty, ConsumerGetStore
<1>3. Elements' = Elements - 1
  BY <1>1, <1>2, AdvanceLemma DEF ConsumerGetStore, producer, Elements, TypeOK
<1>4. Elements \in Nat \ {0}
  BY <1>2, SizeAssumption, SMT DEF Indexes
<1>5. /\ Window \in Seq(Contents) /\ Len(Window) = Elements
      /\ \A k \in 1 .. Elements : Window[k] = array[Slot(k)]
  BY <1>1, WindowIsSeq DEF WindowOK
<1>6. /\ Window' \in Seq(Contents) /\ Len(Window') = Elements - 1
      /\ \A k \in 1 .. Elements - 1 : Window'[k] = array[Slot(k)']
  <2>1. (TypeOK => WindowOK)'
    BY WindowIsSeq, PTL
  <2> QED
    BY <2>1, <1>1, <1>3 DEF WindowOK, ConsumerGetStore, producer
<1>7. Window # <<>>
  BY <1>4, <1>5, EmptySeq
<1>8. \A k \in 1 .. Elements - 1 : Slot(k)' = Slot(k + 1)
  <2> SUFFICES ASSUME NEW k \in 1 .. Elements - 1
               PROVE  Slot(k)' = Slot(k + 1)
    OBVIOUS
  <2>1. get_ptr \in Indexes /\ k \in Int /\ k >= 1 /\ k + 1 < Size
    BY <1>1, <1>2, SizeAssumption, SMT DEF TypeOK, Indexes
  <2>2. get_ptr' = IF get_ptr = Size - 1 THEN 0 ELSE get_ptr + 1
    BY <1>1, NextIndexLemma DEF TypeOK, ConsumerGetStore
  <2>3. \A g, i \in Indexes :
          (g + i) % Size = IF g + i < Size THEN g + i ELSE g + i - Size
    BY SizeAssumption, SMT DEF Indexes
  <2>4. get_ptr' + k - 1 = get_ptr' + (k - 1) /\ get_ptr' \in Indexes
        /\ k - 1 \in Indexes /\ k \in Indexes
        /\ get_ptr + (k + 1) - 1 = get_ptr + k
    BY <2>1, <2>2, SizeAssumption, SMT DEF Indexes
  <2>5. (get_ptr' + (k - 1)) % Size
          = IF get_ptr' + (k - 1) < Size THEN get_ptr' + (k - 1)
            ELSE get_ptr' + (k - 1) - Size
    BY <2>3, <2>4
  <2>6. (get_ptr + k) % Size
          = IF get_ptr + k < Size THEN get_ptr + k ELSE get_ptr + k - Size
    BY <2>1, <2>3, <2>4
  <2>7. (get_ptr' + (k - 1)) % Size = (get_ptr + k) % Size
    BY <2>1, <2>2, <2>5, <2>6, SizeAssumption, SMT DEF Indexes
  <2> QED
    BY <2>4, <2>7 DEF Slot
<1>9. /\ Tail(Window) \in Seq(Contents) /\ Len(Tail(Window)) = Elements - 1
      /\ \A k \in 1 .. Elements - 1 : Tail(Window)[k] = Window[k + 1]
  BY <1>5, <1>7, HeadTailProperties
<1>10. \A k \in 1 .. Elements - 1 : Window'[k] = Tail(Window)[k]
  <2> SUFFICES ASSUME NEW k \in 1 .. Elements - 1
               PROVE  Window'[k] = Tail(Window)[k]
    OBVIOUS
  <2>1. k + 1 \in 1 .. Elements
    BY <1>4, SMT
  <2> QED
    BY <2>1, <1>5, <1>6, <1>8, <1>9
<1>11. Window' = Tail(Window)
  BY <1>6, <1>9, <1>10, SeqEqual
<1> QED
  BY <1>7, <1>11

\* Every other step leaves the window alone.
LEMMA WindowUnchanged ==
  ASSUME IInv, UNCHANGED <<put_ptr, get_ptr>>, array' = array \/ ProducerFill
  PROVE  Window' = Window
<1>1. Elements' = Elements /\ \A k \in 1 .. Elements : Slot(k)' = Slot(k)
  BY DEF Elements, Slot
<1>2. \A k \in 1 .. Elements : array'[Slot(k)] = array[Slot(k)]
  <2>1. CASE array' = array
    BY <2>1
  <2>2. CASE ProducerFill
    <3>1. pidx = put_ptr /\ TypeOK
      BY <2>2 DEF IInv, PeekHolds, ProducerFill
    <3>2. \A k \in 1 .. Elements : Slot(k) \in Indexes /\ Slot(k) # pidx
      BY <3>1, WindowLemma
    <3> QED
      BY <2>2, <3>1, <3>2 DEF ProducerFill, TypeOK
  <2> QED
    BY <2>1, <2>2
<1> QED
  BY <1>1, <1>2 DEF Window

\* Each step of the two users is a step of the queue, or changes nothing of
\* it: the put's store is the queue's Send, the consumer's read its Look and
\* the get's store its Release.
LEMMA StepRefines == IInv /\ [Next]_vars => [Channel!Next]_(Channel!channelVars)
<1> SUFFICES ASSUME IInv, [Next]_vars
             PROVE  Channel!Next \/ UNCHANGED Channel!channelVars
  OBVIOUS
<1> DEFINE h == cpc \in {"get", "store"}
<1>1. ASSUME Window' = Window, h' = h, got' = got
      PROVE  UNCHANGED Channel!channelVars
  BY <1>1 DEF Channel!channelVars, Window, Slot
<1>2. CASE ProducerPeek \/ ProducerPutTest \/ ProducerGivesUp
  BY <1>1, <1>2, WindowUnchanged
     DEF ProducerPeek, ProducerPutTest, ProducerGivesUp, consumer
<1>3. CASE ProducerFill
  BY <1>1, <1>3, WindowUnchanged DEF ProducerFill, consumer
<1>4. CASE ProducerPutStore
  <2>1. /\ Elements < Size - 1 /\ array[pidx] \in Values
        /\ Window' = Append(Window, array[pidx])
    BY <1>4, PutAppends
  <2>2. Len(Window) = Elements
    BY WindowIsSeq DEF IInv, WindowOK
  <2>3. PICK v \in Values : v = array[pidx]
    BY <2>1
  <2>4. Channel!Send(v)
    BY <1>4, <2>1, <2>2, <2>3
       DEF Channel!Send, ProducerPutStore, consumer, Window, Slot
  <2> QED
    BY <2>4 DEF Channel!Next
<1>5. CASE ConsumerPeek \/ ConsumerGetTest
  <2>1. h' = h
    BY <1>5 DEF ConsumerPeek, ConsumerGetTest, IInv, ElementKept
  <2> QED
    BY <1>1, <1>5, <2>1, WindowUnchanged
       DEF ConsumerPeek, ConsumerGetTest, producer
<1>6. CASE ConsumerUse
  <2>1. Window' = Window
    BY <1>6, WindowUnchanged DEF ConsumerUse, producer
  <2>2. /\ Window \in Seq(Contents) /\ Len(Window) = Elements
        /\ \A k \in 1 .. Elements : Window[k] = array[Slot(k)]
    BY WindowIsSeq DEF IInv, WindowOK
  <2>3. Elements # 0 /\ Elements \in Nat /\ cidx = get_ptr /\ Slot(1) = get_ptr
    BY <1>6, WindowLemma, SizeAssumption, SMT
       DEF ConsumerUse, IInv, PeekHolds, ElementKept, Empty, Indexes
  <2>4. Window # <<>> /\ Head(Window) = array[get_ptr]
    <3>1. 1 \in 1 .. Elements
      BY <2>3, SMT
    <3> QED
      BY <2>2, <2>3, <3>1, EmptySeq, SMT
  <2>5. Channel!Look
    BY <1>6, <2>1, <2>3, <2>4 DEF Channel!Look, ConsumerUse, Window, Slot
  <2> QED
    BY <2>5 DEF Channel!Next
<1>7. CASE ConsumerGetStore
  <2>1. Window # <<>> /\ Window' = Tail(Window)
    BY <1>7, GetRemovesHead
  <2>2. (cpc \in {"get", "store"})' = FALSE
    BY <1>7 DEF ConsumerGetStore
  <2>3. Channel!Release
    BY <1>7, <2>1, <2>2
       DEF Channel!Release, ConsumerGetStore, producer, Window, Slot
  <2> QED
    BY <2>3 DEF Channel!Next
<1>8. CASE UNCHANGED vars
  BY <1>1, <1>8, WindowUnchanged DEF vars
<1> QED
  BY <1>2, <1>3, <1>4, <1>5, <1>6, <1>7, <1>8 DEF Next, Producer, Consumer

LEMMA InitRefines == Init => Channel!Init
<1> SUFFICES ASSUME Init PROVE Channel!Init
  OBVIOUS
<1>1. Elements = 0
  BY SizeAssumption, SMT DEF Init, Elements
<1>2. Window = <<>>
  BY <1>1, SMT DEF Window
<1> QED
  BY <1>2 DEF Init, Channel!Init, Window, Slot

\* The ring with its array is a bounded queue of Size - 1 elements: whatever
\* the interleaving of interrupt and process, nothing is lost, duplicated or
\* reordered.
THEOREM RingImplementsChannel == Spec => ImplementsChannel
<1>1. ImplementsChannel <=> Channel!Init /\ [][Channel!Next]_(Channel!channelVars)
  BY DEF ImplementsChannel, Channel!Spec
<1> QED
  BY InductiveInvariant, InitRefines, StepRefines, <1>1, PTL DEF Spec
=============================================================================
