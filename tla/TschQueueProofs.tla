--------------------------- MODULE TschQueueProofs ---------------------------
(***************************************************************************)
(* Proofs about TschQueue, for any schedule, any number of neighbors and   *)
(* packets and any capacity.                                               *)
(*                                                                         *)
(* The invariant says what the process knows at each of its steps.  While  *)
(* it removes a neighbor, the neighbor's queue is empty: it was when the   *)
(* sweep looked, and only the process adds packets.  So no slot can choose *)
(* that neighbor, and a slot that had chosen it before is over when the    *)
(* lock is taken.                                                          *)
(***************************************************************************)
EXTENDS TschQueue, FiniteSetTheorems, TLAPS

\* The steps at which the process has a neighbor in hand.
HasNbr == {"send", "lock", "wait", "locked", "header", "flush", "flushed"}

\* The steps of the removal of an unused neighbor.
Removing == goal = "sweep" /\ ppc \in {"lock", "wait", "locked", "flush"}

ProcessInv ==
  /\ ppc \in HasNbr => pn \in Nbrs
  /\ ppc = "source" => goal = "source"
  /\ ppc = "send" => goal = "send"
  /\ ppc = "reset" => goal = "reset"
  /\ ppc \in {"lock", "wait", "locked"} => goal \in {"send", "sweep", "source"}
  /\ ppc = "flushed" => goal \notin {"send", "sweep"}
  /\ ppc = "flush" => goal # "send"
  /\ ppc = "reported" => dequeued # <<>>
  /\ goal \in {"sweep", "source"} /\ ppc \in {"lock", "wait", "locked", "source", "flush", "flushed"} =>
       pn # Broadcast

LockInv ==
  /\ locked <=> ppc = "locked"
  /\ lockRequested <=> ppc = "wait"

RemovalInv == Removing => queue[pn] = <<>>

\* A transmission to the neighbor being removed can only be one that started
\* before the lock was taken.
SlotInv ==
  slot = "tx" =>
    /\ cur.p \in Blocks /\ cur.n \in nbrs /\ cur.l \in Links
    /\ (Removing /\ ppc = "flush") => cur.n # pn

ControlInv == ProcessInv /\ LockInv /\ TxExcludesLock /\ RemovalInv /\ SlotInv

Inv == TypeOK /\ ControlInv /\ BackoffFits

USE NbrAssumption, BoundAssumption
USE DEF Nbrs, nbrVars, pktVars, lockVars, slotVars, procVars, NoCurrent

-----------------------------------------------------------------------------
(* The operators the actions are built from *)

\* A power of two is a natural number: it counts the subsets of a set.
LEMMA PowerOfTwo ==
  ASSUME NEW e \in Nat
  PROVE  2^e \in Nat
<1>1. IsFiniteSet(1 .. e) /\ Cardinality(1 .. e) = e
  BY FS_Interval
<1>2. IsFiniteSet(SUBSET (1 .. e)) /\ Cardinality(SUBSET (1 .. e)) = 2^e
  BY <1>1, FS_SUBSET
<1> QED
  BY <1>2, FS_CardinalityType

\* The exponent stays within its bounds.
LEMMA IncExponentBounded ==
  ASSUME NEW e \in MinBE .. MaxBE
  PROVE  IncExponent(e) \in MinBE .. MaxBE
BY DEF IncExponent

\* A slot only sends what is at the head of the queue of a known neighbor, and
\* nothing while the queues are locked.
LEMMA PacketIsHead ==
  ASSUME NEW n \in Nbrs, NEW l \in Links, TypeOK, PacketForNbr(n, l) # NoBlock
  PROVE  /\ ~locked /\ n \in nbrs /\ queue[n] # <<>>
         /\ PacketForNbr(n, l) = Head(queue[n])
         /\ PacketForNbr(n, l) \in Blocks
<1>1. ~locked /\ n \in nbrs /\ queue[n] # <<>> /\ PacketForNbr(n, l) = Head(queue[n])
  BY DEF PacketForNbr
<1>2. queue[n] \in Seq(Blocks)
  BY DEF TypeOK, QueueTypes
<1>3. Head(queue[n]) \in Blocks
  BY <1>1, <1>2
<1> QED
  BY <1>1, <1>3

\* Every target of a link has such a packet.
LEMMA TargetHasPacket ==
  ASSUME NEW l \in Links, NEW n \in Targets(l), TypeOK
  PROVE  n \in Nbrs /\ PacketForNbr(n, l) # NoBlock
BY LinkAssumption DEF Targets

\* The end of a slot lowers windows and leaves their type.
LEMMA WindowsShrink ==
  ASSUME NEW l, NEW w \in [Nbrs -> Nat]
  PROVE  /\ WindowsAfter(l, w) \in [Nbrs -> Nat]
         /\ \A n \in Nbrs : WindowsAfter(l, w)[n] <= w[n]
BY DEF WindowsAfter

\* The window and exponent after a transmission have their types; a window that
\* is not zero fits the exponent if it did before.
LEMMA BackoffStatesFit ==
  ASSUME NEW n \in Nbrs, NEW l \in Links, NEW ok \in BOOLEAN, NEW rest,
         TypeOK, n \in nbrs, BackoffFits, NEW b \in BackoffStates(n, l, ok, rest)
  PROVE  /\ b.e \in MinBE .. MaxBE /\ b.w \in Nat
         /\ b.w # 0 => n # Broadcast /\ b.w <= 2^b.e
<1>1. MinBE \in MinBE .. MaxBE
  OBVIOUS
<1>2. exponent[n] \in MinBE .. MaxBE /\ window[n] \in Nat
  BY DEF TypeOK, QueueTypes
<1>3. IncExponent(exponent[n]) \in MinBE .. MaxBE
  BY <1>2, IncExponentBounded
<1>4. CASE n # Broadcast /\ ok /\ (l.shared \/ rest = <<>>)
  BY <1>1, <1>4 DEF BackoffStates
<1>5. CASE n # Broadcast /\ ~ok /\ l.shared
  <2> DEFINE e == IncExponent(exponent[n])
  <2>1. b \in {[e |-> e, w |-> w] : w \in 1 .. 2^e}
    BY <1>5 DEF BackoffStates
  <2>2. PICK w \in 1 .. 2^e : b = [e |-> e, w |-> w]
    BY <2>1
  <2>3. b.e = e /\ b.w = w
    BY <2>2
  <2>4. w \in Nat /\ w <= 2^e
    BY <2>2
  <2> QED
    BY <1>3, <1>5, <2>3, <2>4
<1>6. CASE /\ ~(n # Broadcast /\ ok /\ (l.shared \/ rest = <<>>))
           /\ ~(n # Broadcast /\ ~ok /\ l.shared)
  <2>1. b = [e |-> exponent[n], w |-> window[n]]
    BY <1>6 DEF BackoffStates
  <2> QED
    BY <1>2, <2>1 DEF BackoffFits
<1> QED
  BY <1>4, <1>5, <1>6

\* What a step leaves alone keeps its part of the invariant.
LEMMA QuietQueues ==
  ASSUME Inv, UNCHANGED <<nbrVars, timeSource>>
  PROVE  QueueTypes' /\ BackoffFits'
BY DEF Inv, TypeOK, QueueTypes, BackoffFits

LEMMA QuietPackets ==
  ASSUME Inv, UNCHANGED <<pktVars, dequeued>>
  PROVE  PacketTypes'
BY DEF Inv, TypeOK, PacketTypes

-----------------------------------------------------------------------------
(* The actions of the process *)

LEMMA LockRequestStep ==
  ASSUME Inv, LockRequest
  PROVE  Inv'
<1>1. QueueTypes' /\ BackoffFits'
  BY QuietQueues DEF LockRequest
<1>2. PacketTypes'
  BY QuietPackets DEF LockRequest
<1>3. ControlTypes' /\ ControlInv'
  <2>1. ControlTypes' /\ TxExcludesLock' /\ LockInv'
    BY DEF LockRequest, Inv, TypeOK, QueueTypes, ControlTypes, ControlInv, ProcessInv,
       LockInv, TxExcludesLock, HasNbr
  <2>2. ProcessInv'
    BY DEF LockRequest, Inv, TypeOK, QueueTypes, ControlTypes, ControlInv, ProcessInv, HasNbr
  <2>3. RemovalInv' /\ SlotInv'
    BY DEF LockRequest, Inv, TypeOK, QueueTypes, ControlTypes, ControlInv, ProcessInv,
       LockInv, RemovalInv, SlotInv, Removing, HasNbr
  <2> QED
    BY <2>1, <2>2, <2>3 DEF ControlInv
<1> QED
  BY <1>1, <1>2, <1>3 DEF Inv, TypeOK

LEMMA LockTakeStep ==
  ASSUME Inv, LockTake
  PROVE  Inv'
<1>1. QueueTypes' /\ BackoffFits'
  BY QuietQueues DEF LockTake
<1>2. PacketTypes'
  BY QuietPackets DEF LockTake
<1>3. ControlTypes' /\ ControlInv'
  <2>1. ControlTypes' /\ TxExcludesLock' /\ LockInv'
    BY DEF LockTake, Inv, TypeOK, QueueTypes, ControlTypes, ControlInv, ProcessInv,
       LockInv, TxExcludesLock, HasNbr
  <2>2. ProcessInv'
    BY DEF LockTake, Inv, TypeOK, QueueTypes, ControlTypes, ControlInv, ProcessInv, HasNbr
  <2>3. RemovalInv' /\ SlotInv'
    BY DEF LockTake, Inv, TypeOK, QueueTypes, ControlTypes, ControlInv, ProcessInv,
       LockInv, RemovalInv, SlotInv, Removing, HasNbr
  <2> QED
    BY <2>1, <2>2, <2>3 DEF ControlInv
<1> QED
  BY <1>1, <1>2, <1>3 DEF Inv, TypeOK

LEMMA AddNbrStep ==
  ASSUME Inv, AddNbr
  PROVE  Inv'
<1>1. QueueTypes' /\ BackoffFits'
  <2>1. CASE ~(Cardinality(nbrs) < MaxNbrs)
    BY <2>1, QuietQueues DEF AddNbr
  <2>2. CASE Cardinality(nbrs) < MaxNbrs
    <3>1. /\ nbrs' = nbrs \cup {pn} /\ queue' = [queue EXCEPT ![pn] = <<>>]
          /\ window' = [window EXCEPT ![pn] = 0]
          /\ exponent' = [exponent EXCEPT ![pn] = MinBE]
          /\ timeSource' = timeSource
      BY <2>2 DEF AddNbr
    <3>2. pn \in Nbrs
      BY DEF AddNbr, Inv, ControlInv, ProcessInv, HasNbr
    <3>3. QueueTypes'
      BY <3>1, <3>2 DEF Inv, TypeOK, QueueTypes
    <3>4. ASSUME NEW n \in nbrs', window'[n] # 0
          PROVE  n \in nbrs /\ window'[n] = window[n] /\ exponent'[n] = exponent[n]
      BY <3>1, <3>2, <3>4 DEF Inv, TypeOK, QueueTypes
    <3> QED
      BY <3>3, <3>4 DEF Inv, BackoffFits
  <2> QED
    BY <2>1, <2>2
<1>2. PacketTypes'
  BY QuietPackets DEF AddNbr
<1>3. ControlTypes' /\ ControlInv'
  <2>1. ControlTypes' /\ TxExcludesLock' /\ LockInv'
    BY DEF AddNbr, Inv, TypeOK, QueueTypes, ControlTypes, ControlInv, ProcessInv,
       LockInv, TxExcludesLock, HasNbr
  <2>2. ProcessInv'
    BY DEF AddNbr, Inv, TypeOK, QueueTypes, ControlTypes, ControlInv, ProcessInv, HasNbr
  <2>3. RemovalInv' /\ SlotInv'
    BY DEF AddNbr, Inv, TypeOK, QueueTypes, ControlTypes, ControlInv, ProcessInv,
       LockInv, RemovalInv, SlotInv, Removing, HasNbr
  <2> QED
    BY <2>1, <2>2, <2>3 DEF ControlInv
<1> QED
  BY <1>1, <1>2, <1>3 DEF Inv, TypeOK

LEMMA ReleaseAndFlushStep ==
  ASSUME Inv, ReleaseAndFlush
  PROVE  Inv'
<1>1. QueueTypes' /\ BackoffFits'
  BY QuietQueues DEF ReleaseAndFlush
<1>2. PacketTypes'
  BY QuietPackets DEF ReleaseAndFlush
<1>3. ControlTypes' /\ ControlInv'
  <2>1. ControlTypes' /\ TxExcludesLock'
    BY DEF ReleaseAndFlush, Inv, TypeOK, ControlTypes, ControlInv, LockInv, TxExcludesLock
  <2>2. LockInv'
    BY DEF ReleaseAndFlush, Inv, ControlInv, LockInv
  <2>3. ProcessInv'
    BY DEF ReleaseAndFlush, Inv, ControlInv, ProcessInv, HasNbr
  <2>4. RemovalInv'
    BY DEF ReleaseAndFlush, Inv, TypeOK, QueueTypes, ControlInv, ProcessInv, RemovalInv, Removing, HasNbr
  <2>5. SlotInv'
    BY DEF ReleaseAndFlush, Inv, ControlInv, ProcessInv, LockInv, TxExcludesLock, SlotInv, Removing
  <2> QED
    BY <2>1, <2>2, <2>3, <2>4, <2>5 DEF ControlInv
<1> QED
  BY <1>1, <1>2, <1>3 DEF Inv, TypeOK

LEMMA SendPacketStep ==
  ASSUME NEW n \in Nbrs, Inv, SendPacket(n)
  PROVE  Inv'
<1>1. QueueTypes' /\ BackoffFits'
  BY QuietQueues DEF SendPacket
<1>2. PacketTypes'
  BY QuietPackets DEF SendPacket
<1>3. ControlTypes' /\ ControlInv'
  <2>1. ControlTypes' /\ TxExcludesLock' /\ LockInv'
    BY DEF SendPacket, Inv, TypeOK, QueueTypes, ControlTypes, ControlInv, ProcessInv,
       LockInv, TxExcludesLock, HasNbr
  <2>2. ProcessInv'
    BY DEF SendPacket, Inv, TypeOK, QueueTypes, ControlTypes, ControlInv, ProcessInv, HasNbr
  <2>3. RemovalInv' /\ SlotInv'
    BY DEF SendPacket, Inv, TypeOK, QueueTypes, ControlTypes, ControlInv, ProcessInv,
       LockInv, RemovalInv, SlotInv, Removing, HasNbr
  <2> QED
    BY <2>1, <2>2, <2>3 DEF ControlInv
<1> QED
  BY <1>1, <1>2, <1>3 DEF Inv, TypeOK

LEMMA EnqueueStep ==
  ASSUME Inv, Enqueue
  PROVE  Inv'
<1>1. QueueTypes' /\ BackoffFits'
  <2>1. CASE ~(Len(queue[pn]) < QueueCapacity /\ alloc # Blocks)
    BY <2>1, QuietQueues DEF Enqueue
  <2>2. CASE Len(queue[pn]) < QueueCapacity /\ alloc # Blocks
    <3>1. PICK b \in Blocks : queue' = [queue EXCEPT ![pn] = Append(@, b)]
      BY <2>2 DEF Enqueue
    <3>2. pn \in Nbrs /\ UNCHANGED <<nbrs, window, exponent, timeSource>>
      BY DEF Enqueue, Inv, ControlInv, ProcessInv, HasNbr
    <3>3. queue[pn] \in Seq(Blocks)
      BY <3>2 DEF Inv, TypeOK, QueueTypes
    <3>4. Append(queue[pn], b) \in Seq(Blocks) /\ Len(Append(queue[pn], b)) <= QueueCapacity
      BY <2>2, <3>3
    <3> QED
      BY <3>1, <3>2, <3>4 DEF Inv, TypeOK, QueueTypes, BackoffFits
  <2> QED
    BY <2>1, <2>2
<1>2. PacketTypes'
  <2>1. CASE ~(Len(queue[pn]) < QueueCapacity /\ alloc # Blocks)
    BY <2>1, QuietPackets DEF Enqueue
  <2>2. CASE Len(queue[pn]) < QueueCapacity /\ alloc # Blocks
    <3>1. PICK b \in Blocks, c \in Cells :
            /\ alloc' = alloc \cup {b}
            /\ pkt' = [pkt EXCEPT ![b] = [tx |-> 0, cell |-> c]]
            /\ called' = [called EXCEPT ![b] = 0]
      BY <2>2 DEF Enqueue
    <3>2. pn \in Nbrs /\ dequeued' = dequeued
      BY DEF Enqueue, Inv, ControlInv, ProcessInv, HasNbr
    <3>3. [tx |-> 0, cell |-> c] \in [tx : 0 .. MaxTx + 1, cell : Cells]
      OBVIOUS
    <3> QED
      BY <3>1, <3>2, <3>3 DEF Inv, TypeOK, PacketTypes
  <2> QED
    BY <2>1, <2>2
<1>3. ControlTypes' /\ ControlInv'
  <2>1. ControlTypes' /\ TxExcludesLock' /\ LockInv'
    BY DEF Enqueue, Inv, TypeOK, QueueTypes, ControlTypes, ControlInv, ProcessInv,
       LockInv, TxExcludesLock, HasNbr
  <2>2. ProcessInv'
    BY DEF Enqueue, Inv, TypeOK, QueueTypes, ControlTypes, ControlInv, ProcessInv, HasNbr
  <2>3. RemovalInv' /\ SlotInv'
    BY DEF Enqueue, Inv, TypeOK, QueueTypes, ControlTypes, ControlInv, ProcessInv,
       LockInv, RemovalInv, SlotInv, Removing, HasNbr
  <2> QED
    BY <2>1, <2>2, <2>3 DEF ControlInv
<1> QED
  BY <1>1, <1>2, <1>3 DEF Inv, TypeOK

LEMMA SetHeaderLenStep ==
  ASSUME Inv, SetHeaderLen
  PROVE  Inv'
<1>1. QueueTypes' /\ BackoffFits'
  BY QuietQueues DEF SetHeaderLen
<1>2. PacketTypes'
  BY QuietPackets DEF SetHeaderLen
<1>3. ControlTypes' /\ ControlInv'
  <2>1. ControlTypes' /\ TxExcludesLock' /\ LockInv'
    BY DEF SetHeaderLen, Inv, TypeOK, QueueTypes, ControlTypes, ControlInv, ProcessInv,
       LockInv, TxExcludesLock, HasNbr
  <2>2. ProcessInv'
    BY DEF SetHeaderLen, Inv, TypeOK, QueueTypes, ControlTypes, ControlInv, ProcessInv, HasNbr
  <2>3. RemovalInv' /\ SlotInv'
    BY DEF SetHeaderLen, Inv, TypeOK, QueueTypes, ControlTypes, ControlInv, ProcessInv,
       LockInv, RemovalInv, SlotInv, Removing, HasNbr
  <2> QED
    BY <2>1, <2>2, <2>3 DEF ControlInv
<1> QED
  BY <1>1, <1>2, <1>3 DEF Inv, TypeOK

LEMMA ReportStep ==
  ASSUME Inv, Report
  PROVE  Inv'
<1>1. QueueTypes' /\ BackoffFits'
  BY QuietQueues DEF Report
<1>2. PacketTypes'
  <2>1. Head(dequeued) \in Blocks
    BY DEF Report, Inv, TypeOK, PacketTypes
  <2>2. called' \in [Blocks -> 0 .. 2]
    BY <2>1 DEF Report, CallSent, Inv, TypeOK, PacketTypes
  <2> QED
    BY <2>2 DEF Report, Inv, TypeOK, PacketTypes
<1>3. ControlTypes' /\ ControlInv'
  <2> pk' \in Blocks
    BY DEF Report, Inv, TypeOK, PacketTypes
  <2>1. ControlTypes' /\ TxExcludesLock'
    BY DEF Report, Inv, TypeOK, ControlTypes, ControlInv, LockInv, TxExcludesLock
  <2>2. LockInv'
    BY DEF Report, Inv, ControlInv, LockInv
  <2>3. ProcessInv'
    BY DEF Report, Inv, ControlInv, ProcessInv, HasNbr
  <2>4. RemovalInv'
    BY DEF Report, Inv, TypeOK, QueueTypes, ControlInv, ProcessInv, RemovalInv, Removing, HasNbr
  <2>5. SlotInv'
    BY DEF Report, Inv, ControlInv, ProcessInv, LockInv, TxExcludesLock, SlotInv, Removing
  <2> QED
    BY <2>1, <2>2, <2>3, <2>4, <2>5 DEF ControlInv
<1> QED
  BY <1>1, <1>2, <1>3 DEF Inv, TypeOK

LEMMA FreeReportedStep ==
  ASSUME Inv, FreeReported
  PROVE  Inv'
<1>1. QueueTypes' /\ BackoffFits'
  BY QuietQueues DEF FreeReported
<1>2. PacketTypes'
  <2>1. Tail(dequeued) \in Seq(Blocks) /\ Len(Tail(dequeued)) <= DequeuedCapacity
    BY DEF FreeReported, Inv, TypeOK, PacketTypes, ControlInv, ProcessInv
  <2> QED
    BY <2>1 DEF FreeReported, Inv, TypeOK, PacketTypes
<1>3. ControlTypes' /\ ControlInv'
  <2>1. ControlTypes' /\ TxExcludesLock' /\ LockInv'
    BY DEF FreeReported, Inv, TypeOK, QueueTypes, ControlTypes, ControlInv, ProcessInv,
       LockInv, TxExcludesLock, HasNbr
  <2>2. ProcessInv'
    BY DEF FreeReported, Inv, TypeOK, QueueTypes, ControlTypes, ControlInv, ProcessInv, HasNbr
  <2>3. RemovalInv' /\ SlotInv'
    BY DEF FreeReported, Inv, TypeOK, QueueTypes, ControlTypes, ControlInv, ProcessInv,
       LockInv, RemovalInv, SlotInv, Removing, HasNbr
  <2> QED
    BY <2>1, <2>2, <2>3 DEF ControlInv
<1> QED
  BY <1>1, <1>2, <1>3 DEF Inv, TypeOK

LEMMA StartSweepStep ==
  ASSUME Inv, StartSweep
  PROVE  Inv'
<1>1. QueueTypes' /\ BackoffFits'
  BY QuietQueues DEF StartSweep
<1>2. PacketTypes'
  BY QuietPackets DEF StartSweep
<1>3. ControlTypes' /\ ControlInv'
  <2>1. ControlTypes' /\ TxExcludesLock' /\ LockInv'
    BY DEF StartSweep, Inv, TypeOK, QueueTypes, ControlTypes, ControlInv, ProcessInv,
       LockInv, TxExcludesLock, HasNbr
  <2>2. ProcessInv'
    BY DEF StartSweep, Inv, TypeOK, QueueTypes, ControlTypes, ControlInv, ProcessInv, HasNbr
  <2>3. RemovalInv' /\ SlotInv'
    BY DEF StartSweep, Inv, TypeOK, QueueTypes, ControlTypes, ControlInv, ProcessInv,
       LockInv, RemovalInv, SlotInv, Removing, HasNbr
  <2> QED
    BY <2>1, <2>2, <2>3 DEF ControlInv
<1> QED
  BY <1>1, <1>2, <1>3 DEF Inv, TypeOK

LEMMA SweepStep ==
  ASSUME NEW n \in Nbrs, Inv, Sweep(n)
  PROVE  Inv'
<1>1. QueueTypes' /\ BackoffFits'
  BY QuietQueues DEF Sweep
<1>2. PacketTypes'
  BY QuietPackets DEF Sweep
<1>3. ASSUME ~Unused(n) PROVE ControlTypes' /\ ControlInv'
  <2>1. UNCHANGED <<lockVars, slotVars, nbrVars, timeSource, goal, pn, ppc, pk, leaving,
                    pktVars, dequeued>>
    BY <1>3 DEF Sweep
  <2>2. todo' \in SUBSET Nbrs
    BY DEF Sweep, Inv, TypeOK, ControlTypes
  <2>3. ControlTypes' /\ TxExcludesLock' /\ LockInv' /\ ProcessInv'
    BY <2>1, <2>2 DEF Inv, TypeOK, ControlTypes, ControlInv, TxExcludesLock, LockInv, ProcessInv
  <2>4. RemovalInv' /\ SlotInv'
    BY <2>1 DEF Inv, ControlInv, RemovalInv, SlotInv, Removing
  <2> QED
    BY <2>3, <2>4 DEF ControlInv
<1>4. ASSUME Unused(n) PROVE ControlTypes' /\ ControlInv'
  <2>1. /\ goal' = "sweep" /\ pn' = n /\ ppc' = "lock" /\ ppc = "sweep"
        /\ n # Broadcast /\ queue[n] = <<>>
        /\ UNCHANGED <<lockVars, slotVars, nbrVars, timeSource, pk, leaving, pktVars, dequeued>>
    BY <1>4 DEF Sweep, Unused
  <2>2. todo' \in SUBSET Nbrs
    BY DEF Sweep, Inv, TypeOK, ControlTypes
  <2>3. ControlTypes' /\ TxExcludesLock' /\ LockInv'
    BY <2>1, <2>2 DEF Inv, TypeOK, ControlTypes, ControlInv, TxExcludesLock, LockInv
  <2>4. ProcessInv'
    BY <2>1 DEF ProcessInv, HasNbr
  <2>5. RemovalInv' /\ SlotInv'
    BY <2>1 DEF Inv, ControlInv, RemovalInv, SlotInv, Removing
  <2> QED
    BY <2>3, <2>4, <2>5 DEF ControlInv
<1> QED
  BY <1>1, <1>2, <1>3, <1>4 DEF Inv, TypeOK

LEMMA SweepDoneStep ==
  ASSUME Inv, SweepDone
  PROVE  Inv'
<1>1. QueueTypes' /\ BackoffFits'
  BY QuietQueues DEF SweepDone
<1>2. PacketTypes'
  BY QuietPackets DEF SweepDone
<1>3. ControlTypes' /\ ControlInv'
  <2>1. ControlTypes' /\ TxExcludesLock' /\ LockInv'
    BY DEF SweepDone, Inv, TypeOK, QueueTypes, ControlTypes, ControlInv, ProcessInv,
       LockInv, TxExcludesLock, HasNbr
  <2>2. ProcessInv'
    BY DEF SweepDone, Inv, TypeOK, QueueTypes, ControlTypes, ControlInv, ProcessInv, HasNbr
  <2>3. RemovalInv' /\ SlotInv'
    BY DEF SweepDone, Inv, TypeOK, QueueTypes, ControlTypes, ControlInv, ProcessInv,
       LockInv, RemovalInv, SlotInv, Removing, HasNbr
  <2> QED
    BY <2>1, <2>2, <2>3 DEF ControlInv
<1> QED
  BY <1>1, <1>2, <1>3 DEF Inv, TypeOK

LEMMA FlushOneStep ==
  ASSUME Inv, FlushOne
  PROVE  Inv'
<1>1. QueueTypes' /\ BackoffFits'
  <2>1. pn \in Nbrs /\ queue[pn] \in Seq(Blocks) /\ queue[pn] # <<>>
    BY DEF FlushOne, Inv, TypeOK, QueueTypes, ControlInv, ProcessInv, HasNbr
  <2>2. /\ Tail(queue[pn]) \in Seq(Blocks)
        /\ Len(Tail(queue[pn])) <= QueueCapacity
    BY <2>1 DEF Inv, TypeOK, QueueTypes
  <2> QED
    BY <2>1, <2>2 DEF FlushOne, Inv, TypeOK, QueueTypes, BackoffFits
<1>2. PacketTypes'
  <2>1. Head(queue[pn]) \in Blocks
    BY DEF FlushOne, Inv, TypeOK, QueueTypes, ControlInv, ProcessInv, HasNbr
  <2>2. called' \in [Blocks -> 0 .. 2]
    BY <2>1 DEF FlushOne, CallSent, Inv, TypeOK, PacketTypes
  <2> QED
    BY <2>2 DEF FlushOne, Inv, TypeOK, PacketTypes
<1>3. ControlTypes' /\ ControlInv'
  <2> pk' \in Blocks
    BY DEF FlushOne, Inv, TypeOK, QueueTypes, ControlInv, ProcessInv, HasNbr
  <2> goal \notin {"send", "sweep"}
    BY DEF FlushOne, Inv, TypeOK, ControlTypes, ControlInv, ProcessInv, RemovalInv, Removing
  <2>1. ControlTypes' /\ TxExcludesLock'
    BY DEF FlushOne, Inv, TypeOK, ControlTypes, ControlInv, LockInv, TxExcludesLock
  <2>2. LockInv'
    BY DEF FlushOne, Inv, ControlInv, LockInv
  <2>3. ProcessInv'
    BY DEF FlushOne, Inv, ControlInv, ProcessInv, HasNbr
  <2>4. RemovalInv'
    BY DEF FlushOne, Inv, TypeOK, QueueTypes, ControlInv, ProcessInv, RemovalInv, Removing, HasNbr
  <2>5. SlotInv'
    BY DEF FlushOne, Inv, ControlInv, ProcessInv, LockInv, TxExcludesLock, SlotInv, Removing
  <2> QED
    BY <2>1, <2>2, <2>3, <2>4, <2>5 DEF ControlInv
<1> QED
  BY <1>1, <1>2, <1>3 DEF Inv, TypeOK

LEMMA FreeFlushedStep ==
  ASSUME Inv, FreeFlushed
  PROVE  Inv'
<1>1. QueueTypes' /\ BackoffFits'
  BY QuietQueues DEF FreeFlushed
<1>2. PacketTypes'
  BY DEF FreeFlushed, Inv, TypeOK, PacketTypes
<1>3. ControlTypes' /\ ControlInv'
  <2>1. ControlTypes' /\ TxExcludesLock' /\ LockInv'
    BY DEF FreeFlushed, Inv, TypeOK, QueueTypes, ControlTypes, ControlInv, ProcessInv,
       LockInv, TxExcludesLock, HasNbr
  <2>2. ProcessInv'
    BY DEF FreeFlushed, Inv, TypeOK, QueueTypes, ControlTypes, ControlInv, ProcessInv, HasNbr
  <2>3. RemovalInv' /\ SlotInv'
    BY DEF FreeFlushed, Inv, TypeOK, QueueTypes, ControlTypes, ControlInv, ProcessInv,
       LockInv, RemovalInv, SlotInv, Removing, HasNbr
  <2> QED
    BY <2>1, <2>2, <2>3 DEF ControlInv
<1> QED
  BY <1>1, <1>2, <1>3 DEF Inv, TypeOK

LEMMA FlushDoneStep ==
  ASSUME Inv, FlushDone
  PROVE  Inv'
<1>1. QueueTypes' /\ BackoffFits'
  <2>1. CASE goal \notin {"sweep", "reset"}
    BY <2>1, QuietQueues DEF FlushDone
  <2>2. CASE goal = "sweep"
    BY <2>2 DEF FlushDone, Inv, TypeOK, QueueTypes, BackoffFits,
       ControlInv, ProcessInv
  <2>3. CASE goal = "reset"
    <3>1. /\ UNCHANGED <<nbrs, queue, timeSource>>
          /\ window' = [window EXCEPT ![pn] = 0]
          /\ exponent' = [exponent EXCEPT ![pn] = MinBE]
      BY <2>3 DEF FlushDone
    <3>2. pn \in Nbrs
      BY DEF FlushDone, Inv, ControlInv, ProcessInv, HasNbr
    <3>3. QueueTypes'
      BY <3>1, <3>2 DEF Inv, TypeOK, QueueTypes
    <3>4. ASSUME NEW n \in nbrs, window'[n] # 0
          PROVE  window'[n] = window[n] /\ exponent'[n] = exponent[n]
      BY <3>1, <3>2, <3>4 DEF Inv, TypeOK, QueueTypes
    <3> QED
      BY <3>1, <3>3, <3>4 DEF Inv, BackoffFits
  <2> QED
    BY <2>1, <2>2, <2>3
<1>2. PacketTypes'
  BY QuietPackets DEF FlushDone
<1>3. ControlTypes' /\ ControlInv'
  <2>1. ControlTypes' /\ TxExcludesLock' /\ LockInv'
    BY DEF FlushDone, Inv, TypeOK, QueueTypes, ControlTypes, ControlInv, ProcessInv,
       LockInv, TxExcludesLock, HasNbr
  <2>2. ProcessInv'
    BY DEF FlushDone, Inv, TypeOK, QueueTypes, ControlTypes, ControlInv, ProcessInv, HasNbr
  <2>3. RemovalInv' /\ SlotInv'
    BY DEF FlushDone, Inv, TypeOK, QueueTypes, ControlTypes, ControlInv, ProcessInv,
       LockInv, RemovalInv, SlotInv, Removing, HasNbr
  <2> QED
    BY <2>1, <2>2, <2>3 DEF ControlInv
<1> QED
  BY <1>1, <1>2, <1>3 DEF Inv, TypeOK

LEMMA UpdateTimeSourceStep ==
  ASSUME NEW n \in Unicast \cup {NoNbr}, Inv, UpdateTimeSource(n)
  PROVE  Inv'
<1>1. QueueTypes' /\ BackoffFits'
  BY QuietQueues DEF UpdateTimeSource
<1>2. PacketTypes'
  BY QuietPackets DEF UpdateTimeSource
<1>3. ControlTypes' /\ ControlInv'
  <2>1. ControlTypes' /\ TxExcludesLock' /\ LockInv'
    BY DEF UpdateTimeSource, Inv, TypeOK, QueueTypes, ControlTypes, ControlInv, ProcessInv,
       LockInv, TxExcludesLock, HasNbr
  <2>2. ProcessInv'
    BY DEF UpdateTimeSource, Inv, TypeOK, QueueTypes, ControlTypes, ControlInv, ProcessInv, HasNbr
  <2>3. RemovalInv' /\ SlotInv'
    BY DEF UpdateTimeSource, Inv, TypeOK, QueueTypes, ControlTypes, ControlInv, ProcessInv,
       LockInv, RemovalInv, SlotInv, Removing, HasNbr
  <2> QED
    BY <2>1, <2>2, <2>3 DEF ControlInv
<1> QED
  BY <1>1, <1>2, <1>3 DEF Inv, TypeOK

LEMMA SetTimeSourceStep ==
  ASSUME Inv, SetTimeSource
  PROVE  Inv'
<1>1. QueueTypes' /\ BackoffFits'
  <2>1. pn \in Unicast \cup {NoNbr}
    BY DEF SetTimeSource, Inv, TypeOK, ControlTypes, ControlInv, ProcessInv
  <2> QED
    BY <2>1 DEF SetTimeSource, Inv, TypeOK, QueueTypes, BackoffFits
<1>2. PacketTypes'
  BY QuietPackets DEF SetTimeSource
<1>3. ControlTypes' /\ ControlInv'
  <2>1. ControlTypes' /\ TxExcludesLock' /\ LockInv'
    BY DEF SetTimeSource, Inv, TypeOK, QueueTypes, ControlTypes, ControlInv, ProcessInv,
       LockInv, TxExcludesLock, HasNbr
  <2>2. ProcessInv'
    BY DEF SetTimeSource, Inv, TypeOK, QueueTypes, ControlTypes, ControlInv, ProcessInv, HasNbr
  <2>3. RemovalInv' /\ SlotInv'
    BY DEF SetTimeSource, Inv, TypeOK, QueueTypes, ControlTypes, ControlInv, ProcessInv,
       LockInv, RemovalInv, SlotInv, Removing, HasNbr
  <2> QED
    BY <2>1, <2>2, <2>3 DEF ControlInv
<1> QED
  BY <1>1, <1>2, <1>3 DEF Inv, TypeOK

LEMMA FreePacketsToStep ==
  ASSUME NEW n \in Unicast, Inv, FreePacketsTo(n)
  PROVE  Inv'
<1>1. QueueTypes' /\ BackoffFits'
  BY QuietQueues DEF FreePacketsTo
<1>2. PacketTypes'
  BY QuietPackets DEF FreePacketsTo
<1>3. ControlTypes' /\ ControlInv'
  <2>1. ControlTypes' /\ TxExcludesLock' /\ LockInv'
    BY DEF FreePacketsTo, Inv, TypeOK, QueueTypes, ControlTypes, ControlInv, ProcessInv,
       LockInv, TxExcludesLock, HasNbr
  <2>2. ProcessInv'
    BY DEF FreePacketsTo, Inv, TypeOK, QueueTypes, ControlTypes, ControlInv, ProcessInv, HasNbr
  <2>3. RemovalInv' /\ SlotInv'
    BY DEF FreePacketsTo, Inv, TypeOK, QueueTypes, ControlTypes, ControlInv, ProcessInv,
       LockInv, RemovalInv, SlotInv, Removing, HasNbr
  <2> QED
    BY <2>1, <2>2, <2>3 DEF ControlInv
<1> QED
  BY <1>1, <1>2, <1>3 DEF Inv, TypeOK

LEMMA LeaveNetworkStep ==
  ASSUME Inv, LeaveNetwork
  PROVE  Inv'
<1>1. QueueTypes' /\ BackoffFits'
  BY QuietQueues DEF LeaveNetwork
<1>2. PacketTypes'
  BY QuietPackets DEF LeaveNetwork
<1>3. ControlTypes' /\ ControlInv'
  <2>1. ControlTypes' /\ TxExcludesLock' /\ LockInv'
    BY DEF LeaveNetwork, Inv, TypeOK, QueueTypes, ControlTypes, ControlInv, ProcessInv,
       LockInv, TxExcludesLock, HasNbr
  <2>2. ProcessInv'
    BY DEF LeaveNetwork, Inv, TypeOK, QueueTypes, ControlTypes, ControlInv, ProcessInv, HasNbr
  <2>3. RemovalInv' /\ SlotInv'
    BY DEF LeaveNetwork, Inv, TypeOK, QueueTypes, ControlTypes, ControlInv, ProcessInv,
       LockInv, RemovalInv, SlotInv, Removing, HasNbr
  <2> QED
    BY <2>1, <2>2, <2>3 DEF ControlInv
<1> QED
  BY <1>1, <1>2, <1>3 DEF Inv, TypeOK

LEMMA ResetQueuesStep ==
  ASSUME Inv, ResetQueues
  PROVE  Inv'
<1>1. QueueTypes' /\ BackoffFits'
  BY QuietQueues DEF ResetQueues
<1>2. PacketTypes'
  BY QuietPackets DEF ResetQueues
<1>3. ControlTypes' /\ ControlInv'
  <2>1. ControlTypes' /\ TxExcludesLock' /\ LockInv'
    BY DEF ResetQueues, Inv, TypeOK, QueueTypes, ControlTypes, ControlInv, ProcessInv,
       LockInv, TxExcludesLock, HasNbr
  <2>2. ProcessInv'
    BY DEF ResetQueues, Inv, TypeOK, QueueTypes, ControlTypes, ControlInv, ProcessInv, HasNbr
  <2>3. RemovalInv' /\ SlotInv'
    BY DEF ResetQueues, Inv, TypeOK, QueueTypes, ControlTypes, ControlInv, ProcessInv,
       LockInv, RemovalInv, SlotInv, Removing, HasNbr
  <2> QED
    BY <2>1, <2>2, <2>3 DEF ControlInv
<1> QED
  BY <1>1, <1>2, <1>3 DEF Inv, TypeOK

LEMMA ResetNbrStep ==
  ASSUME NEW n \in Nbrs, Inv, ResetNbr(n)
  PROVE  Inv'
<1>1. QueueTypes' /\ BackoffFits'
  BY QuietQueues DEF ResetNbr
<1>2. PacketTypes'
  BY QuietPackets DEF ResetNbr
<1>3. ControlTypes' /\ ControlInv'
  <2>1. ControlTypes' /\ TxExcludesLock' /\ LockInv'
    BY DEF ResetNbr, Inv, TypeOK, QueueTypes, ControlTypes, ControlInv, ProcessInv,
       LockInv, TxExcludesLock, HasNbr
  <2>2. ProcessInv'
    BY DEF ResetNbr, Inv, TypeOK, QueueTypes, ControlTypes, ControlInv, ProcessInv, HasNbr
  <2>3. RemovalInv' /\ SlotInv'
    BY DEF ResetNbr, Inv, TypeOK, QueueTypes, ControlTypes, ControlInv, ProcessInv,
       LockInv, RemovalInv, SlotInv, Removing, HasNbr
  <2> QED
    BY <2>1, <2>2, <2>3 DEF ControlInv
<1> QED
  BY <1>1, <1>2, <1>3 DEF Inv, TypeOK

LEMMA SweepAfterResetStep ==
  ASSUME Inv, SweepAfterReset
  PROVE  Inv'
<1>1. QueueTypes' /\ BackoffFits'
  BY QuietQueues DEF SweepAfterReset
<1>2. PacketTypes'
  BY QuietPackets DEF SweepAfterReset
<1>3. ControlTypes' /\ ControlInv'
  <2>1. ControlTypes' /\ TxExcludesLock' /\ LockInv'
    BY DEF SweepAfterReset, Inv, TypeOK, QueueTypes, ControlTypes, ControlInv, ProcessInv,
       LockInv, TxExcludesLock, HasNbr
  <2>2. ProcessInv'
    BY DEF SweepAfterReset, Inv, TypeOK, QueueTypes, ControlTypes, ControlInv, ProcessInv, HasNbr
  <2>3. RemovalInv' /\ SlotInv'
    BY DEF SweepAfterReset, Inv, TypeOK, QueueTypes, ControlTypes, ControlInv, ProcessInv,
       LockInv, RemovalInv, SlotInv, Removing, HasNbr
  <2> QED
    BY <2>1, <2>2, <2>3 DEF ControlInv
<1> QED
  BY <1>1, <1>2, <1>3 DEF Inv, TypeOK

LEMMA DropTimeSourceStep ==
  ASSUME Inv, DropTimeSource
  PROVE  Inv'
<1>1. QueueTypes' /\ BackoffFits'
  BY QuietQueues DEF DropTimeSource
<1>2. PacketTypes'
  BY QuietPackets DEF DropTimeSource
<1>3. ControlTypes' /\ ControlInv'
  <2>1. ControlTypes' /\ TxExcludesLock' /\ LockInv'
    BY DEF DropTimeSource, Inv, TypeOK, QueueTypes, ControlTypes, ControlInv, ProcessInv,
       LockInv, TxExcludesLock, HasNbr
  <2>2. ProcessInv'
    BY DEF DropTimeSource, Inv, TypeOK, QueueTypes, ControlTypes, ControlInv, ProcessInv, HasNbr
  <2>3. RemovalInv' /\ SlotInv'
    BY DEF DropTimeSource, Inv, TypeOK, QueueTypes, ControlTypes, ControlInv, ProcessInv,
       LockInv, RemovalInv, SlotInv, Removing, HasNbr
  <2> QED
    BY <2>1, <2>2, <2>3 DEF ControlInv
<1> QED
  BY <1>1, <1>2, <1>3 DEF Inv, TypeOK

-----------------------------------------------------------------------------
(* The actions of the slot operation *)

LEMMA SlotTxStartStep ==
  ASSUME NEW l \in Links, Inv, SlotTxStart(l)
  PROVE  Inv'
<1>1. QueueTypes' /\ BackoffFits'
  BY QuietQueues DEF SlotTxStart
<1>2. PacketTypes'
  BY QuietPackets DEF SlotTxStart
<1>3. ControlTypes' /\ ControlInv'
  <2>1. PICK n \in Targets(l) :
          cur' = [p |-> PacketForNbr(n, l), n |-> n, l |-> l] /\ slot' = "tx"
    BY DEF SlotTxStart
  <2>2. n \in Nbrs /\ PacketForNbr(n, l) # NoBlock
    BY <2>1, TargetHasPacket DEF Inv
  <2>3. ~locked /\ n \in nbrs /\ queue[n] # <<>> /\ PacketForNbr(n, l) \in Blocks
    BY <2>2, PacketIsHead DEF Inv
  <2>4. /\ UNCHANGED <<nbrVars, timeSource, pktVars, dequeued, lockVars, procVars>>
        /\ ~lockRequested
    BY DEF SlotTxStart, SlotMayStart
  <2>5. cur'.p = PacketForNbr(n, l) /\ cur'.n = n /\ cur'.l = l
    BY <2>1
  <2>6. ControlTypes'
    BY <2>1, <2>2, <2>3, <2>4 DEF Inv, TypeOK, ControlTypes
  <2>7. TxExcludesLock' /\ LockInv' /\ ProcessInv' /\ RemovalInv'
    BY <2>3, <2>4 DEF Inv, ControlInv, TxExcludesLock, LockInv, ProcessInv, HasNbr,
       RemovalInv, Removing
  <2>8. SlotInv'
    BY <2>3, <2>4, <2>5 DEF Inv, ControlInv, SlotInv, RemovalInv, Removing
  <2> QED
    BY <2>6, <2>7, <2>8 DEF ControlInv
<1> QED
  BY <1>1, <1>2, <1>3 DEF Inv, TypeOK

LEMMA SlotRxStartStep ==
  ASSUME NEW l \in Links, Inv, SlotRxStart(l)
  PROVE  Inv'
<1>1. QueueTypes' /\ BackoffFits'
  BY QuietQueues DEF SlotRxStart
<1>2. PacketTypes'
  BY QuietPackets DEF SlotRxStart
<1>3. /\ slot' = "rx" /\ cur' = [p |-> NoBlock, n |-> NoNbr, l |-> l]
      /\ UNCHANGED <<queue, dequeued, locked, lockRequested, ppc, goal, pn, pk, todo,
                   leaving>>
  BY DEF SlotRxStart
<1>4. ControlTypes'
  BY <1>3 DEF Inv, TypeOK, ControlTypes
<1>5. TxExcludesLock' /\ LockInv' /\ SlotInv'
  BY <1>3 DEF Inv, ControlInv, TxExcludesLock, LockInv, SlotInv
<1>6. ProcessInv' /\ RemovalInv'
  BY <1>3 DEF Inv, ControlInv, ProcessInv, HasNbr, RemovalInv, Removing
<1> QED
  BY <1>1, <1>2, <1>4, <1>5, <1>6 DEF Inv, TypeOK, ControlInv

LEMMA SlotPassesStep ==
  ASSUME NEW l \in Links, Inv, SlotPasses(l)
  PROVE  Inv'
<1>1. QueueTypes' /\ BackoffFits'
  <2>1. /\ window' \in [Nbrs -> Nat]
        /\ \A n \in Nbrs : window'[n] <= window[n]
    BY WindowsShrink DEF SlotPasses, Inv, TypeOK, QueueTypes
  <2>2. UNCHANGED <<nbrs, queue, exponent, timeSource>>
    BY DEF SlotPasses
  <2>3. ASSUME NEW n \in nbrs, window'[n] # 0
        PROVE  n # Broadcast /\ window'[n] <= 2^exponent[n]
    <3>1. n \in Nbrs /\ exponent[n] \in Nat
      BY DEF Inv, TypeOK, QueueTypes
    <3>2. 2^exponent[n] \in Nat
      BY <3>1, PowerOfTwo
    <3>3. window[n] # 0 /\ window[n] \in Nat /\ window'[n] <= window[n]
      BY <2>1, <2>3, <3>1 DEF Inv, TypeOK, QueueTypes
    <3> QED
      BY <2>1, <3>1, <3>2, <3>3 DEF Inv, BackoffFits
  <2> QED
    BY <2>1, <2>2, <2>3 DEF Inv, TypeOK, QueueTypes, BackoffFits
<1>2. PacketTypes'
  BY QuietPackets DEF SlotPasses
<1>3. ControlTypes' /\ ControlInv'
  <2>1. ControlTypes' /\ TxExcludesLock' /\ LockInv'
    BY DEF SlotPasses, Inv, TypeOK, QueueTypes, ControlTypes, ControlInv, ProcessInv,
       LockInv, TxExcludesLock, HasNbr
  <2>2. ProcessInv'
    BY DEF SlotPasses, Inv, TypeOK, QueueTypes, ControlTypes, ControlInv, ProcessInv, HasNbr
  <2>3. RemovalInv' /\ SlotInv'
    BY DEF SlotPasses, Inv, TypeOK, QueueTypes, ControlTypes, ControlInv, ProcessInv,
       LockInv, RemovalInv, SlotInv, Removing, HasNbr
  <2> QED
    BY <2>1, <2>2, <2>3 DEF ControlInv
<1> QED
  BY <1>1, <1>2, <1>3 DEF Inv, TypeOK

LEMMA SlotRxEndStep ==
  ASSUME Inv, SlotRxEnd
  PROVE  Inv'
<1>1. QueueTypes' /\ BackoffFits'
  <2>1. /\ window' \in [Nbrs -> Nat]
        /\ \A n \in Nbrs : window'[n] <= window[n]
    BY WindowsShrink DEF SlotRxEnd, Inv, TypeOK, QueueTypes
  <2>2. UNCHANGED <<nbrs, queue, exponent, timeSource>>
    BY DEF SlotRxEnd
  <2>3. ASSUME NEW n \in nbrs, window'[n] # 0
        PROVE  n # Broadcast /\ window'[n] <= 2^exponent[n]
    <3>1. n \in Nbrs /\ exponent[n] \in Nat
      BY DEF Inv, TypeOK, QueueTypes
    <3>2. 2^exponent[n] \in Nat
      BY <3>1, PowerOfTwo
    <3>3. window[n] # 0 /\ window[n] \in Nat /\ window'[n] <= window[n]
      BY <2>1, <2>3, <3>1 DEF Inv, TypeOK, QueueTypes
    <3> QED
      BY <2>1, <3>1, <3>2, <3>3 DEF Inv, BackoffFits
  <2> QED
    BY <2>1, <2>2, <2>3 DEF Inv, TypeOK, QueueTypes, BackoffFits
<1>2. PacketTypes'
  BY QuietPackets DEF SlotRxEnd
<1>3. ControlTypes' /\ ControlInv'
  <2>1. ControlTypes' /\ TxExcludesLock' /\ LockInv'
    BY DEF SlotRxEnd, Inv, TypeOK, QueueTypes, ControlTypes, ControlInv, ProcessInv,
       LockInv, TxExcludesLock, HasNbr
  <2>2. ProcessInv'
    BY DEF SlotRxEnd, Inv, TypeOK, QueueTypes, ControlTypes, ControlInv, ProcessInv, HasNbr
  <2>3. RemovalInv' /\ SlotInv'
    BY DEF SlotRxEnd, Inv, TypeOK, QueueTypes, ControlTypes, ControlInv, ProcessInv,
       LockInv, RemovalInv, SlotInv, Removing, HasNbr
  <2> QED
    BY <2>1, <2>2, <2>3 DEF ControlInv
<1> QED
  BY <1>1, <1>2, <1>3 DEF Inv, TypeOK

LEMMA SlotTxEndStep ==
  ASSUME NEW ok \in BOOLEAN, Inv, SlotTxEnd(ok)
  PROVE  Inv'
<1> DEFINE p == cur.p
           n == cur.n
           l == cur.l
           leaves == ok \/ Exhausted(p)
           rest == IF leaves /\ queue[n] # <<>> THEN Tail(queue[n]) ELSE queue[n]
           w(b) == [window EXCEPT ![n] = b.w]
<1>1. n \in nbrs /\ n \in Nbrs /\ l \in Links /\ p \in Blocks
  BY DEF SlotTxEnd, Inv, TypeOK, QueueTypes, ControlInv, SlotInv
<1>2. rest \in Seq(Blocks) /\ Len(rest) <= QueueCapacity
  BY <1>1 DEF Inv, TypeOK, QueueTypes
<1>3. QueueTypes' /\ BackoffFits'
  <2>1. PICK b \in BackoffStates(n, l, ok, rest) :
          /\ exponent' = [exponent EXCEPT ![n] = b.e]
          /\ window' = WindowsAfter(l, w(b))
    BY DEF SlotTxEnd
  <2>2. UNCHANGED <<nbrs, timeSource>> /\ queue' = [queue EXCEPT ![n] = rest]
    BY DEF SlotTxEnd
  <2>3. /\ b.e \in MinBE .. MaxBE /\ b.w \in Nat
        /\ b.w # 0 => n # Broadcast /\ b.w <= 2^b.e
    <3>1. TypeOK /\ BackoffFits
      BY DEF Inv
    <3> QED
      BY <1>1, <2>1, <3>1, BackoffStatesFit
  <2>4. w(b) \in [Nbrs -> Nat]
    BY <2>3 DEF Inv, TypeOK, QueueTypes
  <2>5. window' \in [Nbrs -> Nat] /\ \A m \in Nbrs : window'[m] <= w(b)[m]
    BY <2>1, <2>4, WindowsShrink
  <2>6. QueueTypes'
    BY <1>1, <1>2, <2>1, <2>2, <2>3, <2>5 DEF Inv, TypeOK, QueueTypes
  <2>7. ASSUME NEW m \in nbrs, window'[m] # 0
        PROVE  m # Broadcast /\ window'[m] <= 2^exponent'[m]
    <3>1. m \in Nbrs /\ w(b)[m] \in Nat /\ w(b)[m] # 0 /\ window'[m] <= w(b)[m]
          /\ window'[m] \in Nat
      <4>1. m \in Nbrs
        BY <2>7 DEF Inv, TypeOK, QueueTypes
      <4> QED
        BY <2>4, <2>5, <2>7, <4>1
    <3>2. exponent'[m] \in Nat /\ 2^exponent'[m] \in Nat
      <4>1. exponent'[m] \in Nat
        BY <2>6, <3>1 DEF QueueTypes
      <4> QED
        BY <4>1, PowerOfTwo
    <3>3. CASE m = n
      <4>1. w(b)[m] = b.w /\ exponent'[m] = b.e
        BY <2>1, <3>1, <3>3 DEF Inv, TypeOK, QueueTypes
      <4> QED
        BY <2>3, <3>1, <3>2, <3>3, <4>1
    <3>4. CASE m # n
      <4>1. w(b)[m] = window[m] /\ exponent'[m] = exponent[m]
        BY <2>1, <3>1, <3>4 DEF Inv, TypeOK, QueueTypes
      <4> QED
        BY <3>1, <3>2, <4>1 DEF Inv, BackoffFits
    <3> QED
      BY <3>3, <3>4
  <2> QED
    BY <2>2, <2>6, <2>7 DEF BackoffFits
<1>4. PacketTypes'
  <2>1. /\ dequeued' \in Seq(Blocks) /\ Len(dequeued') <= DequeuedCapacity
    BY <1>1 DEF SlotTxEnd, Inv, TypeOK, PacketTypes
  <2>2. pkt' \in [Blocks -> [tx : 0 .. MaxTx + 1, cell : Cells]]
    <3>1. pkt' = [pkt EXCEPT ![p].tx = IF @ <= MaxTx THEN @ + 1 ELSE @]
      BY DEF SlotTxEnd
    <3>2. pkt[p] \in [tx : 0 .. MaxTx + 1, cell : Cells]
      BY <1>1 DEF Inv, TypeOK, PacketTypes
    <3>3. (IF pkt[p].tx <= MaxTx THEN pkt[p].tx + 1 ELSE pkt[p].tx) \in 0 .. MaxTx + 1
      BY <3>2
    <3> QED
      BY <1>1, <3>1, <3>2, <3>3 DEF Inv, TypeOK, PacketTypes
  <2> QED
    BY <2>1, <2>2 DEF SlotTxEnd, Inv, TypeOK, PacketTypes
<1>5. ControlTypes' /\ ControlInv'
  <2>1. /\ slot' = "out" /\ cur' = NoCurrent
        /\ UNCHANGED <<nbrs, lockVars, procVars>>
        /\ queue' = [queue EXCEPT ![n] = rest]
    BY DEF SlotTxEnd
  <2>2. pn \in Nbrs /\ queue[pn] = <<>> => queue'[pn] = <<>>
    BY <1>1, <2>1 DEF Inv, TypeOK, QueueTypes
  <2>3. dequeued # <<>> => dequeued' # <<>>
    <3>1. dequeued \in Seq(Blocks) /\ p \in Blocks
      BY <1>1 DEF Inv, TypeOK, PacketTypes
    <3>2. Append(dequeued, p) # <<>>
      BY <3>1
    <3> QED
      BY <3>2 DEF SlotTxEnd
  <2>4. ControlTypes'
    BY <2>1 DEF Inv, TypeOK, ControlTypes
  <2>5. ProcessInv' /\ LockInv' /\ TxExcludesLock' /\ SlotInv'
    BY <2>1, <2>3 DEF Inv, ControlInv, ProcessInv, HasNbr, LockInv, TxExcludesLock,
       SlotInv
  <2>6. RemovalInv'
    BY <2>1, <2>2 DEF Inv, ControlInv, ProcessInv, HasNbr, RemovalInv, Removing
  <2> QED
    BY <2>4, <2>5, <2>6 DEF ControlInv
<1> QED
  BY <1>3, <1>4, <1>5 DEF Inv, TypeOK

-----------------------------------------------------------------------------
(* Theorems *)

LEMMA InitInv == Init => Inv
<1> SUFFICES ASSUME Init PROVE Inv
  OBVIOUS
<1> USE DEF Init
<1>1. QueueTypes
  BY DEF QueueTypes
<1>2. PacketTypes
  BY LinkAssumption DEF PacketTypes
<1>3. ControlTypes
  BY DEF ControlTypes
<1>4. ControlInv
  BY DEF ControlInv, ProcessInv, HasNbr, LockInv, TxExcludesLock, RemovalInv, Removing,
         SlotInv
<1>5. BackoffFits
  BY DEF BackoffFits
<1> QED
  BY <1>1, <1>2, <1>3, <1>4, <1>5 DEF Inv, TypeOK

LEMMA StepInv == Inv /\ [Next]_vars => Inv'
<1> SUFFICES ASSUME Inv, [Next]_vars PROVE Inv'
  OBVIOUS
<1>1. CASE Slot
  BY <1>1, SlotTxStartStep, SlotRxStartStep, SlotPassesStep, SlotRxEndStep, SlotTxEndStep
     DEF Slot
<1>2. CASE Process
  BY <1>2, LockRequestStep, LockTakeStep, AddNbrStep, ReleaseAndFlushStep, SendPacketStep,
     EnqueueStep, SetHeaderLenStep, ReportStep, FreeReportedStep, StartSweepStep,
     SweepStep, SweepDoneStep, FlushOneStep, FreeFlushedStep, FlushDoneStep,
     UpdateTimeSourceStep, SetTimeSourceStep, FreePacketsToStep, LeaveNetworkStep,
     ResetQueuesStep, ResetNbrStep, SweepAfterResetStep, DropTimeSourceStep
     DEF Process
<1>3. CASE UNCHANGED vars
  <2>1. UNCHANGED <<nbrVars, timeSource>> /\ UNCHANGED <<pktVars, dequeued>>
    BY <1>3 DEF vars
  <2>2. ControlTypes' /\ ControlInv'
    BY <1>3 DEF vars, Inv, TypeOK, ControlTypes, ControlInv, ProcessInv, HasNbr, LockInv,
       TxExcludesLock, RemovalInv, Removing, SlotInv
  <2> QED
    BY <2>1, <2>2, QuietQueues, QuietPackets DEF Inv, TypeOK
<1> QED
  BY <1>1, <1>2, <1>3 DEF Next

\* The invariant is inductive.
THEOREM InductiveInvariant == Spec => []Inv
BY InitInv, StepInv, PTL DEF Spec

\* Every variable keeps its type, whatever the interleaving.
THEOREM TypeCorrect == Spec => []TypeOK
<1>1. Inv => TypeOK
  BY DEF Inv
<1> QED
  BY InductiveInvariant, <1>1, PTL

\* No slot transmits while a process holds the lock.
THEOREM LockExcludesTransmission == Spec => []TxExcludesLock
<1>1. Inv => TxExcludesLock
  BY DEF Inv, ControlInv
<1> QED
  BY InductiveInvariant, <1>1, PTL

\* A neighbor outlives the transmissions to it, also when a process flushes its
\* queue without the lock.
THEOREM NeighborOutlivesSlot == Spec => []NeighborKept
<1>1. Inv => NeighborKept
  BY DEF Inv, ControlInv, SlotInv, NeighborKept
<1> QED
  BY InductiveInvariant, <1>1, PTL

\* Backoff windows fit their exponents and spare the broadcast neighbor.
THEOREM WindowsFit == Spec => []BackoffFits
<1>1. Inv => BackoffFits
  BY DEF Inv
<1> QED
  BY InductiveInvariant, <1>1, PTL

\* Without a flush that takes no lock, only empty queues are flushed, those of removed
\* neighbors; so what a slot sends stays at the head of its queue.
HeadInv ==
  /\ goal \notin {"source", "free", "reset"} /\ leaving = "no"
  /\ HeadTransmitted

LEMMA HeadStep ==
  ASSUME ~MayFlush, Inv, HeadInv, [Next]_vars
  PROVE  HeadInv'
<1>1. goal' \notin {"source", "free", "reset"} /\ leaving' = "no"
  BY DEF HeadInv, Inv, ControlInv, ProcessInv, Next, Slot, Process, vars, LockRequest, LockTake, AddNbr, ReleaseAndFlush,
     SendPacket, Enqueue, SetHeaderLen, Report, FreeReported, StartSweep, Sweep, SweepDone,
     FlushOne, FreeFlushed, FlushDone, UpdateTimeSource, SetTimeSource, SlotTxStart,
     SlotRxStart, SlotPasses, SlotRxEnd, SlotTxEnd, FreePacketsTo, LeaveNetwork,
     ResetQueues, ResetNbr, SweepAfterReset, DropTimeSource
<1>2. HeadTransmitted'
  <2>1. CASE UNCHANGED <<nbrs, queue, slot, cur>>
    BY <2>1 DEF HeadInv, HeadTransmitted
  <2>2. ASSUME NEW l \in Links, SlotTxStart(l)
        PROVE  HeadTransmitted'
    <3>1. PICK n \in Targets(l) : cur' = [p |-> PacketForNbr(n, l), n |-> n, l |-> l]
      BY <2>2 DEF SlotTxStart
    <3>2. n \in Nbrs /\ PacketForNbr(n, l) # NoBlock
      BY <3>1, TargetHasPacket DEF Inv
    <3>3. n \in nbrs /\ queue[n] # <<>> /\ PacketForNbr(n, l) = Head(queue[n])
      BY <3>2, PacketIsHead DEF Inv
    <3> QED
      BY <2>2, <3>1, <3>3 DEF SlotTxStart, HeadTransmitted
  <2>3. CASE \/ \E l \in Links : SlotRxStart(l)
             \/ SlotRxEnd \/ \E ok \in BOOLEAN : SlotTxEnd(ok)
    BY <2>3 DEF SlotRxStart, SlotRxEnd, SlotTxEnd, HeadTransmitted
  <2>4. CASE AddNbr
    <3>1. slot # "tx" /\ slot' = slot
      BY <2>4 DEF AddNbr, Inv, ControlInv, LockInv, TxExcludesLock
    <3> QED
      BY <3>1 DEF HeadTransmitted
  <2>5. CASE Enqueue
    <3>1. CASE ~(Len(queue[pn]) < QueueCapacity /\ alloc # Blocks)
      BY <2>1, <2>5, <3>1 DEF Enqueue
    <3>2. CASE Len(queue[pn]) < QueueCapacity /\ alloc # Blocks
      <4>1. PICK b \in Blocks : queue' = [queue EXCEPT ![pn] = Append(@, b)]
        BY <2>5, <3>2 DEF Enqueue
      <4>2. UNCHANGED <<nbrs, slot, cur>>
        BY <2>5 DEF Enqueue
      <4>3. SUFFICES ASSUME slot = "tx"
                     PROVE  queue'[cur.n] # <<>> /\ Head(queue'[cur.n]) = cur.p
        BY <4>2 DEF HeadInv, HeadTransmitted
      <4>4. /\ cur.n \in Nbrs /\ queue[cur.n] \in Seq(Blocks)
            /\ queue[cur.n] # <<>> /\ Head(queue[cur.n]) = cur.p
        BY <4>3 DEF HeadInv, HeadTransmitted, Inv, TypeOK, QueueTypes
      <4>5. /\ Append(queue[cur.n], b) # <<>>
            /\ Head(Append(queue[cur.n], b)) = cur.p
        BY <4>4
      <4> QED
        BY <4>1, <4>4, <4>5 DEF Inv, TypeOK, QueueTypes
    <3> QED
      BY <3>1, <3>2
  <2>6. CASE FlushOne
    <3>1. Removing
      BY <2>6 DEF FlushOne, HeadInv, Inv, TypeOK, ControlTypes, ControlInv, ProcessInv,
         Removing
    <3> QED
      BY <2>6, <3>1 DEF FlushOne, Inv, ControlInv, RemovalInv
  <2>7. CASE FlushDone
    <3>1. slot = "tx" => cur.n # pn
      BY <2>7, <1>1 DEF FlushDone, HeadInv, HeadTransmitted
    <3> QED
      BY <2>7, <3>1 DEF FlushDone, HeadInv, HeadTransmitted
  <2>8. CASE \/ UNCHANGED vars \/ \E l \in Links : SlotPasses(l)
             \/ LockRequest \/ LockTake \/ ReleaseAndFlush
             \/ \E n \in Nbrs : SendPacket(n) \/ Sweep(n)
             \/ SetHeaderLen \/ Report \/ FreeReported \/ StartSweep \/ SweepDone
             \/ FreeFlushed \/ SetTimeSource
             \/ \E n \in Unicast \cup {NoNbr} : UpdateTimeSource(n)
             \/ \E n \in Unicast : FreePacketsTo(n)
             \/ \E n \in Nbrs : ResetNbr(n)
             \/ LeaveNetwork \/ ResetQueues \/ SweepAfterReset \/ DropTimeSource
    BY <2>1, <2>8 DEF vars, SlotPasses, LockRequest, LockTake, ReleaseAndFlush, SendPacket,
       Sweep, SetHeaderLen, Report, FreeReported, StartSweep, SweepDone, FreeFlushed,
       SetTimeSource, UpdateTimeSource, FreePacketsTo, LeaveNetwork, ResetQueues, ResetNbr,
       SweepAfterReset, DropTimeSource
  <2> QED
    BY <2>2, <2>3, <2>4, <2>5, <2>6, <2>7, <2>8 DEF Next, Slot, Process
<1> QED
  BY <1>1, <1>2 DEF HeadInv

\* What a slot removes from a queue at its end is the packet it sent, as long as no
\* queue is flushed without the lock.
THEOREM HeadIsTransmitted == ASSUME ~MayFlush PROVE Spec => []HeadTransmitted
<1>1. Init => HeadInv
  BY DEF Init, HeadInv, HeadTransmitted
<1>2. Inv /\ HeadInv /\ [Next]_vars => HeadInv'
  BY HeadStep
<1>3. HeadInv => HeadTransmitted
  BY DEF HeadInv
<1> QED
  BY InductiveInvariant, <1>1, <1>2, <1>3, PTL DEF Spec
-----------------------------------------------------------------------------
(* Who owns a packet.  Without a flush that takes no lock only the queues  *)
(* of removed neighbors are flushed, which are empty: a packet goes from a queue to the dequeued packets, when  *)
(* its slot ends, and from there back to packet_memb.                      *)

\* A sequence of blocks, a queue or the dequeued packets, holds a block; it holds
\* none twice.
Holds(s, b) == \E i \in 1 .. Len(s) : s[i] = b
Once(s) == \A i, j \in 1 .. Len(s) : s[i] = s[j] => i = j

\* The allocated blocks are those in a queue or among the dequeued packets.
AllocInv ==
  \A b \in Blocks :
    b \in alloc <=> Holds(dequeued, b) \/ \E n \in Nbrs : Holds(queue[n], b)

\* No block is in two places.
DistinctInv ==
  /\ Once(dequeued) /\ \A n \in Nbrs : Once(queue[n])
  /\ \A b \in Blocks, n \in Nbrs : Holds(queue[n], b) =>
       ~Holds(dequeued, b) /\ \A m \in Nbrs \ {n} : ~Holds(queue[m], b)

\* A queue that AddNbr empties is empty; a packet that SlotTxEnd dequeues has room; a
\* queue that the process flushes is empty, so it never holds a flushed packet.
TableInv ==
  /\ \A n \in Nbrs \ nbrs : queue[n] = <<>>
  /\ ppc = "send" => pn \in nbrs
  /\ goal = "send" /\ ppc \in {"lock", "wait", "locked"} => pn \notin nbrs
  /\ slot = "tx" => Len(dequeued) < DequeuedCapacity
  /\ ppc # "flushed"

\* An allocated packet was not yet reported, except the one the process is about to free.
ReportInv ==
  /\ ppc = "reported" => pk = Head(dequeued)
  /\ \A b \in Blocks :
       called[b] = IF b \notin alloc \/ (ppc = "reported" /\ b = pk) THEN 1 ELSE 0

OwnerInv == AllocInv /\ DistinctInv /\ TableInv /\ ReportInv

LEMMA EmptyHolds ==
  Once(<<>>) /\ \A b : ~Holds(<<>>, b)
BY DEF Once, Holds

LEMMA AppendHolds ==
  ASSUME NEW s \in Seq(Blocks), NEW e \in Blocks
  PROVE  /\ \A b : Holds(Append(s, e), b) <=> Holds(s, b) \/ b = e
         /\ Once(s) /\ ~Holds(s, e) => Once(Append(s, e))
<1> DEFINE t == Append(s, e)
<1>1. /\ Len(s) \in Nat /\ Len(t) = Len(s) + 1
      /\ \A i \in 1 .. Len(s) : t[i] = s[i]
      /\ t[Len(s) + 1] = e
  OBVIOUS
<1> HIDE DEF t
<1>2. ASSUME NEW b, Holds(t, b) PROVE Holds(s, b) \/ b = e
  <2>1. PICK i \in 1 .. Len(t) : t[i] = b
    BY <1>2 DEF Holds
  <2>2. i \in 1 .. Len(s) \/ i = Len(s) + 1
    BY <1>1
  <2> QED
    BY <1>1, <2>1, <2>2 DEF Holds
<1>3. ASSUME NEW b, Holds(s, b) \/ b = e PROVE Holds(t, b)
  <2>1. CASE b = e
    <3>1. Len(s) + 1 \in 1 .. Len(t) /\ t[Len(s) + 1] = b
      BY <1>1, <2>1
    <3> QED
      BY <3>1 DEF Holds
  <2>2. CASE Holds(s, b)
    <3>1. PICK i \in 1 .. Len(s) : s[i] = b
      BY <2>2 DEF Holds
    <3>2. i \in 1 .. Len(t) /\ t[i] = b
      BY <1>1, <3>1
    <3> QED
      BY <3>2 DEF Holds
  <2> QED
    BY <1>3, <2>1, <2>2
<1>4. ASSUME Once(s), ~Holds(s, e) PROVE Once(t)
  <2>1. \A i \in 1 .. Len(s) : s[i] # e
    BY <1>4 DEF Holds
  <2>2. \A i, j \in 1 .. Len(s) : s[i] = s[j] => i = j
    BY <1>4 DEF Once
  <2> QED
    BY <1>1, <2>1, <2>2 DEF Once
<1> QED
  BY <1>2, <1>3, <1>4 DEF t

LEMMA TailHolds ==
  ASSUME NEW s \in Seq(Blocks), s # <<>>, Once(s)
  PROVE  /\ Head(s) \in Blocks /\ Holds(s, Head(s))
         /\ \A b : Holds(Tail(s), b) <=> Holds(s, b) /\ b # Head(s)
         /\ Once(Tail(s))
<1> DEFINE t == Tail(s)
<1>1. /\ Len(s) \in Nat \ {0} /\ Len(t) = Len(s) - 1
      /\ \A i \in 1 .. Len(t) : t[i] = s[i + 1]
      /\ Head(s) = s[1] /\ Head(s) \in Blocks
  OBVIOUS
<1> HIDE DEF t
<1>2. Holds(s, Head(s))
  BY <1>1 DEF Holds
<1>3. ASSUME NEW b, Holds(t, b) PROVE Holds(s, b) /\ b # Head(s)
  <2>1. PICK i \in 1 .. Len(t) : t[i] = b
    BY <1>3 DEF Holds
  <2>2. i + 1 \in 1 .. Len(s) /\ i + 1 # 1 /\ s[i + 1] = b /\ 1 \in 1 .. Len(s)
    BY <1>1, <2>1
  <2> QED
    BY <1>1, <2>2 DEF Holds, Once
<1>4. ASSUME NEW b, Holds(s, b), b # Head(s) PROVE Holds(t, b)
  <2>1. PICK i \in 1 .. Len(s) : s[i] = b
    BY <1>4 DEF Holds
  <2>2. i # 1 /\ i - 1 \in 1 .. Len(t) /\ t[i - 1] = b
    BY <1>1, <1>4, <2>1
  <2> QED
    BY <2>2 DEF Holds
<1>5. Once(t)
  <2>1. ASSUME NEW i \in 1 .. Len(t), NEW j \in 1 .. Len(t), t[i] = t[j] PROVE i = j
    <3>1. i + 1 \in 1 .. Len(s) /\ j + 1 \in 1 .. Len(s) /\ s[i + 1] = s[j + 1]
      BY <1>1, <2>1
    <3>2. i + 1 = j + 1
      BY <3>1 DEF Once
    <3> QED
      BY <3>2
  <2> QED
    BY <2>1 DEF Once
<1> QED
  BY <1>1, <1>2, <1>3, <1>4, <1>5 DEF t

LEMMA QuietBlocks ==
  ASSUME OwnerInv, UNCHANGED <<queue, alloc, dequeued>>
  PROVE  AllocInv' /\ DistinctInv'
BY DEF OwnerInv, AllocInv, DistinctInv

LEMMA OwnerAddNbr ==
  ASSUME Inv, HeadInv, OwnerInv, AddNbr
  PROVE  OwnerInv'
<1>1. pn \in Nbrs /\ pn \notin nbrs /\ goal = "send"
  BY DEF AddNbr, Inv, TypeOK, ControlTypes, ControlInv, ProcessInv, HasNbr, HeadInv, OwnerInv, TableInv
<1>2. queue' = queue
  BY <1>1 DEF AddNbr, OwnerInv, TableInv, Inv, TypeOK, QueueTypes
<1>3. AllocInv' /\ DistinctInv'
  BY <1>2, QuietBlocks DEF AddNbr
<1>4. TableInv'
  BY <1>1, <1>2 DEF AddNbr, OwnerInv, TableInv, Inv, TypeOK, QueueTypes
<1>5. ReportInv'
  BY <1>1 DEF AddNbr, OwnerInv, ReportInv
<1> QED
  BY <1>3, <1>4, <1>5 DEF OwnerInv

LEMMA OwnerEnqueue ==
  ASSUME Inv, HeadInv, OwnerInv, Enqueue
  PROVE  OwnerInv'
<1>1. CASE ~(Len(queue[pn]) < QueueCapacity /\ alloc # Blocks)
  <2>1. UNCHANGED <<queue, alloc, dequeued, nbrs, slot, called>> /\ ppc = "send" /\ ppc' = "idle"
    BY <1>1 DEF Enqueue
  <2>2. AllocInv' /\ DistinctInv'
    BY <2>1, QuietBlocks
  <2> QED
    BY <2>1, <2>2 DEF OwnerInv, TableInv, ReportInv
<1>2. CASE Len(queue[pn]) < QueueCapacity /\ alloc # Blocks
  <2>1. PICK b \in Blocks \ alloc :
          /\ alloc' = alloc \cup {b}
          /\ called' = [called EXCEPT ![b] = 0]
          /\ queue' = [queue EXCEPT ![pn] = Append(@, b)]
    BY <1>2 DEF Enqueue
  <2>2. UNCHANGED <<nbrs, dequeued, slot, pn, goal>> /\ ppc = "send" /\ ppc' = "header"
    BY <1>2 DEF Enqueue
  <2>3. pn \in Nbrs /\ pn \in nbrs
    BY <2>2 DEF Inv, ControlInv, ProcessInv, HasNbr, OwnerInv, TableInv
  <2>4. queue \in [Nbrs -> Seq(Blocks)] /\ called \in [Blocks -> 0 .. 2]
    BY DEF Inv, TypeOK, QueueTypes, PacketTypes
  <2>5. ~Holds(dequeued, b) /\ \A n \in Nbrs : ~Holds(queue[n], b)
    BY DEF OwnerInv, AllocInv
  <2>6. /\ queue'[pn] = Append(queue[pn], b)
        /\ \A n \in Nbrs \ {pn} : queue'[n] = queue[n]
    BY <2>1, <2>3, <2>4
  <2>7. /\ \A a : Holds(queue'[pn], a) <=> Holds(queue[pn], a) \/ a = b
        /\ Once(queue'[pn])
    <3>1. queue[pn] \in Seq(Blocks) /\ Once(queue[pn]) /\ ~Holds(queue[pn], b)
      BY <2>3, <2>4, <2>5 DEF OwnerInv, DistinctInv
    <3> QED
      BY <2>6, <3>1, AppendHolds
  <2>8. AllocInv'
    BY <2>1, <2>2, <2>3, <2>6, <2>7 DEF OwnerInv, AllocInv
  <2>9. DistinctInv'
    BY <2>2, <2>3, <2>5, <2>6, <2>7 DEF OwnerInv, DistinctInv
  <2>10. TableInv'
    BY <2>2, <2>3, <2>6 DEF OwnerInv, TableInv
  <2>11. ReportInv'
    BY <2>1, <2>2, <2>4 DEF OwnerInv, ReportInv
  <2> QED
    BY <2>8, <2>9, <2>10, <2>11 DEF OwnerInv
<1> QED
  BY <1>1, <1>2

LEMMA OwnerReport ==
  ASSUME Inv, HeadInv, OwnerInv, Report
  PROVE  OwnerInv'
<1>1. AllocInv' /\ DistinctInv'
  BY QuietBlocks DEF Report
<1>2. TableInv'
  BY DEF Report, OwnerInv, TableInv
<1>3. ReportInv'
  <2>1. Head(dequeued) \in alloc
    <3>1. dequeued \in Seq(Blocks) /\ dequeued # <<>> /\ Once(dequeued)
      BY DEF Report, Inv, TypeOK, PacketTypes, OwnerInv, DistinctInv
    <3>2. Head(dequeued) \in Blocks /\ Holds(dequeued, Head(dequeued))
      BY <3>1, TailHolds
    <3> QED
      BY <3>2 DEF OwnerInv, AllocInv
  <2>2. ppc # "reported" /\ ppc' = "reported" /\ pk' = Head(dequeued)
    BY DEF Report
  <2>3. called \in [Blocks -> 0 .. 2] /\ alloc \subseteq Blocks
    BY DEF Inv, TypeOK, PacketTypes
  <2>4. called[Head(dequeued)] = 0
    BY <2>1, <2>2, <2>3 DEF OwnerInv, ReportInv
  <2>5. called' = [called EXCEPT ![Head(dequeued)] = 1]
    BY <2>4 DEF Report, CallSent
  <2> QED
    BY <2>1, <2>2, <2>3, <2>5 DEF Report, OwnerInv, ReportInv
<1> QED
  BY <1>1, <1>2, <1>3 DEF OwnerInv

LEMMA OwnerFreeReported ==
  ASSUME Inv, HeadInv, OwnerInv, FreeReported
  PROVE  OwnerInv'
<1>1. /\ ppc = "reported" /\ ppc' = "more" /\ UNCHANGED <<nbrs, queue, called, slot, goal, pn>>
      /\ alloc' = alloc \ {pk} /\ dequeued' = Tail(dequeued)
  BY DEF FreeReported
<1>2. dequeued \in Seq(Blocks) /\ dequeued # <<>> /\ Once(dequeued) /\ pk = Head(dequeued)
  BY <1>1 DEF Inv, TypeOK, PacketTypes, ControlInv, ProcessInv, OwnerInv, DistinctInv, ReportInv
<1>3. /\ pk \in Blocks /\ Holds(dequeued, pk) /\ Once(dequeued')
      /\ \A b : Holds(dequeued', b) <=> Holds(dequeued, b) /\ b # pk
  BY <1>1, <1>2, TailHolds
<1>4. Len(dequeued') < Len(dequeued) /\ Len(dequeued) \in Nat /\ Len(dequeued') \in Nat
  BY <1>1, <1>2
<1>5. \A n \in Nbrs : ~Holds(queue[n], pk)
  BY <1>3 DEF OwnerInv, DistinctInv
<1>6. AllocInv'
  BY <1>1, <1>3, <1>5 DEF OwnerInv, AllocInv
<1>7. DistinctInv'
  BY <1>1, <1>3 DEF OwnerInv, DistinctInv
<1>8. TableInv'
  BY <1>1, <1>4 DEF OwnerInv, TableInv
<1>9. ReportInv'
  BY <1>1 DEF OwnerInv, ReportInv
<1> QED
  BY <1>6, <1>7, <1>8, <1>9 DEF OwnerInv

LEMMA OwnerFlush ==
  ASSUME Inv, HeadInv, OwnerInv, FlushOne \/ FreeFlushed \/ FlushDone
  PROVE  OwnerInv'
<1>1. ppc # "flushed"
  BY DEF OwnerInv, TableInv
<1>2. ASSUME ppc = "flush" PROVE pn \in Nbrs /\ queue[pn] = <<>>
  BY <1>2 DEF Inv, TypeOK, ControlTypes, ControlInv, ProcessInv, HasNbr, RemovalInv, Removing, HeadInv
<1>3. FlushDone
  BY <1>1, <1>2 DEF FlushOne, FreeFlushed
<1>4. AllocInv' /\ DistinctInv'
  BY <1>3, QuietBlocks DEF FlushDone
<1>5. TableInv'
  BY <1>2, <1>3 DEF FlushDone, OwnerInv, TableInv
<1>6. ReportInv'
  BY <1>3 DEF FlushDone, OwnerInv, ReportInv
<1> QED
  BY <1>4, <1>5, <1>6 DEF OwnerInv

LEMMA OwnerSlotTxEnd ==
  ASSUME NEW ok \in BOOLEAN, Inv, HeadInv, OwnerInv, SlotTxEnd(ok)
  PROVE  OwnerInv'
<1> DEFINE p == cur.p
           n == cur.n
           leaves == ok \/ Exhausted(p)
<1>1. /\ slot = "tx" /\ slot' = "out"
      /\ UNCHANGED <<nbrs, alloc, called, ppc, goal, pn, pk>>
  BY DEF SlotTxEnd
<1>2. /\ n \in Nbrs /\ n \in nbrs /\ queue[n] # <<>> /\ Head(queue[n]) = p
      /\ Len(dequeued) < DequeuedCapacity
  BY <1>1 DEF HeadInv, HeadTransmitted, Inv, TypeOK, QueueTypes, OwnerInv, TableInv
<1>3. queue \in [Nbrs -> Seq(Blocks)] /\ dequeued \in Seq(Blocks)
  BY DEF Inv, TypeOK, QueueTypes, PacketTypes
<1>4. CASE ~leaves
  <2>1. queue' = queue /\ dequeued' = dequeued
    BY <1>2, <1>3, <1>4 DEF SlotTxEnd
  <2>2. AllocInv' /\ DistinctInv'
    BY <1>1, <2>1, QuietBlocks
  <2> QED
    BY <1>1, <2>1, <2>2 DEF OwnerInv, TableInv, ReportInv
<1>5. CASE leaves
  <2>1. queue' = [queue EXCEPT ![n] = Tail(queue[n])] /\ dequeued' = Append(dequeued, p)
    BY <1>2, <1>5 DEF SlotTxEnd
  <2>2. /\ queue'[n] = Tail(queue[n])
        /\ \A m \in Nbrs \ {n} : queue'[m] = queue[m]
    BY <1>2, <1>3, <2>1
  <2>3. /\ p \in Blocks /\ Holds(queue[n], p) /\ Once(queue'[n])
        /\ \A b : Holds(queue'[n], b) <=> Holds(queue[n], b) /\ b # p
    <3>1. queue[n] \in Seq(Blocks) /\ Once(queue[n])
      BY <1>2, <1>3 DEF OwnerInv, DistinctInv
    <3> QED
      BY <1>2, <2>2, <3>1, TailHolds
  <2>4. ~Holds(dequeued, p) /\ \A m \in Nbrs \ {n} : ~Holds(queue[m], p)
    BY <1>2, <2>3 DEF OwnerInv, DistinctInv
  <2>5. /\ Once(dequeued')
        /\ \A b : Holds(dequeued', b) <=> Holds(dequeued, b) \/ b = p
    <3>1. Once(dequeued)
      BY DEF OwnerInv, DistinctInv
    <3> QED
      BY <1>3, <2>1, <2>3, <2>4, <3>1, AppendHolds
  <2>6. ASSUME NEW b \in Blocks
        PROVE  \/ Holds(dequeued, b) \/ \E m \in Nbrs : Holds(queue[m], b)
               <=> Holds(dequeued', b) \/ \E m \in Nbrs : Holds(queue'[m], b)
    BY <1>2, <2>2, <2>3, <2>5
  <2>7. AllocInv'
    BY <1>1, <2>6 DEF OwnerInv, AllocInv
  <2>8. DistinctInv'
    BY <1>2, <2>2, <2>3, <2>4, <2>5 DEF OwnerInv, DistinctInv
  <2>9. TableInv'
    BY <1>1, <1>2, <2>2 DEF OwnerInv, TableInv
  <2>10. ReportInv'
    <3>1. dequeued # <<>> => Head(dequeued') = Head(dequeued)
      BY <1>3, <2>1, <2>3
    <3>2. ppc = "reported" => dequeued # <<>>
      BY DEF Inv, ControlInv, ProcessInv
    <3> QED
      BY <1>1, <3>1, <3>2 DEF OwnerInv, ReportInv
  <2> QED
    BY <2>7, <2>8, <2>9, <2>10 DEF OwnerInv
<1> QED
  BY <1>4, <1>5

LEMMA OwnerQuiet ==
  ASSUME Inv, HeadInv, OwnerInv,
         \/ UNCHANGED vars
         \/ \E l \in Links : SlotTxStart(l) \/ SlotRxStart(l) \/ SlotPasses(l)
         \/ SlotRxEnd \/ LockRequest \/ LockTake \/ ReleaseAndFlush
         \/ \E n \in Nbrs : SendPacket(n) \/ Sweep(n)
         \/ SetHeaderLen \/ StartSweep \/ SweepDone \/ SetTimeSource
         \/ \E n \in Unicast \cup {NoNbr} : UpdateTimeSource(n)
         \/ \E n \in Unicast : FreePacketsTo(n)
         \/ \E n \in Nbrs : ResetNbr(n)
         \/ LeaveNetwork \/ ResetQueues \/ SweepAfterReset \/ DropTimeSource
  PROVE  OwnerInv'
<1> USE DEF vars, SlotTxStart, SlotRxStart, SlotPasses, SlotRxEnd, LockRequest, LockTake,
        ReleaseAndFlush, SendPacket, Sweep, SetHeaderLen, StartSweep, SweepDone,
        SetTimeSource, UpdateTimeSource, FreePacketsTo, LeaveNetwork, ResetQueues,
        ResetNbr, SweepAfterReset, DropTimeSource
<1>1. UNCHANGED <<queue, alloc, dequeued, nbrs, called>>
  OBVIOUS
<1>2. AllocInv' /\ DistinctInv'
  BY <1>1, QuietBlocks
<1>3. TableInv'
  BY <1>1 DEF OwnerInv, TableInv, HeadInv
<1>4. ReportInv'
  BY <1>1 DEF OwnerInv, ReportInv
<1> QED
  BY <1>2, <1>3, <1>4 DEF OwnerInv

LEMMA OwnerInit == Init => OwnerInv
<1> SUFFICES ASSUME Init PROVE OwnerInv
  OBVIOUS
<1>1. AllocInv /\ DistinctInv
  BY EmptyHolds DEF Init, AllocInv, DistinctInv
<1>2. TableInv /\ ReportInv
  BY DEF Init, TableInv, ReportInv
<1> QED
  BY <1>1, <1>2 DEF OwnerInv

LEMMA OwnerStep ==
  ASSUME Inv, HeadInv, OwnerInv, [Next]_vars
  PROVE  OwnerInv'
BY OwnerAddNbr, OwnerEnqueue, OwnerReport, OwnerFreeReported, OwnerFlush, OwnerSlotTxEnd,
   OwnerQuiet DEF Next, Slot, Process

\* The ownership of packets is an invariant as long as no queue is flushed without the
\* lock.
THEOREM OwnersKnown == ASSUME ~MayFlush PROVE Spec => []OwnerInv
<1>1. Init => HeadInv /\ OwnerInv
  BY OwnerInit DEF Init, HeadInv, HeadTransmitted
<1>2. Inv /\ HeadInv /\ OwnerInv /\ [Next]_vars => HeadInv' /\ OwnerInv'
  BY HeadStep, OwnerStep
<1> QED
  BY InductiveInvariant, <1>1, <1>2, PTL DEF Spec

\* A block in no queue and not dequeued has no place; in one, it has one.
LEMMA PlacesCounted ==
  ASSUME Inv, OwnerInv, NEW b \in Blocks
  PROVE  Cardinality(Places(b)) = IF b \in alloc THEN 1 ELSE 0
<1> DEFINE Q == {at \in Nbrs \X (1 .. QueueCapacity) :
                   at[2] <= Len(queue[at[1]]) /\ queue[at[1]][at[2]] = b}
           D == {<<"dequeued", i>> : i \in {i \in 1 .. Len(dequeued) : dequeued[i] = b}}
<1>1. Places(b) = Q \cup D
  BY DEF Places, OwnerInv, TableInv
<1>2. /\ queue \in [Nbrs -> Seq(Blocks)] /\ dequeued \in Seq(Blocks)
      /\ \A n \in Nbrs : Len(queue[n]) \in Nat /\ Len(queue[n]) <= QueueCapacity
  BY DEF Inv, TypeOK, QueueTypes, PacketTypes
<1>3. ASSUME NEW at \in Q
      PROVE  /\ at[1] \in Nbrs /\ at[2] \in 1 .. Len(queue[at[1]])
             /\ queue[at[1]][at[2]] = b /\ at = <<at[1], at[2]>>
             /\ Holds(queue[at[1]], b)
  BY <1>2 DEF Holds
<1>4. ASSUME NEW at \in D
      PROVE  /\ Holds(dequeued, b)
             /\ \E i \in 1 .. Len(dequeued) : dequeued[i] = b /\ at = <<"dequeued", i>>
  BY DEF Holds
<1> HIDE DEF Q, D
<1>5. CASE \E n \in Nbrs : Holds(queue[n], b)
  <2>1. PICK n \in Nbrs : Holds(queue[n], b)
    BY <1>5
  <2>2. PICK i \in 1 .. Len(queue[n]) : queue[n][i] = b
    BY <2>1 DEF Holds
  <2>3. /\ ~Holds(dequeued, b) /\ \A m \in Nbrs \ {n} : ~Holds(queue[m], b)
        /\ Once(queue[n]) /\ b \in alloc
    BY <2>1 DEF OwnerInv, AllocInv, DistinctInv
  <2>4. D = {}
    BY <1>4, <2>3
  <2>5. Q = {<<n, i>>}
    <3>1. <<n, i>> \in Q
      <4>1. Len(queue[n]) \in Nat /\ Len(queue[n]) <= QueueCapacity
        BY <1>2
      <4> QED
        BY <2>2, <4>1 DEF Q
    <3>2. ASSUME NEW at \in Q PROVE at = <<n, i>>
      <4>1. at[1] = n
        BY <1>3, <2>3
      <4>2. at[2] = i
        BY <1>3, <2>2, <2>3, <4>1 DEF Once
      <4> QED
        BY <1>3, <4>1, <4>2
    <3> QED
      BY <3>1, <3>2
  <2>6. Places(b) = {<<n, i>>}
    BY <1>1, <2>4, <2>5
  <2> QED
    BY <2>3, <2>6, FS_Singleton
<1>6. CASE ~(\E n \in Nbrs : Holds(queue[n], b)) /\ Holds(dequeued, b)
  <2>1. PICK i \in 1 .. Len(dequeued) : dequeued[i] = b
    BY <1>6 DEF Holds
  <2>2. Q = {}
    BY <1>3, <1>6
  <2>3. D = {<<"dequeued", i>>}
    <3>1. <<"dequeued", i>> \in D
      BY <2>1 DEF D
    <3>2. ASSUME NEW at \in D PROVE at = <<"dequeued", i>>
      <4>1. PICK j \in 1 .. Len(dequeued) : dequeued[j] = b /\ at = <<"dequeued", j>>
        BY <1>4
      <4>2. j = i
        BY <2>1, <4>1 DEF OwnerInv, DistinctInv, Once
      <4> QED
        BY <4>1, <4>2
    <3> QED
      BY <3>1, <3>2
  <2>4. b \in alloc
    BY <1>6 DEF OwnerInv, AllocInv
  <2>5. Places(b) = {<<"dequeued", i>>}
    BY <1>1, <2>2, <2>3
  <2> QED
    BY <2>4, <2>5, FS_Singleton
<1>7. CASE ~(\E n \in Nbrs : Holds(queue[n], b)) /\ ~Holds(dequeued, b)
  <2>1. Q = {} /\ D = {}
    BY <1>3, <1>4, <1>7
  <2>2. b \notin alloc
    BY <1>7 DEF OwnerInv, AllocInv
  <2> QED
    BY <1>1, <2>1, <2>2, FS_EmptySet
<1> QED
  BY <1>5, <1>6, <1>7

\* No packet is lost, queued twice or handed out while something refers to it, as
\* long as no queue is flushed without the lock.
THEOREM EveryPacketOwned == ASSUME ~MayFlush PROVE Spec => []OneOwner
<1>1. Inv /\ OwnerInv => OneOwner
  BY PlacesCounted DEF OneOwner
<1> QED
  BY InductiveInvariant, OwnersKnown, <1>1, PTL

\* The sender of every packet is called back exactly once, as long as no queue is
\* flushed without the lock.
THEOREM CalledBackOnce == ASSUME ~MayFlush PROVE Spec => []CalledOnce
<1>1. OwnerInv => CalledOnce
  BY DEF OwnerInv, ReportInv, CalledOnce
<1> QED
  BY OwnersKnown, <1>1, PTL

\* The block a slot transmits stays allocated, as long as no queue is flushed without the
\* lock: nothing but the three flushes of a new time source, a removed child and a node
\* that leaves frees a packet under its slot.
THEOREM NeverFreedInSlot == ASSUME ~MayFlush PROVE Spec => []NoUseAfterFree
<1>1. Inv /\ HeadTransmitted /\ OwnerInv => NoUseAfterFree
  <2> SUFFICES ASSUME Inv, HeadTransmitted, OwnerInv, slot = "tx"
               PROVE  cur.p \in alloc
    BY DEF NoUseAfterFree
  <2>1. /\ cur.n \in Nbrs /\ queue[cur.n] # <<>> /\ Head(queue[cur.n]) = cur.p
        /\ queue[cur.n] \in Seq(Blocks) /\ Once(queue[cur.n])
    BY DEF HeadTransmitted, Inv, TypeOK, QueueTypes, OwnerInv, DistinctInv
  <2>2. cur.p \in Blocks /\ Holds(queue[cur.n], cur.p)
    BY <2>1, TailHolds
  <2> QED
    BY <2>1, <2>2 DEF OwnerInv, AllocInv
<1> QED
  BY InductiveInvariant, HeadIsTransmitted, OwnersKnown, <1>1, PTL
==============================================================================
