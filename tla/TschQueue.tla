------------------------------ MODULE TschQueue ------------------------------
(***************************************************************************)
(* The transmit side of TSCH: the neighbor queues of tsch-queue.c, the     *)
(* transmit slots of tsch-slot-operation.c that empty them and the         *)
(* processing of sent packets in tsch.c.                                   *)
(*                                                                         *)
(* Two contexts run concurrently.  The slot operation runs in interrupt    *)
(* context and preempts everything; it is a protothread that yields inside *)
(* a slot (before the frame, before the ACK), and processes run while it   *)
(* waits.  So a slot is two atomic steps, its start and its end, and an    *)
(* operation of a process is cut wherever an interrupt can change what it  *)
(* relies on.  Processes do not preempt one another.                       *)
(*                                                                         *)
(* The queues are sequences: RingBufIndex shows that the rings they are    *)
(* built on are FIFO queues under exactly this interleaving.               *)
(***************************************************************************)
EXTENDS Integers, Sequences, FiniteSets

CONSTANTS
  Unicast,          \* the neighbors with an address of their own
  Broadcast,        \* the virtual neighbor n_broadcast
  Blocks,           \* the elements of packet_memb
  Links,            \* the schedule: [addr, cell, tx, rx, shared]
  AnyCell,          \* a packet without timeslot attribute (0xffff)
  Cells,            \* the timeslots that the scheduler may give to a packet;
                    \* the links need not serve all of them
  MaxNbrs,          \* size of the neighbor table
  QueueCapacity,    \* TSCH_QUEUE_NUM_PER_NEIGHBOR - 1
  DequeuedCapacity, \* TSCH_DEQUEUED_ARRAY_SIZE - 1
  MaxTx,            \* max_transmissions of every packet (transmissions is
                    \* counted up to MaxTx + 1)
  MinBE, MaxBE,     \* TSCH_MAC_MIN_BE, TSCH_MAC_MAX_BE
  MayFlush,         \* whether queues are flushed without the lock: the time
                    \* source changes, a child is removed, the node leaves
  NoNbr, NoBlock, NoLink

Nbrs == Unicast \cup {Broadcast}

ASSUME NbrAssumption ==
  Broadcast \notin Unicast /\ NoNbr \notin Nbrs /\ NoBlock \notin Blocks
ASSUME LinkAssumption ==
  /\ \A l \in Links : l.addr \in Nbrs /\ {l.tx, l.rx, l.shared} \subseteq BOOLEAN
  /\ NoLink \notin Links
  /\ AnyCell \in Cells
ASSUME BoundAssumption ==
  /\ MaxNbrs \in Nat /\ QueueCapacity \in Nat /\ DequeuedCapacity \in Nat
  /\ MaxTx \in Nat \ {0} /\ MinBE \in Nat /\ MaxBE \in Nat /\ MinBE <= MaxBE
  /\ MayFlush \in BOOLEAN

VARIABLES
  nbrs,           \* the neighbors in the table tsch_neighbors
  queue,          \* tx_array and tx_ringbuf of each neighbor
  window, exponent, \* backoff_window and backoff_exponent
  timeSource,     \* the neighbor with is_time_source, or NoNbr
  alloc,          \* the allocated blocks of packet_memb
  pkt,            \* transmissions and timeslot attribute of each block
  dequeued,       \* dequeued_array and dequeued_ringbuf
  locked, lockRequested, \* tsch_locked, tsch_lock_requested
  slot, cur,      \* the slot operation: "out", "tx" or "rx"; current_packet,
                  \* current_neighbor and current_link
  ppc, goal, pn, pk, todo, \* the process: where it is, the operation, the
                  \* neighbor and packet at hand, the neighbors left to visit
  leaving,        \* tsch_reset: what is done next, "no" if it does not run
  called          \* history: sent callbacks since the block was allocated

nbrVars == <<nbrs, queue, window, exponent>>
pktVars == <<alloc, pkt, called>>
lockVars == <<locked, lockRequested>>
slotVars == <<slot, cur>>
procVars == <<ppc, goal, pn, pk, todo, leaving>>
vars == <<nbrVars, timeSource, pktVars, dequeued, lockVars, slotVars, procVars>>

NoCurrent == [p |-> NoBlock, n |-> NoNbr, l |-> NoLink]
TxLinks == {l \in Links : l.tx}
TxLinksCount(n) == Cardinality({l \in TxLinks : l.addr = n})

\* The transmit links on which a packet to n may leave: those of n, or the
\* broadcast ones if n has none.
LinksFor(n) ==
  {l \in TxLinks : l.addr = IF TxLinksCount(n) = 0 THEN Broadcast ELSE n}

-----------------------------------------------------------------------------
(* Backoff *)

IncExponentUncapped(e) == e + 1
IncExponent(e) == IF e + 1 < MaxBE THEN e + 1 ELSE MaxBE


\* The backoff states [e, w] in which tsch_queue_packet_sent may leave the
\* neighbor of a transmission over link l, given the queue that remains: a
\* success on a shared link or one that empties the queue resets it; a failure
\* on a shared link draws a window of 0 .. 2^e - 1 slots, plus one for the
\* current slot, which is counted down when it ends.
BackoffStates(n, l, ok, rest) ==
  IF n # Broadcast /\ ok /\ (l.shared \/ rest = <<>>)
    THEN {[e |-> MinBE, w |-> 0]}
  ELSE IF n # Broadcast /\ ~ok /\ l.shared
    THEN LET e == IncExponent(exponent[n]) IN {[e |-> e, w |-> w] : w \in 1 .. 2^e}
  ELSE {[e |-> exponent[n], w |-> window[n]]}

CountsDownOnOwnLink(n, l) == l.addr = n
\* A neighbor counts down on the shared links it may use: its own ones, or
\* the broadcast ones when it has none.
CountsDown(n, l) == l.addr = IF TxLinksCount(n) = 0 THEN Broadcast ELSE n

\* update_link_backoff, as a function of the windows w at the end of a slot.
WindowsAfter(l, w) ==
  IF l.tx /\ l.shared /\ ~locked
  THEN [n \in Nbrs |-> IF n \in nbrs /\ w[n] # 0 /\ CountsDown(n, l)
                       THEN w[n] - 1 ELSE w[n]]
  ELSE w

-----------------------------------------------------------------------------
(* Which packet a slot sends *)

PacketForNbrWhileLocked(n, l) ==
  IF /\ n \in nbrs /\ queue[n] # <<>>
     /\ ~(l.shared /\ window[n] # 0)
     /\ pkt[Head(queue[n])].cell \in {l.cell, AnyCell}
  THEN Head(queue[n]) ELSE NoBlock

\* tsch_queue_get_packet_for_nbr: nothing while the queues are locked, while
\* the neighbor backs off, or if the head of its queue waits for another cell.
PacketForNbr(n, l) ==
  IF /\ ~locked
     /\ n \in nbrs /\ queue[n] # <<>>
     /\ ~(l.shared /\ window[n] # 0)
     /\ pkt[Head(queue[n])].cell \in {l.cell, AnyCell}
  THEN Head(queue[n]) ELSE NoBlock

\* The neighbors a slot of link l may send to: the link's own, or for a
\* broadcast link without a broadcast packet any one that has no link.  The
\* order of the neighbor table is left open.
Targets(l) ==
  IF ~l.tx THEN {}
  ELSE IF PacketForNbr(l.addr, l) # NoBlock THEN {l.addr}
  ELSE IF l.addr # Broadcast THEN {}
  ELSE {n \in Unicast : TxLinksCount(n) = 0 /\ PacketForNbr(n, l) # NoBlock}

-----------------------------------------------------------------------------
(* The slot operation, in interrupt context *)

\* A slot starts only while the node is in a network and no process asks for
\* the lock; once the lock is taken slots start again, but find no packet.
SlotMayStart == slot = "out" /\ ~lockRequested /\ leaving = "no"

SlotTxStartWithoutRoom(l) ==
  /\ SlotMayStart
  /\ \E n \in Targets(l) :
       /\ cur' = [p |-> PacketForNbr(n, l), n |-> n, l |-> l]
       /\ slot' = "tx"
  /\ UNCHANGED <<nbrVars, timeSource, pktVars, dequeued, lockVars, procVars>>

\* The slot transmits only if the dequeued packet will have a place.
SlotTxStart(l) ==
  /\ SlotMayStart
  /\ Len(dequeued) < DequeuedCapacity
  /\ \E n \in Targets(l) :
       /\ cur' = [p |-> PacketForNbr(n, l), n |-> n, l |-> l]
       /\ slot' = "tx"
  /\ UNCHANGED <<nbrVars, timeSource, pktVars, dequeued, lockVars, procVars>>

SlotRxStart(l) ==
  /\ SlotMayStart
  /\ l.rx /\ Targets(l) = {}
  /\ slot' = "rx"
  /\ cur' = [NoCurrent EXCEPT !.l = l]
  /\ UNCHANGED <<nbrVars, timeSource, pktVars, dequeued, lockVars, procVars>>

\* The slot of a link passes without an operation: the lock is requested, the
\* link has nothing to do, the ring of dequeued packets is full, the slot was
\* given to a backup link or its start was missed.
SlotPasses(l) ==
  /\ slot = "out"
  /\ window' = WindowsAfter(l, window)
  /\ UNCHANGED <<nbrs, queue, exponent, timeSource, pktVars, dequeued,
                 lockVars, slotVars, procVars>>

SlotRxEnd ==
  /\ slot = "rx"
  /\ slot' = "out"
  /\ cur' = NoCurrent
  /\ window' = WindowsAfter(cur.l, window)
  /\ UNCHANGED <<nbrs, queue, exponent, timeSource, pktVars, dequeued,
                 lockVars, procVars>>

Exhausted(p) == pkt[p].tx + 1 >= MaxTx

\* The end of a transmit slot: the frame was acknowledged (or broadcast), or
\* not, or could not be sent.  A packet that is through leaves the head of
\* its queue, whatever the head is by now, and goes to the process.
SlotTxEnd(ok) ==
  /\ slot = "tx"
  /\ LET p == cur.p
         n == cur.n
         l == cur.l
         leaves == ok \/ Exhausted(p)
         rest == IF leaves /\ queue[n] # <<>> THEN Tail(queue[n]) ELSE queue[n]
     IN
     /\ pkt' = [pkt EXCEPT ![p].tx = IF @ <= MaxTx THEN @ + 1 ELSE @]
     /\ queue' = [queue EXCEPT ![n] = rest]
     /\ dequeued' = IF leaves /\ Len(dequeued) < DequeuedCapacity
                    THEN Append(dequeued, p) ELSE dequeued
     /\ \E b \in BackoffStates(n, l, ok, rest) :
          /\ exponent' = [exponent EXCEPT ![n] = b.e]
          /\ window' = WindowsAfter(l, [window EXCEPT ![n] = b.w])
  /\ slot' = "out"
  /\ cur' = NoCurrent
  /\ UNCHANGED <<nbrs, timeSource, alloc, called, lockVars, procVars>>

Slot ==
  \/ \E l \in Links : SlotTxStart(l) \/ SlotRxStart(l) \/ SlotPasses(l)
  \/ SlotRxEnd
  \/ \E ok \in BOOLEAN : SlotTxEnd(ok)

-----------------------------------------------------------------------------
(* The lock, in process context.  tsch_get_lock asks for it, waits for the *)
(* end of the current slot and takes it.                                   *)

LockRequest ==
  /\ ppc = "lock"
  /\ lockRequested' = TRUE
  /\ ppc' = "wait"
  /\ UNCHANGED <<nbrVars, timeSource, pktVars, dequeued, locked, slotVars,
                 goal, pn, pk, todo, leaving>>

LockTakeAtOnce ==
  /\ ppc = "wait"
  /\ locked' = TRUE
  /\ lockRequested' = FALSE
  /\ ppc' = "locked"
  /\ UNCHANGED <<nbrVars, timeSource, pktVars, dequeued, slotVars, goal, pn, pk, todo,
                 leaving>>
LockTake ==
  /\ ppc = "wait"
  /\ slot = "out"
  /\ locked' = TRUE
  /\ lockRequested' = FALSE
  /\ ppc' = "locked"
  /\ UNCHANGED <<nbrVars, timeSource, pktVars, dequeued, slotVars, goal, pn, pk, todo,
                 leaving>>

\* tsch_queue_add_nbr with the lock: a table without room yields no neighbor,
\* and the packet is refused or the time source kept.
AddNbr ==
  /\ ppc = "locked" /\ goal # "sweep"
  /\ locked' = FALSE
  /\ IF Cardinality(nbrs) < MaxNbrs
     THEN /\ nbrs' = nbrs \cup {pn}
          /\ queue' = [queue EXCEPT ![pn] = <<>>]
          /\ window' = [window EXCEPT ![pn] = 0]
          /\ exponent' = [exponent EXCEPT ![pn] = MinBE]
          /\ ppc' = goal
     ELSE UNCHANGED nbrVars /\ ppc' = "idle"
  /\ UNCHANGED <<timeSource, pktVars, dequeued, lockRequested, slotVars,
                 goal, pn, pk, todo, leaving>>

\* tsch_queue_remove_nbr takes the lock and gives it back before it flushes.
ReleaseAndFlush ==
  /\ ppc = "locked" /\ goal = "sweep"
  /\ locked' = FALSE
  /\ ppc' = "flush"
  /\ UNCHANGED <<nbrVars, timeSource, pktVars, dequeued, lockRequested,
                 slotVars, goal, pn, pk, todo,
                 leaving>>

-----------------------------------------------------------------------------
(* Sending a packet: send_packet and tsch_queue_add_packet *)

SendPacket(n) ==
  /\ ppc = "idle"
  /\ goal' = "send"
  /\ pn' = n
  /\ ppc' = IF n \in nbrs THEN "send" ELSE "lock"
  /\ UNCHANGED <<nbrVars, timeSource, pktVars, dequeued, lockVars, slotVars, pk,
                 todo, leaving>>

\* The scheduler's callback TSCH_CALLBACK_PACKET_READY gave the packet its
\* cell.  A full queue or an exhausted memb refuses the packet.
Enqueue ==
  /\ ppc = "send"
  /\ IF Len(queue[pn]) < QueueCapacity /\ alloc # Blocks
     THEN \E b \in Blocks \ alloc, c \in Cells :
            /\ alloc' = alloc \cup {b}
            /\ pkt' = [pkt EXCEPT ![b] = [tx |-> 0, cell |-> c]]
            /\ called' = [called EXCEPT ![b] = 0]
            /\ queue' = [queue EXCEPT ![pn] = Append(@, b)]
            /\ pk' = b
            /\ ppc' = "header"
     ELSE ppc' = "idle" /\ UNCHANGED <<pktVars, queue, pk>>
  /\ UNCHANGED <<nbrs, window, exponent, timeSource, dequeued, lockVars,
                 slotVars, goal, pn, todo, leaving>>

\* send_packet sets header_len after the packet was put into its queue.
SetHeaderLen ==
  /\ ppc = "header"
  /\ pk' = NoBlock
  /\ ppc' = "idle"
  /\ UNCHANGED <<nbrVars, timeSource, pktVars, dequeued, lockVars, slotVars,
                 goal, pn, todo, leaving>>

-----------------------------------------------------------------------------
(* Sent packets: tsch_tx_process_pending, then the neighbors left without  *)
(* anything to do are removed: tsch_queue_free_unused_neighbors.           *)

CallSent(p) == called' = [called EXCEPT ![p] = IF @ < 2 THEN @ + 1 ELSE @]


\* The process looks at a dequeued packet and calls its sender back; the packet
\* stays in the ring until its block is free.
Report ==
  /\ ppc \in {"idle", "more"}
  /\ dequeued # <<>>
  /\ pk' = Head(dequeued)
  /\ CallSent(Head(dequeued))
  /\ ppc' = "reported"
  /\ UNCHANGED <<nbrVars, timeSource, alloc, pkt, dequeued, lockVars, slotVars,
                 goal, pn, todo, leaving>>

FreeReportedForgetsGet ==
  /\ ppc = "reported"
  /\ alloc' = alloc \ {pk}
  /\ pk' = NoBlock
  /\ ppc' = "more"
  /\ UNCHANGED <<nbrVars, timeSource, pkt, called, lockVars, slotVars, goal, pn,
                 todo, leaving, dequeued>>
FreeReported ==
  /\ ppc = "reported"
  /\ alloc' = alloc \ {pk}
  /\ dequeued' = Tail(dequeued)
  /\ pk' = NoBlock
  /\ ppc' = "more"
  /\ UNCHANGED <<nbrVars, timeSource, pkt, called, lockVars, slotVars, goal, pn,
                 todo, leaving>>

StartSweep ==
  /\ ppc = "more"
  /\ dequeued = <<>>
  /\ todo' = nbrs
  /\ ppc' = "sweep"
  /\ UNCHANGED <<nbrVars, timeSource, pktVars, dequeued, lockVars, slotVars,
                 goal, pn, pk, leaving>>

UnusedEvenWithPackets(n) ==
  n # Broadcast /\ n # timeSource /\ TxLinksCount(n) = 0
Unused(n) ==
  n # Broadcast /\ n # timeSource /\ TxLinksCount(n) = 0 /\ queue[n] = <<>>

Sweep(n) ==
  /\ ppc = "sweep" /\ n \in todo
  /\ todo' = todo \ {n}
  /\ IF Unused(n) THEN goal' = "sweep" /\ pn' = n /\ ppc' = "lock"
                  ELSE UNCHANGED <<goal, pn, ppc>>
  /\ UNCHANGED <<nbrVars, timeSource, pktVars, dequeued, lockVars, slotVars, pk,
                 leaving>>

SweepDone ==
  /\ ppc = "sweep" /\ todo = {} /\ leaving = "no"
  /\ ppc' = "idle"
  /\ UNCHANGED <<nbrVars, timeSource, pktVars, dequeued, lockVars, slotVars,
                 goal, pn, pk, todo, leaving>>

-----------------------------------------------------------------------------
(* Flushing a queue: tsch_queue_flush_nbr_queue, without the lock *)

FlushOne ==
  /\ ppc = "flush" /\ queue[pn] # <<>>
  /\ pk' = Head(queue[pn])
  /\ queue' = [queue EXCEPT ![pn] = Tail(@)]
  /\ CallSent(Head(queue[pn]))
  /\ ppc' = "flushed"
  /\ UNCHANGED <<nbrs, window, exponent, timeSource, alloc, pkt, dequeued,
                 lockVars, slotVars, goal, pn, todo, leaving>>

FreeFlushed ==
  /\ ppc = "flushed"
  /\ alloc' = alloc \ {pk}
  /\ pk' = NoBlock
  /\ ppc' = "flush"
  /\ UNCHANGED <<nbrVars, timeSource, pkt, called, dequeued, lockVars, slotVars,
                 goal, pn, todo, leaving>>

\* The queue is empty: tsch_queue_remove_nbr removes the neighbor,
\* tsch_queue_reset resets its backoff and goes on with the next one,
\* tsch_queue_free_packets_to is done.
FlushDone ==
  /\ ppc = "flush" /\ queue[pn] = <<>>
  /\ ppc' = IF goal \in {"sweep", "reset"} THEN goal ELSE "idle"
  /\ nbrs' = IF goal = "sweep" THEN nbrs \ {pn} ELSE nbrs
  /\ IF goal = "reset"
     THEN /\ window' = [window EXCEPT ![pn] = 0]
          /\ exponent' = [exponent EXCEPT ![pn] = MinBE]
     ELSE UNCHANGED <<window, exponent>>
  /\ leaving' = IF goal = "source" THEN "no" ELSE leaving
  /\ UNCHANGED <<queue, timeSource, pktVars, dequeued, lockVars, slotVars,
                 goal, pn, pk, todo>>

-----------------------------------------------------------------------------
(* A new time source: the routing layer's parent switch calls              *)
(* tsch_queue_update_time_source, and the scheduler's callback frees the   *)
(* packets to the old one.  A child that is removed loses its packets too. *)

UpdateTimeSource(n) ==
  /\ MayFlush
  /\ ppc = "idle" /\ n # timeSource
  /\ goal' = "source"
  /\ pn' = n
  /\ ppc' = IF n \in nbrs \cup {NoNbr} THEN "source" ELSE "lock"
  /\ UNCHANGED <<nbrVars, timeSource, pktVars, dequeued, lockVars, slotVars, pk,
                 todo, leaving>>

SetTimeSource ==
  /\ ppc = "source"
  /\ timeSource' = pn
  /\ pn' = timeSource
  /\ IF timeSource \in nbrs THEN ppc' = "flush" /\ UNCHANGED leaving
                            ELSE ppc' = "idle" /\ leaving' = "no"
  /\ UNCHANGED <<nbrVars, pktVars, dequeued, lockVars, slotVars, goal, pk, todo>>

FreePacketsTo(n) ==
  /\ MayFlush
  /\ ppc = "idle" /\ n \in nbrs
  /\ goal' = "free"
  /\ pn' = n
  /\ ppc' = "flush"
  /\ UNCHANGED <<nbrVars, timeSource, pktVars, dequeued, lockVars, slotVars, pk,
                 todo, leaving>>

-----------------------------------------------------------------------------
(* Leaving the network: tsch_disassociate, from the slot operation or a    *)
(* process, then tsch_reset in tsch_process.  It processes sent packets,   *)
(* flushes every queue, removes unused neighbors and gives up the time     *)
(* source.  A slot that has started still goes on to its end.              *)

LeaveNetwork ==
  /\ MayFlush
  /\ ppc = "idle"
  /\ leaving' = "queues"
  /\ ppc' = "more"
  /\ UNCHANGED <<nbrVars, timeSource, pktVars, dequeued, lockVars, slotVars,
                 goal, pn, pk, todo>>

ResetQueues ==
  /\ ppc = "sweep" /\ todo = {} /\ leaving = "queues"
  /\ todo' = nbrs
  /\ goal' = "reset"
  /\ ppc' = "reset"
  /\ leaving' = "unused"
  /\ UNCHANGED <<nbrVars, timeSource, pktVars, dequeued, lockVars, slotVars,
                 pn, pk>>

ResetNbr(n) ==
  /\ ppc = "reset" /\ n \in todo
  /\ todo' = todo \ {n}
  /\ pn' = n
  /\ ppc' = "flush"
  /\ UNCHANGED <<nbrVars, timeSource, pktVars, dequeued, lockVars, slotVars,
                 goal, pk, leaving>>

SweepAfterReset ==
  /\ ppc = "reset" /\ todo = {}
  /\ todo' = nbrs
  /\ ppc' = "sweep"
  /\ UNCHANGED <<nbrVars, timeSource, pktVars, dequeued, lockVars, slotVars,
                 goal, pn, pk, leaving>>

DropTimeSource ==
  /\ ppc = "sweep" /\ todo = {} /\ leaving = "unused"
  /\ goal' = "source"
  /\ pn' = NoNbr
  /\ ppc' = "source"
  /\ UNCHANGED <<nbrVars, timeSource, pktVars, dequeued, lockVars, slotVars,
                 pk, todo, leaving>>

Process ==
  \/ LockRequest \/ LockTake \/ AddNbr \/ ReleaseAndFlush
  \/ \E n \in Nbrs : SendPacket(n)
  \/ Enqueue \/ SetHeaderLen
  \/ Report \/ FreeReported \/ StartSweep \/ SweepDone
  \/ \E n \in Nbrs : Sweep(n)
  \/ FlushOne \/ FreeFlushed \/ FlushDone
  \/ \E n \in Unicast \cup {NoNbr} : UpdateTimeSource(n)
  \/ SetTimeSource
  \/ \E n \in Unicast : FreePacketsTo(n)
  \/ LeaveNetwork \/ ResetQueues \/ SweepAfterReset \/ DropTimeSource
  \/ \E n \in Nbrs : ResetNbr(n)

-----------------------------------------------------------------------------
Init ==
  /\ timeSource \in Unicast \cup {NoNbr}
  /\ nbrs = {Broadcast, timeSource} \ {NoNbr}
  /\ queue = [n \in Nbrs |-> <<>>]
  /\ window = [n \in Nbrs |-> 0]
  /\ exponent = [n \in Nbrs |-> MinBE]
  /\ alloc = {}
  /\ pkt = [b \in Blocks |-> [tx |-> 0, cell |-> AnyCell]]
  /\ called = [b \in Blocks |-> 1]
  /\ dequeued = <<>>
  /\ locked = FALSE /\ lockRequested = FALSE
  /\ slot = "out" /\ cur = NoCurrent
  /\ ppc = "idle" /\ goal = "send" /\ pn = NoNbr /\ pk = NoBlock /\ todo = {}
  /\ leaving = "no"

Next == Slot \/ Process

\* Operations in progress go on; a poll for sent packets is served before
\* other events (process.c do_poll), whatever else the process does; every
\* link's slot recurs with each slotframe, so a link that can transmit again
\* and again does; backoff slots pass with them.
Fairness ==
  /\ WF_vars(Process /\ ppc # "idle")
  /\ SF_vars(Report)
  /\ \A l \in Links : SF_vars(SlotTxStart(l)) /\ SF_vars(SlotPasses(l))
  /\ WF_vars(SlotRxEnd) /\ WF_vars(\E ok \in BOOLEAN : SlotTxEnd(ok))

Spec == Init /\ [][Next]_vars /\ Fairness

-----------------------------------------------------------------------------
(* Properties *)

QueueTypes ==
  /\ nbrs \subseteq Nbrs /\ Broadcast \in nbrs
  /\ queue \in [Nbrs -> Seq(Blocks)]
  /\ \A n \in Nbrs : Len(queue[n]) <= QueueCapacity
  /\ exponent \in [Nbrs -> MinBE .. MaxBE]
  /\ window \in [Nbrs -> Nat]
  /\ timeSource \in Unicast \cup {NoNbr}
PacketTypes ==
  /\ alloc \subseteq Blocks
  /\ pkt \in [Blocks -> [tx : 0 .. MaxTx + 1, cell : Cells]]
  /\ dequeued \in Seq(Blocks) /\ Len(dequeued) <= DequeuedCapacity
  /\ called \in [Blocks -> 0 .. 2]
ControlTypes ==
  /\ locked \in BOOLEAN /\ lockRequested \in BOOLEAN
  /\ slot \in {"out", "tx", "rx"}
  /\ cur \in [p : Blocks \cup {NoBlock}, n : Nbrs \cup {NoNbr},
              l : Links \cup {NoLink}]
  /\ ppc \in {"idle", "lock", "wait", "locked", "send", "header", "reported",
              "more", "sweep", "flush", "flushed", "source", "reset"}
  /\ goal \in {"send", "sweep", "source", "free", "reset"}
  /\ leaving \in {"no", "queues", "unused"}
  /\ pn \in Nbrs \cup {NoNbr} /\ pk \in Blocks \cup {NoBlock}
  /\ todo \subseteq Nbrs

\* Every variable keeps its type: queues within their capacity, exponents within
\* their bounds (BackoffFits bounds the windows).
TypeOK == QueueTypes /\ PacketTypes /\ ControlTypes

\* A transmit slot never overlaps the lock: what the process changes while it
\* holds the lock, the neighbor table above all, no transmission uses.  (A
\* receive slot may start while the lock is held.)
TxExcludesLock == slot = "tx" => ~locked

\* While a slot transmits, across its yields, its packet stays the head of
\* the queue of its neighbor and the neighbor stays in the table: what the
\* slot dequeues at its end is what it sent.
HeadTransmitted ==
  slot = "tx" =>
    /\ cur.n \in nbrs
    /\ queue[cur.n] # <<>> /\ Head(queue[cur.n]) = cur.p

\* A neighbor is not removed from the table while a slot transmits to it, even
\* if its queue is flushed meanwhile: the removal waits for the slot.
NeighborKept == slot = "tx" => cur.n \in nbrs

\* The packet a slot works on is not given back to packet_memb meanwhile.
NoUseAfterFree == slot = "tx" => cur.p \in alloc

\* Where a block is: its places in the queues, among the dequeued packets and
\* in the hand of a process that flushes it.
Places(b) ==
  {at \in Nbrs \X (1 .. QueueCapacity) :
     at[2] <= Len(queue[at[1]]) /\ queue[at[1]][at[2]] = b}
  \cup {<<"dequeued", i>> : i \in {i \in 1 .. Len(dequeued) : dequeued[i] = b}}
  \cup (IF ppc = "flushed" /\ pk = b THEN {<<"flushed", 1>>} ELSE {})

\* Every allocated packet is in exactly one place and a free one in none: no
\* packet is lost between the slot and the process, none is queued twice,
\* and no block is handed out while something still refers to it.
OneOwner ==
  \A b \in Blocks : Cardinality(Places(b)) = IF b \in alloc THEN 1 ELSE 0

\* The sent callback of a packet is called exactly once before its block is
\* free again.
CalledOnce ==
  \A b \in Blocks : called[b] < 2 /\ (b \notin alloc => called[b] = 1)

\* A neighbor that has a window to wait for failed on a shared link since its
\* last reset, and the window fits its exponent.
BackoffFits ==
  \A n \in nbrs : window[n] # 0 =>
    n # Broadcast /\ window[n] <= 2^exponent[n]

\* The header length of a packet is set before a slot may transmit it.
HeaderKnown == slot = "tx" => ~(ppc = "header" /\ pk = cur.p)

\* No link serves the packet at the head of n's queue: the scheduler gave it a
\* timeslot in which none of the links to n can transmit.
Stuck(n) ==
  /\ queue[n] # <<>>
  /\ ~ \E l \in LinksFor(n) : pkt[Head(queue[n])].cell \in {l.cell, AnyCell}

\* Once no more packets are sent, every packet is sent or dropped, and reported,
\* except those in a queue whose head has got a timeslot that no link serves:
\* backoff windows expire, no neighbor is forgotten, and one neighbor's stuck
\* queue holds up neither the queues of the others nor the reports.
QueuedSettled ==
  <>[][\A n \in Nbrs : ~SendPacket(n)]_vars =>
  <>[](\A b \in alloc :
         \E n \in Nbrs : Stuck(n) /\ \E i \in 1 .. Len(queue[n]) : queue[n][i] = b)
=============================================================================
