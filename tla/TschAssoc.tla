------------------------------ MODULE TschAssoc ------------------------------
(***************************************************************************)
(* How a node that is not the coordinator joins, follows and leaves a TSCH *)
(* network (tsch.c): scanning and association, the time source, keepalive  *)
(* messages and the resynchronization after one fails, and the loss of     *)
(* synchronization.                                                        *)
(*                                                                         *)
(* Three processes and one interrupt share the state: tsch_process, which  *)
(* scans and otherwise sleeps until the node has left; the pending events  *)
(* process, which handles what the slots left behind; the routing layer,   *)
(* which changes the time source; and the slot operation.  Processes run   *)
(* to completion, so each handler is one step; a slot is two steps around  *)
(* its wait for the ACK.  process_poll makes a process run later.          *)
(*                                                                         *)
(* Configuration of the build: RPL chooses time sources                    *)
(* (TSCH_AUTOSELECT_TIME_SOURCE is 0), and the scheduler drops packets to  *)
(* an old parent (EASE's new_time_source).  Only keepalives are followed   *)
(* through the queues.  Join priorities, ASN and timing are abstracted:    *)
(* an EB is acceptable or not.                                             *)
(***************************************************************************)
EXTENDS Integers, Sequences, FiniteSets

CONSTANTS
  Nbr,         \* neighbors that send EBs
  QueueMax,    \* keepalives queued per neighbor
  RingMax,     \* frames in input_ringbuf and in dequeued_ringbuf
  MaxSwitches, \* bound: changes of the time source by RPL
  MaxDeaths    \* bound: neighbors that fall silent

NoNbr == "no neighbor"
FrameKinds == {"data", "EB", "bad EB"}  \* bad: of another ASN or priority
TxResults == {"OK", "NOACK", "ERR"}     \* MAC_TX_...

ASSUME AssocAssumption ==
  /\ NoNbr \notin Nbr
  /\ {QueueMax, RingMax} \subseteq Nat \ {0}
  /\ {MaxSwitches, MaxDeaths} \subseteq Nat

VARIABLES
  node,     \* the state of tsch.c, a record: see Init
  chain,    \* an rtimer for the next slot is set or a slot is running
  air,      \* the keepalive a slot has sent and awaits the ACK of, by receiver
  age,      \* "fresh" or "old": since last_sync_asn, TSCH_DESYNC_THRESHOLD
  dead,     \* the neighbors that have fallen silent
  switches  \* changes by RPL so far

vars == <<node, chain, air, age, dead, switches>>
-----------------------------------------------------------------------------
(* Handlers are functions from a state of the node to the next one.        *)

(* tsch_schedule_keepalive, which also polls the pending events process.   *)
Schedule(s, immediate) ==
  [s EXCEPT !.pending = TRUE,
            !.status = IF immediate \/ @ = "send" THEN "send" ELSE "schedule"]

DisassociateUnpolled(s) == [s EXCEPT !.assoc = FALSE]

(* tsch_disassociate polls tsch_process, once.                             *)
Disassociate(s) ==
  IF s.assoc THEN [s EXCEPT !.assoc = FALSE, !.polled = TRUE] ELSE s

(* tsch_queue_update_time_source: keepalives are timed while there is a    *)
(* source.  What is queued for the old one is dropped; the callbacks of    *)
(* the dropped keepalives only schedule another, which is done already.    *)
UpdateTimeSource(s, new) ==
  IF new = s.ts THEN s
  ELSE LET t == [s EXCEPT !.ts = new, !.kaOn = new # NoNbr,
                          !.queue = [n \in Nbr |-> IF n = s.ts THEN 0 ELSE @[n]]]
       IN Schedule(t, FALSE)

ResynchronizeAlways(s, to) ==
  IF s.lastEb = NoNbr
  THEN Schedule(IF s.synced THEN s ELSE Disassociate(s), FALSE)
  ELSE Schedule([UpdateTimeSource(s, s.lastEb) EXCEPT !.lastEb = NoNbr], TRUE)

(* resynchronize, after a keepalive to neighbor to failed, and the keepalive *)
(* that keepalive_packet_sent schedules if it does not.                    *)
Resynchronize(s, to) ==
  IF s.ts \notin {NoNbr, to} THEN Schedule(s, FALSE)
  ELSE IF s.lastEb = NoNbr
  THEN Schedule(IF s.synced THEN s ELSE Disassociate(s), FALSE)
  ELSE Schedule([UpdateTimeSource(s, s.lastEb) EXCEPT !.lastEb = NoNbr], TRUE)

KeepaliveSentOnce(s, ka) ==
  IF ka.ret # "NOACK" THEN Schedule(s, FALSE)
  ELSE IF s.ts \in {NoNbr, ka.to} /\ s.lastEb = NoNbr THEN s
       ELSE Resynchronize(s, ka.to)

(* keepalive_packet_sent for a keepalive that left the queue in a slot.    *)
KeepaliveSent(s, ka) ==
  IF ka.ret = "NOACK" THEN Resynchronize(s, ka.to) ELSE Schedule(s, FALSE)

(* keepalive_send: the timer is stopped, and a packet goes to the time     *)
(* source; when its queue is full the callback comes at once.              *)
KeepaliveSend(s) ==
  LET t == [s EXCEPT !.timer = FALSE]
  IN IF ~s.assoc \/ s.ts = NoNbr THEN t
     ELSE IF s.queue[s.ts] < QueueMax
     THEN [t EXCEPT !.queue[s.ts] = @ + 1]
     ELSE Schedule(t, FALSE)

(* tsch_keepalive_process_pending.                                         *)
KeepaliveProcessPending(s) ==
  LET t == [s EXCEPT !.status = "unchanged"]
  IN IF s.status = "unchanged" THEN s
     ELSE IF s.assoc /\ s.status = "send" THEN KeepaliveSend(t)
     ELSE [t EXCEPT !.timer = s.assoc /\ s.kaOn]

(* eb_input: an EB of another neighbor than the time source is kept in     *)
(* mind; one of the time source with another ASN or no acceptable join     *)
(* priority makes the node leave.                                          *)
EbInput(s, eb) ==
  IF eb.src # s.ts THEN [s EXCEPT !.lastEb = eb.src]
  ELSE IF eb.kind = "bad EB" THEN Disassociate(s) ELSE s

(* Data goes to the upper layers.                                          *)
RxInput(s, frame) == IF frame.kind = "data" THEN s ELSE EbInput(s, frame)

(* tsch_rx_process_pending: all frames, in the order they came in.         *)
AfterInput(s) ==
  LET after[i \in 0 .. Len(s.input)] ==
        IF i = 0 THEN s ELSE RxInput(after[i - 1], s.input[i])
  IN after[Len(s.input)]

(* tsch_tx_process_pending: all keepalives sent.                           *)
AfterDone(s) ==
  LET after[i \in 0 .. Len(s.done)] ==
        IF i = 0 THEN s ELSE KeepaliveSent(after[i - 1], s.done[i])
  IN after[Len(s.done)]

(* The pending events process: input, then sent packets, then keepalives.  *)
PendingEvents(s) ==
  KeepaliveProcessPending(
    [AfterDone(AfterInput(s)) EXCEPT !.input = <<>>, !.done = <<>>])
-----------------------------------------------------------------------------
Init ==
  /\ node = [assoc |-> FALSE,   \* tsch_is_associated
             phase |-> "scan",  \* where tsch_process waits
             polled |-> FALSE,  \* tsch_process is polled
             pending |-> FALSE, \* the pending events process is polled
             ts |-> NoNbr,      \* the time source
             lastEb |-> NoNbr,  \* last_eb_nbr_addr
             kaOn |-> FALSE,    \* tsch_current_ka_timeout > 0
             status |-> "unchanged", \* keepalive_status
             timer |-> FALSE,   \* keepalive_timer is set
             queue |-> [n \in Nbr |-> 0], \* keepalives queued
             done |-> <<>>,     \* keepalives in dequeued_ringbuf
             input |-> <<>>,    \* frames in input_ringbuf
             synced |-> FALSE]  \* sync_count > 0
  /\ chain = FALSE
  /\ air = NoNbr
  /\ age = "fresh"
  /\ dead = {}
  /\ switches = 0

(* Only neighbors that still send are heard.                               *)
EbSrc == Nbr \ dead

(* tsch_reset.  The pending events are handled first, in a call that does  *)
(* not take a poll back; the flush reports the queued keepalives, which    *)
(* schedules others, all forgotten again.                                  *)
Reset(s) ==
  LET t == PendingEvents(s)
  IN [UpdateTimeSource(t, NoNbr)
        EXCEPT !.queue = [n \in Nbr |-> 0], !.lastEb = NoNbr,
               !.status = "unchanged",
               !.pending = @ \/ \E n \in Nbr : t.queue[n] > 0]

(* tsch_associate with an acceptable EB, and the start of the slots.       *)
Associate(s, src) ==
  Schedule([UpdateTimeSource(s, src) EXCEPT
              !.assoc = TRUE, !.synced = FALSE, !.phase = "run",
              !.polled = FALSE], FALSE)

(* One round of tsch_scan from state s: an EB is at hand, or none is.      *)
ScanOnce(s) ==
  \/ /\ node' = [s EXCEPT !.phase = "scan", !.polled = FALSE]
     /\ UNCHANGED <<chain, age>>
  \/ \E src \in EbSrc :
       /\ node' = Associate(s, src)
       /\ chain' = TRUE
       /\ age' = "fresh"

(* tsch_process wakes up: the scan timer, or a poll after the node left.   *)
Scan ==
  /\ node.phase = "scan"
  /\ ScanOnce(node)
  /\ UNCHANGED <<air, dead, switches>>

Leave ==
  /\ node.phase = "run" /\ node.polled /\ ~node.assoc
  /\ ScanOnce(Reset(node))
  /\ UNCHANGED <<air, dead, switches>>

(* A poll is taken back before the process runs (do_poll), so what it or   *)
(* an interrupt polls meanwhile lets it run once more.                     *)
HandlePending ==
  /\ node.pending
  /\ node' = PendingEvents([node EXCEPT !.pending = FALSE])
  /\ UNCHANGED <<chain, air, age, dead, switches>>

KeepaliveTimer ==
  /\ node.timer
  /\ node' = KeepaliveSend(node)
  /\ UNCHANGED <<chain, air, age, dead, switches>>

(* RPL's preferred parent changes: tsch_rpl_callback_parent_switch.        *)
ParentSwitch(n) ==
  /\ switches < MaxSwitches
  /\ switches' = switches + 1
  /\ node.assoc
  /\ node' = UpdateTimeSource(node, n)
  /\ UNCHANGED <<chain, air, age, dead>>
-----------------------------------------------------------------------------
(* A slot starts with a keepalive and waits for the ACK.                   *)
SlotTx(n) ==
  /\ chain /\ node.assoc /\ air = NoNbr
  /\ node.queue[n] > 0 /\ Len(node.done) < RingMax
  /\ air' = n
  /\ UNCHANGED <<node, chain, age, dead, switches>>

EndSlotSynced(s, a) ==
  /\ node' = s
  /\ chain' = TRUE
  /\ age' = "fresh"

(* The end of every slot: a node without synchronization for too long      *)
(* leaves, and sets no timer for another slot.                             *)
EndSlot(s, a) ==
  /\ node' = IF a = "old" THEN Disassociate(s) ELSE s
  /\ chain' = (a # "old")
  /\ age' = a

(* The keepalive is acknowledged, which synchronizes with the time source, *)
(* or given up after the last try, without an ACK or without a frame (the  *)
(* channel was busy).  If it was flushed meanwhile the slot reports it all *)
(* the same.  (Retries that stay in the queue change nothing here.)        *)
SlotTxEnd(ret) ==
  LET t == [node EXCEPT !.queue[air] = IF @ > 0 THEN @ - 1 ELSE 0,
                        !.done = Append(@, [to |-> air, ret |-> ret]),
                        !.pending = TRUE]
      sync == ret = "OK" /\ air = node.ts
  IN /\ air # NoNbr
     /\ ret = "OK" => air \notin dead
     /\ air' = NoNbr
     /\ EndSlot(IF sync THEN Schedule(t, FALSE) ELSE t,
                IF sync THEN "fresh" ELSE age)
     /\ UNCHANGED <<dead, switches>>

(* A frame of a neighbor is received, if input_ringbuf has room for it; a  *)
(* frame of the time source synchronizes.                                  *)
SlotRx(n, kind) ==
  LET t == [node EXCEPT !.pending = TRUE,
                        !.input = Append(@, [src |-> n, kind |-> kind])]
  IN /\ chain /\ node.assoc /\ air = NoNbr
     /\ n \in EbSrc /\ Len(node.input) < RingMax
     /\ EndSlot(IF n = node.ts
                THEN Schedule([t EXCEPT !.synced = TRUE], FALSE) ELSE t,
                IF n = node.ts THEN "fresh" ELSE age)
     /\ UNCHANGED <<air, dead, switches>>

(* Any other slot; without association the operation ends.                 *)
SlotIdle ==
  /\ chain /\ air = NoNbr
  /\ IF node.assoc THEN EndSlot(node, age)
     ELSE chain' = FALSE /\ UNCHANGED <<node, age>>
  /\ UNCHANGED <<air, dead, switches>>

(* Environment.                                                            *)
TimePasses ==
  /\ age' = "old"
  /\ UNCHANGED <<node, chain, air, dead, switches>>

FallSilent(n) ==
  /\ n \notin dead /\ Cardinality(dead) < MaxDeaths
  /\ dead' = dead \cup {n}
  /\ UNCHANGED <<node, chain, air, age, switches>>

Next ==
  \/ Scan \/ Leave \/ HandlePending \/ KeepaliveTimer \/ SlotIdle \/ TimePasses
  \/ \E n \in Nbr \cup {NoNbr} : ParentSwitch(n)
  \/ \E n \in Nbr :
       \/ SlotTx(n) \/ FallSilent(n)
       \/ \E kind \in FrameKinds : SlotRx(n, kind)
  \/ \E ret \in TxResults : SlotTxEnd(ret)

(* Polled processes run and timers expire; the rtimer starts slot after    *)
(* slot, and a slot that waits for an ACK ends; time passes.  Of the       *)
(* environment: a scan hears an EB eventually if anybody still sends them. *)
Fairness ==
  /\ WF_vars(Leave) /\ WF_vars(HandlePending) /\ WF_vars(KeepaliveTimer)
  /\ WF_vars(SlotIdle) /\ WF_vars(TimePasses)
  /\ WF_vars(\E ret \in TxResults : SlotTxEnd(ret))
  /\ WF_vars(Scan /\ node'.assoc)

Spec == Init /\ [][Next]_vars /\ Fairness
-----------------------------------------------------------------------------
Nodes ==
  [assoc : BOOLEAN, phase : {"scan", "run"}, polled : BOOLEAN,
   pending : BOOLEAN, ts : Nbr \cup {NoNbr}, lastEb : Nbr \cup {NoNbr},
   kaOn : BOOLEAN, status : {"unchanged", "schedule", "send"},
   timer : BOOLEAN, queue : [Nbr -> 0 .. QueueMax],
   done : Seq([to : Nbr, ret : TxResults]),
   input : Seq([src : Nbr, kind : FrameKinds]), synced : BOOLEAN]

(* The timeout of keepalives is set exactly while there is a time source,  *)
(* and neither ring overflows, with room for what the slot will report.    *)
TypeOK ==
  /\ node \in Nodes
  /\ node.kaOn = (node.ts # NoNbr)
  /\ Len(node.input) <= RingMax
  /\ Len(node.done) + (IF air = NoNbr THEN 0 ELSE 1) <= RingMax
  /\ chain \in BOOLEAN /\ age \in {"fresh", "old"}
  /\ air \in Nbr \cup {NoNbr}
  /\ dead \subseteq Nbr

(* While a node follows a time source its keepalives never stop: one is    *)
(* requested, timed, queued, in the air or about to be reported, across    *)
(* failures, resynchronizations, changes by RPL, flushes and new sessions. *)
KeepaliveGoesOn ==
  node.assoc /\ node.ts # NoNbr =>
    \/ node.status # "unchanged" /\ node.pending
    \/ node.timer
    \/ \E n \in Nbr : node.queue[n] > 0
    \/ air # NoNbr
    \/ node.done # <<>> /\ node.pending

(* A time source is given up after a failed keepalive only if that         *)
(* keepalive went to it, not to one that RPL has replaced since.           *)
FailureOfSourceItself ==
  [][HandlePending /\ node.ts # NoNbr /\ node'.ts # node.ts =>
       \E i \in DOMAIN node.done : node.done[i] = [to |-> node.ts, ret |-> "NOACK"]
    ]_vars

(* A node does not follow a silent time source for good: it turns to       *)
(* another one or leaves the network.                                      *)
SilentSourceLeft ==
  \A n \in Nbr :
    node.ts = n /\ n \in dead /\ node.assoc ~> node.ts # n \/ ~node.assoc

(* A node that has left joins again if it can hear somebody.               *)
Rejoins == ~node.assoc ~> node.assoc \/ dead = Nbr
=============================================================================
