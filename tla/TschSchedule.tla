----------------------------- MODULE TschSchedule -----------------------------
(***************************************************************************)
(* The schedule of TSCH: slotframes and their links (tsch-schedule.c), and *)
(* the loop of the slot operation that walks along it, with its current    *)
(* and backup link, bursts and missed deadlines (tsch-slot-operation.c).   *)
(*                                                                         *)
(* Processes change the schedule under the lock; the slot operation        *)
(* interrupts them anywhere.  A slot is two steps, its start and its end:  *)
(* it waits in between for a frame or an ACK, and processes run.  An       *)
(* operation on the schedule is cut where the code asks for, takes and     *)
(* gives back the lock, and between the listing of a new link and its      *)
(* initialisation.  What a slot sends is left to TschQueue: here a link    *)
(* has a packet or not.                                                    *)
(***************************************************************************)
EXTENDS Integers, Sequences, FiniteSets

CONSTANTS
  Handles,     \* the handles of the slotframes
  Size,        \* the size of each slotframe
  Cycle,       \* a common multiple of the sizes: the ASN counts modulo it
  Blocks,      \* the elements of link_memb
  Requests,    \* the links that may be asked for:
               \* [sf, ts, tx, rx, shared, addr, chan]
  PacketChannels, \* the channel offsets that packets may ask for themselves;
               \* only NoChannel (0xffff) without TSCH_WITH_LINK_SELECTOR
  Unicast, Broadcast, \* the addresses of links
  MaxNbrs,     \* size of the neighbor table
  NoLink, NoRequest, NoChannel

Addrs == Unicast \cup {Broadcast}

ASSUME HandleAssumption ==
  /\ Handles \subseteq Nat
  /\ Size \in [Handles -> Nat \ {0}]
  /\ Cycle \in Nat \ {0} /\ \A s \in Handles : Cycle % Size[s] = 0
ASSUME RequestAssumption ==
  /\ \A r \in Requests : /\ r.sf \in Handles /\ r.ts \in 0 .. Size[r.sf] - 1
                         /\ r.addr \in Addrs
                         /\ {r.tx, r.rx, r.shared} \subseteq BOOLEAN
  /\ NoRequest \notin Requests
ASSUME NameAssumption ==
  NoLink \notin Blocks /\ Broadcast \notin Unicast /\ MaxNbrs \in Nat \ {0}

VARIABLES
  frames,      \* slotframe_list
  lists,       \* the links_list of each slotframe
  link,        \* the contents of each block
  current, backup, \* current_link, backup_link
  slot,        \* tsch_in_slot_operation: "out", or the slot runs "tx" or "rx"
  burst,       \* burst_link_scheduled
  channel,     \* tsch_current_channel_offset, as long as it may be needed
  first,       \* history: the block and channel of the first slot of the burst
               \* or of the slot that runs, as long as its link is there
  asn,         \* tsch_current_asn, modulo Cycle
  locked, lockRequested, \* tsch_locked, tsch_lock_requested
  nbrs,        \* the neighbors in the table tsch_neighbors
  count, dedicated, \* tx_links_count, dedicated_tx_links_count
  pc, op,      \* the process: where it is and what it does
  fellBack,    \* history: current_link was taken from backup_link
  cut,         \* history: the link of the burst was removed
  uncounted    \* history: addresses with a link that found no neighbor

schedVars == <<frames, lists, link>>
slotVars == <<slot, current, backup, burst, channel, first, asn, fellBack>>
lockVars == <<locked, lockRequested>>
nbrVars == <<nbrs, count, dedicated, uncounted>>
procVars == <<pc, op>>
vars == <<schedVars, slotVars, lockVars, nbrVars, procVars, cut>>

Elements(list) == {list[i] : i \in DOMAIN list}
Listed(b) == \E s \in Handles : b \in Elements(lists[s])
FreeBlocks == {b \in Blocks : ~Listed(b)}

-----------------------------------------------------------------------------
(* The next active link: tsch_schedule_get_next_active_link *)

\* The slots from ASN a to the next one of link l: never 0, the slot of a is
\* the one that ends.
TimeTo(a, l) ==
  LET t == a % Size[link[l].sf] IN
  IF link[l].ts > t THEN link[l].ts - t ELSE Size[link[l].sf] + link[l].ts - t

\* How many packets wait for each address, as far as comparisons matter.
PacketCounts == [{r.addr : r \in {x \in Requests : x.tx}} -> {0, 1}]

\* default_tsch_link_comparator, q is the number of packets per address.
Comparator(a, b, q) ==
  IF link[a].tx /\ link[a].addr # link[b].addr /\ q[link[a].addr] < q[link[b].addr]
  THEN b ELSE a

NewBestByHandle(c, l, q) ==
  IF link[l].sf = link[c].sf THEN Comparator(c, l, q)
  ELSE IF link[l].sf < link[c].sf THEN l ELSE NoLink
\* Of two links in the same slot, Tx goes first, then the lowest handle.
\* NoLink: the best so far stays.
NewBest(c, l, q) ==
  IF link[l].tx # link[c].tx THEN IF link[l].tx THEN l ELSE NoLink
  ELSE IF link[l].sf = link[c].sf THEN Comparator(c, l, q)
  ELSE IF link[l].sf < link[c].sf THEN l ELSE NoLink

\* Link l becomes the backup if it can receive, is not the best and has a
\* lower handle than the backup so far.
Spare(spare, l, best) ==
  IF /\ best # l /\ link[l].rx
     /\ spare = NoLink \/ link[l].sf < link[spare].sf
  THEN l ELSE spare

\* One round of the loop over all links, f is what was found so far.
Visit(a, q, f, l) ==
  LET t == TimeTo(a, l)
      best == NewBest(f.best, l, q)
  IN IF f.best = NoLink \/ t < f.time
       THEN [best |-> l, backup |-> NoLink, time |-> t]
     ELSE IF t = f.time
       THEN [best |-> IF best = NoLink THEN f.best ELSE best,
             backup |-> Spare(Spare(f.backup, l, best), f.best, best),
             time |-> t]
     ELSE f

\* All links, in the order of the lists.
AllLinks ==
  LET upTo[i \in 0 .. Len(frames)] ==
        IF i = 0 THEN <<>> ELSE upTo[i - 1] \o lists[frames[i]]
  IN upTo[Len(frames)]

NothingActive == [best |-> NoLink, backup |-> NoLink, time |-> 1]

\* The outcome of the loops.
Search(a, q) ==
  LET links == AllLinks
      found[i \in 0 .. Len(links)] ==
        IF i = 0 THEN NothingActive ELSE Visit(a, q, found[i - 1], links[i])
  IN found[Len(links)]

\* Nothing is active while the schedule is locked; the caller then wakes up
\* in the next slot.
NextActive(a, q) == IF locked THEN NothingActive ELSE Search(a, q)

-----------------------------------------------------------------------------
(* The slot operation, in interrupt context *)

\* One round of the loop at the end of a slot: a burst replays the link in
\* the next slot, else the schedule is asked.
RescheduleKeepsBackup(w, q) ==
  IF w.burst /\ w.current # NoLink
  THEN [w EXCEPT !.asn = (@ + 1) % Cycle]
  ELSE LET n == NextActive(w.asn, q) IN
       [w EXCEPT !.current = n.best, !.backup = n.backup,
                 !.asn = (@ + n.time) % Cycle, !.fellBack = FALSE]
Reschedule(w, q) ==
  IF w.burst /\ w.current # NoLink
  THEN [w EXCEPT !.backup = NoLink, !.asn = (@ + 1) % Cycle]
  ELSE LET n == NextActive(w.asn, q) IN
       [w EXCEPT !.current = n.best, !.backup = n.backup,
                 !.asn = (@ + n.time) % Cycle, !.fellBack = FALSE]

NoSlot == [l |-> NoLink, chan |-> 0]

\* What one round may come to.
Outcomes(w) == {Reschedule(w, q) : q \in PacketCounts}

\* The loop runs again if it is too late for the slot it found.
EndSlot(c, b, fell) ==
  LET inTime == Outcomes([current |-> c, backup |-> backup, asn |-> asn,
                          burst |-> b, fellBack |-> fell])
  IN \E w \in inTime \cup UNION {Outcomes(v) : v \in inTime} :
       /\ current' = w.current
       /\ backup' = w.backup
       /\ asn' = w.asn
       /\ fellBack' = w.fellBack
       /\ burst' = b
       /\ channel' = IF b THEN channel ELSE 0
       /\ first' = IF b THEN first ELSE NoSlot
       /\ cut' = (cut /\ b)
       /\ slot' = "out"

MayStart == slot = "out" /\ current # NoLink /\ ~lockRequested

CanSendAnyTime(l) == link[l].tx
\* No queue gives a packet away while TSCH is locked.
CanSend(l) == link[l].tx /\ ~locked

\* A link without a packet gives way to the backup link if it cannot receive
\* or has the higher handle.
GivesWay(l, b) == b # NoLink /\ (~link[l].rx \/ link[b].sf < link[l].sf)
\* The link, and whether it has a packet, that a slot runs.
Chosen ==
  {c \in [l : {current, backup}, packet : BOOLEAN] :
     /\ \/ c.l = current /\ (c.packet \/ ~GivesWay(current, backup))
        \/ c.l = backup /\ GivesWay(current, backup)
     /\ c.packet => CanSend(c.l)}

\* tsch_get_channel_offset: the channel the packet asks for, else the link's.
ChannelOffset(c, asked) ==
  IF c.packet /\ asked # NoChannel THEN asked ELSE link[c.l].chan

\* A slot with a packet or a link to listen on.  In a burst it stays on the
\* channel of the slot before.
SlotStart ==
  /\ MayStart
  /\ \E c \in Chosen :
       /\ c.packet \/ link[c.l].rx
       /\ slot' = IF c.packet THEN "tx" ELSE "rx"
       /\ current' = c.l
       /\ fellBack' = (fellBack \/ c.l # current)
       /\ IF burst THEN UNCHANGED <<channel, first>>
          ELSE \E asked \in PacketChannels :
                 /\ channel' = ChannelOffset(c, asked)
                 /\ first' = [l |-> c.l, chan |-> ChannelOffset(c, asked)]
  /\ burst' = FALSE
  /\ cut' = (cut /\ burst)
  /\ UNCHANGED <<schedVars, backup, asn, lockVars, nbrVars, procVars>>

\* A slot without anything to do ends at once, and ends the burst.
SlotIdle ==
  /\ MayStart
  /\ \E c \in Chosen :
       /\ ~c.packet /\ ~link[c.l].rx
       /\ EndSlot(c.l, FALSE, fellBack \/ c.l # current)
  /\ UNCHANGED <<schedVars, lockVars, nbrVars, procVars>>

\* The end of a slot; the frame that was sent or received may have asked for
\* a burst.
SlotEnd(b) ==
  /\ slot # "out"
  /\ EndSlot(current, b, fellBack)
  /\ UNCHANGED <<schedVars, lockVars, nbrVars, procVars>>

\* There is no link, or a process waits for the lock.
SlotSkipped ==
  /\ slot = "out"
  /\ current = NoLink \/ lockRequested
  /\ EndSlot(current, burst, fellBack)
  /\ UNCHANGED <<schedVars, lockVars, nbrVars, procVars>>

Slot == SlotStart \/ SlotIdle \/ SlotSkipped \/ \E b \in BOOLEAN : SlotEnd(b)
-----------------------------------------------------------------------------
(* Operations on the schedule, in process context *)

Nothing == [kind |-> "none", sf |-> 0, request |-> NoRequest, l |-> NoLink]

\* The request for the lock, with which every operation begins.
Ask(o) ==
  /\ op' = o
  /\ pc' = "wait"
  /\ lockRequested' = TRUE

Begin(o) ==
  /\ pc = "idle"
  /\ Ask(o)
  /\ UNCHANGED <<schedVars, slotVars, locked, nbrVars, cut>>

\* tsch_schedule_get_link_by_timeslot: the first link of a timeslot.
LinkAt(s, ts) ==
  LET at == {i \in DOMAIN lists[s] : link[lists[s][i]].ts = ts} IN
  IF at = {} THEN NoLink
  ELSE lists[s][CHOOSE i \in at : \A j \in at : i <= j]

\* tsch_schedule_add_link, which removes the link of the timeslot first if
\* doRemove is set.
AddLink(r, doRemove) ==
  /\ r.sf \in Elements(frames)
  /\ LET old == IF doRemove THEN LinkAt(r.sf, r.ts) ELSE NoLink IN
     Begin([kind |-> IF old = NoLink THEN "add" ELSE "replace",
            sf |-> r.sf, request |-> r, l |-> old])

\* tsch_schedule_remove_link
RemoveLink(s, l) ==
  /\ s \in Elements(frames) /\ l \in Elements(lists[s])
  /\ Begin([Nothing EXCEPT !.kind = "remove", !.sf = s, !.l = l])

FirstLink(s) == IF lists[s] = <<>> THEN NoLink ELSE Head(lists[s])

\* tsch_schedule_remove_slotframe: its links first, one by one.
RemoveSlotframe(s) ==
  /\ s \in Elements(frames)
  /\ Begin([Nothing EXCEPT !.kind = "removeFrame", !.sf = s, !.l = FirstLink(s)])

\* tsch_schedule_add_slotframe
AddSlotframe(s) ==
  /\ s \notin Elements(frames)
  /\ Begin([Nothing EXCEPT !.kind = "addFrame", !.sf = s])

\* tsch_get_lock waits for the end of the slot.
LockTake ==
  /\ pc = "wait"
  /\ slot = "out"
  /\ locked' = TRUE
  /\ lockRequested' = FALSE
  /\ pc' = "locked"
  /\ UNCHANGED <<schedVars, slotVars, nbrVars, op, cut>>

\* list_remove: the first element that is x goes.
Without(list, x) ==
  IF x \notin Elements(list) THEN list
  ELSE LET at == CHOOSE i \in DOMAIN list :
                   list[i] = x /\ \A j \in 1 .. i - 1 : list[j] # x
       IN [i \in 1 .. Len(list) - 1 |-> list[IF i < at THEN i ELSE i + 1]]
Unlist(l) == [lists EXCEPT ![op.sf] = Without(@, l)]

\* The contents that a freed block keeps matter only while backup_link points
\* to it.
Freed(l) == IF l = backup THEN link ELSE [link EXCEPT ![l] = NoRequest]

DecrementWide(n) == n + 255
\* The counters are bytes.
Decrement(n) == (n + 255) % 256
UncountsAnyLink(l, n) == l.addr = n /\ n \in nbrs
Uncounts(l, n) == l.tx /\ l.addr = n /\ n \in nbrs

\* The neighbor of a link that was removed counts it no longer.
Uncount(l) ==
  /\ count' = [n \in Addrs |-> IF Uncounts(l, n) THEN Decrement(count[n]) ELSE count[n]]
  /\ dedicated' = [n \in Addrs |-> IF Uncounts(l, n) /\ ~l.shared
                                  THEN Decrement(dedicated[n]) ELSE dedicated[n]]
  /\ UNCHANGED <<nbrs, uncounted>>

\* The neighbor of a new transmit link is added if need be and counts it.  If
\* the table is full nothing counts the link.
Count(r) ==
  IF ~r.tx THEN UNCHANGED nbrVars
  ELSE IF r.addr \in nbrs \/ Cardinality(nbrs) < MaxNbrs
    THEN LET was(f) == IF r.addr \in nbrs THEN f[r.addr] ELSE 0 IN
         /\ nbrs' = nbrs \cup {r.addr}
         /\ count' = [count EXCEPT ![r.addr] = (was(count) + 1) % 256]
         /\ dedicated' = [dedicated EXCEPT ![r.addr] =
              (was(dedicated) + IF r.shared THEN 0 ELSE 1) % 256]
         /\ UNCHANGED uncounted
    ELSE /\ uncounted' = uncounted \cup {r.addr}
         /\ UNCHANGED <<nbrs, count, dedicated>>

\* What follows the removal of a link: the link that replaces it, the next
\* link of the slotframe, or nothing.
AfterRemoval ==
  CASE op.kind = "replace"     -> Ask([op EXCEPT !.kind = "refill", !.l = NoLink])
    [] op.kind = "removeFrame" ->
         LET rest == Tail(lists[op.sf]) IN
         Ask([op EXCEPT !.l = IF rest = <<>> THEN NoLink ELSE Head(rest)])
    [] OTHER -> pc' = "idle" /\ op' = Nothing /\ UNCHANGED lockRequested

UnlinkLeavesCurrent ==
  /\ pc = "locked" /\ op.l # NoLink
  /\ lists' = Unlist(op.l)
  /\ link' = Freed(op.l)
  /\ cut' = (cut \/ (op.l = current /\ (burst \/ slot # "out")))
  /\ first' = IF op.l = current THEN NoSlot ELSE first
  /\ locked' = FALSE
  /\ Uncount(link[op.l])
  /\ AfterRemoval
  /\ UNCHANGED <<frames, slot, current, backup, burst, channel, asn, fellBack>>
\* remove_link with the lock: a link that was next is not run.  The counters
\* change after the lock is given back, but only the choice of a packet reads
\* them, which TschQueue has.
Unlink ==
  /\ pc = "locked" /\ op.l # NoLink
  /\ current' = IF op.l = current THEN NoLink ELSE current
  /\ lists' = Unlist(op.l)
  /\ link' = Freed(op.l)
  /\ cut' = (cut \/ (op.l = current /\ (burst \/ slot # "out")))
  /\ first' = IF op.l = current THEN NoSlot ELSE first
  /\ locked' = FALSE
  /\ Uncount(link[op.l])
  /\ AfterRemoval
  /\ UNCHANGED <<frames, slot, backup, burst, channel, asn, fellBack>>

AddsLink == pc = "locked" /\ op.kind \in {"add", "refill"} /\ op.l = NoLink

ListAndRelease ==
  /\ AddsLink
  /\ IF FreeBlocks = {}
     THEN pc' = "idle" /\ op' = Nothing /\ UNCHANGED lists
     ELSE \E b \in FreeBlocks :
            /\ lists' = [lists EXCEPT ![op.sf] = Append(@, b)]
            /\ op' = [op EXCEPT !.l = b]
            /\ pc' = "raw"
  /\ locked' = FALSE
  /\ UNCHANGED <<frames, link, slotVars, lockRequested, nbrVars, cut>>
\* The critical section of add_link: a new block is listed, and initialised
\* afterwards.  Without a free block the call fails.
List ==
  /\ AddsLink
  /\ IF FreeBlocks = {}
     THEN locked' = FALSE /\ pc' = "idle" /\ op' = Nothing /\ UNCHANGED lists
     ELSE \E b \in FreeBlocks :
            /\ lists' = [lists EXCEPT ![op.sf] = Append(@, b)]
            /\ op' = [op EXCEPT !.l = b]
            /\ pc' = "raw"
            /\ UNCHANGED locked
  /\ UNCHANGED <<frames, link, slotVars, lockRequested, nbrVars, cut>>

Initialise ==
  /\ pc = "raw"
  /\ link' = [link EXCEPT ![op.l] = op.request]
  /\ locked' = FALSE
  /\ Count(op.request)
  /\ pc' = "idle"
  /\ op' = Nothing
  /\ UNCHANGED <<frames, lists, slotVars, lockRequested, cut>>

\* The critical sections of remove_slotframe, without links by now, and of
\* add_slotframe.
ChangeFrames ==
  /\ pc = "locked" /\ op.kind \in {"addFrame", "removeFrame"} /\ op.l = NoLink
  /\ frames' = IF op.kind = "addFrame" THEN Append(frames, op.sf)
               ELSE Without(frames, op.sf)
  /\ locked' = FALSE
  /\ pc' = "idle"
  /\ op' = Nothing
  /\ UNCHANGED <<lists, link, slotVars, lockRequested, nbrVars, cut>>

\* A packet needs a neighbor, and a neighbor without links and packets is
\* removed: tsch_queue_add_nbr, tsch_queue_free_unused_neighbors.
NbrComes(n) ==
  /\ pc = "idle"
  /\ n \notin nbrs /\ Cardinality(nbrs) < MaxNbrs
  /\ nbrs' = nbrs \cup {n}
  /\ count' = [count EXCEPT ![n] = 0]
  /\ dedicated' = [dedicated EXCEPT ![n] = 0]
  /\ UNCHANGED <<schedVars, slotVars, lockVars, uncounted, procVars, cut>>

NbrGoes(n) ==
  /\ pc = "idle"
  /\ n \in nbrs /\ count[n] = 0
  /\ nbrs' = nbrs \ {n}
  /\ UNCHANGED <<schedVars, slotVars, lockVars, count, dedicated, uncounted,
                 procVars, cut>>

Operation ==
  \/ \E r \in Requests, doRemove \in BOOLEAN : AddLink(r, doRemove)
  \/ \E s \in Handles : \/ AddSlotframe(s) \/ RemoveSlotframe(s)
                        \/ \E l \in Blocks : RemoveLink(s, l)
Finish ==
  LockTake \/ Unlink \/ List \/ Initialise \/ ChangeFrames
Process == Operation \/ Finish \/ \E n \in Unicast : NbrComes(n) \/ NbrGoes(n)

Init ==
  /\ frames = <<>>
  /\ lists = [s \in Handles |-> <<>>]
  /\ link = [b \in Blocks |-> NoRequest]
  /\ current = NoLink /\ backup = NoLink
  /\ slot = "out"
  /\ burst = FALSE
  /\ channel = 0 /\ first = NoSlot
  /\ asn = 0
  /\ locked = FALSE /\ lockRequested = FALSE
  /\ nbrs = {Broadcast}
  /\ count = [n \in Addrs |-> 0]
  /\ dedicated = [n \in Addrs |-> 0]
  /\ pc = "idle" /\ op = Nothing
  /\ fellBack = FALSE /\ cut = FALSE /\ uncounted = {}

Next == Slot \/ Process

Spec == Init /\ [][Next]_vars
-----------------------------------------------------------------------------
(* Properties *)

\* Every variable holds a value of its range.
TypeOK ==
  /\ frames \in Seq(Handles) /\ lists \in [Handles -> Seq(Blocks)]
  /\ link \in [Blocks -> Requests \cup {NoRequest}]
  /\ {current, backup} \subseteq Blocks \cup {NoLink}
  /\ first.l \in Blocks \cup {NoLink}
  /\ slot \in {"out", "tx", "rx"} /\ asn \in 0 .. Cycle - 1
  /\ {burst, locked, lockRequested, fellBack, cut} \subseteq BOOLEAN
  /\ nbrs \subseteq Addrs /\ uncounted \subseteq Addrs
  /\ count \in [Addrs -> 0 .. 255] /\ dedicated \in [Addrs -> 0 .. 255]
  /\ pc \in {"idle", "wait", "locked", "raw"}
  /\ op.request \in Requests \cup {NoRequest} /\ op.l \in Blocks \cup {NoLink}

\* Whenever TSCH is not locked the schedule is whole: no block is listed twice,
\* a listed link carries the handle of its slotframe (its contents are those
\* it was asked for, not those of an earlier use of the block), and only
\* slotframes in the list have links.  An interrupt may look at it any time.
WholeWhenUnlocked ==
  ~locked =>
    /\ \A s \in Handles : \A i \in DOMAIN lists[s] :
         /\ link[lists[s][i]] # NoRequest /\ link[lists[s][i]].sf = s
         /\ s \in Elements(frames)
         /\ \A t \in Handles : \A j \in DOMAIN lists[t] :
              lists[t][j] = lists[s][i] => t = s /\ j = i
    /\ Cardinality(Elements(frames)) = Len(frames)

\* The link of the next slot, or of the slot that runs, is in the schedule,
\* unless a slot took it from the backup link.
CurrentIsScheduled == current # NoLink /\ ~fellBack => Listed(current)

\* A slot that transmits still has its link when it ends, although processes
\* remove links meanwhile: tsch_queue_packet_sent reads its options.
SenderKeepsLink == slot = "tx" => current # NoLink

Earliest(a) ==
  LET ls == Elements(AllLinks) IN {l \in ls : \A k \in ls : TimeTo(a, l) <= TimeTo(a, k)}
\* l comes before k: Tx before others, then the lower handle, and on the
\* same slotframe the one with more packets to send.
Before(l, k, q) ==
  \/ link[l].tx /\ ~link[k].tx
  \/ link[l].tx = link[k].tx /\ link[l].sf < link[k].sf
  \/ /\ link[l].tx /\ link[k].tx /\ link[l].sf = link[k].sf
     /\ q[link[l].addr] > q[link[k].addr]

\* In whatever order links were added, the next active link is one of the
\* earliest, at the right distance, and none of those comes before it; and if
\* it has nothing to send, the slot listens on a link of the lowest handle
\* among those that can receive.
ChoiceIsRight ==
  ~locked => \A q \in PacketCounts :
    LET n == NextActive(asn, q)
        es == Earliest(asn)
        listens == IF GivesWay(n.best, n.backup) THEN n.backup ELSE n.best
    IN IF es = {} THEN n = NothingActive
       ELSE /\ n.best \in es /\ n.time = TimeTo(asn, n.best)
            /\ n.time \in 1 .. Size[link[n.best].sf]
            /\ (asn + n.time) % Size[link[n.best].sf] = link[n.best].ts
            /\ \A l \in es : ~Before(l, n.best, q)
            /\ listens \in es
            /\ \A l \in es : link[l].rx =>
                 link[listens].rx /\ link[listens].sf <= link[l].sf

TxLinks(n) == {l \in Elements(AllLinks) : link[l].tx /\ link[l].addr = n}

\* Between operations a neighbor counts its transmit links, all of them and
\* those that are not shared, unless once there was no room for it: the
\* counters decide which packets may leave on broadcast links and whether
\* the neighbor may be removed.
CountsMatch ==
  pc = "idle" => \A n \in nbrs \ uncounted :
    /\ count[n] = Cardinality(TxLinks(n))
    /\ dedicated[n] = Cardinality({l \in TxLinks(n) : ~link[l].shared})

\* All slots of a burst run the link of its first slot, on the channel that was
\* chosen there, which may be the one its packet asked for: no backup link and
\* no later packet takes over; unless a process removed the link.
BurstKeepsChannel ==
  (burst \/ slot # "out") /\ ~cut =>
    /\ current = first.l /\ channel = first.chan
    /\ slot = "out" => backup = NoLink

\* "A backup link with Rx flag, overlapping with current_link"
\* (tsch-slot-operation.c:165): while no slot runs, the backup link is one
\* of the schedule.
BackupIsScheduled == slot = "out" /\ backup # NoLink => Listed(backup)

\* "Lock TSCH (no slot operation)" (tsch-slot-operation.c:198).
LockExcludesSlots == locked => slot = "out"
=============================================================================
