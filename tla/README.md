# Verification of TSCH and EASE in Contiki-NG

This directory models the parts of the repository that make its packets
arrive: the TSCH MAC of Contiki-NG (`os/net/mac/tsch`), the Orchestra
framework that gives it a schedule (`os/services/orchestra`), and EASE
(`os/services/ease`), the autonomous scheduler this repository adds. The
models are TLA+ modules. TLC checks them on small instances; TLAPS proves the
most important properties for all values of the constants. Paths below are
relative to `src/`.

## 1. The system

### Contexts

Two contexts execute the modelled code, on one CPU, without threads:

- the **slot operation**, in interrupt context (rtimer). It preempts process
  code at any instruction. It is a protothread: within a slot it yields (before
  the frame, before the ACK), and process code runs while it waits;
- **processes**, cooperative: one runs to its end before another starts.
  `tsch_pending_events_process` is polled by the slot operation and handles
  what slots have left for it. RPL, 6LoWPAN and the application call into the
  MAC from their own processes, and the MAC calls them back.

They share packet queues (lock-free rings of indexes), the neighbor table and
the schedule (under a global lock that only process code takes, which no
transmission overlaps), and flags.

### Components

| component | state | operations | what makes it correct |
|---|---|---|---|
| ring buffer of indexes, `os/lib/ringbufindex.c` | `put_ptr`, `get_ptr` | peek_put, put, peek_get, get, each interruptible | FIFO; nothing lost, read early or overwritten |
| TSCH queues, `tsch-queue.c`, sending half of `tsch.c` | neighbors with rings, backoff state, pool of packets, ring of sent packets | send, enqueue, remove, flush, report, free, sweep of unused neighbors, change of time source | each packet has one owner, is reported once, is not freed while in use; retries are bounded; queues drain |
| TSCH slots and schedule, `tsch-slot-operation.c`, `tsch-schedule.c` | lock, current and backup link, ASN, links and slotframes | slot start and end, lock, add/remove link, choice of the next link, burst, missed deadlines | no slot while locked; links in use are not freed; link counts match links |
| TSCH association, `tsch.c` | associated, time source, keepalive state, frames and reports that wait for the process | scan, associate, EB, keepalive, resynchronize, parent switch, loss of synchronization, reset | keepalives never stop, only a failing source is given up, a silent one is left, the node rejoins |
| Orchestra, `orchestra.c` | parent's address | packet received, sent, ready; parent, child and neighbor changes | every accepted packet gets a cell that exists |
| EASE predictor, `ease.c:102-130` | mean, cumulative sum, predicted cells | update per slotframe | covers bursts, settles under constant traffic |
| EASE quota, `ease.c:171-206` | interval of prices, quota per child | bisection, cap | finds the price of the budget |
| EASE node, `ease.c`, `ease-rule-dedicated-cell.c` | table of children, own predictor, tokens, flags, links | received, sent, boundary update, add and remove child, parent change, select cell, NACK | links match the counts on both sides, tokens are fair, packets have links |
| EASE pair: a child and its parent | on each side predictor, counts, boundary, links; the child's queue | packets and ACKs that get lost, slots, boundaries noticed at different times | the child only trusts a cell for a reason on the other side, and is heard again and again |
| 6top, `sixtop/` | transaction blocks with a timer, sequence numbers per neighbor | request, response, confirmation, error, MAC callback, timeout | numbers move as both ends expect, responses are not mixed up, every transaction ends |
| RPL, 6LoWPAN, IPv6, neighbor table, CSMA, kernel | | | upstream Contiki-NG, environment of the models |

### How they interact

```
 application, RPL, 6LoWPAN
    | send            ^ sent callback          ^ received frame     | parent, routes
    v                 |                        |                    v
 tsch.c (process) ----+---- sniffer ----> orchestra.c ----> EASE rule ----> ease.c
    | enqueue   ^ ring of sent packets          ^ packet ready: which cell?
    v           |                               |     add / remove link
 tsch-queue.c --+--> tsch-slot-operation.c <--- tsch-schedule.c
                        (interrupt)  asks ease_do_nack before an ACK
```

A packet is sent as follows. `send_packet` asks Orchestra for a cell
(`select_packet` of the EASE rule), enqueues the packet in its neighbor's ring
and sets its header length. In a slot whose link fits, the interrupt takes the
head of the ring, sends it, removes it from the ring when it is done with it,
and puts it into the ring of sent packets. The process reports it to its
sender and frees it. Both the received and the sent callback pass through
Orchestra's sniffer into EASE, which counts, notices slotframe boundaries and
then predicts, caps, refills tokens and adds links.

### What is hard about it

- *Interleaving.* The interrupt may come between any two pointer accesses of
  a ring, between publishing a packet and completing it, between test and
  take of the lock.
- *Long slots.* A slot holds a packet and a neighbor across two yields, while
  a process may flush that neighbor's queue: for a new parent, a removed child
  or when the node leaves the network.
- *State kept twice.* EASE has links, counts of links, predictions and a
  static maximum, which incremental updates and full rebuilds change
  differently; packets in a queue carry a choice of cell from earlier.
- *Agreement without messages.* A parent and its child compute the same cells
  from what each of them has seen.
- *Boundaries.* Integer arithmetic in hundredths, a bisection with a fixed
  number of steps, tables and rings of fixed size.

`PROJECT.json` lists each such hazard at its line, with the properties that
address it or the reason why none does yet.

## 2. The modules

| module | models | relation to others |
|---|---|---|
| `FifoChannel` | what a queue with peek promises | abstract specification |
| `RingBufIndex` | `ringbufindex.c`, one producer, one consumer, each access a step | implements `FifoChannel` |
| `TschQueue` | `tsch-queue.c`, transmit slots, the lock, sent packets | takes rings as sequences, which `RingBufIndex` justifies |
| `EaseQuota` | demand, price interval, quota: operators | used by `EaseBisection`, `EaseNode` |
| `EaseBisection` | the search loop, one step per iteration | the loop that `Quota` runs as a whole |
| `EaseCusum` | the predictor: operators | used by `EasePredictor`, `EaseNode`, `EasePair` |
| `EasePredictor` | one predictor under any traffic | |
| `EaseNode` | all of EASE on one node | composes `EaseCusum` and `EaseQuota` with table, tokens, links, packets |
| `EasePair` | EASE of a child and of its parent, the slots and the lossy link between them | composes two predictors of `EaseCusum` with the queue of the child |
| `TschSchedule` | `tsch-schedule.c` and the loop of the slot operation | refines what `TschQueue` leaves open: which link a slot has |
| `TschAssoc` | `tsch.c` without its sending half, `tsch-rpl.c` | takes keepalives through queues and rings, which the modules above have in detail |
| `SixpTransaction` | `sixp.c`, `sixp-trans.c`, `sixp-nbr.c` on every node | |
| `RingBufIndexProofs`, `TschQueueProofs`, `TschScheduleProofs`, `TschAssocProofs`, `SixpTransactionProofs`, `EaseBisectionProofs`, `EaseNodeProofs` | theorems about the module of that name | section 4 |
| `EaseCusumProofs` | theorems about `EasePredictor` and `EasePair` | what rests on `EaseCusum` |
| `MC*` | constants and symmetry for TLC | |

Some definitions come right before the one they resemble, with a suffix like
`Unmasked` or `Twice`. They are plausible bugs: each property is shown to fail
if the definition is replaced by such a variant (`mutants` in `PROJECT.json`).

### RingBufIndex

`put_ptr` and `get_ptr` are the pointers of the code; `array` is the array of
the ring's user. Producer and consumer follow the protocol of all users in
`tsch`: peek, work on the slot, then put or get. `put` and `get` are two steps
each, the test and the store, because the other context may run in between.
Indices wrap modulo `Size`, which in the code is a power of two and a mask;
one slot stays free. `Fairness` is weak fairness of the consumer: a polled process runs
until the ring is empty (`tsch.c:975-998`). The producer needs none.

### TschQueue

Queues, backoff windows and exponents, the pool of packet blocks, the ring of
sent packets, the lock and its request, the slot with its current packet,
neighbor and link, and the control state of the process that runs. A slot is
two atomic steps, its start (choose link, packet, neighbor) and its end
(remove or keep, back off, hand over), between which a process may run. The
process's operations are cut where an interrupt can change what they rely on:
`tsch_get_lock` is test, request, wait and take; `send_packet` is add neighbor,
enqueue and set the header length; a removal flushes after it has released the
lock, as the code does. `MayFlush` allows the three flushes that take no lock:
the time source changes (`UpdateTimeSource`, `SetTimeSource`), the scheduler
drops its packets to a neighbor (`FreePacketsTo`, for EASE when a child is
removed), or the node leaves the network (`LeaveNetwork` and the steps of
`tsch_reset`, whose progress is `leaving`). The scheduler may give a packet any
of `Cells`, also a timeslot in which no link to its neighbor can transmit: that
is what EASE does to a packet after a rebuild and to packets to children
(`EaseUpward`, `EaseDownward` below). Such a packet blocks its queue (`Stuck`),
and `QueuedSettled` says that it blocks nothing else.

`Fairness`: operations of the process go on and started slots end (weak);
reports of sent packets happen and each link's slots recur (strong: a link that
can transmit, or pass a backoff slot, again and again does, since its timeslot
comes with every slotframe and a poll is served before other events,
`process.c`). The radio may fail always or never: nothing is assumed about
acknowledgements.

### EaseQuota, EaseBisection

`EaseBisection` runs the loop of `ease.c:182-196` for each number of children
and each budget. All children have the same weight in the code, so its loop
over children is a product. The machine and the operator `Quota` that
`EaseNode` uses share their first interval, their step and the demand.

### EaseCusum, EasePredictor

`Cusum` is `ease_cusum_update`, in the code's integers (hundredths of a
packet). The inline copy for the node's own traffic (`ease.c:146-164`) is the
same operator. `EasePredictor` feeds it any sequence of demands, and after
`Settle` a constant one; the quota caps the prediction as step 4 does.
Fairness: as long as there is traffic there are slotframe updates.

### EaseNode

The callbacks run in process context, one after the other, but the interrupt
comes anywhere: it reads tokens before an ACK (`DoNack`), sends packets, sets
the flag of the budget, and the slotframe number advances. So a callback is cut
before and after each store that the interrupt may see. An update counts and
caps (`CheckBoundary`), then stores the tokens child by child (`FillTokens`),
which are 0 for a moment if quota or prediction is 0, until the floor
(`RaiseTokens`), and then adds cells (`EndUpdate`). A new child is in the table
(`AddChild`) with the tokens of an earlier use of its entry before it is
initialised (`Introduce`); the history `spent` says whether an entry without
tokens may be free. A flush drops packets one by one (`DropPacket`, `EndDrop`).
`pc`, `op`, `todo`, `now`, `at` say where the callback is and what it does; an
entry's `heard` is a history, a packet of the child was counted since its tokens
were filled.

The state of EASE is one record, `node`, and each function of the code an
operator from records to records, composed in the order of the code.
`node.have` is the static variable `self_have`, `node.last` is `last_asfn`
with 0 for *none seen*, `node.links` the links of the slotframe. Packets that
await their slot are in `queued` with the cell that was chosen for them.
`SlotSends` is the slot, possible only with a transmit link in that cell;
`PacketSent` is the callback that follows later, when the parent may have
changed and slotframes may have passed (the model has at most one such packet,
in `sent`). A parent change or the loss of a child frees the packets to it, whose sent
callbacks may themselves run a slotframe update, before the rebuild: the model
has the same order.

A cell is named by what its timeslot and channel are hashed from. So different
cells are different timeslots, which the hash does not promise. The pool of
links is taken as large enough. `orchestra_parent_knows_us` is left out, since
nothing in EASE reads it. What the interrupt sees inside a rebuild is left to
`TschSchedule`: here links change in one step, so the properties of links hold
between the steps of callbacks. Between `ease.c:75` and the copy of the address
in the next line the entry of a new child has the address of its former one,
which is left out too.

### EasePair

Two nodes, each with the EASE of its own: `child` has the child's own
predictor, counts, fairness flags, what `self_have` remembers (`had`) and
whether the transmit link exists; `par` has the parent's entry for the child.
Nothing but packets and ACKs passes between them. The child counts what was
acknowledged (`Sent`), the parent what it received (`Received`), both with the
boundary check before it; `late` and `seen` are the two comparisons of
`ease_check_slotframe_boundary`, so several missed boundaries are one. A
slotframe has the two cells of the pair in any order; the slots between them
are time in which everything else may happen. `LostFrame` and `Delivered` with
and without ACK are the outcomes of a transmission; a packet that comes again
is acknowledged and dropped, as the MAC does. The parent may forget the child
at any time (the last route over it goes, `Removed`) or have no room for it.

Three reductions. Packets to the parent are only ever put into dedicated cell
0 (`ease-rule-dedicated-cell.c:207`), so the number of cells matters only as
being positive. The quota, which depends on the parent's other children, is
any of `Quotas` at each update. The run takes threshold and rho 0, so a
prediction follows the last count at once: the fastest the two predictors can
drift apart. `TrustHasReason` is proved for all thresholds and any rho below
100. Left out is a change of the child's parent, which `EaseNode` has.

`Fairness`: slotframes follow each other, slots and polled processes run, and
the child goes on sending (weak); if frames can be delivered and acknowledged
again and again, some are (strong): the channel is not jammed for ever.

### TschSchedule

The slotframes and links of `tsch-schedule.c` with the counters of links that
neighbors keep, and the loop of `tsch_slot_operation`. Operations of processes
are cut where the lock is asked for, taken and given back, and between listing
a new link and initialising it (`raw`), since an interrupt may come there. A
slot is its start and its end, as in `TschQueue`. `NextActive` is
`tsch_schedule_get_next_active_link`, evaluated for any choice of neighbors
with packets. `Without` is `list_remove` (`list.c:133`), which takes out an
element once. A missed deadline skips to a later link. A slot runs on the
channel offset of its link, or with a link selector (as EASE and Orchestra need)
on the one its packet asks for (`ChannelOffset`), and a burst keeps both link
and channel. The ASN counts modulo a common multiple of the slotframe sizes.
The history `first` is the link and the channel with which a burst began; other
histories (`fellBack`, `cut`, `uncounted`) tell the properties which of the
code's known exceptions has occurred.

### TschAssoc

A node that is not the coordinator. `node` is the state of `tsch.c`; each
handler of the three processes is one action, each slot two around its wait
for the ACK. Interrupts only request keepalives that are not immediate, set
flags and append to rings, so a handler may be taken as one step. Only
keepalives are followed through queues: `node.queue` counts them per neighbor,
`air` is the one that a slot has sent, `node.done` the ring of sent packets,
`node.input` the ring of received frames. `Disassociate` polls the process
once, as the code does. A poll is taken back before the process runs (`do_poll`,
`process.c:245`), so a keepalive that is requested inside a handler lets it run
once more.
Configuration: RPL chooses the time source, and the scheduler drops packets to
the old parent. Left out: the coordinator, the process that sends EBs,
`tsch-adaptive-timesync.c`, join priorities and clock arithmetic (`age` is
fresh or old).

`Fairness` is weak: polled processes, timers, slots and time go on, and a scan
hears an EB eventually if somebody still sends them. Nothing is assumed of RPL
or the radio.

### SixpTransaction

Blocks of `trans_memb` with state, peer, number, command and ctimer; the MAC's
queue per neighbor; what each node heard and has not handled. The address of a
block is the argument of the MAC callbacks of its frames, so a late callback
may meet a block that was freed or serves another transaction. `SendRequest`, `SendResponse` and
`SendConfirmation` are `sixp_output` for the scheduling function, which chooses
freely; `Input` is `sixp_input` with its error answers; `ProcessTrans` and
`Timeout` are the two uses of the ctimer. Frames keep their order and may be
lost, with or without an ACK; MAC queues refuse frames when full; nodes of
`Unstable` may be power-cycled. Return codes of responses do not change state
and are left out, as are frames that fail to parse.

`Fairness`: a ctimer that is set expires and its handler runs. Nothing is
assumed of the MAC or the peer.

## 3. What the runs check

All pass unless noted. Each takes between seconds and two and a half minutes.

| run | question | bounds |
|---|---|---|
| `ring` | is the ring a FIFO channel under any interleaving? | 4 slots, 2 values |
| `queue` | without flushes that take no lock: locks, owners, heads; which queued packets are settled? | 2 neighbors and broadcast, 2 packets, with and without a timeslot that serves only one neighbor, 2 transmissions, exponents 0 and 1, sent ring of 1 |
| `queue_reparent` | is the neighbor of a slot kept when a queue is flushed without the lock? | as `queue`, 1 packet, sent ring of 2 |
| `queue_flush` | violation, see below | |
| `bisection` | does the loop find the price of the budget? | 1 to 30 children, 9 budgets, the project's constants |
| `predictor` | does the prediction settle? | the project's constants; demands 0, 1, 7; quota 5 |
| `node` | do links, counts, tokens and packets stay consistent? | 2 peers, 3 slotframes, 1 packet of each child and 1 of the node itself per slotframe, 1 packet in the queue and 1 awaiting its callback, budget 1, threshold 100 and rho 50 |
| `pair` | what may a child rely on, and is it heard? | threshold and rho 0, quota 1, 2 transmissions, 1 packet in the queue; time unbounded |
| `schedule` | is every slot given the right link, and are links whole, counted and kept? | 2 slotframes of 1 and 2 slots, 2 blocks of links, 3 links to add and remove, 2 neighbors; packets ask for another channel offset than their link's |
| `schedule_backup` | violation | as `schedule` |
| `sixp` | sequence numbers, mixed-up responses, termination | 2 nodes that ask each other and 1 out of reach, 1 block, numbers up to 2, queues of 2 frames, 2 requests, 1 power cycle |
| `assoc` | following, leaving and rejoining | 2 neighbors, 2 keepalives per queue, rings of 1, 1 parent change, 1 neighbor that falls silent |

Why the bounds suffice. *Ring:* four slots hold three elements; pointers wrap,
the ring gets full and empty, and both sides can be one step from each other.
*Queue:* every hazard needs at most one slot, one process operation and two
packets; a sent ring of one element is full after each packet, which makes
`SlotTxStart` refuse. *Bisection and predictor:* the project's own constants
(`examples/6tisch/ease-node/project-conf.h`), demands on both sides of the
threshold, a demand above the quota. *Node:* lower constants than the
project's (500, 80) make predictions rise and fall within three slotframes, so
that children have more cells than predicted, quotas shrink when a second
child comes, and rebuilds happen in all these states. A budget of one cell gives
two children the quota 0, whose tokens are then stored as 0. Two peers are needed for
quotas that differ and for a child that becomes the parent. Peers are
interchangeable, hence the symmetry in `MCEaseNode`. *Pair:* nothing counts
slotframes, so the 132,704 states are all of any length; predictions rise and
fall within one slotframe, and one packet suffices since only the head of a
queue is sent (the theorem has any queue). *Schedule:* links that replace each
other in a timeslot, overlap in and across slotframes, come with each
combination of options that comparisons look at, and exhaust the pool. Blocks
are interchangeable. *6top:* each hazard is about two transactions of one pair
and a block that is reused; the request to the node out of reach occupies the
only block of `b` when a request arrives. *Association:* a keepalive that was
sent to a former source, one queued for the present one, and a further
session all exist at once with these bounds; rings of one element are full
after each frame. `CHECK_DEADLOCK FALSE` is set where the model stops at a
bound (bisection, node, 6top).

### What the properties say

- `PeekHolds`: neither context works on a slot of the ring that belongs to the
  other, and the ignored results of `put` and `get` are always successes.
  `ImplementsChannel` is the refinement, `HeadRemoved` its progress.
- `TxExcludesLock`: no transmission overlaps the lock. A *receive* slot may
  (`tsch-slot-operation.c:1059` tests the request only), so the property does
  not say more than the code ensures.
- `HeadTransmitted`, `OneOwner`, `CalledOnce`: a packet is removed from the
  ring by the slot that sent it, has one owner, and is reported once.
  `NeighborKept` holds also with the flushes that take no lock. `QueuedSettled`
  is liveness: every queued packet is sent or given up and its block comes
  back, but for the packets behind a head that no link serves.
- `Bracketed`, `LeastPriceFound`, `OvershootBounded`: the loop invariant of the
  bisection, that the price is optimal after 16 iterations, and how far the
  quotas can be off.
- `Settles`: under constant traffic the prediction ends at the traffic or one
  above, or at the quota.
- `ListensAsCounted`, `NeverDoubled`, `CellsCoverPrediction`: incremental and
  full construction of links agree, the first two but for a callback that removes
  a child and has not rebuilt yet, the third outside an update. `SendsToParent`, `QueuedForNeighbor`: no
  links and no packets remain for a former parent. `NackOnlyAfterPacket`:
  wherever the interrupt comes, no child is refused before a packet of it was
  counted since its tokens were filled, but in two moments in which its entry is
  being written (`ease.c:230-236` and `ease.c:75-82`), see `EaseNodeRace.cfg`.
- `TrustHasReason`: whenever the child uses or may use the dedicated cell, the
  parent listens there, or has a packet because of which its next update makes
  it listen, or has dropped the child meanwhile. The chain behind it crosses
  both nodes: flag of the last slotframe, acknowledgment, reception, count,
  prediction, cell. `GetsThrough`: the parent hears the child again and again
  although it may forget the child at any time and no one tells the child: a
  packet that fails takes the flag away and the child returns to the shared
  cell. The exception is a child that has become mute, see below.
- `WholeWhenUnlocked`, `CurrentIsScheduled`, `SenderKeepsLink`: an interrupt
  never meets a half-built schedule outside the lock, and the link of a slot is
  one of the schedule; a sender has its link until it is done with it.
  `ChoiceIsRight` compares the loop over links with a declarative definition of
  the best link. `CountsMatch`: the counters that decide on sweeps of neighbors
  and on broadcast slots agree with the links. `BurstKeepsChannel`: all slots of a
  burst run the link of the first on the channel that was chosen there, also if a
  later packet asks for another channel offset.
- `KeepaliveGoesOn`: one variable, written by interrupt, RPL and failures and
  consumed by a handler, carries the request for the next keepalive; the chain
  never breaks while there is a time source. `FailureOfSourceItself`: a late
  failure does not make the node leave a source that RPL has chosen since.
  `SilentSourceLeft`, `Rejoins`: liveness, also when the node leaves with work
  in flight.
- `NextSeqnoMoved`, `ResponseOfRequest`, `TransactionEnds`: the number of the
  next request has moved past a transaction as long as it lasts; a response is
  taken for what it answers, where only one side asks; each transition leaves a
  timer.

### Disagreements found

Two have runs that expect a violation:

1. `queue_flush` - `tsch_queue_free_packets_to`, on a parent change or when a
   child is removed, and `tsch_queue_reset`, when the node leaves the network,
   free packets without the lock; a slot that is transmitting one uses it after
   it was freed.
2. `schedule_backup` - `tsch_schedule_remove_link` forgets `current_link` if it
   is the removed link, but not `backup_link`, which the next slot may switch
   to although its block is free or serves another link.

For the others there are configurations to run by hand
(`tlc -config <cfg> <module>`), each with one property that fails:

| configuration | module | property | what it shows |
|---|---|---|---|
| `TschQueueHeader.cfg` | `MCTschQueue` | `HeaderKnown` | a packet is visible to slots before its `header_len` is set (`tsch.c:1161`) |
| `EaseBudget.cfg` | `EaseBisection` | `WithinBudget` | the final price is the middle of an interval of two prices, which rounds to the end that exceeds the budget |
| `EaseNodeRace.cfg` | `MCEaseNode` | `NackAlwaysEarned` | an ACK may refuse a child that has sent nothing: if the interrupt finds the tokens stored as 0 before they are raised to 1 (`ease.c:230-236`), or the entry of a new child with the 0 tokens of a former one (`ease.c:75-82`) |
| `EaseUpward.cfg` | `EaseNode` | `UpwardServed` | `self_have` keeps the most transmit cells ever had, while a rebuild adds those of the current prediction only: after a rebuild at prediction 0 a packet is given a dedicated cell without a link. With the project's rho of 80 the mean needs 13 idle slotframes to fall to 0; the configuration takes rho 20 to be short |
| `EaseDownward.cfg` | `EaseNode` | `DownwardServed` | the rule accepts packets to children and names their receiver-based cell, in which the node never has a transmit link |
| `EasePairMute.cfg` | `EasePair` | `NeverMute` | the consequence of the third: the packet stays at the head of the child's queue and blocks it for good, although the rebuild means to "Re-add existing dedicated TX cells toward parent" (`ease-rule-dedicated-cell.c:177`) |
| `EasePairCrowded.cfg` | `EasePair` | `TrustHasReason` | with quota 0 (so many children that the budget has no cell for each) the child goes on trusting a cell in which the parent never listens |
| `EasePairAgree.cfg` | `EasePair` | `BothAgree` | the child transmits where the parent does not listen, although its predictor "mirrors parent's prediction" (`ease.c:145`): counts are taken at different times, and only the parent's is capped |
| `TschScheduleLock.cfg` | `MCTschSchedule` | `LockExcludesSlots` | "Lock TSCH (no slot operation)" (`tsch-slot-operation.c:198`) does not exclude slots: a slot that starts after the lock was taken finds no request any more (`tsch-slot-operation.c:1059`) and receives |
| `SixpDelayed.cfg` | `MCSixpTransaction` | `NoDelayedResponse` | when both nodes ask, answering the peer sets `next_seqno` back (`sixp-trans.c:272`), so that the delayed response of an earlier request is taken for that of the next, which `sixp.c:497-501` says the early increment prevents |

Observed while modelling, without a property:

- cells given under a larger quota stay, so that the cells of all children may
  exceed the budget that quotas respect; dedicated cells with an index above 0
  are listened to but never used to send;
- `TSCH_CALLBACK_EACK_NACK_RECEIVED`, by which a child learns that its budget
  is exhausted, is defined by `benchmarks/run_evaluation.py` only, not by
  `examples/6tisch/ease-node/project-conf.h`;
- `tsch_set_coordinator` clears `tsch_is_associated` without polling
  `tsch_process` (`tsch.c:170`); `sync_count` counts received frames only;
  `resynchronize` may pick the source that has just failed if RPL had switched
  to the sender of the last EB;
- the state `SIXP_TRANS_STATE_WAIT_FREE` is not reached, contrary to the
  comment at `sixp-trans.c:188`, since a timed-out transaction is TERMINATING by
  the time it is freed; after a first request that the peer never heard, the
  next one is answered as an inconsistency; a response that could not be sent
  cannot be sent again.

## 4. What is proved

TLAPS checks these theorems for all constants that satisfy the `ASSUME`s of
the modules (the ring has at least two slots, bounds are natural numbers, null
values are not real values, no node hears itself, and so on). A theorem that
needs more states it as a hypothesis:

| hypothesis | where | why the code has it |
|---|---|---|
| `~MayFlush` | four theorems of `TschQueueProofs` | a period in which the parent stays, no child is removed and the node stays in the network; `queue_flush` shows that they fail otherwise |
| `EnoughIterations`: children * weight * scale <= 2^iterations | `FindsLeastPrice`, `OvershootAtMostOne` | 10 * 1 * 1000 <= 2^16 (`ease-conf.h`). It would not hold with `EASE_CONF_MAX_CHILDREN` above 65 |
| `FineSteps`: (cells + 1)^2 <= weight * scale | `OvershootAtMostOne` | 11 * 11 <= 1000 |
| `Budget # 0` | `PredictionsHaveCells`, `NodeTypeCorrect` | the budget is 20 by default; a budget of 0 switches quotas off (`ease.c:179`), and predictions are not capped then |
| `FewLinks`: at most 255 links | `CountersMatch` | the counters are bytes; the pool has 32 links by default |
| `NoRepetition`: no more requests than numbers | `ResponsesMatch` | numbers are bytes, so the 256th request has the number of an earlier one |
| rho below 100, no quota of 0 | `TrustIsJustified` | rho is 80; `EasePairCrowded` shows quota 0 |

**RingBufIndexProofs.** The inductive invariant says what each side knows
between its test and its store: the producer's slot is outside the window of
occupied slots, the consumer's is its first element, although the other pointer
moves. From it: `TypeCorrect`, `PeekIsGood`, `NeverOverwrites`,
`NeverReadsStale`. `RingImplementsChannel` is step simulation: the window of
the ring, read as a sequence, is the abstract queue (`PutAppends`,
`GetRemovesHead`).

**TschQueueProofs.** `Inv` adds to the types what the process knows at each
step. The heart is the removal of a neighbor: its queue is empty when the sweep
looks, only the process adds packets, so no slot can choose it any more, and a
slot that had chosen it before ends before the lock is taken. That gives
`NeighborOutlivesSlot`, also when queues are flushed without the lock. `LockExcludesTransmission`,
`WindowsFit`, `TypeCorrect` come from the same invariant.

`OwnerInv` describes ownership without such flushes: a block is allocated
exactly when a queue or the ring of sent packets holds it (`AllocInv`), each
list has a block once and no two lists share one (`DistinctInv`), only neighbors
of the table have packets and a transmission has room in the ring (`TableInv`),
and the blocks that were reported are the free ones and the one the process is
about to free (`ReportInv`). A block that moves
from a queue to the ring in one step of the slot stays in exactly one place.
From it `EveryPacketOwned`, `CalledBackOnce` and `NeverFreedInSlot`; the last
says that the three flushes are the only ways to what `queue_flush` shows. `HeadIsTransmitted` has the same hypothesis.

**EaseBisectionProofs.** `AlwaysBracketed` is the loop invariant for any
weight, scale, budget and number of children; `TypeCorrect` includes that no
iteration divides by zero. `SearchInv` bounds the width of the interval after
`i` iterations by `2^(Iterations - i)`; at the end the ends are equal or next
to each other (the middle then rounds to the lower one), and since a higher
price never raises the demand (`DemandFalls`) the upper end is the least price:
`FindsLeastPrice`. `OvershootAtMostOne`: prices next to each other differ by at
most one cell in what a child demands, where the demand is below the limit of
cells. `LoopComputesQuota` ties the loop to the recursive operator `Quota`, by
which `EaseNode` takes it as one step.

**EaseCusumProofs.** `AlwaysBounded` bounds mean, sum and prediction of one
predictor for any threshold, rho, quota and traffic by the largest demand, so
the 16 and 32 bit fields of the code do not overflow for any traffic a
slotframe can carry. `TrustIsJustified` is about two: `TrustHasReason` for any
threshold, any rho below 100, any set of positive quotas and any queue. The
arithmetic is `CusumPositive`: after a slotframe with a packet the mean is
positive, since the new demand keeps a share of it, and so is the prediction; a
positive quota leaves it so, hence the parent listens. Each step then keeps the
property together with the types: what makes the child trust is an
acknowledgment, and whoever acknowledged has received. With rho 100 the mean
would forget nothing: packets below the threshold leave it, and the prediction,
at 0.

**EaseNodeProofs.** The invariants are predicates of the record `node`; one
lemma per operator says what it preserves, and one per action puts them
together. `Inv` needs three parts: the shape of the table (so that an update of
an entry is an update), `Leads` (each link has its direction, the shared one is
the parent's), `Earned` (a child without tokens has sent a packet, but for the one
whose entry is being written). To these come where a callback may be
(`Flow`, `Tasks`) and whose packets are queued (`Addressed`: a removed child's
are, until its callback has dropped them). Results:
`LinksLeadToParent`, `NoEarlyNack`, `NoOrphanPackets`.

`Inv2` is about the cells. Its parts are the types of the table, with the
number of children as the cardinality of its entries; `Covers` (predictions
within quota and cells); and `Linked` (the receive links are the node's own
cell and, for each child, the cells up to its count, the links toward the
parent are among the first `have`, and nothing was added twice). An update
raises the count of a child and adds exactly the links between the old and the
new count, so the two stay equal; a rebuild starts from no links and adds them
all. Inside a callback two things run ahead, which `Holds` says step by step: an
update has its new predictions before the cells for them, when only `Capping` and
`Roomy` are left of `Covers`, and the cells of a removed child keep their links
until the rebuild, so `Linked` waits for it; a child that is being added is not
counted yet (`Shown`) and has no cells. `Quota` is shown to be a number of cells by induction over the iterations.
Results: `ListensToItsCells`, `AddsNewLinksOnly`, and with a budget
`PredictionsHaveCells` and `NodeTypeCorrect`.

**TschScheduleProofs.** `SenderAlwaysKeepsLink`: links are removed under the
lock, which is taken only when no slot runs, and a slot that starts while TSCH
is locked is given no packet to transmit.

`Whole` describes the lists also inside operations: no block is listed twice,
every listed block is initialised, except the one that an operation has listed
and not initialised yet, and what an operation has remembered from before it
asked for the lock (the link to remove, the slotframe to add to) is still true
when it has the lock, since only one process runs. It gives `AlwaysWhole`.
`ChoiceIsAlwaysRight` is an induction over links and slotframes: after each
link the best one and the backup so far are the right ones of the links seen
(`Found`), where the comparator's preference must be shown to be transitive and
the backup to survive when the best link changes. `SlotInv` then says where the
slot operation's links come from, and that a burst
is still at the link and channel of its first slot, whichever channels packets
may ask for; it gives `AlwaysScheduled` and `BurstsKeepChannel`. `CountInv`
equates the counters of a neighbor with the cardinality of the set of its links, in the middle of operations too, and says that an address
without a neighbor has no links: `CountersMatch`.

**TschAssocProofs.** Every report of a keepalive requests the next one, or
turns to another source and requests one there; what is left to the process
always has its poll (`Polled`); and the ring has room for what the slot will
report (`Fits`). So the chain of keepalives could only break inside a handler,
and `PendingEventsFacts` goes through the frames, the reports and the request
that it may find there. `KeepalivesGoOn` and `TypeCorrect` follow from that
invariant; `OnlyFailuresOfSource` is an action property: the source stays the
same report by report unless the report is of its own failure.

**SixpTransactionProofs.** The invariant is a predicate of the sequence numbers
and the blocks of one node: at most one transaction per peer (`OnePerPeer`),
and the number of the peer is past that of a transaction the node asked for
(`Numbered`); with the frames that are under way, of which a request names its
sender. A step changes one node, so there is one lemma for a new transaction
and one for a change of an old one. Results: `SeqnoStaysMoved`,
`OneTransaction`, `AssertionHolds` (the `assert` at `sixp-trans.c:267`) and
`BlocksAreNotKept` (`WAIT_FREE` is unreachable, see above). For
`ResponsesMatch`, `SeqnoInv` collects the numbers that are anywhere between two
nodes of which one asks, in queues, in the air and in blocks: all belong to
requests the asking node has made, and no two requests share one. A request
adds a number that is new; every other step only moves or drops some.

Induction. The library's induction theorems take an operator as a parameter,
which none of the provers at hand can instantiate. Where a proof needs
induction it uses `Induction`, a lemma about *sets* of natural numbers derived
from the well-foundedness of the subset relation on finite sets, and shows that
the recursive function it is about exists (`...Unfold`). What the theorems say
of recursive functions rests on that.

Only model-checked:

- liveness (`HeadRemoved`, `QueuedSettled`, `Settles`, `GetsThrough`,
  `SilentSourceLeft`, `Rejoins`, `TransactionEnds`), since the provers
  installed here have no rules for fairness and ENABLED.

## 5. What is not modelled

- the coordinator, the process that sends EBs, `tsch-adaptive-timesync.c`;
- scheduling functions on top of 6top, which choose freely;
- clock drift, timing inside a slot, radio and frame formats: real time and
  bits, not states;
- hash functions of cells: `EaseNode` and `EasePair` take distinct cells as
  distinct slots. Which addresses collide is a matter of data. EASE adds its
  links with `do_remove` 0, so a cell that collides is added beside the first, and
  the choice among links of one timeslot, which `TschSchedule` has, decides;
- the neighbor table (`nbr-table.c`), taken as sets that are large enough, and
  the kernel's processes and timers, of which the models use that process code
  is not preempted by process code and that polls and timers are served;
- CSMA, RPL, 6LoWPAN, IPv6, TCP, applications, drivers and platforms: upstream
  Contiki-NG, unchanged for EASE; their calls are free choices in the models.

The repository is a whole operating system; what is modelled is the MAC, its
schedule and EASE, a small share of its lines.

## 6. Further work

- The theorems of `TschQueueProofs` with flushes that take no lock, weakened by what the
  flush may do: which packets are freed under a slot, and that nothing else is
  affected.
- `ResponsesMatch` when both nodes ask, with the responses excepted that
  `SixpDelayed` shows; and after numbers repeat, under a bound on the delay of
  frames.
- `EasePair` with a change of the child's parent, and with cells that collide.
