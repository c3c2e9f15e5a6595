------------------------------- MODULE EasePair -------------------------------
(***************************************************************************)
(* A child and its parent.  Each runs EASE on what it has seen itself: the *)
(* child counts the packets that the parent acknowledged, the parent those *)
(* that it received, and each notices a new slotframe only when it handles *)
(* a packet.  No message carries their predictions.  The child moves from  *)
(* the parent's shared cell to their dedicated cell in the trust that the  *)
(* parent listens there.                                                   *)
(*                                                                         *)
(* Packets are only ever sent in dedicated cell 0, so of the cells on each *)
(* side the model keeps whether there is one.  Quotas depend on the other  *)
(* children of the parent and are any of Quotas.  Frames and               *)
(* acknowledgments may be lost.                                            *)
(***************************************************************************)
EXTENDS EaseCusum, Sequences

CONSTANTS
  Quotas,     \* the quotas that the parent may compute for the child
  MaxTx,      \* max_transmissions
  QueueMax    \* bound of the model on the child's queue to its parent

ASSUME PairAssumption ==
  /\ Quotas \subseteq Nat /\ Quotas # {}
  /\ MaxTx \in Nat \ {0} /\ QueueMax \in Nat \ {0}

VARIABLES
  child,   \* EASE on the child: see Init
  par,     \* EASE on the parent, its entry for the child
  queue,   \* cells of the packets in the child's queue to the parent
  tx,      \* transmissions of the first of them
  heard,   \* whether the parent has received it
  rx,      \* whether a received packet awaits the parent's process
  done,    \* result of a packet that awaits the child's sent callback, or "none"
  left,    \* cells of the slotframe that are still to come
  forgot   \* whether the parent dropped the child since it counted a packet

vars == <<child, par, queue, tx, heard, rx, done, left, forgot>>

Cells == {"shared", "dedicated"}

-----------------------------------------------------------------------------
(* The child *)

\* ease_slotframe_update of the child.  A link is added where the prediction
\* exceeds all that the child has had so far.
ChildUpdate(v) ==
  LET self == Cusum(v.self, v.pkts)
  IN  [v EXCEPT !.self = self, !.pkts = 0,
                !.txLast = v.txThis, !.txThis = FALSE, !.exhausted = FALSE,
                !.link = @ \/ (~v.had /\ self.predicted > 0),
                !.had = @ \/ self.predicted > 0]

\* ease_check_slotframe_boundary
ChildBoundary(v) ==
  [IF v.late /\ v.seen THEN ChildUpdate(v) ELSE v EXCEPT !.late = FALSE, !.seen = TRUE]

SelectedOnceHad(v) == IF v.link /\ ~v.exhausted THEN "dedicated" ELSE "shared"
\* select_packet
SelectedCell(v) ==
  IF v.txLast /\ v.self.predicted > 0 /\ ~v.exhausted THEN "dedicated" ELSE "shared"

\* The child sends a packet to its parent.
Offer ==
  LET v == ChildBoundary(child)
  IN  /\ Len(queue) < QueueMax
      /\ child' = v
      /\ queue' = Append(queue, SelectedCell(v))
      /\ UNCHANGED <<par, tx, heard, rx, done, left, forgot>>

SentOfAnyStatus ==
  LET v == ChildBoundary(child)
  IN  /\ done # "none"
      /\ child' = [v EXCEPT !.pkts = @ + 1, !.txThis = TRUE]
      /\ done' = "none"
      /\ UNCHANGED <<par, queue, tx, heard, rx, left, forgot>>
\* orchestra_packet_sent
Sent ==
  LET v == ChildBoundary(child)
  IN  /\ done # "none"
      /\ child' = IF done = "ok" THEN [v EXCEPT !.pkts = @ + 1, !.txThis = TRUE] ELSE v
      /\ done' = "none"
      /\ UNCHANGED <<par, queue, tx, heard, rx, left, forgot>>

\* Packets to or from other nodes.
ChildOther ==
  /\ child' = ChildBoundary(child)
  /\ UNCHANGED <<par, queue, tx, heard, rx, done, left, forgot>>

\* child_removed on the child, for a child of its own: packets to that one are
\* freed, whose callbacks look for a boundary, and the schedule is rebuilt from
\* the present prediction.
Rebuild ==
  /\ \E v \in {child, ChildBoundary(child)} :
       child' = [v EXCEPT !.link = v.self.predicted > 0]
  /\ UNCHANGED <<par, queue, tx, heard, rx, done, left, forgot>>

-----------------------------------------------------------------------------
(* The parent *)

NewEntry == [c |-> NoPrediction, pkts |-> 0, tokens |-> 1, listens |-> FALSE]

\* ease_slotframe_update of the parent for the child, with quota q; whether the
\* quotas of all children are within the budget decides on the tokens.
ParentUpdate(e, q, within) ==
  LET c == Cusum(e.c, e.pkts)
      p == IF c.predicted > q THEN q ELSE c.predicted
      t == IF within THEN q ELSE p   \* p <= q: the greater or the less of both
  IN  [c |-> [c EXCEPT !.predicted = p], pkts |-> 0,
       tokens |-> IF t = 0 THEN 1 ELSE t, listens |-> e.listens \/ p > 0]

\* ease_check_slotframe_boundary
ParentBoundary(v, q, within) ==
  [v EXCEPT !.late = FALSE, !.seen = TRUE,
            !.entry = IF v.late /\ v.seen /\ v.known THEN ParentUpdate(@, q, within) ELSE @]

Heard(e) == [e EXCEPT !.pkts = @ + 1, !.tokens = IF @ > 0 THEN @ - 1 ELSE 0]

\* orchestra_packet_received: a child that the table does not hold is added if
\* there is room.
Received ==
  /\ rx
  /\ rx' = FALSE
  /\ \E q \in Quotas, within \in BOOLEAN, room \in BOOLEAN :
       LET v == ParentBoundary(par, q, within)
       IN  IF v.known \/ room
           THEN /\ par' = [v EXCEPT !.known = TRUE,
                                   !.entry = Heard(IF v.known THEN @ ELSE NewEntry)]
                /\ forgot' = FALSE
           ELSE par' = v /\ forgot' = TRUE
  /\ UNCHANGED <<child, queue, tx, heard, done, left>>

\* Packets to or from other nodes.
ParentOther ==
  /\ \E q \in Quotas, within \in BOOLEAN : par' = ParentBoundary(par, q, within)
  /\ UNCHANGED <<child, queue, tx, heard, rx, done, left, forgot>>

\* child_added: a route over the child.
Added ==
  /\ ~par.known
  /\ par' = [par EXCEPT !.known = TRUE, !.entry = NewEntry]
  /\ UNCHANGED <<child, queue, tx, heard, rx, done, left, forgot>>

\* child_removed: the last route over the child is gone, and so are its cells.
Removed ==
  /\ par.known
  /\ \E late \in {par.late, FALSE} :   \* freed packets may look for a boundary
       par' = [par EXCEPT !.known = FALSE, !.entry = NewEntry, !.late = late,
                          !.seen = @ \/ ~late]
  /\ forgot' = TRUE
  /\ UNCHANGED <<child, queue, tx, heard, rx, done, left>>

-----------------------------------------------------------------------------
(* Slots *)

\* The first packet of the queue only leaves in a transmit link in its cell.
Fits(cell) ==
  /\ queue # <<>> /\ Head(queue) = cell
  /\ cell = "dedicated" => child.link

\* The own cell of the parent has a permanent link.
Listens(cell) == cell = "shared" \/ par.entry.listens

\* In a shared cell the child may be backing off.
IdleSlot(cell) ==
  /\ cell \in left
  /\ Fits(cell) => cell = "shared"
  /\ left' = left \ {cell}
  /\ UNCHANGED <<child, par, queue, tx, heard, rx, done, forgot>>

\* tsch_queue_packet_sent: an acknowledged packet leaves the queue, another one
\* after MaxTx transmissions.  arrived: whether the parent has it by now.
EndOfTx(acked, arrived) ==
  IF acked \/ tx + 1 >= MaxTx
  THEN /\ queue' = Tail(queue) /\ tx' = 0 /\ heard' = FALSE
       /\ done' = IF acked THEN "ok" ELSE "noack"
  ELSE /\ tx' = tx + 1 /\ heard' = arrived
       /\ UNCHANGED <<queue, done>>

\* The processes handle what a slot left for them before the next cell of the
\* pair, but the slotframe may end in between.
Transmits(cell) == cell \in left /\ Fits(cell) /\ ~rx /\ done = "none"

\* The frame is lost, or the parent does not listen.
LostFrame(cell) ==
  /\ Transmits(cell)
  /\ left' = left \ {cell}
  /\ EndOfTx(FALSE, heard)
  /\ UNCHANGED <<child, par, rx, forgot>>

\* The parent gets the frame and acknowledges it; a duplicate goes no further.
\* ease_do_nack: the ACK tells a child without tokens so.
Delivered(cell, acked) ==
  /\ Transmits(cell) /\ Listens(cell)
  /\ left' = left \ {cell}
  /\ rx' = ~heard
  /\ child' = [child EXCEPT !.exhausted =
                 @ \/ (acked /\ par.known /\ par.entry.tokens = 0)]
  /\ EndOfTx(acked, TRUE)
  /\ UNCHANGED <<par, forgot>>

NextSlotframe ==
  /\ left = {}
  /\ left' = Cells
  /\ child' = [child EXCEPT !.late = TRUE]
  /\ par' = [par EXCEPT !.late = TRUE]
  /\ UNCHANGED <<queue, tx, heard, rx, done, forgot>>

\* The pair meets after slotframe 0, whose number last_asfn does not tell from none.
Init ==
  /\ child = [self |-> NoPrediction, pkts |-> 0, had |-> FALSE, link |-> FALSE,
              txThis |-> FALSE, txLast |-> FALSE, exhausted |-> FALSE,
              seen |-> FALSE, late |-> FALSE]
  /\ par = [known |-> FALSE, entry |-> NewEntry, seen |-> FALSE, late |-> FALSE]
  /\ queue = <<>> /\ tx = 0 /\ heard = FALSE
  /\ rx = FALSE /\ done = "none"
  /\ left = Cells
  /\ forgot = FALSE

Slot(cell) == IdleSlot(cell) \/ LostFrame(cell) \/ \E acked \in BOOLEAN : Delivered(cell, acked)

Next ==
  \/ Offer \/ Sent \/ ChildOther \/ Rebuild
  \/ Received \/ ParentOther \/ Added \/ Removed
  \/ \E cell \in Cells : Slot(cell)
  \/ NextSlotframe

\* Time goes on, polled processes run, the child has traffic, and the channel is not
\* jammed forever: if frames can be delivered again and again, some are.
Fairness ==
  /\ WF_vars(Offer) /\ WF_vars(Sent) /\ WF_vars(Received)
  /\ WF_vars(NextSlotframe) /\ WF_vars(\E cell \in Cells : Slot(cell))
  /\ SF_vars(\E cell \in Cells : Delivered(cell, TRUE))

Spec == Init /\ [][Next]_vars /\ Fairness

-----------------------------------------------------------------------------
(* Properties *)

Predictor == [mu : Nat, s : Nat, predicted : Nat]
Child ==
  [self : Predictor, pkts : Nat, had : BOOLEAN, link : BOOLEAN, txThis : BOOLEAN,
   txLast : BOOLEAN, exhausted : BOOLEAN, seen : BOOLEAN, late : BOOLEAN]
Entry == [c : Predictor, pkts : Nat, tokens : Nat, listens : BOOLEAN]
Parent == [known : BOOLEAN, seen : BOOLEAN, late : BOOLEAN, entry : Entry]

\* Every variable keeps its type.
TypeOK ==
  /\ child \in Child /\ par \in Parent
  /\ queue \in Seq(Cells) /\ Len(queue) <= QueueMax
  /\ tx \in 0 .. MaxTx - 1
  /\ heard \in BOOLEAN /\ rx \in BOOLEAN /\ forgot \in BOOLEAN
  /\ done \in {"none", "ok", "noack"}
  /\ left \subseteq Cells

\* The child has an acknowledgment because of which it uses or may use the
\* dedicated cell.
Trusts ==
  \/ child.txThis \/ child.txLast \/ done = "ok"
  \/ \E i \in DOMAIN queue : queue[i] = "dedicated"

\* The parent listens in the dedicated cell, or will do so with its next update
\* since it has a packet of the child, or it has dropped the child.
Reason == par.entry.listens \/ par.entry.pkts > 0 \/ rx \/ forgot

\* A child that uses or may use the dedicated cell has a reason on the other side,
\* although the two compute from different counts at different times.
TrustHasReason == Trusts => Reason

\* The first packet waits for a cell in which the child no longer transmits: a
\* rebuild came while the prediction was 0, and updates do not add what the child
\* has had before.
Mute == queue # <<>> /\ Head(queue) = "dedicated" /\ ~child.link

\* The parent gets new packets of the child again and again, although it forgets
\* the child, and with it the dedicated cell, at any time and the child is not
\* told.  Only a mute child remains unheard.
GetsThrough == []<>rx \/ <>[]Mute

\* The child does not become mute.
NeverMute == []<>rx

\* The parent listens whenever the child transmits in the dedicated cell.
BothAgree == \A cell \in Cells : Transmits(cell) => Listens(cell)
=============================================================================
