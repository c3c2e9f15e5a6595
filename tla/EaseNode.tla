------------------------------ MODULE EaseNode ------------------------------
(***************************************************************************)
(* EASE on one node: the callbacks that Orchestra makes (orchestra.c), the *)
(* table of children and its update at slotframe boundaries (ease.c), and  *)
(* the links and the choice of a cell for a packet                         *)
(* (ease-rule-dedicated-cell.c).                                           *)
(*                                                                         *)
(* The callbacks run in process context, one after the other, and the      *)
(* interrupt comes anywhere in between: it reads the tokens of a child     *)
(* (DoNack), sets the flag budget_exhausted_by_parent, sends a packet, and *)
(* the ASN advances.  So a callback is cut before and after each store     *)
(* that the interrupt may see: the tokens of a child, which may be 0 for a *)
(* moment, the entry of a new child, listed before it is initialised, and  *)
(* the packets that it drops.                                              *)
(*                                                                         *)
(* The state of EASE is the record node; the functions of the code that a  *)
(* callback calls are operators from record to record.  A cell is named by *)
(* what its timeslot and channel are hashed from; different cells are      *)
(* taken to be in different timeslots.                                     *)
(***************************************************************************)
EXTENDS EaseCusum, EaseQuota, FiniteSets, FiniteSetsExt

CONSTANTS
  Self,         \* linkaddr_node_addr
  Peers,        \* the other nodes in radio range
  NoAddr,       \* linkaddr_null
  MaxChildren,  \* EASE_MAX_CHILDREN
  Budget,       \* EASE_RDC_BUDGET_PCT * EASE_UNICAST_PERIOD / 100
  FirstAsfn,    \* the slotframe in which the node starts EASE
  LastAsfn,     \* bound of the model on the slotframe number
  MaxPkts,      \* bound of the model on packets of a child per slotframe
  MaxOwn,       \* bound of the model on packets to the parent per slotframe
  MaxQueued     \* bound of the model on packets that await their slot

ASSUME NodeAssumption ==
  /\ Self \notin Peers /\ NoAddr \notin Peers \cup {Self}
  /\ MaxChildren \in Nat /\ Budget \in Nat
  /\ MaxPkts \in Nat /\ MaxOwn \in Nat /\ MaxQueued \in Nat
  /\ FirstAsfn \in Nat /\ LastAsfn \in Nat

VARIABLES
  node,    \* what EASE keeps: see Init
  asfn,    \* ease_get_asfn
  routes,  \* external: the neighbors in nbr_routes
  queued,  \* the packets that await their slot: destination and cell
  sent,    \* the destinations of packets that await their sent callback
  pc, op,  \* the callback in progress: where it is and what it does
  todo,    \* the children whose tokens it still has to fill
  now,     \* cur in ease_check_slotframe_boundary, while it updates
  at       \* the child whose entry it is writing

procVars == <<pc, op, todo, now, at>>
vars == <<node, asfn, routes, queued, sent, procVars>>

-----------------------------------------------------------------------------
(* Cells and links *)

Rcv(a) == [to |-> a, from |-> NoAddr, i |-> 0]        \* rcv_ts, rcv_ch
Ded(p, c, i) == [to |-> p, from |-> c, i |-> i]       \* ded_ts, ded_ch

RxLink(cell) == [opt |-> "rx", cell |-> cell]
TxLink(cell) == [opt |-> "tx", cell |-> cell]
SharedLink(cell) == [opt |-> "shared", cell |-> cell]

\* ease_add_dedicated_cells_for_child and ease_add_dedicated_tx_to_parent
RxCells(c, from, to) == {RxLink(Ded(Self, c, i)) : i \in from .. to - 1}
TxCells(p, from, to) == {TxLink(Ded(p, Self, i)) : i \in from .. to - 1}

\* The links of the slotframe are a set; a link added twice is remembered.
AddLinks(v, new) ==
  [v EXCEPT !.links = @ \cup new, !.doubled = @ \cup (v.links \cap new)]

-----------------------------------------------------------------------------
(* The table of children *)

Known(v) == DOMAIN v.children

\* heard is a history: a packet of the child was counted since its tokens were
\* filled.
NewChild == [c |-> NoPrediction, cells |-> 0, quota |-> 0, tokens |-> 1, pkts |-> 0,
             heard |-> FALSE]

SetChild(v, a, x) ==
  [v EXCEPT !.children = [b \in Known(v) |-> IF b = a THEN x ELSE v.children[b]]]

MayAddAgain(v, a) == Cardinality(Known(v)) # MaxChildren
\* ease_add_child does nothing to a known child or if the table is full.
MayAdd(v, a) == a \notin Known(v) /\ Cardinality(Known(v)) # MaxChildren

\* An entry is in use and has its address, but t tokens from an earlier use.
ListChild(v, a, t) ==
  [v EXCEPT !.children = [x \in Known(v) \cup {a} |->
                            IF x = a THEN [NewChild EXCEPT !.tokens = t] ELSE v.children[x]]]
InitChild(v, a) == [SetChild(v, a, NewChild) EXCEPT !.num = @ + 1]

\* The entry of a child that has gone keeps its tokens: spent is a history, there
\* may be an entry that is free and has none.
RemoveChild(v, a) ==
  IF a \notin Known(v) THEN v
  ELSE [v EXCEPT !.children = [x \in Known(v) \ {a} |-> v.children[x]],
                 !.num = IF @ > 0 THEN @ - 1 ELSE 0,
                 !.spent = @ \/ v.children[a].tokens = 0]

\* ease_notify_rx, for a known child
Heard(x) ==
  [x EXCEPT !.pkts = @ + 1, !.tokens = IF @ > 0 THEN @ - 1 ELSE 0, !.heard = TRUE]
NotifyRx(v, a) == SetChild(v, a, Heard(v.children[a]))

\* ease_notify_tx and ease_notify_shared_tx_success
NotifyTx(v) == [v EXCEPT !.selfPkts = @ + 1, !.txThis = TRUE]

\* ease_do_nack, in interrupt context: the ACK to a tells it that the budget is
\* exhausted.
DoNack(v, a) == a \in Known(v) /\ v.children[a].tokens = 0

-----------------------------------------------------------------------------
(* ease_slotframe_update, in the order of the code *)

Counted(x) == [x EXCEPT !.c = Cusum(@, x.pkts), !.pkts = 0]

\* 1 to 3: the predictors see the packets of the slotframe; counters and flags
\* start anew.
CountTraffic(v) ==
  [v EXCEPT
    !.children = [a \in Known(v) |-> Counted(v.children[a])],
    !.self = Cusum(@, v.selfPkts), !.selfPkts = 0,
    !.txLast = v.txThis, !.txThis = FALSE, !.exhausted = FALSE]

CappedBefore(x, q) ==
  [x EXCEPT !.quota = q, !.c.predicted = IF @ > x.quota THEN x.quota ELSE @]
Capped(x, q) == [x EXCEPT !.quota = q, !.c.predicted = IF @ > q THEN q ELSE @]

\* 4: predictions are capped by the quotas.
CapPredictions(v) ==
  IF v.num = 0 \/ Budget = 0 \/ Known(v) = {} THEN v
  ELSE LET q == Quota(Cardinality(Known(v)), Budget)
       IN  [v EXCEPT !.children = [a \in Known(v) |-> Capped(v.children[a], q)]]

\* 5: the tokens of child a as they are stored first.
RawTokens(v, a) ==
  LET total == MapThenSumSet(LAMBDA b : v.children[b].quota, Known(v))
      q == v.children[a].quota
      p == v.children[a].c.predicted
  IN  IF total <= Budget THEN IF q > p THEN q ELSE p ELSE IF q < p THEN q ELSE p

Filled(x, t) == [x EXCEPT !.tokens = t, !.heard = FALSE]

ServedForgets(x) == x
Served(x) == [x EXCEPT !.cells = IF x.c.predicted > @ THEN x.c.predicted ELSE @]

\* 6: ease_update_dedicated_cells.  Links are only added: for children whose
\* prediction exceeds their cells, and to the parent if the node's own
\* prediction exceeds all that it has had so far.
UpdateCells(v) ==
  LET rx == UNION {RxCells(a, v.children[a].cells, v.children[a].c.predicted) :
                     a \in Known(v)}
      tx == TxCells(v.parent, v.have, v.self.predicted)
  IN  AddLinks([v EXCEPT
                 !.children = [a \in Known(v) |-> Served(v.children[a])],
                 !.have = IF v.self.predicted > @ THEN v.self.predicted ELSE @],
               rx \cup tx)

-----------------------------------------------------------------------------
(* ease_rebuild_dedicated_schedule *)

ParentCells(p, n) ==
  (IF p = NoAddr THEN {} ELSE {SharedLink(Rcv(p))}) \cup TxCells(p, 0, n)

RebuildFromPredictions(v) ==
  [v EXCEPT
    !.links = {RxLink(Rcv(Self))}
              \cup ParentCells(v.parent, v.self.predicted)
              \cup UNION {RxCells(a, 0, v.children[a].c.predicted) : a \in Known(v)},
    !.doubled = {}]
\* All links go, then the shared cells and the cells of children and parent are
\* added again.
Rebuild(v) ==
  [v EXCEPT
    !.links = {RxLink(Rcv(Self))}
              \cup ParentCells(v.parent, v.self.predicted)
              \cup UNION {RxCells(a, 0, v.children[a].cells) : a \in Known(v)},
    !.doubled = {}]

-----------------------------------------------------------------------------
(* The steps of a callback.  v is the state of EASE, q the packets queued, *)
(* both as the callback has left them so far.                              *)

NoOp == [kind |-> "none", a |-> NoAddr, ok |-> FALSE]
Op(kind, a) == [kind |-> kind, a |-> a, ok |-> FALSE]

Goto(step, o) == pc' = step /\ op' = o /\ todo' = {} /\ now' = 0
Return(v, q) == node' = v /\ queued' = q /\ Goto("idle", NoOp) /\ at' = NoAddr

\* ease_add_child: a new child is listed here and initialised in Introduce.
AddChild(o, v, q) ==
  IF MayAdd(v, o.a)
  THEN /\ \E t \in {0, 1} : (t = 0 => v.spent) /\ node' = ListChild(v, o.a, t)
       /\ queued' = q
       /\ Goto("add", o) /\ at' = o.a
  ELSE Return(v, q)

\* select_packet: a data frame goes to the shared cell of its destination, or to
\* the first dedicated cell if the parent acknowledged a packet in the last
\* slotframe.
SelectedCell(v, dest) ==
  IF /\ dest = v.parent /\ v.txLast
     /\ v.self.predicted > 0 /\ ~v.exhausted
  THEN Ded(v.parent, Self, 0) ELSE Rcv(dest)

HasUcLink(v, dest) == dest \in {v.parent} \cup routes

\* What a callback does once it has looked for a slotframe boundary.  A frame from
\* anyone but the parent counts; so does a packet that the parent acknowledged,
\* which may have changed since the slot; a packet is queued; a dropped packet
\* was just one of those to drop.
Resume(o, v, q) ==
  \/ /\ o.kind = "received"
     /\ IF o.a = v.parent THEN Return(v, q)
        ELSE IF o.a \in Known(v) THEN Return(NotifyRx(v, o.a), q)
        ELSE AddChild(o, v, q)
  \/ /\ o.kind = "sent"
     /\ Return(IF o.ok /\ v.parent # NoAddr /\ o.a = v.parent THEN NotifyTx(v) ELSE v, q)
  \/ /\ o.kind = "ready"
     /\ Return(v, IF HasUcLink(v, o.a)
                  THEN q \cup {[dest |-> o.a, cell |-> SelectedCell(v, o.a)]} ELSE q)
  \/ /\ o.kind \in {"source", "removed"}
     /\ node' = v /\ queued' = q
     /\ Goto("flush", o) /\ at' = NoAddr

\* ease_check_slotframe_boundary; 0 stands for no slotframe seen yet.
Boundary == asfn # node.last /\ node.last # 0
CheckBoundary(o, q) ==
  IF Boundary
  THEN /\ node' = CapPredictions(CountTraffic(node))
       /\ queued' = q
       /\ pc' = "fill" /\ op' = o /\ todo' = Known(node) /\ now' = asfn /\ at' = NoAddr
  ELSE Resume(o, [node EXCEPT !.last = asfn], q)

\* 5 to 6 of ease_slotframe_update: the tokens of the children are stored one by
\* one, and raised to 1 if they are 0.
FillTokens(a) ==
  /\ pc = "fill" /\ a \in todo
  /\ LET t == RawTokens(node, a) IN
     /\ node' = SetChild(node, a, Filled(node.children[a], t))
     /\ pc' = IF t = 0 THEN "floor" ELSE "fill"
     /\ at' = IF t = 0 THEN a ELSE NoAddr
  /\ todo' = todo \ {a}
  /\ UNCHANGED <<asfn, routes, queued, sent, op, now>>

RaiseTokensNot ==
  /\ pc = "floor"
  /\ pc' = "fill" /\ at' = NoAddr
  /\ UNCHANGED <<node, asfn, routes, queued, sent, op, todo, now>>
RaiseTokens ==
  /\ pc = "floor"
  /\ node' = SetChild(node, at, [node.children[at] EXCEPT !.tokens = 1])
  /\ pc' = "fill" /\ at' = NoAddr
  /\ UNCHANGED <<asfn, routes, queued, sent, op, todo, now>>

EndUpdate ==
  /\ pc = "fill" /\ todo = {}
  /\ Resume(op, [UpdateCells(node) EXCEPT !.last = now], queued)
  /\ UNCHANGED <<asfn, routes, sent>>

\* The rest of ease_add_child, and of ease_notify_rx.
Introduce ==
  /\ pc = "add"
  /\ LET v == InitChild(node, at) IN
     Return(IF op.kind = "received" THEN NotifyRx(v, at) ELSE v, queued)
  /\ UNCHANGED <<asfn, routes, sent>>

\* tsch_queue_free_packets_to: the packets to the old time source, or to a child
\* that has gone, are dropped; their sent callbacks end in orchestra_packet_sent,
\* which looks for a slotframe boundary.  Other packets like p may be queued.
PacketsTo(a) == {p \in queued : p.dest = a}
Dropped == PacketsTo(IF op.kind = "source" THEN node.parent ELSE op.a)

DropPacket(p) ==
  /\ pc = "flush" /\ p \in Dropped
  /\ \E q \in {queued, queued \ {p}} : CheckBoundary(op, q)
  /\ UNCHANGED <<asfn, routes, sent>>

EndDropAfterRebuild ==
  /\ pc = "flush" /\ Dropped = {}
  /\ Return(IF op.kind = "source" THEN [Rebuild(node) EXCEPT !.parent = op.a]
            ELSE Rebuild(node), queued)
  /\ UNCHANGED <<asfn, routes, sent>>
EndDropEarly ==
  /\ pc = "flush"
  /\ Return(Rebuild(IF op.kind = "source" THEN [node EXCEPT !.parent = op.a] ELSE node),
            queued)
  /\ UNCHANGED <<asfn, routes, sent>>
\* The rest of new_time_source and child_removed.
EndDrop ==
  /\ pc = "flush" /\ Dropped = {}
  /\ Return(Rebuild(IF op.kind = "source" THEN [node EXCEPT !.parent = op.a] ELSE node),
            queued)
  /\ UNCHANGED <<asfn, routes, sent>>

-----------------------------------------------------------------------------
(* The callbacks *)

\* orchestra_packet_received
PacketReceived(src) ==
  /\ pc = "idle"
  /\ src \in Known(node) /\ ~Boundary => node.children[src].pkts < MaxPkts
  /\ CheckBoundary(Op("received", src), queued)
  /\ UNCHANGED <<asfn, routes, sent>>

\* orchestra_packet_sent for a data frame
PacketSent(dest, ok) ==
  /\ pc = "idle"
  /\ ok /\ dest = node.parent /\ ~Boundary => node.selfPkts < MaxOwn
  /\ CheckBoundary([Op("sent", dest) EXCEPT !.ok = ok], queued)
  /\ sent' = sent \ {dest}
  /\ UNCHANGED <<asfn, routes>>

\* orchestra_packet_ready
PacketReady(dest) ==
  /\ pc = "idle"
  /\ Cardinality(queued) < MaxQueued
  /\ CheckBoundary(Op("ready", dest), queued)
  /\ UNCHANGED <<asfn, routes, sent>>

\* new_time_source
NewTimeSource(n) ==
  /\ pc = "idle"
  /\ n # node.parent
  /\ Goto("flush", Op("source", n))
  /\ UNCHANGED <<node, asfn, routes, queued, sent, at>>

\* The first route over a neighbor makes it a child, the removal of the last one
\* ends that: child_added, child_removed.
ChildAdded(a) ==
  /\ pc = "idle"
  /\ a \notin routes
  /\ routes' = routes \cup {a}
  /\ AddChild(Op("added", a), node, queued)
  /\ UNCHANGED <<asfn, sent>>

ChildRemoved(a) ==
  /\ pc = "idle"
  /\ a \in routes
  /\ routes' = routes \ {a}
  /\ node' = RemoveChild(node, a)
  /\ Goto("flush", Op("removed", a))
  /\ UNCHANGED <<asfn, queued, sent, at>>

-----------------------------------------------------------------------------
(* The interrupt, and time *)

NextSlotframe ==
  /\ asfn < LastAsfn
  /\ asfn' = asfn + 1
  /\ UNCHANGED <<node, routes, queued, sent, procVars>>

\* A slot ends the transmission of a queued packet: only with a transmit link in
\* its cell is there such a slot.
HasTxLink(v, cell) == {TxLink(cell), SharedLink(cell)} \cap v.links # {}

\* The callback comes later; the model has one of them outstanding.
SlotSends(p) ==
  /\ sent = {} /\ HasTxLink(node, p.cell)
  /\ sent' = {p.dest}
  /\ queued' \in {queued, queued \ {p}}  \* other packets like p may be queued
  /\ UNCHANGED <<node, asfn, routes, procVars>>

\* ease_notify_budget_exhausted: an enhanced ACK of the parent said so.
BudgetExhausted ==
  /\ node.parent # NoAddr
  /\ node' = [node EXCEPT !.exhausted = TRUE]
  /\ UNCHANGED <<asfn, routes, queued, sent, procVars>>

Init ==
  /\ node = [children |-> [a \in {} |-> NewChild], num |-> 0, spent |-> FALSE,
             self |-> NoPrediction, selfPkts |-> 0, have |-> 0,
             txThis |-> FALSE, txLast |-> FALSE, exhausted |-> FALSE,
             last |-> 0, parent |-> NoAddr,
             links |-> {RxLink(Rcv(Self))}, doubled |-> {}]
  /\ asfn = FirstAsfn
  /\ routes = {}
  /\ queued = {} /\ sent = {}
  /\ pc = "idle" /\ op = NoOp /\ todo = {} /\ now = 0 /\ at = NoAddr

Callback ==
  \/ \E a \in Peers : PacketReceived(a) \/ PacketReady(a) \/ ChildAdded(a) \/ ChildRemoved(a)
  \/ \E dest \in sent, ok \in BOOLEAN : PacketSent(dest, ok)
  \/ \E n \in Peers \cup {NoAddr} : NewTimeSource(n)
Step ==
  \/ \E a \in todo : FillTokens(a)
  \/ \E p \in queued : DropPacket(p)
  \/ RaiseTokens \/ EndUpdate \/ Introduce \/ EndDrop
Interrupt ==
  \/ NextSlotframe
  \/ \E p \in queued : SlotSends(p)
  \/ BudgetExhausted

Next == Callback \/ Step \/ Interrupt

Spec == Init /\ [][Next]_vars

-----------------------------------------------------------------------------
(* Properties *)

\* The state keeps its types; the number of children is that of the table, except
\* while a child is added.
TypeOK ==
  /\ Known(node) \subseteq Peers
  /\ Cardinality(Known(node)) = node.num + IF pc = "add" THEN 1 ELSE 0
  /\ Cardinality(Known(node)) <= MaxChildren
  /\ \A a \in Known(node) :
       /\ node.children[a].quota \in 0 .. MaxCells
       /\ node.children[a].cells \in 0 .. MaxCells
       /\ node.children[a].tokens \in Nat /\ node.children[a].pkts \in Nat
  /\ node.parent \in Peers \cup {NoAddr}
  /\ node.last \in {0} \cup FirstAsfn .. asfn
  /\ routes \subseteq Peers /\ todo \subseteq Known(node)
  /\ at \in IF pc \in {"floor", "add"} THEN Known(node) ELSE {NoAddr}

\* The node listens in its own cell, and for each child in exactly the cells that
\* the table counts, whatever predictions, table changes and rebuilds came
\* before; until a callback that removes a child has rebuilt the schedule.
ListensAsCounted ==
  op.kind # "removed" =>
    {l \in node.links : l.opt = "rx"} =
      {RxLink(Rcv(Self))}
      \cup UNION {RxCells(a, 0, node.children[a].cells) : a \in Known(node)}

\* All transmit links lead to the current parent; the shared one exists exactly if
\* there is a parent.
SendsToParent ==
  /\ \A l \in node.links : l.opt # "rx" => l.cell.to = node.parent
  /\ {l \in node.links : l.opt = "shared"} =
       IF node.parent = NoAddr THEN {} ELSE {SharedLink(Rcv(node.parent))}

\* Links are added in parts, over many slotframes, but none is added twice.
NeverDoubled == op.kind # "removed" => node.doubled = {}

\* Outside an update, a child has at least as many cells as predicted for it, and
\* the prediction is within its quota.
CellsCoverPrediction ==
  pc \notin {"fill", "floor"} =>
    \A a \in Known(node) :
      /\ node.children[a].c.predicted <= node.children[a].cells
      /\ node.children[a].c.predicted <= node.children[a].quota

\* Wherever the interrupt comes, no ACK says that the budget of a child is exhausted
\* before a packet of the child was counted since its tokens were filled; except
\* in the two moments in which the entry is being written: between the store of
\* tokens that are 0 and their floor, and before a new entry is initialised.
NackOnlyAfterPacket ==
  \A a \in Known(node) : DoNack(node, a) => node.children[a].heard \/ at = a

\* No ACK ever says so before a packet of the child was counted.
NackAlwaysEarned ==
  \A a \in Known(node) : DoNack(node, a) => node.children[a].heard

\* Every queued packet is for a neighbor that still is parent or child, or is about
\* to be dropped because it no longer is; one in the parent's shared cell has a
\* link.
QueuedForNeighbor ==
  \A p \in queued :
    /\ p.dest \in {node.parent} \cup routes \/ (op.kind = "removed" /\ p.dest = op.a)
    /\ p.dest = node.parent /\ p.cell = Rcv(p.dest) => HasTxLink(node, p.cell)

\* Every packet to the parent has a transmit link in its cell.
UpwardServed ==
  \A p \in queued : p.dest = node.parent => HasTxLink(node, p.cell)

\* Every packet to a child has a transmit link in its cell.
DownwardServed ==
  \A p \in queued : p.dest \in routes \ {node.parent} => HasTxLink(node, p.cell)
=============================================================================
