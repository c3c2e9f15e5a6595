--------------------------- MODULE EaseNodeProofs ----------------------------
(***************************************************************************)
(* Proofs about EaseNode, for any parameters.                              *)
(*                                                                         *)
(* Inv: transmit links lead to the current parent, packets are queued for  *)
(* parent and children only, and wherever the interrupt comes it refuses   *)
(* no child before it sent something, except where the code lets it.       *)
(* Inv2: the cells that are counted for a child, what was predicted for it *)
(* and the links that there are agree; between the steps of a callback as  *)
(* far as they can.                                                        *)
(*                                                                         *)
(* Both are made of predicates of the record node, so that one lemma says  *)
(* of each operator of the model what it preserves.                        *)
(***************************************************************************)
EXTENDS EaseNode, FiniteSetTheorems, TLAPS

-----------------------------------------------------------------------------
(* The invariant *)

\* A record with these fields, whatever they hold.
NodeShape(v) ==
  v \in [children : {v.children}, num : {v.num}, spent : {v.spent}, self : {v.self},
         selfPkts : {v.selfPkts}, have : {v.have}, txThis : {v.txThis},
         txLast : {v.txLast}, exhausted : {v.exhausted}, last : {v.last},
         parent : {v.parent}, links : {v.links}, doubled : {v.doubled}]

ChildShape(x) ==
  x \in [c : {x.c}, cells : {x.cells}, quota : {x.quota}, tokens : {x.tokens},
         pkts : {x.pkts}, heard : {x.heard}]

Table(v) ==
  /\ v.children = [a \in Known(v) |-> v.children[a]]
  /\ \A a \in Known(v) : ChildShape(v.children[a])

Leads(v) ==
  /\ \A l \in v.links : l.opt # "rx" => l.cell.to = v.parent
  /\ {l \in v.links : l.opt = "shared"} =
       IF v.parent = NoAddr THEN {} ELSE {SharedLink(Rcv(v.parent))}

Base(v) == NodeShape(v) /\ Table(v) /\ Leads(v)

\* A child without tokens has sent a packet since its tokens were filled, except
\* those of S.
Earned(v, S) ==
  \A a \in Known(v) : v.children[a].tokens = 0 => v.children[a].heard \/ a \in S

\* The child whose entry is being written.
Written(step, a) == IF step \in {"floor", "add"} THEN {a} ELSE {}

\* w is v after work that concerns neither the parent nor links but those added,
\* nor whose tokens are earned.
Keeps(v, w) ==
  /\ Base(w) /\ w.parent = v.parent /\ v.links \subseteq w.links /\ Known(w) = Known(v)
  /\ \A S : Earned(v, S) => Earned(w, S)

\* The callbacks, and which of them may be at which step.
Ops ==
  [kind : {"received", "sent", "ready", "added", "removed"}, a : Peers, ok : BOOLEAN]
  \cup [kind : {"source"}, a : Peers \cup {NoAddr}, ok : BOOLEAN]

Flow(step, o) ==
  \/ step = "idle" /\ o = NoOp
  \/ step \in {"fill", "floor"} /\ o \in Ops /\ o.kind # "added"
  \/ step = "flush" /\ o \in Ops /\ o.kind \in {"source", "removed"}
  \/ step = "add" /\ o \in Ops /\ o.kind \in {"received", "added"}

\* The children whose tokens are still to be filled, and the one being written, are
\* in the table.
Tasks(v, step, rest, a) ==
  /\ rest \subseteq Known(v)
  /\ a \in IF step \in {"floor", "add"} THEN Known(v) ELSE {NoAddr}

\* The packets of q are for neighbors, in callback o.
Addressed(q, parent, nexthops, o) ==
  \A p \in q :
    /\ p.dest \in Peers
    /\ p.dest \in {parent} \cup nexthops \/ (o.kind = "removed" /\ p.dest = o.a)

Names(parent) == parent \in Peers \cup {NoAddr} /\ routes \subseteq Peers /\ sent \subseteq Peers

Inv ==
  /\ Base(node)
  /\ Earned(node, Written(pc, at))
  /\ Flow(pc, op) /\ Tasks(node, pc, todo, at)
  /\ Names(node.parent)
  /\ Addressed(queued, node.parent, routes, op)

\* The parts of the invariant in the next state.
LEMMA InvNext ==
  ASSUME Base(node'), Earned(node', Written(pc', at')), Flow(pc', op'),
         Tasks(node', pc', todo', at'), node'.parent \in Peers \cup {NoAddr},
         routes' \subseteq Peers, sent' \subseteq Peers, Addressed(queued', node'.parent, routes', op')
  PROVE  Inv'
BY DEF Inv, Base, NodeShape, Table, Leads, ChildShape, Known, Earned, Written, Flow,
       Names, Addressed, Tasks

-----------------------------------------------------------------------------
(* What the operators of the model preserve *)

\* With the same links to the same parent, these still lead there.
LEMMA SameLinks ==
  ASSUME NEW v, NEW w, Base(v), NodeShape(w), w.parent = v.parent, w.links = v.links,
         Known(w) = Known(v),
         w.children = [a \in Known(w) |-> w.children[a]],
         \A a \in Known(w) : /\ ChildShape(w.children[a])
                             /\ w.children[a].tokens = v.children[a].tokens
                             /\ w.children[a].heard = v.children[a].heard
  PROVE  Keeps(v, w)
BY DEF Keeps, Base, Table, Leads, Earned

\* Traffic is counted without touching links and tokens.
LEMMA CountTrafficKeeps ==
  ASSUME NEW v, Base(v), NEW w, w = CountTraffic(v)
  PROVE  Keeps(v, w)
<1>1. /\ NodeShape(w)
      /\ w.parent = v.parent
      /\ w.links = v.links
      /\ w.children = [a \in Known(v) |-> Counted(v.children[a])]
  BY DEF CountTraffic, Base, NodeShape
<1>2. \A x : ChildShape(x) => /\ ChildShape(Counted(x))
                              /\ Counted(x).tokens = x.tokens /\ Counted(x).heard = x.heard
  BY DEF ChildShape, Counted
<1>3. Known(w) = Known(v)
  BY <1>1 DEF Known
<1>4. \A a \in Known(w) : w.children[a] = Counted(v.children[a])
  BY <1>1, <1>3
<1>5. \A a \in Known(w) : ChildShape(v.children[a])
  BY <1>3 DEF Base, Table
<1>6. w.children = [a \in Known(w) |-> w.children[a]]
  BY <1>1, <1>3, <1>4
<1> QED
  BY <1>1, <1>2, <1>3, <1>4, <1>5, <1>6, SameLinks

\* So are predictions capped.
LEMMA CapPredictionsKeeps ==
  ASSUME NEW v, Base(v), NEW w, w = CapPredictions(v)
  PROVE  Keeps(v, w)
<1>1. CASE w = v
  BY <1>1 DEF Keeps
<1>2. ASSUME NEW q,
             w = [v EXCEPT !.children = [a \in Known(v) |-> Capped(v.children[a], q)]]
      PROVE  Keeps(v, w)
  <2>1. PICK f : f = [a \in Known(v) |-> Capped(v.children[a], q)]
    OBVIOUS
  <2>2. /\ NodeShape(w)
        /\ w.parent = v.parent
        /\ w.links = v.links
        /\ w.children = f
    <3>1. w = [v EXCEPT !.children = f]
      BY <1>2, <2>1
    <3> QED
      BY <3>1 DEF Base, NodeShape
  <2>3. \A x : ChildShape(x) =>
          /\ ChildShape(Capped(x, q))
          /\ Capped(x, q).tokens = x.tokens /\ Capped(x, q).heard = x.heard
    BY DEF ChildShape, Capped
  <2>4. Known(w) = Known(v)
    BY <2>1, <2>2 DEF Known
  <2>5. \A a \in Known(w) : w.children[a] = Capped(v.children[a], q)
    BY <2>1, <2>2, <2>4
  <2>6. \A a \in Known(w) : ChildShape(v.children[a])
    BY <2>4 DEF Base, Table
  <2>7. w.children = [a \in Known(w) |-> w.children[a]]
    BY <2>1, <2>2, <2>4
  <2> QED
    BY <2>2, <2>3, <2>4, <2>5, <2>6, <2>7, SameLinks
<1> QED
  BY <1>1, <1>2 DEF CapPredictions

\* The entry of a child is replaced.
LEMMA SetChildBase ==
  ASSUME NEW v, Base(v), NEW a, NEW x, ChildShape(x), NEW w, w = SetChild(v, a, x)
  PROVE  /\ Base(w) /\ w.parent = v.parent /\ w.links = v.links
         /\ Known(w) = Known(v)
         /\ \A b \in Known(v) : w.children[b] = IF b = a THEN x ELSE v.children[b]
<1>1. PICK f : f = [b \in Known(v) |-> IF b = a THEN x ELSE v.children[b]]
  OBVIOUS
<1>2. /\ NodeShape(w) /\ w.parent = v.parent /\ w.links = v.links /\ w.children = f
  <2>1. w = [v EXCEPT !.children = f]
    BY <1>1 DEF SetChild
  <2> QED
    BY <2>1 DEF Base, NodeShape
<1>3. Known(w) = Known(v)
  BY <1>1, <1>2 DEF Known
<1>4. Table(w)
  BY <1>1, <1>2, <1>3 DEF Base, Table
<1> QED
  BY <1>1, <1>2, <1>3, <1>4 DEF Base, Leads

\* The cells of children are for listening, those to a parent lead there.
LEMMA DedicatedLinks ==
  ASSUME NEW p, NEW from, NEW to
  PROVE  /\ \A l \in RxCells(p, from, to) : l.opt = "rx"
         /\ \A l \in TxCells(p, from, to) : l.opt = "tx" /\ l.cell.to = p
BY DEF RxCells, TxCells, RxLink, TxLink, Ded

\* Links are added for the current parent only.
LEMMA UpdateCellsKeeps ==
  ASSUME NEW v, Base(v), NEW w, w = UpdateCells(v)
  PROVE  Keeps(v, w)
<1>1. PICK rx : rx = UNION {RxCells(a, v.children[a].cells, v.children[a].c.predicted) :
                               a \in Known(v)}
  OBVIOUS
<1>2. PICK tx : tx = TxCells(v.parent, v.have, v.self.predicted)
  OBVIOUS
<1>3. /\ NodeShape(w)
      /\ w.parent = v.parent
      /\ w.links = v.links \cup (rx \cup tx)
      /\ w.children = [a \in Known(v) |-> Served(v.children[a])]
  <2>1. w = AddLinks([v EXCEPT
                       !.children = [a \in Known(v) |-> Served(v.children[a])],
                       !.have = IF v.self.predicted > @ THEN v.self.predicted ELSE @],
                     rx \cup tx)
    BY <1>1, <1>2 DEF UpdateCells
  <2> QED
    BY <2>1 DEF AddLinks, Base, NodeShape
<1>4. \A x : ChildShape(x) => /\ ChildShape(Served(x))
                              /\ Served(x).tokens = x.tokens /\ Served(x).heard = x.heard
  BY DEF ChildShape, Served
<1>5. Known(w) = Known(v)
  BY <1>3 DEF Known
<1>6. Table(w) /\ \A S : Earned(v, S) => Earned(w, S)
  BY <1>3, <1>4, <1>5 DEF Base, Table, Earned
<1>7. /\ \A l \in rx : l.opt = "rx"
      /\ \A l \in tx : l.opt = "tx" /\ l.cell.to = v.parent
  BY <1>1, <1>2, DedicatedLinks
<1>8. Leads(w)
  BY <1>3, <1>7 DEF Base, Leads
<1> QED
  BY <1>3, <1>5, <1>6, <1>8 DEF Keeps, Base

\* The node's own packets, the slotframe number and the flag of the parent concern
\* neither table nor links.
LEMMA SameTable ==
  ASSUME NEW v, Base(v), NEW w, NodeShape(w), w.parent = v.parent, w.links = v.links,
         w.children = v.children
  PROVE  Keeps(v, w)
BY DEF Keeps, Base, Leads, Table, Known, Earned

LEMMA LastKeeps ==
  ASSUME NEW v, Base(v), NEW n
  PROVE  Keeps(v, [v EXCEPT !.last = n])
<1>1. PICK w : w = [v EXCEPT !.last = n]
  OBVIOUS
<1>2. NodeShape(w) /\ w.parent = v.parent /\ w.links = v.links /\ w.children = v.children
  BY <1>1 DEF Base, NodeShape
<1> QED
  BY <1>1, <1>2, SameTable

LEMMA NotifyTxKeeps ==
  ASSUME NEW v, Base(v)
  PROVE  Keeps(v, NotifyTx(v))
<1>1. PICK w : w = NotifyTx(v)
  OBVIOUS
<1>2. NodeShape(w) /\ w.parent = v.parent /\ w.links = v.links /\ w.children = v.children
  BY <1>1 DEF NotifyTx, Base, NodeShape
<1> QED
  BY <1>1, <1>2, SameTable

\* A packet uses up a token and counts.
LEMMA NotifyRxEarned ==
  ASSUME NEW v, Base(v), NEW a \in Known(v), Earned(v, {a})
  PROVE  /\ Base(NotifyRx(v, a)) /\ NotifyRx(v, a).parent = v.parent
         /\ Earned(NotifyRx(v, a), {})
<1>1. PICK w : w = NotifyRx(v, a)
  OBVIOUS
<1>2. PICK x : x = v.children[a]
  OBVIOUS
<1>3. ChildShape(x)
  BY <1>2 DEF Base, Table
<1>4. ChildShape(Heard(x)) /\ Heard(x).heard
  <2>1. PICK n : n = x.pkts + 1
    OBVIOUS
  <2>2. PICK t : t = IF x.tokens > 0 THEN x.tokens - 1 ELSE 0
    OBVIOUS
  <2>3. Heard(x) = [x EXCEPT !.pkts = n, !.tokens = t, !.heard = TRUE]
    BY <2>1, <2>2 DEF Heard
  <2> QED
    BY <1>3, <2>3 DEF ChildShape
<1>5. w = SetChild(v, a, Heard(x))
  BY <1>1, <1>2 DEF NotifyRx
<1>6. PICK y : y = Heard(x)
  OBVIOUS
<1>7. /\ Base(w) /\ w.parent = v.parent /\ Known(w) = Known(v)
      /\ \A b \in Known(v) : w.children[b] = IF b = a THEN y ELSE v.children[b]
  BY <1>4, <1>5, <1>6, SetChildBase
<1>8. Earned(w, {})
  BY <1>4, <1>6, <1>7 DEF Earned
<1> QED
  BY <1>1, <1>7, <1>8

\* A new child may have no tokens before it is initialised.
LEMMA ListChildKeeps ==
  ASSUME NEW v, Base(v), Earned(v, {}), NEW a, NEW t, NEW w, w = ListChild(v, a, t)
  PROVE  /\ Base(w) /\ w.parent = v.parent /\ w.links = v.links /\ Earned(w, {a})
         /\ a \in Known(w)
<1>1. PICK x : x = [NewChild EXCEPT !.tokens = t]
  OBVIOUS
<1>2. PICK f : f = [b \in Known(v) \cup {a} |-> IF b = a THEN x ELSE v.children[b]]
  OBVIOUS
<1>3. NodeShape(w) /\ w.parent = v.parent /\ w.links = v.links /\ w.children = f
  <2>1. w = [v EXCEPT !.children = f]
    BY <1>1, <1>2 DEF ListChild
  <2> QED
    BY <2>1 DEF Base, NodeShape
<1>4. ChildShape(x)
  BY <1>1 DEF ChildShape, NewChild
<1>5. Known(w) = Known(v) \cup {a}
  BY <1>2, <1>3 DEF Known
<1>6. Table(w) /\ Earned(w, {a})
  BY <1>2, <1>3, <1>4, <1>5 DEF Base, Table, Earned
<1> QED
  BY <1>3, <1>5, <1>6 DEF Base, Leads

LEMMA InitChildKeeps ==
  ASSUME NEW v, Base(v), NEW a, Earned(v, {a}), NEW w, w = InitChild(v, a)
  PROVE  /\ Base(w) /\ w.parent = v.parent /\ w.links = v.links /\ Earned(w, {})
         /\ Known(w) = Known(v)
<1>1. PICK u : u = SetChild(v, a, NewChild)
  OBVIOUS
<1>2. ChildShape(NewChild) /\ NewChild.tokens # 0
  BY DEF ChildShape, NewChild
<1>3. PICK x : x = NewChild
  OBVIOUS
<1>4. /\ Base(u) /\ u.parent = v.parent /\ u.links = v.links /\ Known(u) = Known(v)
      /\ \A b \in Known(v) : u.children[b] = IF b = a THEN x ELSE v.children[b]
  BY <1>1, <1>2, <1>3, SetChildBase
<1>5. Earned(u, {})
  BY <1>2, <1>3, <1>4 DEF Earned
<1>6. PICK n : n = u.num + 1
  OBVIOUS
<1>7. w = [u EXCEPT !.num = n]
  BY <1>1, <1>6 DEF InitChild
<1>8. NodeShape(w) /\ w.parent = u.parent /\ w.links = u.links /\ w.children = u.children
  BY <1>4, <1>7 DEF Base, NodeShape
<1>9. Keeps(u, w) /\ Known(w) = Known(u)
  BY <1>4, <1>8, SameTable DEF Known
<1> QED
  BY <1>4, <1>5, <1>8, <1>9 DEF Keeps

LEMMA RemoveChildKeeps ==
  ASSUME NEW v, Base(v), Earned(v, {}), NEW a, NEW w, w = RemoveChild(v, a)
  PROVE  Base(w) /\ w.parent = v.parent /\ Earned(w, {})
<1>1. CASE w = v
  BY <1>1
<1>2. CASE w # v
  <2>1. PICK f : f = [x \in Known(v) \ {a} |-> v.children[x]]
    OBVIOUS
  <2>2. PICK k, s : w = [v EXCEPT !.children = f, !.num = k, !.spent = s]
    BY <1>2, <2>1 DEF RemoveChild
  <2>3. NodeShape(w) /\ w.parent = v.parent /\ w.links = v.links /\ w.children = f
    BY <2>2 DEF Base, NodeShape
  <2> QED
    BY <2>1, <2>3 DEF Base, Table, Leads, Known, Earned
<1> QED
  BY <1>1, <1>2

\* Whatever links there were, after a rebuild they are those of the parent.
LEMMA RebuildLeads ==
  ASSUME NEW v, NodeShape(v), Table(v), NEW w, w = Rebuild(v)
  PROVE  Base(w) /\ w.parent = v.parent /\ w.children = v.children
<1>1. PICK rx : rx = UNION {RxCells(a, 0, v.children[a].cells) : a \in Known(v)}
  OBVIOUS
<1>2. PICK up : up = ParentCells(v.parent, v.self.predicted)
  OBVIOUS
<1>3. /\ NodeShape(w) /\ w.parent = v.parent /\ w.children = v.children
      /\ w.links = {RxLink(Rcv(Self))} \cup up \cup rx
  <2>1. w = [v EXCEPT !.links = {RxLink(Rcv(Self))} \cup up \cup rx, !.doubled = {}]
    BY <1>1, <1>2 DEF Rebuild
  <2> QED
    BY <2>1 DEF NodeShape
<1>4. \A l \in rx : l.opt = "rx"
  BY <1>1, DedicatedLinks
<1>5. PICK tx : tx = TxCells(v.parent, 0, v.self.predicted)
  OBVIOUS
<1>6. /\ up = (IF v.parent = NoAddr THEN {} ELSE {SharedLink(Rcv(v.parent))}) \cup tx
      /\ \A l \in tx : l.opt = "tx" /\ l.cell.to = v.parent
  BY <1>2, <1>5, DedicatedLinks DEF ParentCells
<1>7. /\ RxLink(Rcv(Self)).opt = "rx"
      /\ SharedLink(Rcv(v.parent)).opt = "shared"
      /\ SharedLink(Rcv(v.parent)).cell.to = v.parent
  BY DEF RxLink, SharedLink, Rcv
<1>8. Leads(w)
  BY <1>3, <1>4, <1>6, <1>7 DEF Leads
<1> QED
  BY <1>3, <1>8 DEF Base, Table, Known

-----------------------------------------------------------------------------
(* Initial states and steps *)

LEMMA InitInv == Init => Inv
<1> SUFFICES ASSUME Init
             PROVE  Inv
  OBVIOUS
<1>1. /\ NodeShape(node)
      /\ node.children = [a \in {} |-> NewChild]
      /\ node.parent = NoAddr
      /\ node.links = {RxLink(Rcv(Self))}
  BY DEF Init, NodeShape
<1>2. Table(node) /\ Known(node) = {}
  BY <1>1 DEF Table, Known
<1>3. Leads(node)
  <2>1. RxLink(Rcv(Self)).opt = "rx"
    BY DEF RxLink
  <2> QED
    BY <1>1, <2>1 DEF Leads
<1> QED
  BY <1>1, <1>2, <1>3 DEF Init, Inv, Base, Earned, Flow, Names, Addressed, Tasks

\* The end of a callback, with v and q as it leaves them.
LEMMA ReturnInv ==
  ASSUME NEW v, Base(v), Earned(v, {}), v.parent \in Peers \cup {NoAddr},
         routes' \subseteq Peers, sent' \subseteq Peers,
         NEW q, Addressed(q, v.parent, routes', NoOp), Return(v, q)
  PROVE  Inv'
<1>1. /\ node' = v /\ queued' = q /\ pc' = "idle" /\ op' = NoOp /\ todo' = {} /\ at' = NoAddr
  BY DEF Return, Goto
<1>2. Earned(node', Written(pc', at'))
  BY <1>1 DEF Written
<1> QED
  BY <1>1, <1>2, InvNext DEF Flow, Tasks

LEMMA AddChildInv ==
  ASSUME NEW v, Base(v), Earned(v, {}), v.parent \in Peers \cup {NoAddr},
         routes' \subseteq Peers, sent' \subseteq Peers,
         NEW o \in Ops, o.kind \in {"received", "added"},
         NEW q, Addressed(q, v.parent, routes', NoOp), AddChild(o, v, q)
  PROVE  Inv'
<1>1. CASE Return(v, q)
  BY <1>1, ReturnInv
<1>2. CASE ~Return(v, q)
  <2>1. PICK t \in {0, 1} : node' = ListChild(v, o.a, t)
    BY <1>2 DEF AddChild
  <2>2. queued' = q /\ pc' = "add" /\ op' = o /\ todo' = {} /\ at' = o.a
    BY <1>2 DEF AddChild, Goto
  <2>3. Base(node') /\ node'.parent = v.parent /\ Earned(node', {o.a}) /\ o.a \in Known(node')
    BY <2>1, ListChildKeeps
  <2>4. Earned(node', Written(pc', at')) /\ Flow(pc', op')
    BY <2>2, <2>3 DEF Written, Flow
  <2>5. Tasks(node', pc', todo', at')
    BY <2>2, <2>3 DEF Tasks
  <2>6. Addressed(queued', node'.parent, routes', op')
    BY <2>2, <2>3 DEF Addressed, NoOp
  <2> QED
    BY <2>3, <2>4, <2>5, <2>6, InvNext
<1> QED
  BY <1>1, <1>2

\* What follows the look for a slotframe boundary.
LEMMA ResumeInv ==
  ASSUME NEW v, Base(v), Earned(v, {}), v.parent \in Peers \cup {NoAddr},
         routes \subseteq Peers, routes' = routes, sent' \subseteq Peers,
         NEW o \in Ops, o.kind # "added",
         NEW q, Addressed(q, v.parent, routes, o), Resume(o, v, q)
  PROVE  Inv'
<1>1. o.kind # "removed" => Addressed(q, v.parent, routes', NoOp)
  BY DEF Addressed, NoOp
<1>2. CASE o.kind = "received"
  <2>1. CASE o.a = v.parent
    BY <1>1, <1>2, <2>1, ReturnInv DEF Resume
  <2>2. CASE o.a # v.parent /\ o.a \in Known(v)
    <3>1. PICK w : w = NotifyRx(v, o.a)
      OBVIOUS
    <3>2. Earned(v, {o.a})
      BY DEF Earned
    <3>3. Base(w) /\ w.parent = v.parent /\ Earned(w, {})
      BY <2>2, <3>1, <3>2, NotifyRxEarned
    <3>4. Return(w, q)
      BY <1>2, <2>2, <3>1 DEF Resume
    <3> QED
      BY <1>1, <1>2, <3>3, <3>4, ReturnInv
  <2>3. CASE o.a # v.parent /\ o.a \notin Known(v)
    <3>1. AddChild(o, v, q)
      BY <1>2, <2>3 DEF Resume
    <3> QED
      BY <1>1, <1>2, <3>1, AddChildInv
  <2> QED
    BY <2>1, <2>2, <2>3
<1>3. CASE o.kind = "sent"
  <2>1. PICK w : Return(w, q) /\ (w = v \/ w = NotifyTx(v))
    BY <1>3 DEF Resume
  <2>2. Base(w) /\ w.parent = v.parent /\ Earned(w, {})
    BY <2>1, NotifyTxKeeps DEF Keeps
  <2> QED
    BY <1>1, <1>3, <2>1, <2>2, ReturnInv
<1>4. CASE o.kind = "ready"
  <2>1. PICK cell, r : /\ Return(v, r)
                       /\ r = q \/ (/\ HasUcLink(v, o.a)
                                    /\ r = q \cup {[dest |-> o.a, cell |-> cell]})
    BY <1>4 DEF Resume
  <2>2. o.a \in Peers
    BY <1>4 DEF Ops
  <2>3. Addressed(r, v.parent, routes', NoOp)
    BY <1>1, <1>4, <2>1, <2>2 DEF HasUcLink, Addressed
  <2> QED
    BY <2>1, <2>3, ReturnInv
<1>5. CASE o.kind \in {"source", "removed"}
  <2>1. node' = v /\ queued' = q /\ pc' = "flush" /\ op' = o /\ todo' = {} /\ at' = NoAddr
    BY <1>5 DEF Resume, Goto
  <2>2. Earned(node', Written(pc', at')) /\ Flow(pc', op') /\ Tasks(node', pc', todo', at')
    BY <1>5, <2>1 DEF Written, Flow, Tasks
  <2>3. Addressed(queued', node'.parent, routes', op')
    BY <2>1
  <2> QED
    BY <2>1, <2>2, <2>3, InvNext
<1> QED
  BY <1>2, <1>3, <1>4, <1>5 DEF Resume

LEMMA CheckBoundaryInv ==
  ASSUME Inv, pc \in {"idle", "flush"}, routes' = routes, sent' \subseteq Peers,
         NEW o \in Ops, o.kind # "added",
         NEW q, Addressed(q, node.parent, routes, o), CheckBoundary(o, q)
  PROVE  Inv'
<1>1. Earned(node, {})
  BY DEF Inv, Written
<1>2. CASE Boundary
  <2>1. PICK v : v = CountTraffic(node)
    OBVIOUS
  <2>2. /\ node' = CapPredictions(v) /\ queued' = q /\ pc' = "fill" /\ op' = o
        /\ todo' = Known(node) /\ at' = NoAddr
    BY <1>2, <2>1 DEF CheckBoundary
  <2>3. Keeps(node, v)
    BY <2>1, CountTrafficKeeps DEF Inv
  <2>4. Keeps(v, node')
    BY <2>2, <2>3, CapPredictionsKeeps DEF Keeps
  <2>5. Earned(node', Written(pc', at')) /\ Flow(pc', op')
    BY <1>1, <2>2, <2>3, <2>4 DEF Keeps, Written, Flow
  <2>6. Base(node') /\ node'.parent = node.parent /\ Tasks(node', pc', todo', at')
    BY <2>2, <2>3, <2>4 DEF Keeps, Tasks
  <2>7. Addressed(queued', node'.parent, routes', op')
    BY <2>2, <2>6
  <2> QED
    BY <2>5, <2>6, <2>7, InvNext DEF Inv, Names
<1>3. CASE ~Boundary
  <2>1. PICK v : v = [node EXCEPT !.last = asfn]
    OBVIOUS
  <2>2. Keeps(node, v)
    BY <2>1, LastKeeps DEF Inv
  <2>3. Resume(o, v, q)
    BY <1>3, <2>1 DEF CheckBoundary
  <2>4. Base(v) /\ Earned(v, {}) /\ v.parent = node.parent
    BY <1>1, <2>2 DEF Keeps
  <2> QED
    BY <2>3, <2>4, ResumeInv DEF Inv, Names
<1> QED
  BY <1>2, <1>3

LEMMA FillTokensInv ==
  ASSUME Inv, NEW a \in todo, FillTokens(a)
  PROVE  Inv'
<1>1. PICK t : /\ t = RawTokens(node, a)
               /\ node' = SetChild(node, a, Filled(node.children[a], t))
               /\ pc' = IF t = 0 THEN "floor" ELSE "fill"
               /\ at' = IF t = 0 THEN a ELSE NoAddr
  BY DEF FillTokens
<1>2. PICK x : x = Filled(node.children[a], t)
  OBVIOUS
<1>3. ChildShape(x) /\ x.tokens = t
  BY <1>2 DEF Inv, Tasks, Base, Table, ChildShape, Filled
<1>4. /\ Base(node') /\ node'.parent = node.parent /\ Known(node') = Known(node)
      /\ \A b \in Known(node) : node'.children[b] = IF b = a THEN x ELSE node.children[b]
  BY <1>1, <1>2, <1>3, SetChildBase DEF Inv
<1>5. Earned(node, {})
  BY DEF Inv, Written, FillTokens
<1>6. Earned(node', Written(pc', at'))
  BY <1>1, <1>3, <1>4, <1>5 DEF Earned, Written
<1>7. Flow(pc', op') /\ Tasks(node', pc', todo', at')
  BY <1>1, <1>4 DEF Inv, Flow, Tasks, FillTokens
<1> QED
  BY <1>4, <1>6, <1>7, InvNext DEF Inv, Names, FillTokens

LEMMA RaiseTokensInv ==
  ASSUME Inv, RaiseTokens
  PROVE  Inv'
<1>1. PICK x : x = [node.children[at] EXCEPT !.tokens = 1]
  OBVIOUS
<1>2. /\ node' = SetChild(node, at, x) /\ pc = "floor" /\ pc' = "fill"
      /\ UNCHANGED <<op, routes, sent, queued>>
  BY <1>1 DEF RaiseTokens
<1>3. Earned(node, {at})
  BY <1>2 DEF Inv, Written
<1>4. Flow(pc', op') /\ at \in Known(node) /\ todo' \subseteq Known(node) /\ at' = NoAddr
  BY <1>2 DEF Inv, Flow, Tasks, RaiseTokens
<1>5. ChildShape(x) /\ x.tokens = 1
  BY <1>1, <1>4 DEF Inv, Base, Table, ChildShape
<1>6. /\ Base(node') /\ node'.parent = node.parent /\ Known(node') = Known(node)
      /\ \A b \in Known(node) : node'.children[b] = IF b = at THEN x ELSE node.children[b]
  BY <1>2, <1>5, SetChildBase DEF Inv
<1>7. Earned(node', Written(pc', at')) /\ Tasks(node', pc', todo', at')
  BY <1>2, <1>3, <1>4, <1>5, <1>6 DEF Earned, Written, Tasks
<1> QED
  BY <1>2, <1>4, <1>6, <1>7, InvNext DEF Inv, Names

LEMMA EndUpdateInv ==
  ASSUME Inv, EndUpdate
  PROVE  Inv'
<1>1. PICK u : u = UpdateCells(node)
  OBVIOUS
<1>2. PICK v : v = [u EXCEPT !.last = now]
  OBVIOUS
<1>3. Keeps(node, u)
  BY <1>1, UpdateCellsKeeps DEF Inv
<1>4. Keeps(u, v)
  BY <1>2, <1>3, LastKeeps DEF Keeps
<1>5. pc = "fill" /\ Resume(op, v, queued) /\ UNCHANGED <<routes, sent>>
  BY <1>1, <1>2 DEF EndUpdate
<1>6. Base(v) /\ Earned(v, {}) /\ v.parent = node.parent
  BY <1>3, <1>4, <1>5 DEF Inv, Written, Keeps
<1>7. op \in Ops /\ op.kind # "added"
  BY <1>5 DEF Inv, Flow
<1> QED
  BY <1>5, <1>6, <1>7, ResumeInv DEF Inv, Names

LEMMA IntroduceInv ==
  ASSUME Inv, Introduce
  PROVE  Inv'
<1>1. PICK v : v = InitChild(node, at)
  OBVIOUS
<1>2. /\ pc = "add" /\ UNCHANGED <<routes, sent>>
      /\ Return(IF op.kind = "received" THEN NotifyRx(v, at) ELSE v, queued)
  BY <1>1 DEF Introduce
<1>3. Earned(node, {at}) /\ at \in Known(node)
  BY <1>2 DEF Inv, Written, Tasks
<1>4. /\ Base(v) /\ v.parent = node.parent /\ Earned(v, {})
      /\ Known(v) = Known(node)
  BY <1>1, <1>3, InitChildKeeps DEF Inv
<1>5. PICK w : Return(w, queued) /\ (w = v \/ w = NotifyRx(v, at))
  BY <1>2
<1>6. Base(w) /\ w.parent = node.parent /\ Earned(w, {})
  <2>1. Earned(v, {at})
    BY <1>4 DEF Earned
  <2> QED
    BY <1>3, <1>4, <1>5, <2>1, NotifyRxEarned
<1>7. Addressed(queued, w.parent, routes', NoOp)
  BY <1>2, <1>6 DEF Inv, Flow, Addressed, NoOp
<1> QED
  BY <1>2, <1>5, <1>6, <1>7, ReturnInv DEF Inv, Names

LEMMA DropPacketInv ==
  ASSUME Inv, NEW p \in queued, DropPacket(p)
  PROVE  Inv'
<1>1. PICK q : q \subseteq queued /\ CheckBoundary(op, q)
  BY DEF DropPacket
<1>2. pc = "flush" /\ UNCHANGED <<routes, sent>>
  BY DEF DropPacket
<1>3. op \in Ops /\ op.kind # "added"
  BY <1>2 DEF Inv, Flow
<1>4. Addressed(q, node.parent, routes, op)
  BY <1>1 DEF Inv, Addressed
<1> QED
  BY <1>1, <1>2, <1>3, <1>4, CheckBoundaryInv DEF Inv, Names

\* With the packets to the old parent, or to the child that has gone, nothing is
\* left that leads there.
LEMMA EndDropInv ==
  ASSUME Inv, EndDrop
  PROVE  Inv'
<1>1. pc = "flush" /\ Dropped = {} /\ UNCHANGED <<routes, sent>>
  BY DEF EndDrop
<1>2. op \in Ops /\ op.kind \in {"source", "removed"}
  BY <1>1 DEF Inv, Flow
<1>3. PICK v : v = IF op.kind = "source" THEN [node EXCEPT !.parent = op.a] ELSE node
  OBVIOUS
<1>4. /\ NodeShape(v) /\ v.children = node.children
      /\ v.parent = IF op.kind = "source" THEN op.a ELSE node.parent
  <2>1. CASE op.kind = "source"
    <3>1. v = [node EXCEPT !.parent = op.a]
      BY <1>3, <2>1
    <3> QED
      BY <2>1, <3>1 DEF Inv, Base, NodeShape
  <2>2. CASE op.kind # "source"
    BY <1>3, <2>2 DEF Inv, Base
  <2> QED
    BY <2>1, <2>2
<1>5. Table(v) /\ Earned(v, {})
  BY <1>1, <1>4 DEF Inv, Base, Table, Known, Earned, Written
<1>6. PICK w : w = Rebuild(v)
  OBVIOUS
<1>7. Return(w, queued)
  BY <1>3, <1>6 DEF EndDrop
<1>8. Base(w) /\ w.parent = v.parent /\ Earned(w, {})
  BY <1>4, <1>5, <1>6, RebuildLeads DEF Earned, Known
<1>9. w.parent \in Peers \cup {NoAddr}
  BY <1>2, <1>4, <1>8 DEF Inv, Names, Ops
<1>10. Addressed(queued, w.parent, routes', NoOp)
  <2>1. CASE op.kind = "source"
    BY <1>1, <1>4, <1>8, <2>1 DEF Inv, Addressed, Dropped, PacketsTo
  <2>2. CASE op.kind = "removed"
    BY <1>1, <1>4, <1>8, <2>2 DEF Inv, Addressed, Dropped, PacketsTo
  <2> QED
    BY <1>2, <2>1, <2>2
<1> QED
  BY <1>1, <1>7, <1>8, <1>9, <1>10, ReturnInv DEF Inv, Names

-----------------------------------------------------------------------------
(* The callbacks, and the interrupt *)

\* A callback that begins with the look for a slotframe boundary.
LEMMA CallbackInv ==
  ASSUME Inv, pc = "idle", routes' = routes, sent' \subseteq Peers,
         NEW o \in Ops, o.kind \in {"received", "sent", "ready"},
         CheckBoundary(o, queued)
  PROVE  Inv'
<1>1. Addressed(queued, node.parent, routes, o)
  BY DEF Inv, Flow, Addressed, NoOp
<1> QED
  BY <1>1, CheckBoundaryInv DEF Inv, Names

LEMMA PacketReceivedInv ==
  ASSUME Inv, NEW src \in Peers, PacketReceived(src)
  PROVE  Inv'
<1>1. PICK o : o = Op("received", src)
  OBVIOUS
<1>2. o \in Ops /\ o.kind = "received"
  BY <1>1 DEF Op, Ops
<1>3. CheckBoundary(o, queued) /\ pc = "idle" /\ UNCHANGED <<routes, sent>>
  BY <1>1 DEF PacketReceived
<1> QED
  BY <1>2, <1>3, CallbackInv DEF Inv, Names

LEMMA PacketSentInv ==
  ASSUME Inv, NEW dest \in sent, NEW ok \in BOOLEAN, PacketSent(dest, ok)
  PROVE  Inv'
<1>1. PICK o : o = [Op("sent", dest) EXCEPT !.ok = ok]
  OBVIOUS
<1>2. o \in Ops /\ o.kind = "sent"
  BY <1>1 DEF Op, Ops, Inv, Names
<1>3. CheckBoundary(o, queued) /\ pc = "idle" /\ routes' = routes /\ sent' \subseteq Peers
  BY <1>1 DEF PacketSent, Inv, Names
<1> QED
  BY <1>2, <1>3, CallbackInv

LEMMA PacketReadyInv ==
  ASSUME Inv, NEW dest \in Peers, PacketReady(dest)
  PROVE  Inv'
<1>1. PICK o : o = Op("ready", dest)
  OBVIOUS
<1>2. o \in Ops /\ o.kind = "ready"
  BY <1>1 DEF Op, Ops
<1>3. CheckBoundary(o, queued) /\ pc = "idle" /\ UNCHANGED <<routes, sent>>
  BY <1>1 DEF PacketReady
<1> QED
  BY <1>2, <1>3, CallbackInv DEF Inv, Names

LEMMA NewTimeSourceInv ==
  ASSUME Inv, NEW n \in Peers \cup {NoAddr}, NewTimeSource(n)
  PROVE  Inv'
<1>1. /\ pc = "idle" /\ pc' = "flush" /\ op' = Op("source", n) /\ todo' = {}
      /\ UNCHANGED <<node, routes, queued, sent, at>>
  BY DEF NewTimeSource, Goto
<1>2. op' \in Ops /\ op'.kind = "source"
  BY <1>1 DEF Op, Ops
<1>3. /\ Base(node') /\ Earned(node', Written(pc', at')) /\ Flow(pc', op')
      /\ Tasks(node', pc', todo', at')
  BY <1>1, <1>2 DEF Inv, Written, Flow, Tasks
<1>4. Addressed(queued', node'.parent, routes', op')
  BY <1>1 DEF Inv, Flow, Addressed, NoOp
<1> QED
  BY <1>1, <1>3, <1>4, InvNext DEF Inv, Names

LEMMA ChildAddedInv ==
  ASSUME Inv, NEW a \in Peers, ChildAdded(a)
  PROVE  Inv'
<1>1. PICK o : o = Op("added", a)
  OBVIOUS
<1>2. o \in Ops /\ o.kind = "added"
  BY <1>1 DEF Op, Ops
<1>3. /\ AddChild(o, node, queued) /\ pc = "idle" /\ routes' = routes \cup {a}
      /\ sent' = sent
  BY <1>1 DEF ChildAdded
<1>4. Earned(node, {}) /\ Addressed(queued, node.parent, routes', NoOp)
  BY <1>3 DEF Inv, Written, Flow, Addressed
<1> QED
  BY <1>2, <1>3, <1>4, AddChildInv DEF Inv, Names

LEMMA ChildRemovedInv ==
  ASSUME Inv, NEW a \in Peers, ChildRemoved(a)
  PROVE  Inv'
<1>1. /\ node' = RemoveChild(node, a) /\ pc = "idle" /\ routes' = routes \ {a}
      /\ pc' = "flush" /\ op' = Op("removed", a) /\ todo' = {}
      /\ UNCHANGED <<queued, sent, at>>
  BY DEF ChildRemoved, Goto
<1>2. op' \in Ops /\ op'.kind = "removed" /\ op'.a = a
  BY <1>1 DEF Op, Ops
<1>3. Base(node') /\ node'.parent = node.parent /\ Earned(node', {})
  BY <1>1, RemoveChildKeeps DEF Inv, Written
<1>4. Earned(node', Written(pc', at')) /\ Flow(pc', op') /\ Tasks(node', pc', todo', at')
  BY <1>1, <1>2, <1>3 DEF Inv, Written, Flow, Tasks
<1>5. Addressed(queued', node'.parent, routes', op')
  BY <1>1, <1>2, <1>3 DEF Inv, Flow, Addressed, NoOp
<1> QED
  BY <1>1, <1>3, <1>4, <1>5, InvNext DEF Inv, Names

\* The node, its callback and its routes stay.
LEMMA SameCallback ==
  ASSUME Inv, Keeps(node, node'), UNCHANGED <<pc, op, todo, at, routes>>,
         sent' \subseteq Peers, queued' \subseteq queued
  PROVE  Inv'
<1>1. Earned(node', Written(pc', at')) /\ Tasks(node', pc', todo', at')
  BY DEF Inv, Keeps, Tasks
<1>2. Addressed(queued', node'.parent, routes', op')
  BY DEF Inv, Keeps, Addressed
<1> QED
  BY <1>1, <1>2, InvNext DEF Inv, Names, Keeps

LEMMA SlotSendsInv ==
  ASSUME Inv, NEW p \in queued, SlotSends(p)
  PROVE  Inv'
<1>1. Keeps(node, node')
  BY DEF Inv, Keeps, SlotSends
<1>2. sent' \subseteq Peers /\ queued' \subseteq queued
  BY DEF SlotSends, Inv, Addressed
<1> QED
  BY <1>1, <1>2, SameCallback DEF SlotSends, procVars

LEMMA BudgetExhaustedInv ==
  ASSUME Inv, BudgetExhausted
  PROVE  Inv'
<1>1. /\ NodeShape(node') /\ node'.parent = node.parent /\ node'.links = node.links
      /\ node'.children = node.children
  BY DEF BudgetExhausted, Inv, Base, NodeShape
<1>2. Keeps(node, node')
  BY <1>1, SameTable DEF Inv
<1> QED
  BY <1>2, SameCallback DEF BudgetExhausted, procVars, Inv, Names

-----------------------------------------------------------------------------
(* Theorems *)

\* Inv is inductive: every step keeps it.
THEOREM InductiveInvariant == Spec => []Inv
<1>1. Inv /\ [Next]_vars => Inv'
  <2> SUFFICES ASSUME Inv, [Next]_vars
               PROVE  Inv'
    OBVIOUS
  <2>1. CASE Callback
    BY <2>1, PacketReceivedInv, PacketReadyInv, ChildAddedInv, ChildRemovedInv,
       PacketSentInv, NewTimeSourceInv DEF Callback
  <2>2. CASE Step
    BY <2>2, FillTokensInv, DropPacketInv, RaiseTokensInv, EndUpdateInv, IntroduceInv,
       EndDropInv DEF Step
  <2>3. CASE \E p \in queued : SlotSends(p)
    BY <2>3, SlotSendsInv
  <2>4. CASE BudgetExhausted
    BY <2>4, BudgetExhaustedInv
  <2>5. CASE NextSlotframe \/ UNCHANGED vars
    <3>1. UNCHANGED <<node, routes, queued, sent, pc, op, todo, at>>
      BY <2>5 DEF NextSlotframe, vars, procVars
    <3> QED
      BY <3>1, InvNext DEF Inv, Names
  <2> QED
    BY <2>1, <2>2, <2>3, <2>4, <2>5 DEF Next, Interrupt
<1> QED
  BY InitInv, <1>1, PTL DEF Spec

\* All transmit links lead to the current parent, at all times and however parent
\* changes, slotframe updates and rebuilds follow each other.
THEOREM LinksLeadToParent == Spec => []SendsToParent
<1>1. Inv => SendsToParent
  BY DEF Inv, Base, Leads, SendsToParent
<1> QED
  BY <1>1, InductiveInvariant, PTL

\* Wherever the interrupt comes in a callback, no enhanced ACK says that the budget
\* of a child is exhausted before the child sent something since its tokens were
\* filled; except in the two moments in which its entry is being written.
THEOREM NoEarlyNack == Spec => []NackOnlyAfterPacket
<1>1. Inv => NackOnlyAfterPacket
  BY DEF Inv, Earned, Written, NackOnlyAfterPacket, DoNack
<1> QED
  BY <1>1, InductiveInvariant, PTL

\* No packet stays queued for a node that is neither parent nor next hop, other than
\* while the packets to a child that has gone are dropped; and in the parent's
\* shared cell there is a link for it.
THEOREM NoOrphanPackets == Spec => []QueuedForNeighbor
<1>1. Inv => QueuedForNeighbor
  <2> SUFFICES ASSUME Inv, NEW p \in queued, p.dest = node.parent, p.cell = Rcv(p.dest)
               PROVE  HasTxLink(node, p.cell)
    BY DEF QueuedForNeighbor, Inv, Addressed
  <2>1. node.parent # NoAddr
    BY NodeAssumption DEF Inv, Addressed
  <2>2. SharedLink(Rcv(node.parent)) \in node.links
    BY <2>1 DEF Inv, Base, Leads
  <2> QED
    BY <2>2 DEF HasTxLink
<1> QED
  BY <1>1, InductiveInvariant, PTL

-----------------------------------------------------------------------------
(* Induction over the natural numbers, from a fact of the library: the     *)
(* strict subset relation is well-founded on finite sets, such as 0 .. n.  *)

\* Every set of natural numbers that is not empty has a least element.
LEMMA LeastElement ==
  ASSUME NEW T \in SUBSET Nat, T # {}
  PROVE  \E x \in T : \A y \in T : x <= y
<1> DEFINE F == {0 .. n : n \in T}
<1>1. F # {}
  OBVIOUS
<1>2. F \subseteq FiniteSubsetsOf(Nat)
  <2>1. ASSUME NEW n \in T PROVE 0 .. n \in FiniteSubsetsOf(Nat)
    <3>1. n \in Nat /\ 0 \in Int /\ n \in Int
      OBVIOUS
    <3>2. IsFiniteSet(0 .. n)
      BY <3>1, FS_Interval
    <3> QED
      BY <3>1, <3>2 DEF FiniteSubsetsOf
  <2> QED
    BY <2>1
<1>3. IsWellFoundedOn(StrictSubsetOrdering(Nat), FiniteSubsetsOf(Nat))
  BY FS_StrictSubsetOrderingWellFounded
<1>4. PICK I \in F : \A J \in F : <<J, I>> \notin StrictSubsetOrdering(Nat)
  <2> HIDE DEF F
  <2> QED
    BY <1>1, <1>2, <1>3, WFMin
<1>5. PICK x \in T : I = 0 .. x
  OBVIOUS
<1>6. ASSUME NEW y \in T, y < x PROVE FALSE
  <2>1. 0 .. y \subseteq 0 .. x /\ 0 .. y # 0 .. x
    BY <1>6
  <2>2. 0 .. y \in SUBSET Nat /\ 0 .. x \in SUBSET Nat
    BY <1>6
  <2>3. <<0 .. y, 0 .. x>> \in StrictSubsetOrdering(Nat)
    BY <2>1, <2>2 DEF StrictSubsetOrdering
  <2> QED
    BY <1>4, <1>5, <2>3
<1> QED
  BY <1>6

\* A set with 0 and the successors of its numbers holds every number.
LEMMA Induction ==
  ASSUME NEW S, 0 \in S, \A n \in Nat : n \in S => n + 1 \in S
  PROVE  \A n \in Nat : n \in S
<1> SUFFICES ASSUME Nat \ S # {} PROVE FALSE
  OBVIOUS
<1>1. PICK x \in Nat \ S : \A y \in Nat \ S : x <= y
  BY LeastElement
<1>2. x # 0 /\ x - 1 \in Nat
  BY <1>1
<1>3. x - 1 \in S
  BY <1>1, <1>2
<1> QED
  BY <1>1, <1>2, <1>3

-----------------------------------------------------------------------------
(* The quota is a number of cells, also as a recursive function.           *)

PriceIntervals == [lo : Nat \ {0}, hi : Nat \ {0}]

LEMMA DemandType ==
  ASSUME NEW p \in Nat \ {0}
  PROVE  Demand(p) \in 0 .. MaxCells
<1>1. Weight * Scale \in Nat /\ MaxCells \in Nat
  BY QuotaAssumption
<1>2. (Weight * Scale) \div p \in Int
  BY <1>1
<1> QED
  BY <1>1, <1>2 DEF Demand

LEMMA NarrowType ==
  ASSUME NEW n, NEW B, NEW i \in PriceIntervals
  PROVE  Middle(i) \in Nat \ {0} /\ Narrow(n, B, i) \in PriceIntervals
<1>1. Middle(i) \in Nat \ {0}
  BY DEF PriceIntervals, Middle
<1> QED
  BY <1>1 DEF PriceIntervals, Narrow

\* The intervals of the search, as the recursive function of Quota, and g, which is
\* that function as far as index k.
Intervals(n, B) ==
  LET interval[k \in 0 .. Iterations] ==
        IF k = 0 THEN FirstInterval(n) ELSE Narrow(n, B, interval[k - 1])
  IN  interval
Unfolds(g, n, B, k) ==
  g = [i \in 0 .. k |-> IF i = 0 THEN FirstInterval(n) ELSE Narrow(n, B, g[i - 1])]

LEMMA IntervalsUnfold ==
  ASSUME NEW n, NEW B
  PROVE  Unfolds(Intervals(n, B), n, B, Iterations)
<1> DEFINE S == {k \in Nat : \E g : Unfolds(g, n, B, k)}
<1>1. 0 \in S
  <2>1. Unfolds([i \in 0 .. 0 |-> FirstInterval(n)], n, B, 0)
    BY DEF Unfolds
  <2> QED
    BY <2>1
<1>2. ASSUME NEW k \in Nat, k \in S PROVE k + 1 \in S
  <2>1. PICK g : Unfolds(g, n, B, k)
    BY <1>2
  <2> DEFINE h == [i \in 0 .. k + 1 |-> IF i = k + 1 THEN Narrow(n, B, g[k]) ELSE g[i]]
  <2>2. ASSUME NEW i \in 0 .. k + 1
        PROVE  h[i] = IF i = 0 THEN FirstInterval(n) ELSE Narrow(n, B, h[i - 1])
    BY <2>1 DEF Unfolds
  <2>3. Unfolds(h, n, B, k + 1)
    BY <2>2 DEF Unfolds
  <2> QED
    BY <2>3
<1> HIDE DEF S
<1>3. Iterations \in S
  BY <1>1, <1>2, Induction, QuotaAssumption
<1>4. PICK g : Unfolds(g, n, B, Iterations)
  BY <1>3 DEF S
<1> QED
  BY <1>4 DEF Intervals, Unfolds

LEMMA QuotaType ==
  ASSUME NEW n \in Nat \ {0}, NEW B
  PROVE  Quota(n, B) \in 0 .. MaxCells
<1> DEFINE f == Intervals(n, B)
           S == {k \in Nat : k <= Iterations => f[k] \in PriceIntervals}
<1>1. \A k \in 0 .. Iterations :
        f[k] = IF k = 0 THEN FirstInterval(n) ELSE Narrow(n, B, f[k - 1])
  <2>1. f = [k \in 0 .. Iterations |->
               IF k = 0 THEN FirstInterval(n) ELSE Narrow(n, B, f[k - 1])]
    BY IntervalsUnfold DEF Unfolds
  <2> HIDE DEF f
  <2> QED
    BY <2>1
<1> HIDE DEF f
<1>2. 0 \in S
  <2>1. FirstInterval(n) \in PriceIntervals
    <3>1. n * Weight * Scale \in Nat \ {0}
      BY QuotaAssumption
    <3> QED
      BY <3>1 DEF FirstInterval, PriceIntervals
  <2> QED
    BY <1>1, <2>1, QuotaAssumption
<1>3. ASSUME NEW k \in Nat, k \in S PROVE k + 1 \in S
  <2>1. CASE k + 1 <= Iterations
    <3>1. k + 1 \in 0 .. Iterations /\ k + 1 # 0 /\ (k + 1) - 1 = k /\ f[k] \in PriceIntervals
      BY <1>3, <2>1, QuotaAssumption
    <3>2. f[k + 1] = Narrow(n, B, f[k])
      BY <1>1, <3>1
    <3>3. f[k + 1] \in PriceIntervals
      BY <3>1, <3>2, NarrowType
    <3> QED
      BY <3>3
  <2> QED
    BY <2>1, QuotaAssumption
<1> HIDE DEF S
<1>4. Iterations \in S
  BY <1>2, <1>3, Induction, QuotaAssumption
<1>5. f[Iterations] \in PriceIntervals
  BY <1>4, QuotaAssumption DEF S
<1>6. Demand(Middle(f[Iterations])) \in 0 .. MaxCells
  BY <1>5, NarrowType, DemandType
<1>7. Quota(n, B) = Demand(Middle(f[Iterations]))
  BY DEF Quota, Intervals, f
<1> QED
  BY <1>6, <1>7

(* The second invariant: how many cells a child has, what was predicted    *)
(* for it and which links there are agree.                                 *)

Predictors == [mu : Nat, s : Nat, predicted : Nat]
ChildEntries ==
  [c : Predictors, cells : Nat, quota : 0 .. MaxCells, tokens : Nat, pkts : Nat,
   heard : BOOLEAN]

\* The types of a record, with the number of children that of the table.
Typed(v) ==
  /\ NodeShape(v)
  /\ v.children \in [Known(v) -> ChildEntries]
  /\ Known(v) \subseteq Peers /\ IsFiniteSet(Known(v))
  /\ v.num = Cardinality(Known(v)) /\ v.num <= MaxChildren
  /\ v.self \in Predictors /\ v.selfPkts \in Nat /\ v.have \in Nat

\* Predictions are within the quotas, if there is a budget.
Capping(v) ==
  Budget # 0 => \A a \in Known(v) : v.children[a].c.predicted <= v.children[a].quota

\* So is the number of cells within what the slotframe is dimensioned for.
Roomy(v) ==
  Budget # 0 => \A a \in Known(v) : v.children[a].cells <= MaxCells

\* The cells that there are cover the predictions.
Covers(v) ==
  /\ v.self.predicted <= v.have
  /\ \A a \in Known(v) : v.children[a].c.predicted <= v.children[a].cells
  /\ Capping(v) /\ Roomy(v)

Listens(v) ==
  {l \in v.links : l.opt = "rx"} =
    {RxLink(Rcv(Self))} \cup UNION {RxCells(a, 0, v.children[a].cells) : a \in Known(v)}

\* The links are those of the cells that were counted, each added once.
Linked(v) ==
  /\ Listens(v)
  /\ {l \in v.links : l.opt = "tx"} \subseteq TxCells(v.parent, 0, v.have)
  /\ v.doubled = {}

Seen(last) == last \in {0} \cup FirstAsfn .. asfn

\* The record once the child that is being added is counted.
Shown(v, step) == IF step = "add" THEN [v EXCEPT !.num = @ + 1] ELSE v

\* What holds of it at a step of callback o: an update has its new predictions before
\* it has the cells for them, and the cells of a child that was removed keep their
\* links until the rebuild.
Holds(v, step, o) ==
  /\ Typed(v) /\ Seen(v.last)
  /\ IF step \in {"fill", "floor"} THEN Capping(v) /\ Roomy(v) ELSE Covers(v)
  /\ o.kind # "removed" => Linked(v)

Inv2 ==
  /\ Holds(Shown(node, pc), pc, op)
  /\ pc = "add" => node.children[at].cells = 0
  /\ asfn \in Nat /\ FirstAsfn <= asfn /\ Seen(now)

\* w is v with other predictions, quotas and tokens.
Carries(v, w) ==
  /\ Known(w) = Known(v)
  /\ w.parent = v.parent /\ w.links = v.links /\ w.doubled = v.doubled /\ w.have = v.have
  /\ \A a \in Known(v) : w.children[a].cells = v.children[a].cells

\* w is v with other tokens and counters.
Alike(v, w) ==
  /\ Typed(w) /\ Carries(v, w)
  /\ w.self = v.self
  /\ \A a \in Known(v) : /\ w.children[a].c = v.children[a].c
                         /\ w.children[a].quota = v.children[a].quota

LEMMA CarriesLinked ==
  ASSUME NEW v, NEW w, Carries(v, w), Linked(v)
  PROVE  Linked(w)
BY DEF Carries, Linked, Listens

LEMMA AlikeAgree ==
  ASSUME NEW v, NEW w, Alike(v, w)
  PROVE  /\ Capping(v) => Capping(w)
         /\ Roomy(v) => Roomy(w)
         /\ Covers(v) => Covers(w)
         /\ Linked(v) => Linked(w)
<1>1. Linked(v) => Linked(w)
  BY CarriesLinked DEF Alike
<1>2. (Capping(v) => Capping(w)) /\ (Roomy(v) => Roomy(w))
  BY DEF Alike, Carries, Capping, Roomy
<1>3. Covers(v) => Covers(w)
  BY <1>2 DEF Alike, Carries, Covers
<1> QED
  BY <1>1, <1>2, <1>3

LEMMA CusumType ==
  ASSUME NEW c \in Predictors, NEW D \in Nat
  PROVE  Cusum(c, D) \in Predictors
<1> DEFINE dt == 100 * Adjusted(D, c.predicted)
           s == IF c.s + dt - c.mu < 0 THEN 0 ELSE c.s + dt - c.mu
           burst == s > Threshold
           mu == IF burst THEN dt ELSE (Rho * c.mu + (100 - Rho) * dt) \div 100
<1>1. c.mu \in Nat /\ c.s \in Nat /\ c.predicted \in Nat
  BY DEF Predictors
<1>2. Adjusted(D, c.predicted) \in Nat
  BY <1>1 DEF Adjusted
<1>3. dt \in Nat
  BY <1>2
<1>4. s \in Nat
  BY <1>1, <1>3
<1>5. mu \in Nat
  <2>1. Rho \in Nat /\ 100 - Rho \in Nat
    BY CusumAssumption
  <2> HIDE DEF dt
  <2>2. Rho * c.mu \in Nat /\ (100 - Rho) * dt \in Nat
    BY <1>1, <1>3, <2>1
  <2>3. (Rho * c.mu + (100 - Rho) * dt) \div 100 \in Nat
    BY <2>2
  <2> QED
    BY <1>3, <2>3
<1>6. Cusum(c, D) = [mu |-> mu, s |-> IF burst THEN 0 ELSE s,
                     predicted |-> IF mu > 0 THEN (mu + 99) \div 100 ELSE 0]
  BY DEF Cusum
<1> HIDE DEF mu, s, burst
<1>7. (IF mu > 0 THEN (mu + 99) \div 100 ELSE 0) \in Nat
  BY <1>5
<1> QED
  BY <1>4, <1>5, <1>6, <1>7 DEF Predictors

\* The children's entries, and what changes of them.
LEMMA EntriesKept ==
  ASSUME NEW x \in ChildEntries
  PROVE  /\ Counted(x) \in ChildEntries /\ Counted(x).cells = x.cells
         /\ \A q \in 0 .. MaxCells :
              /\ Capped(x, q) \in ChildEntries /\ Capped(x, q).cells = x.cells
              /\ Capped(x, q).c.predicted <= Capped(x, q).quota
         /\ Served(x) \in ChildEntries
         /\ Served(x).c = x.c /\ Served(x).quota = x.quota
         /\ Served(x).cells = IF x.c.predicted > x.cells THEN x.c.predicted ELSE x.cells
<1>1. /\ x.c \in Predictors /\ x.cells \in Nat /\ x.quota \in 0 .. MaxCells
      /\ x.tokens \in Nat /\ x.pkts \in Nat /\ x.heard \in BOOLEAN
      /\ x = [c |-> x.c, cells |-> x.cells, quota |-> x.quota, tokens |-> x.tokens,
              pkts |-> x.pkts, heard |-> x.heard]
  BY DEF ChildEntries
<1>2. /\ x.c.predicted \in Nat /\ x.c.mu \in Nat /\ x.c.s \in Nat
      /\ x.c = [mu |-> x.c.mu, s |-> x.c.s, predicted |-> x.c.predicted]
  BY <1>1 DEF Predictors
<1>3. MaxCells \in Nat
  BY QuotaAssumption
<1>4. Counted(x) \in ChildEntries /\ Counted(x).cells = x.cells
  <2>1. PICK c \in Predictors : c = Cusum(x.c, x.pkts)
    BY <1>1, CusumType
  <2>2. Counted(x) = [x EXCEPT !.c = c, !.pkts = 0]
    BY <2>1 DEF Counted
  <2>3. Counted(x) = [c |-> c, cells |-> x.cells, quota |-> x.quota, tokens |-> x.tokens,
                      pkts |-> 0, heard |-> x.heard]
    BY <1>1, <2>2 DEF ChildEntries
  <2> QED
    BY <1>1, <2>1, <2>3 DEF ChildEntries
<1>5. ASSUME NEW q \in 0 .. MaxCells
      PROVE  /\ Capped(x, q) \in ChildEntries /\ Capped(x, q).cells = x.cells
             /\ Capped(x, q).c.predicted <= Capped(x, q).quota
  <2>1. PICK p : p = IF x.c.predicted > q THEN q ELSE x.c.predicted
    OBVIOUS
  <2>2. p \in Nat /\ p <= q
    BY <1>2, <1>3, <1>5, <2>1
  <2>3. Capped(x, q) = [x EXCEPT !.quota = q, !.c = [x.c EXCEPT !.predicted = p]]
    BY <1>1, <2>1 DEF Capped
  <2>4. PICK c : c = [x.c EXCEPT !.predicted = p]
    OBVIOUS
  <2>5. c \in Predictors /\ c.predicted = p
    BY <1>1, <2>2, <2>4 DEF Predictors
  <2>6. Capped(x, q) = [x EXCEPT !.quota = q, !.c = c]
    BY <2>3, <2>4
  <2>7. Capped(x, q) = [c |-> c, cells |-> x.cells, quota |-> q, tokens |-> x.tokens,
                        pkts |-> x.pkts, heard |-> x.heard]
    BY <1>1, <2>6 DEF ChildEntries
  <2> QED
    BY <1>1, <2>2, <2>5, <2>7 DEF ChildEntries
<1>6. /\ Served(x) \in ChildEntries
      /\ Served(x).c = x.c /\ Served(x).quota = x.quota
      /\ Served(x).cells = IF x.c.predicted > x.cells THEN x.c.predicted ELSE x.cells
  <2>1. PICK n : n = IF x.c.predicted > x.cells THEN x.c.predicted ELSE x.cells
    OBVIOUS
  <2>2. n \in Nat /\ Served(x) = [x EXCEPT !.cells = n]
    BY <1>1, <1>2, <2>1 DEF Served
  <2> QED
    BY <1>1, <2>1, <2>2 DEF ChildEntries
<1> QED
  BY <1>4, <1>5, <1>6

\* The tokens of an entry, and its counter of packets, concern nothing else.
SameEntry(x, y) ==
  y \in ChildEntries /\ y.c = x.c /\ y.cells = x.cells /\ y.quota = x.quota

LEMMA TokensOnly ==
  ASSUME NEW x \in ChildEntries, NEW t \in Nat
  PROVE  /\ SameEntry(x, Filled(x, t))
         /\ SameEntry(x, [x EXCEPT !.tokens = 1])
         /\ SameEntry(x, Heard(x))
<1>1. SameEntry(x, Filled(x, t)) /\ SameEntry(x, [x EXCEPT !.tokens = 1])
  BY DEF ChildEntries, Filled, SameEntry
<1>2. SameEntry(x, Heard(x))
  <2>1. PICK m : m = IF x.tokens > 0 THEN x.tokens - 1 ELSE 0
    OBVIOUS
  <2>2. PICK n : n = x.pkts + 1
    OBVIOUS
  <2>3. m \in Nat /\ n \in Nat /\ Heard(x) = [x EXCEPT !.pkts = n, !.tokens = m, !.heard = TRUE]
    BY <2>1, <2>2 DEF ChildEntries, Heard
  <2> QED
    BY <2>3 DEF ChildEntries, SameEntry
<1> QED
  BY <1>1, <1>2

-----------------------------------------------------------------------------
(* What the operators of the model do to cells and links *)

\* A cell's link is in one of these sets exactly if its number is in the range.
LEMMA CellMembers ==
  ASSUME NEW a, NEW from, NEW to, NEW l
  PROVE  /\ l \in RxCells(a, from, to) <=>
              \E i \in from .. to - 1 : l = [opt |-> "rx", cell |-> [to |-> Self, from |-> a, i |-> i]]
         /\ l \in TxCells(a, from, to) <=>
              \E i \in from .. to - 1 : l = [opt |-> "tx", cell |-> [to |-> a, from |-> Self, i |-> i]]
BY DEF RxCells, TxCells, RxLink, TxLink, Ded

LEMMA CellNumbers ==
  ASSUME NEW a, NEW b, NEW i, NEW j
  PROVE  /\ [opt |-> "rx", cell |-> [to |-> Self, from |-> a, i |-> i]]
              = [opt |-> "rx", cell |-> [to |-> Self, from |-> b, i |-> j]] => a = b /\ i = j
         /\ [opt |-> "tx", cell |-> [to |-> a, from |-> Self, i |-> i]]
              = [opt |-> "tx", cell |-> [to |-> b, from |-> Self, i |-> j]] => a = b /\ i = j
OBVIOUS

\* Cells that are added part by part are the cells from 0 on, each part new.
LEMMA CellsAddUp ==
  ASSUME NEW a, NEW m \in Nat, NEW k \in Nat
  PROVE  /\ RxCells(a, 0, m) \cup RxCells(a, m, k) = RxCells(a, 0, IF k > m THEN k ELSE m)
         /\ TxCells(a, 0, m) \cup TxCells(a, m, k) = TxCells(a, 0, IF k > m THEN k ELSE m)
         /\ TxCells(a, 0, m) \cap TxCells(a, m, k) = {}
<1>1. \A i : i \in 0 .. m - 1 \/ i \in m .. k - 1 <=> i \in 0 .. (IF k > m THEN k ELSE m) - 1
  OBVIOUS
<1>2. RxCells(a, 0, m) \cup RxCells(a, m, k) = RxCells(a, 0, IF k > m THEN k ELSE m)
  BY <1>1 DEF RxCells
<1>3. TxCells(a, 0, m) \cup TxCells(a, m, k) = TxCells(a, 0, IF k > m THEN k ELSE m)
  BY <1>1 DEF TxCells
<1>4. TxCells(a, 0, m) \cap TxCells(a, m, k) = {}
  <2> SUFFICES ASSUME NEW l \in TxCells(a, 0, m), l \in TxCells(a, m, k) PROVE FALSE
    OBVIOUS
  <2>1. PICK i \in 0 .. m - 1 : l = [opt |-> "tx", cell |-> [to |-> a, from |-> Self, i |-> i]]
    BY CellMembers
  <2>2. PICK j \in m .. k - 1 : l = [opt |-> "tx", cell |-> [to |-> a, from |-> Self, i |-> j]]
    BY CellMembers
  <2>3. i = j
    BY <2>1, <2>2, CellNumbers
  <2> QED
    BY <2>3
<1> QED
  BY <1>2, <1>3, <1>4

\* Cells from m on are among those from 0 on only of the same child, if it has more.
LEMMA CellsApart ==
  ASSUME NEW a, NEW b, NEW m \in Nat, NEW k \in Nat, NEW n \in Nat,
         NEW l, l \in RxCells(a, m, k), l \in RxCells(b, 0, n)
  PROVE  a = b /\ m < n
<1>1. PICK i \in m .. k - 1 : l = [opt |-> "rx", cell |-> [to |-> Self, from |-> a, i |-> i]]
  BY CellMembers
<1>2. PICK j \in 0 .. n - 1 : l = [opt |-> "rx", cell |-> [to |-> Self, from |-> b, i |-> j]]
  BY CellMembers
<1>3. a = b /\ i = j
  BY <1>1, <1>2, CellNumbers
<1> QED
  BY <1>3

\* Entries that keep their type keep the table, if the table keeps its children.
LEMMA SameChildren ==
  ASSUME NEW v, NEW w, Typed(v), NodeShape(w), w.children \in [Known(v) -> ChildEntries],
         w.num = v.num, w.self \in Predictors, w.selfPkts \in Nat, w.have \in Nat
  PROVE  Typed(w) /\ Known(w) = Known(v)
<1>1. Known(w) = Known(v)
  BY DEF Known
<1> QED
  BY <1>1 DEF Typed

LEMMA CountTrafficCarries ==
  ASSUME NEW v, Typed(v), NEW w, w = CountTraffic(v)
  PROVE  Typed(w) /\ Carries(v, w) /\ w.last = v.last
<1>1. PICK f : f = [a \in Known(v) |-> Counted(v.children[a])]
  OBVIOUS
<1>2. PICK s \in Predictors : s = Cusum(v.self, v.selfPkts)
  BY CusumType DEF Typed
<1>3. /\ NodeShape(w) /\ w.children = f /\ w.num = v.num /\ w.self = s /\ w.selfPkts = 0
      /\ w.have = v.have /\ w.parent = v.parent /\ w.links = v.links /\ w.doubled = v.doubled
      /\ w.last = v.last
  <2>1. w = [v EXCEPT !.children = f, !.self = s, !.selfPkts = 0,
                      !.txLast = v.txThis, !.txThis = FALSE, !.exhausted = FALSE]
    BY <1>1, <1>2 DEF CountTraffic
  <2> QED
    BY <2>1 DEF Typed, NodeShape
<1>4. f \in [Known(v) -> ChildEntries] /\ \A a \in Known(v) : f[a].cells = v.children[a].cells
  BY <1>1, EntriesKept DEF Typed
<1>5. Typed(w) /\ Known(w) = Known(v)
  BY <1>2, <1>3, <1>4, SameChildren DEF Typed
<1> QED
  BY <1>3, <1>4, <1>5 DEF Carries

LEMMA CapPredictionsCarries ==
  ASSUME NEW v, Typed(v), NEW w, w = CapPredictions(v)
  PROVE  Typed(w) /\ Carries(v, w) /\ Capping(w) /\ w.last = v.last
<1>1. CASE v.num = 0 \/ Budget = 0 \/ Known(v) = {}
  <2>1. w = v
    BY <1>1 DEF CapPredictions
  <2>2. Known(v) = {} \/ Budget = 0
    BY <1>1, FS_EmptySet DEF Typed
  <2> QED
    BY <2>1, <2>2 DEF Carries, Capping
<1>2. CASE ~(v.num = 0 \/ Budget = 0 \/ Known(v) = {})
  <2>1. Cardinality(Known(v)) \in Nat \ {0}
    BY <1>2, FS_CardinalityType DEF Typed
  <2>2. PICK q \in 0 .. MaxCells : q = Quota(Cardinality(Known(v)), Budget)
    BY <2>1, QuotaType
  <2>3. PICK f : f = [a \in Known(v) |-> Capped(v.children[a], q)]
    OBVIOUS
  <2>4. /\ NodeShape(w) /\ w.children = f /\ w.num = v.num /\ w.self = v.self
        /\ w.selfPkts = v.selfPkts /\ w.have = v.have /\ w.parent = v.parent
        /\ w.links = v.links /\ w.doubled = v.doubled /\ w.last = v.last
    <3>1. w = [v EXCEPT !.children = f]
      BY <1>2, <2>2, <2>3 DEF CapPredictions
    <3> QED
      BY <3>1 DEF Typed, NodeShape
  <2>5. /\ f \in [Known(v) -> ChildEntries]
        /\ \A a \in Known(v) : /\ f[a].cells = v.children[a].cells
                               /\ f[a].c.predicted <= f[a].quota
    BY <2>3, EntriesKept DEF Typed
  <2>6. Typed(w) /\ Known(w) = Known(v)
    BY <2>4, <2>5, SameChildren DEF Typed
  <2> QED
    BY <2>4, <2>5, <2>6 DEF Carries, Capping
<1> QED
  BY <1>1, <1>2

\* An entry with the same cells and prediction in place of another.
LEMMA SetChildAlike ==
  ASSUME NEW v, Typed(v), NEW a \in Known(v), NEW x, SameEntry(v.children[a], x),
         NEW w, w = SetChild(v, a, x)
  PROVE  Alike(v, w) /\ w.last = v.last
<1>1. PICK f : f = [b \in Known(v) |-> IF b = a THEN x ELSE v.children[b]]
  OBVIOUS
<1>2. /\ NodeShape(w) /\ w.children = f /\ w.num = v.num /\ w.self = v.self
      /\ w.selfPkts = v.selfPkts /\ w.have = v.have /\ w.parent = v.parent
      /\ w.links = v.links /\ w.doubled = v.doubled /\ w.last = v.last
  <2>1. w = [v EXCEPT !.children = f]
    BY <1>1 DEF SetChild
  <2> QED
    BY <2>1 DEF Typed, NodeShape
<1>3. /\ f \in [Known(v) -> ChildEntries]
      /\ \A b \in Known(v) : /\ f[b].cells = v.children[b].cells
                             /\ f[b].c = v.children[b].c /\ f[b].quota = v.children[b].quota
  BY <1>1 DEF SameEntry, Typed
<1>4. Typed(w) /\ Known(w) = Known(v)
  BY <1>2, <1>3, SameChildren DEF Typed
<1> QED
  BY <1>2, <1>3, <1>4 DEF Alike, Carries

\* The same children, in a record whose other fields may differ as they do not count.
LEMMA SameTableAlike ==
  ASSUME NEW v, Typed(v), NEW w, NodeShape(w), w.children = v.children, w.num = v.num,
         w.self = v.self, w.selfPkts \in Nat, w.have = v.have, w.parent = v.parent,
         w.links = v.links, w.doubled = v.doubled
  PROVE  Alike(v, w)
<1>1. Typed(w) /\ Known(w) = Known(v)
  BY SameChildren DEF Typed
<1> QED
  BY <1>1 DEF Alike, Carries

LEMMA LastAlike ==
  ASSUME NEW v, Typed(v), NEW n, NEW w, w = [v EXCEPT !.last = n]
  PROVE  Alike(v, w) /\ w.last = n
<1>1. /\ NodeShape(w) /\ w.children = v.children /\ w.num = v.num /\ w.self = v.self
      /\ w.selfPkts = v.selfPkts /\ w.have = v.have /\ w.parent = v.parent
      /\ w.links = v.links /\ w.doubled = v.doubled /\ w.last = n
  BY DEF Typed, NodeShape
<1> QED
  BY <1>1, SameTableAlike DEF Typed

LEMMA NotifyTxAlike ==
  ASSUME NEW v, Typed(v), NEW w, w = NotifyTx(v)
  PROVE  Alike(v, w) /\ w.last = v.last
<1>1. PICK n : n = v.selfPkts + 1
  OBVIOUS
<1>2. n \in Nat
  BY <1>1 DEF Typed
<1>3. /\ NodeShape(w) /\ w.children = v.children /\ w.num = v.num /\ w.self = v.self
      /\ w.selfPkts = n /\ w.have = v.have /\ w.parent = v.parent
      /\ w.links = v.links /\ w.doubled = v.doubled /\ w.last = v.last
  <2>1. w = [v EXCEPT !.selfPkts = n, !.txThis = TRUE]
    BY <1>1 DEF NotifyTx
  <2> QED
    BY <2>1 DEF Typed, NodeShape
<1> QED
  BY <1>2, <1>3, SameTableAlike

LEMMA NotifyRxAlike ==
  ASSUME NEW v, Typed(v), NEW a \in Known(v), NEW w, w = NotifyRx(v, a)
  PROVE  Alike(v, w) /\ w.last = v.last
<1>1. PICK x \in ChildEntries : x = v.children[a]
  BY DEF Typed
<1>2. PICK y : y = Heard(x)
  OBVIOUS
<1>3. SameEntry(v.children[a], y)
  BY <1>1, <1>2, TokensOnly
<1>4. w = SetChild(v, a, y)
  BY <1>1, <1>2 DEF NotifyRx
<1> QED
  BY <1>3, <1>4, SetChildAlike

\* What the last part of an update leaves of v.
Updated(v, w) ==
  /\ Typed(w) /\ Covers(w)
  /\ w.last = v.last
  /\ Linked(v) => Linked(w)

\* Links are added for the cells that are missing, and those are new.
LEMMA UpdateCellsUpdates ==
  ASSUME NEW v, Typed(v), Capping(v), NEW w, w = UpdateCells(v),
         Roomy(v)
  PROVE  Updated(v, w)
<1>1. PICK rx : rx = UNION {RxCells(a, v.children[a].cells, v.children[a].c.predicted) :
                               a \in Known(v)}
  OBVIOUS
<1>2. PICK tx : tx = TxCells(v.parent, v.have, v.self.predicted)
  OBVIOUS
<1>3. PICK f : f = [a \in Known(v) |-> Served(v.children[a])]
  OBVIOUS
<1>4. PICK n : n = IF v.self.predicted > v.have THEN v.self.predicted ELSE v.have
  OBVIOUS
<1>5. /\ NodeShape(w) /\ w.children = f /\ w.num = v.num /\ w.self = v.self
      /\ w.selfPkts = v.selfPkts /\ w.have = n /\ w.parent = v.parent
      /\ w.links = v.links \cup (rx \cup tx)
      /\ w.doubled = v.doubled \cup (v.links \cap (rx \cup tx))
      /\ w.last = v.last
  <2>1. PICK u : u = [v EXCEPT !.children = f, !.have = n]
    OBVIOUS
  <2>2. w = AddLinks(u, rx \cup tx)
    BY <1>1, <1>2, <1>3, <1>4, <2>1 DEF UpdateCells
  <2>3. /\ NodeShape(u) /\ u.children = f /\ u.num = v.num /\ u.self = v.self
        /\ u.selfPkts = v.selfPkts /\ u.have = n /\ u.parent = v.parent
        /\ u.links = v.links /\ u.doubled = v.doubled /\ u.last = v.last
    BY <2>1 DEF Typed, NodeShape
  <2> QED
    BY <2>2, <2>3 DEF AddLinks, NodeShape
<1>6. /\ v.self.predicted \in Nat /\ v.have \in Nat /\ n \in Nat /\ v.self.predicted <= n
      /\ \A a \in Known(v) : v.children[a].cells \in Nat /\ v.children[a].c.predicted \in Nat
                             /\ v.children[a].quota \in 0 .. MaxCells
  BY <1>4 DEF Typed, Predictors, ChildEntries
<1>7. /\ f \in [Known(v) -> ChildEntries]
      /\ \A a \in Known(v) :
           /\ f[a].c = v.children[a].c /\ f[a].quota = v.children[a].quota
           /\ f[a].cells = IF v.children[a].c.predicted > v.children[a].cells
                           THEN v.children[a].c.predicted ELSE v.children[a].cells
  BY <1>3, EntriesKept DEF Typed
<1>8. Typed(w) /\ Known(w) = Known(v)
  BY <1>5, <1>6, <1>7, SameChildren DEF Typed
<1>9. Covers(w)
  <2>1. Capping(w)
    BY <1>5, <1>7, <1>8 DEF Capping
  <2>2. \A a \in Known(v) : f[a].c.predicted <= f[a].cells
    BY <1>6, <1>7
  <2>3. Budget # 0 => \A a \in Known(v) : f[a].cells <= MaxCells
    BY <1>6, <1>7, QuotaAssumption DEF Capping, Roomy
  <2> QED
    BY <1>5, <1>6, <1>8, <2>1, <2>2, <2>3 DEF Covers, Roomy
<1>10. ASSUME Linked(v) PROVE Linked(w)
  <2>1. /\ \A l \in rx : l.opt = "rx"
        /\ \A l \in tx : l.opt = "tx"
    BY <1>1, <1>2, DedicatedLinks
  <2>2. \A a \in Known(v) :
          RxCells(a, 0, f[a].cells) = RxCells(a, 0, v.children[a].cells)
            \cup RxCells(a, v.children[a].cells, v.children[a].c.predicted)
    <3> SUFFICES ASSUME NEW a \in Known(v)
                 PROVE  RxCells(a, 0, f[a].cells) = RxCells(a, 0, v.children[a].cells)
                          \cup RxCells(a, v.children[a].cells, v.children[a].c.predicted)
      OBVIOUS
    <3>1. PICK m \in Nat, k \in Nat : m = v.children[a].cells /\ k = v.children[a].c.predicted
      BY <1>6
    <3>2. f[a].cells = IF k > m THEN k ELSE m
      BY <1>7, <3>1
    <3>3. RxCells(a, 0, m) \cup RxCells(a, m, k) = RxCells(a, 0, IF k > m THEN k ELSE m)
      BY CellsAddUp
    <3> QED
      BY <3>1, <3>2, <3>3
  <2>3. Listens(w)
    <3>1. {l \in w.links : l.opt = "rx"} = {l \in v.links : l.opt = "rx"} \cup rx
      BY <1>5, <2>1
    <3>2. UNION {RxCells(a, 0, f[a].cells) : a \in Known(v)}
            = (UNION {RxCells(a, 0, v.children[a].cells) : a \in Known(v)}) \cup rx
      <4>1. ASSUME NEW l, l \in UNION {RxCells(a, 0, f[a].cells) : a \in Known(v)}
            PROVE  l \in (UNION {RxCells(a, 0, v.children[a].cells) : a \in Known(v)}) \cup rx
        <5>1. PICK a \in Known(v) : l \in RxCells(a, 0, f[a].cells)
          BY <4>1, Zenon
        <5> QED
          BY <1>1, <2>2, <5>1
      <4>2. ASSUME NEW l, l \in (UNION {RxCells(a, 0, v.children[a].cells) : a \in Known(v)}) \cup rx
            PROVE  l \in UNION {RxCells(a, 0, f[a].cells) : a \in Known(v)}
        <5>1. PICK a \in Known(v) : l \in RxCells(a, 0, v.children[a].cells)
                \/ l \in RxCells(a, v.children[a].cells, v.children[a].c.predicted)
          <6>1. CASE l \in UNION {RxCells(a, 0, v.children[a].cells) : a \in Known(v)}
            BY <6>1, Zenon
          <6>2. CASE l \in rx
            BY <1>1, <6>2, Zenon
          <6> QED
            BY <4>2, <6>1, <6>2
        <5> QED
          BY <2>2, <5>1
      <4> QED
        BY <4>1, <4>2
    <3>3. {l \in v.links : l.opt = "rx"} = {RxLink(Rcv(Self))}
            \cup UNION {RxCells(a, 0, v.children[a].cells) : a \in Known(v)}
      BY <1>10 DEF Linked, Listens
    <3>4. {l \in w.links : l.opt = "rx"} = {RxLink(Rcv(Self))}
            \cup UNION {RxCells(a, 0, f[a].cells) : a \in Known(v)}
      BY <3>1, <3>2, <3>3
    <3>5. w.children = f /\ Known(w) = Known(v)
      BY <1>5, <1>8
    <3> QED
      BY <3>4, <3>5, Zenon DEF Listens
  <2>4. TxCells(v.parent, 0, n) = TxCells(v.parent, 0, v.have) \cup tx
    BY <1>2, <1>4, <1>6, CellsAddUp
  <2>5. {l \in w.links : l.opt = "tx"} \subseteq TxCells(w.parent, 0, w.have)
    BY <1>5, <1>10, <2>1, <2>4 DEF Linked
  <2>6. v.links \cap tx = {}
    <3>1. TxCells(v.parent, 0, v.have) \cap tx = {}
      BY <1>2, <1>6, CellsAddUp
    <3> QED
      BY <1>10, <2>1, <3>1 DEF Linked
  <2>7. v.links \cap rx = {}
    <3> SUFFICES ASSUME NEW l \in v.links, l \in rx PROVE FALSE
      OBVIOUS
    <3>1. PICK a \in Known(v) : l \in RxCells(a, v.children[a].cells, v.children[a].c.predicted)
      BY <1>1
    <3>2. l \in {RxLink(Rcv(Self))} \cup UNION {RxCells(b, 0, v.children[b].cells) : b \in Known(v)}
      BY <1>10, <2>1 DEF Linked, Listens
    <3>3. CASE l = RxLink(Rcv(Self))
      <4>1. l.cell.from = NoAddr
        BY <3>3 DEF RxLink, Rcv
      <4>2. l.cell.from = a
        BY <3>1, CellMembers
      <4> QED
        BY <4>1, <4>2, NodeAssumption DEF Typed
    <3>4. ASSUME NEW b \in Known(v), l \in RxCells(b, 0, v.children[b].cells)
          PROVE  FALSE
      <4>1. a = b /\ v.children[a].cells < v.children[b].cells
        <5>1. /\ v.children[a].cells \in Nat /\ v.children[a].c.predicted \in Nat
              /\ v.children[b].cells \in Nat
          BY <1>6
        <5>2. PICK m \in Nat, k \in Nat, n1 \in Nat :
                m = v.children[a].cells /\ k = v.children[a].c.predicted
                /\ n1 = v.children[b].cells
          BY <5>1
        <5>3. l \in RxCells(a, m, k) /\ l \in RxCells(b, 0, n1)
          BY <3>1, <3>4, <5>2
        <5>4. a = b /\ m < n1
          BY <5>3, CellsApart
        <5> QED
          BY <5>2, <5>4
      <4> QED
        BY <1>6, <4>1
    <3> QED
      BY <3>2, <3>3, <3>4
  <2>8. w.doubled = {}
    BY <1>5, <1>10, <2>6, <2>7 DEF Linked
  <2> QED
    BY <2>3, <2>5, <2>8 DEF Linked
<1> QED
  BY <1>5, <1>7, <1>8, <1>9, <1>10 DEF Updated

-----------------------------------------------------------------------------
(* The table and the rebuild *)

Agrees(v) == Typed(v) /\ Covers(v) /\ Linked(v)

\* w differs from v in the children, which are those of f, their number and the
\* history of spent tokens.
OtherChildren(v, w, f) ==
  /\ NodeShape(w) /\ w.children = f
  /\ w.self = v.self /\ w.selfPkts = v.selfPkts /\ w.have = v.have /\ w.last = v.last
  /\ w.parent = v.parent /\ w.links = v.links /\ w.doubled = v.doubled

\* A new child has no cells, and no links for it are there.
LEMMA ListChildAgrees ==
  ASSUME NEW v, Agrees(v), NEW a \in Peers, MayAdd(v, a), NEW t \in Nat,
         NEW w, w = Shown(ListChild(v, a, t), "add")
  PROVE  /\ Agrees(w) /\ w.last = v.last
         /\ ListChild(v, a, t).children[a].cells = 0
<1>1. a \notin Known(v) /\ Cardinality(Known(v)) # MaxChildren
  BY DEF MayAdd
<1>2. PICK x : x = [NewChild EXCEPT !.tokens = t]
  OBVIOUS
<1>3. /\ x \in ChildEntries
      /\ x.c.predicted = 0 /\ x.cells = 0 /\ x.quota = 0
  <2>1. x = [c |-> NoPrediction, cells |-> 0, quota |-> 0, tokens |-> t, pkts |-> 0,
             heard |-> FALSE]
    BY <1>2 DEF NewChild
  <2>2. NoPrediction \in Predictors /\ NoPrediction.predicted = 0 /\ 0 \in 0 .. MaxCells
    BY QuotaAssumption DEF NoPrediction, Predictors
  <2> QED
    BY <2>1, <2>2 DEF ChildEntries
<1>4. PICK f : f = [b \in Known(v) \cup {a} |-> IF b = a THEN x ELSE v.children[b]]
  OBVIOUS
<1>5. PICK n : n = v.num + 1
  OBVIOUS
<1>6. PICK u : u = ListChild(v, a, t)
  OBVIOUS
<1>7. OtherChildren(v, w, f) /\ w.num = n /\ u.children = f
  <2>1. u = [v EXCEPT !.children = f]
    BY <1>2, <1>4, <1>6 DEF ListChild
  <2>2. u.num = v.num
    BY <2>1 DEF Agrees, Typed, NodeShape
  <2>3. w = [u EXCEPT !.num = n]
    BY <1>5, <1>6, <2>2 DEF Shown
  <2>4. w = [v EXCEPT !.children = f, !.num = n]
    BY <2>1, <2>3 DEF Agrees, Typed, NodeShape
  <2> QED
    BY <2>1, <2>4 DEF Agrees, Typed, NodeShape, OtherChildren
<1>8. Known(w) = Known(v) \cup {a}
  BY <1>4, <1>7 DEF OtherChildren, Known
<1>9. Typed(w)
  <2>1. f \in [Known(w) -> ChildEntries]
    BY <1>3, <1>4, <1>8 DEF Agrees, Typed
  <2>2. IsFiniteSet(Known(w)) /\ Cardinality(Known(w)) = n
    BY <1>1, <1>5, <1>8, FS_AddElement DEF Agrees, Typed
  <2>3. n <= MaxChildren
    BY <1>1, <1>5, NodeAssumption, FS_CardinalityType DEF Agrees, Typed
  <2> QED
    BY <1>7, <1>8, <2>1, <2>2, <2>3 DEF Agrees, Typed, OtherChildren
<1>10. w.children[a] = x /\ \A b \in Known(v) : w.children[b] = v.children[b]
  BY <1>1, <1>4, <1>7 DEF OtherChildren
<1>11. Covers(w)
  BY <1>3, <1>7, <1>8, <1>10, QuotaAssumption DEF Agrees, Covers, Capping, Roomy, OtherChildren
<1>12. Linked(w)
  <2>1. RxCells(a, 0, w.children[a].cells) = {}
    BY <1>3, <1>10 DEF RxCells
  <2>2. UNION {RxCells(b, 0, w.children[b].cells) : b \in Known(w)}
          = UNION {RxCells(b, 0, v.children[b].cells) : b \in Known(v)}
    <3>1. ASSUME NEW l, l \in UNION {RxCells(b, 0, w.children[b].cells) : b \in Known(w)}
          PROVE  l \in UNION {RxCells(b, 0, v.children[b].cells) : b \in Known(v)}
      <4>1. PICK b \in Known(w) : l \in RxCells(b, 0, w.children[b].cells)
        BY <3>1, Zenon
      <4>2. b \in Known(v) /\ l \in RxCells(b, 0, v.children[b].cells)
        BY <1>8, <1>10, <2>1, <4>1
      <4> QED
        BY <4>2, Zenon
    <3>2. ASSUME NEW l, l \in UNION {RxCells(b, 0, v.children[b].cells) : b \in Known(v)}
          PROVE  l \in UNION {RxCells(b, 0, w.children[b].cells) : b \in Known(w)}
      <4>1. PICK b \in Known(v) : l \in RxCells(b, 0, v.children[b].cells)
        BY <3>2, Zenon
      <4>2. b \in Known(w) /\ l \in RxCells(b, 0, w.children[b].cells)
        BY <1>8, <1>10, <4>1
      <4> QED
        BY <4>2, Zenon
    <3> QED
      BY <3>1, <3>2
  <2> QED
    BY <1>7, <2>2 DEF Agrees, Linked, Listens, OtherChildren
<1> QED
  BY <1>3, <1>4, <1>6, <1>7, <1>9, <1>11, <1>12 DEF Agrees, OtherChildren

\* Nor do its entry's old contents matter, since it has none.
LEMMA InitChildAgrees ==
  ASSUME NEW v, NodeShape(v), Agrees(Shown(v, "add")), NEW a \in Known(v),
         v.children[a].cells = 0, NEW w, w = InitChild(v, a)
  PROVE  Agrees(w) /\ w.last = Shown(v, "add").last /\ a \in Known(w)
<1>1. PICK u : u = Shown(v, "add")
  OBVIOUS
<1>2. PICK n : n = v.num + 1
  OBVIOUS
<1>3. u = [v EXCEPT !.num = n]
  BY <1>1, <1>2 DEF Shown
<1>4. u.children = v.children /\ u.num = n /\ Known(u) = Known(v)
  BY <1>3 DEF NodeShape, Known
<1>5. PICK x : x = NewChild
  OBVIOUS
<1>6. /\ x \in ChildEntries
      /\ x.c.predicted = 0 /\ x.cells = 0 /\ x.quota = 0
  BY <1>5, QuotaAssumption DEF NewChild, NoPrediction, ChildEntries, Predictors
<1>7. PICK f : f = [b \in Known(v) |-> IF b = a THEN x ELSE v.children[b]]
  OBVIOUS
<1>8. OtherChildren(u, w, f) /\ w.num = n
  <2>1. PICK s : s = [v EXCEPT !.children = f]
    OBVIOUS
  <2>2. s = SetChild(v, a, NewChild) /\ s.num = v.num
    BY <1>5, <1>7, <2>1 DEF SetChild, NodeShape
  <2>3. w = [s EXCEPT !.num = n]
    BY <1>2, <2>2 DEF InitChild
  <2> QED
    BY <1>3, <2>1, <2>3 DEF NodeShape, OtherChildren
<1>9. Agrees(u)
  BY <1>1
<1>10. f \in [Known(u) -> ChildEntries]
  BY <1>4, <1>6, <1>7, <1>9 DEF Agrees, Typed
<1>11. Typed(w) /\ Known(w) = Known(u)
  BY <1>4, <1>8, <1>9, <1>10, SameChildren DEF Agrees, Typed, OtherChildren
<1>12. \A b \in Known(u) : w.children[b] = IF b = a THEN x ELSE u.children[b]
  BY <1>4, <1>7, <1>8 DEF OtherChildren
<1>13. Covers(w)
  BY <1>6, <1>8, <1>9, <1>11, <1>12, QuotaAssumption
  DEF Agrees, Covers, Capping, Roomy, OtherChildren
<1>14. Carries(u, w)
  BY <1>4, <1>6, <1>8, <1>11, <1>12 DEF Carries, OtherChildren
<1>15. Linked(w)
  BY <1>9, <1>14, CarriesLinked DEF Agrees
<1> QED
  BY <1>1, <1>4, <1>8, <1>11, <1>13, <1>15 DEF Agrees, OtherChildren

\* After a rebuild the links are those of the cells that are counted, whatever
\* links there were.
LEMMA RebuildAgrees ==
  ASSUME NEW v, Typed(v), Covers(v), NEW w, w = Rebuild(v)
  PROVE  Agrees(w) /\ w.last = v.last
<1>1. PICK rx : rx = UNION {RxCells(a, 0, v.children[a].cells) : a \in Known(v)}
  OBVIOUS
<1>2. PICK tx : tx = TxCells(v.parent, 0, v.self.predicted)
  OBVIOUS
<1>3. PICK shared : shared = IF v.parent = NoAddr THEN {} ELSE {SharedLink(Rcv(v.parent))}
  OBVIOUS
<1>4. /\ NodeShape(w) /\ w.children = v.children /\ w.num = v.num /\ w.self = v.self
      /\ w.selfPkts = v.selfPkts /\ w.have = v.have /\ w.parent = v.parent
      /\ w.links = {RxLink(Rcv(Self))} \cup (shared \cup tx) \cup rx
      /\ w.doubled = {} /\ w.last = v.last
  <2>1. PICK up : up = ParentCells(v.parent, v.self.predicted)
    OBVIOUS
  <2>2. up = shared \cup tx
    BY <1>2, <1>3, <2>1 DEF ParentCells
  <2>3. w = [v EXCEPT !.links = {RxLink(Rcv(Self))} \cup up \cup rx, !.doubled = {}]
    BY <1>1, <2>1 DEF Rebuild
  <2> QED
    BY <2>2, <2>3 DEF Typed, NodeShape
<1>5. Typed(w) /\ Known(w) = Known(v)
  BY <1>4, SameChildren DEF Typed
<1>6. /\ RxLink(Rcv(Self)).opt = "rx"
      /\ \A l \in shared : l.opt = "shared"
      /\ \A l \in rx : l.opt = "rx"
      /\ \A l \in tx : l.opt = "tx"
  <2>1. RxLink(Rcv(Self)).opt = "rx" /\ SharedLink(Rcv(v.parent)).opt = "shared"
    BY DEF RxLink, SharedLink
  <2> QED
    BY <1>1, <1>2, <1>3, <2>1, DedicatedLinks
<1>7. Listens(w)
  <2>1. {l \in w.links : l.opt = "rx"} = {RxLink(Rcv(Self))} \cup rx
    BY <1>4, <1>6
  <2> QED
    BY <1>1, <1>4, <1>5, <2>1 DEF Listens
<1>8. {l \in w.links : l.opt = "tx"} \subseteq TxCells(w.parent, 0, w.have)
  <2>1. {l \in w.links : l.opt = "tx"} = tx
    BY <1>4, <1>6
  <2>2. PICK m \in Nat, n \in Nat : m = v.self.predicted /\ n = v.have /\ m <= n
    BY DEF Typed, Predictors, Covers
  <2>3. TxCells(v.parent, 0, m) \subseteq TxCells(v.parent, 0, n)
    <3>1. 0 .. m - 1 \subseteq 0 .. n - 1
      BY <2>2
    <3> QED
      BY <3>1 DEF TxCells
  <2> QED
    BY <1>2, <1>4, <2>1, <2>2, <2>3
<1> QED
  BY <1>4, <1>5, <1>7, <1>8 DEF Agrees, Covers, Capping, Roomy, Linked

\* Without a child, the table and its cells are still in agreement; the links are
\* not, before the rebuild.
LEMMA RemoveChildCovers ==
  ASSUME NEW v, Agrees(v), NEW a, NEW w, w = RemoveChild(v, a)
  PROVE  Typed(w) /\ Covers(w) /\ w.last = v.last
<1>1. CASE a \notin Known(v)
  BY <1>1 DEF RemoveChild, Agrees
<1>2. CASE a \in Known(v)
  <2>1. PICK f : f = [x \in Known(v) \ {a} |-> v.children[x]]
    OBVIOUS
  <2>2. PICK n : n = IF v.num > 0 THEN v.num - 1 ELSE 0
    OBVIOUS
  <2>3. OtherChildren(v, w, f) /\ w.num = n
    <3>1. PICK s : w = [v EXCEPT !.children = f, !.num = n, !.spent = s]
      BY <1>2, <2>1, <2>2 DEF RemoveChild
    <3> QED
      BY <3>1 DEF Agrees, Typed, NodeShape, OtherChildren
  <2>4. /\ Known(w) = Known(v) \ {a}
        /\ \A b \in Known(w) : w.children[b] = v.children[b]
    BY <2>1, <2>3 DEF OtherChildren, Known
  <2>5. Typed(w)
    <3>1. f \in [Known(w) -> ChildEntries]
      BY <2>1, <2>4 DEF Agrees, Typed
    <3>2. /\ IsFiniteSet(Known(w)) /\ Cardinality(Known(w)) = Cardinality(Known(v)) - 1
          /\ Cardinality(Known(v)) \in Nat /\ Cardinality(Known(w)) \in Nat
      BY <1>2, <2>4, FS_RemoveElement, FS_CardinalityType DEF Agrees, Typed
    <3>3. n = Cardinality(Known(w)) /\ n <= MaxChildren
      BY <2>2, <3>2, NodeAssumption DEF Agrees, Typed
    <3> QED
      BY <2>3, <2>4, <3>1, <3>2, <3>3 DEF Agrees, Typed, OtherChildren
  <2>6. Covers(w)
    BY <2>3, <2>4 DEF Agrees, Covers, Capping, Roomy, OtherChildren
  <2> QED
    BY <2>3, <2>4, <2>5, <2>6 DEF OtherChildren
<1> QED
  BY <1>1, <1>2

-----------------------------------------------------------------------------
(* The second invariant is kept by every step *)

LEMMA InitInv2 == Init => Inv2
<1> SUFFICES ASSUME Init PROVE Inv2
  OBVIOUS
<1>1. /\ NodeShape(node)
      /\ node.children = [a \in {} |-> NewChild] /\ node.num = 0
      /\ node.self = NoPrediction /\ node.selfPkts = 0 /\ node.have = 0
      /\ node.links = {RxLink(Rcv(Self))} /\ node.doubled = {} /\ node.last = 0
  BY DEF Init, NodeShape
<1>2. Known(node) = {} /\ node.children \in [Known(node) -> ChildEntries]
  BY <1>1 DEF Known
<1>3. NoPrediction \in Predictors /\ NoPrediction.predicted = 0
  BY DEF NoPrediction, Predictors
<1>4. Typed(node)
  BY <1>1, <1>2, <1>3, FS_EmptySet, NodeAssumption DEF Typed
<1>5. Covers(node)
  BY <1>1, <1>2, <1>3 DEF Covers, Capping, Roomy
<1>6. RxLink(Rcv(Self)).opt = "rx"
  BY DEF RxLink
<1>7. Linked(node)
  BY <1>1, <1>2, <1>6 DEF Linked, Listens
<1>8. asfn \in Nat /\ FirstAsfn <= asfn /\ Seen(node.last) /\ Seen(now) /\ pc = "idle"
  BY <1>1, NodeAssumption DEF Init, Seen
<1> QED
  BY <1>4, <1>5, <1>7, <1>8 DEF Inv2, Holds, Shown

\* The parts of the invariant in the next state, whose slotframe is the same or
\* later.
LEMMA Inv2Next ==
  ASSUME Inv2, asfn' \in {asfn, asfn + 1}, NEW v, v = Shown(node', pc'),
         Holds(v, pc', op'), pc' = "add" => node'.children[at'].cells = 0, Seen(now')
  PROVE  Inv2'
<1>1. asfn' \in Nat /\ asfn <= asfn' /\ FirstAsfn <= asfn' /\ FirstAsfn \in Nat
  BY NodeAssumption DEF Inv2
<1>2. \A last : last \in {0} \cup FirstAsfn .. asfn => last \in {0} \cup FirstAsfn .. asfn'
  BY <1>1 DEF Inv2
<1>3. v.last \in {0} \cup FirstAsfn .. asfn' /\ now' \in {0} \cup FirstAsfn .. asfn'
  BY <1>2 DEF Holds, Seen
<1>4. /\ Typed(v)
      /\ IF pc' \in {"fill", "floor"} THEN Capping(v) /\ Roomy(v) ELSE Covers(v)
      /\ op'.kind # "removed" => Linked(v)
  BY DEF Holds
<1>5. Holds(Shown(node, pc), pc, op)'
  BY <1>3, <1>4
  DEF Holds, Shown, Seen, Typed, NodeShape, Known, Capping, Roomy, Covers, Linked, Listens
<1> QED
  BY <1>1, <1>3, <1>5 DEF Inv2, Seen

\* The end of a callback.
LEMMA ReturnInv2 ==
  ASSUME Inv2, asfn' = asfn, NEW v, Agrees(v), Seen(v.last), NEW q, Return(v, q)
  PROVE  Inv2'
<1>1. node' = v /\ pc' = "idle" /\ op' = NoOp /\ now' = 0
  BY DEF Return, Goto
<1>2. v = Shown(node', pc') /\ Seen(now')
  BY <1>1 DEF Shown, Seen
<1>3. Holds(v, pc', op')
  BY <1>1 DEF Holds, Agrees
<1> QED
  BY <1>1, <1>2, <1>3, Inv2Next

LEMMA AddChildInv2 ==
  ASSUME Inv2, asfn' = asfn, NEW v, Agrees(v), Seen(v.last),
         NEW o \in Ops, o.kind \in {"received", "added"}, NEW q, AddChild(o, v, q)
  PROVE  Inv2'
<1>1. CASE Return(v, q)
  BY <1>1, ReturnInv2
<1>2. CASE ~Return(v, q)
  <2>1. MayAdd(v, o.a)
    BY <1>2 DEF AddChild
  <2>2. PICK t \in {0, 1} : node' = ListChild(v, o.a, t)
    BY <1>2 DEF AddChild
  <2>3. pc' = "add" /\ op' = o /\ now' = 0 /\ at' = o.a
    BY <1>2 DEF AddChild, Goto
  <2>4. PICK w : w = Shown(node', pc')
    OBVIOUS
  <2>5. w = Shown(ListChild(v, o.a, t), "add") /\ t \in Nat /\ o.a \in Peers
    BY <2>2, <2>3, <2>4 DEF Ops
  <2>6. Agrees(w) /\ w.last = v.last /\ node'.children[at'].cells = 0
    BY <2>1, <2>2, <2>3, <2>5, ListChildAgrees
  <2>7. Holds(w, pc', op') /\ Seen(now')
    BY <2>3, <2>6 DEF Holds, Agrees, Seen
  <2> QED
    BY <2>4, <2>6, <2>7, Inv2Next
<1> QED
  BY <1>1, <1>2

LEMMA ResumeInv2 ==
  ASSUME Inv2, asfn' = asfn, NEW v, Typed(v), Covers(v), Seen(v.last),
         NEW o \in Ops, o.kind # "added", o.kind # "removed" => Linked(v),
         NEW q, Resume(o, v, q)
  PROVE  Inv2'
<1>1. CASE o.kind = "received"
  <2>1. Agrees(v)
    BY <1>1 DEF Agrees
  <2>2. CASE o.a = v.parent
    BY <1>1, <2>1, <2>2, ReturnInv2 DEF Resume
  <2>3. CASE o.a # v.parent /\ o.a \in Known(v)
    <3>1. PICK w : w = NotifyRx(v, o.a)
      OBVIOUS
    <3>2. Alike(v, w) /\ w.last = v.last
      BY <2>3, <3>1, NotifyRxAlike
    <3>3. Agrees(w) /\ Seen(w.last)
      BY <2>1, <3>2, AlikeAgree DEF Alike, Agrees
    <3>4. Return(w, q)
      BY <1>1, <2>3, <3>1 DEF Resume
    <3> QED
      BY <3>3, <3>4, ReturnInv2
  <2>4. CASE o.a # v.parent /\ o.a \notin Known(v)
    <3>1. AddChild(o, v, q)
      BY <1>1, <2>4 DEF Resume
    <3> QED
      BY <1>1, <2>1, <3>1, AddChildInv2
  <2> QED
    BY <2>2, <2>3, <2>4
<1>2. CASE o.kind = "sent"
  <2>1. Agrees(v)
    BY <1>2 DEF Agrees
  <2>2. PICK w : Return(w, q) /\ (w = v \/ w = NotifyTx(v))
    BY <1>2 DEF Resume
  <2>3. CASE w = v
    BY <2>1, <2>2, <2>3, ReturnInv2
  <2>4. CASE w = NotifyTx(v)
    <3>1. Alike(v, w) /\ w.last = v.last
      BY <2>4, NotifyTxAlike
    <3>2. Agrees(w) /\ Seen(w.last)
      BY <2>1, <3>1, AlikeAgree DEF Alike, Agrees
    <3> QED
      BY <2>2, <3>2, ReturnInv2
  <2> QED
    BY <2>2, <2>3, <2>4
<1>3. CASE o.kind = "ready"
  <2>1. Agrees(v)
    BY <1>3 DEF Agrees
  <2>2. PICK r : Return(v, r)
    BY <1>3 DEF Resume
  <2> QED
    BY <2>1, <2>2, ReturnInv2
<1>4. CASE o.kind \in {"source", "removed"}
  <2>1. node' = v /\ pc' = "flush" /\ op' = o /\ now' = 0
    BY <1>4 DEF Resume, Goto
  <2>2. v = Shown(node', pc') /\ Seen(now') /\ Holds(v, pc', op')
    BY <2>1 DEF Shown, Seen, Holds
  <2> QED
    BY <2>1, <2>2, Inv2Next
<1> QED
  BY <1>1, <1>2, <1>3, <1>4 DEF Resume

LEMMA CheckBoundaryInv2 ==
  ASSUME Inv2, pc \in {"idle", "flush"}, asfn' = asfn,
         NEW o \in Ops, o.kind # "added", o.kind # "removed" => op.kind # "removed",
         NEW q, CheckBoundary(o, q)
  PROVE  Inv2'
<1>1. /\ Typed(node) /\ Covers(node) /\ Seen(node.last)
      /\ o.kind # "removed" => Linked(node)
  BY DEF Inv2, Holds, Shown
<1>2. Seen(asfn)
  BY NodeAssumption DEF Inv2, Seen
<1>3. CASE Boundary
  <2>1. PICK v : v = CountTraffic(node)
    OBVIOUS
  <2>2. node' = CapPredictions(v) /\ pc' = "fill" /\ op' = o /\ now' = asfn
    BY <1>3, <2>1 DEF CheckBoundary
  <2>3. Typed(v) /\ Carries(node, v) /\ v.last = node.last
    BY <1>1, <2>1, CountTrafficCarries
  <2>4. Typed(node') /\ Carries(v, node') /\ Capping(node') /\ node'.last = v.last
    BY <2>2, <2>3, CapPredictionsCarries
  <2>5. Roomy(node')
    BY <1>1, <2>3, <2>4 DEF Covers, Roomy, Carries
  <2>6. o.kind # "removed" => Linked(node')
    BY <1>1, <2>3, <2>4, CarriesLinked
  <2>7. node' = Shown(node', pc') /\ Holds(node', pc', op')
    BY <1>1, <2>2, <2>3, <2>4, <2>5, <2>6 DEF Shown, Holds
  <2> QED
    BY <1>2, <2>2, <2>7, Inv2Next
<1>4. CASE ~Boundary
  <2>1. PICK v : v = [node EXCEPT !.last = asfn]
    OBVIOUS
  <2>2. Alike(node, v) /\ v.last = asfn
    BY <1>1, <2>1, LastAlike
  <2>3. Resume(o, v, q)
    BY <1>4, <2>1 DEF CheckBoundary
  <2>4. Typed(v) /\ Covers(v) /\ Seen(v.last) /\ (o.kind # "removed" => Linked(v))
    BY <1>1, <1>2, <2>2, AlikeAgree DEF Alike
  <2> QED
    BY <2>3, <2>4, ResumeInv2
<1> QED
  BY <1>3, <1>4

\* Steps that change tokens and counters only.
LEMMA AlikeInv2 ==
  ASSUME Inv2, pc # "add", pc' # "add", asfn' = asfn, op' = op, now' = now,
         pc' \in {"fill", "floor"} <=> pc \in {"fill", "floor"},
         Alike(node, node'), node'.last = node.last
  PROVE  Inv2'
<1>1. Holds(node, pc, op) /\ node' = Shown(node', pc') /\ Seen(now')
  BY DEF Inv2, Shown
<1>2. Holds(node', pc', op')
  BY <1>1, AlikeAgree DEF Holds, Alike
<1> QED
  BY <1>1, <1>2, Inv2Next

LEMMA FillTokensInv2 ==
  ASSUME Inv, Inv2, NEW a \in todo, FillTokens(a)
  PROVE  Inv2'
<1>1. PICK t : /\ t = RawTokens(node, a)
               /\ node' = SetChild(node, a, Filled(node.children[a], t))
               /\ pc' = IF t = 0 THEN "floor" ELSE "fill"
  BY DEF FillTokens
<1>2. pc = "fill" /\ op' = op /\ now' = now /\ asfn' = asfn
  BY DEF FillTokens
<1>3. Typed(node) /\ a \in Known(node)
  BY <1>2 DEF Inv, Tasks, Inv2, Holds, Shown
<1>4. PICK x \in ChildEntries : x = node.children[a]
  BY <1>3 DEF Typed
<1>5. t \in Nat
  <2>1. x.quota \in Nat /\ x.c.predicted \in Nat
    BY QuotaAssumption DEF ChildEntries, Predictors
  <2> QED
    BY <1>1, <1>4, <2>1 DEF RawTokens
<1>6. PICK y : y = Filled(x, t)
  OBVIOUS
<1>7. SameEntry(node.children[a], y)
  BY <1>4, <1>5, <1>6, TokensOnly
<1>8. Alike(node, node') /\ node'.last = node.last
  BY <1>1, <1>3, <1>4, <1>6, <1>7, SetChildAlike
<1> QED
  BY <1>1, <1>2, <1>8, AlikeInv2

LEMMA RaiseTokensInv2 ==
  ASSUME Inv, Inv2, RaiseTokens
  PROVE  Inv2'
<1>1. pc = "floor" /\ pc' = "fill" /\ op' = op /\ now' = now /\ asfn' = asfn
  BY DEF RaiseTokens
<1>2. Typed(node) /\ at \in Known(node)
  BY <1>1 DEF Inv, Tasks, Inv2, Holds, Shown
<1>3. PICK x \in ChildEntries : x = node.children[at]
  BY <1>2 DEF Typed
<1>4. PICK y : y = [x EXCEPT !.tokens = 1]
  OBVIOUS
<1>5. SameEntry(node.children[at], y)
  BY <1>3, <1>4, TokensOnly
<1>6. node' = SetChild(node, at, y)
  BY <1>3, <1>4 DEF RaiseTokens
<1>7. Alike(node, node') /\ node'.last = node.last
  BY <1>2, <1>5, <1>6, SetChildAlike
<1> QED
  BY <1>1, <1>7, AlikeInv2

LEMMA EndUpdateInv2 ==
  ASSUME Inv, Inv2, EndUpdate
  PROVE  Inv2'
<1>1. PICK u : u = UpdateCells(node)
  OBVIOUS
<1>2. PICK v : v = [u EXCEPT !.last = now]
  OBVIOUS
<1>3. pc = "fill" /\ asfn' = asfn /\ Resume(op, v, queued)
  BY <1>1, <1>2 DEF EndUpdate
<1>4. /\ Typed(node) /\ Capping(node) /\ Roomy(node) /\ Seen(now)
      /\ op.kind # "removed" => Linked(node)
  BY <1>3 DEF Inv2, Holds, Shown
<1>5. Updated(node, u)
  BY <1>1, <1>4, UpdateCellsUpdates
<1>6. Alike(u, v) /\ v.last = now
  BY <1>2, <1>5, LastAlike DEF Updated
<1>7. Typed(v) /\ Covers(v) /\ Seen(v.last) /\ (op.kind # "removed" => Linked(v))
  BY <1>4, <1>5, <1>6, AlikeAgree DEF Updated, Alike
<1>8. op \in Ops /\ op.kind # "added"
  BY <1>3 DEF Inv, Flow
<1> QED
  BY <1>3, <1>7, <1>8, ResumeInv2

LEMMA IntroduceInv2 ==
  ASSUME Inv, Inv2, Introduce
  PROVE  Inv2'
<1>1. PICK v : v = InitChild(node, at)
  OBVIOUS
<1>2. /\ pc = "add" /\ asfn' = asfn
      /\ Return(IF op.kind = "received" THEN NotifyRx(v, at) ELSE v, queued)
  BY <1>1 DEF Introduce
<1>3. /\ NodeShape(node) /\ at \in Known(node)
      /\ op.kind # "removed"
  BY <1>2 DEF Inv, Base, Tasks, Flow
<1>4. PICK u : u = Shown(node, "add")
  OBVIOUS
<1>5. Agrees(u) /\ Seen(u.last) /\ node.children[at].cells = 0
  BY <1>2, <1>3, <1>4 DEF Inv2, Holds, Agrees
<1>6. Agrees(v) /\ v.last = u.last /\ at \in Known(v)
  BY <1>1, <1>3, <1>4, <1>5, InitChildAgrees
<1>7. PICK w : Return(w, queued) /\ (w = v \/ w = NotifyRx(v, at))
  BY <1>2
<1>8. CASE w = v
  BY <1>2, <1>5, <1>6, <1>7, <1>8, ReturnInv2
<1>9. CASE w = NotifyRx(v, at)
  <2>1. Alike(v, w) /\ w.last = v.last
    BY <1>6, <1>9, NotifyRxAlike DEF Agrees
  <2>2. Agrees(w) /\ Seen(w.last)
    BY <1>5, <1>6, <2>1, AlikeAgree DEF Alike, Agrees
  <2> QED
    BY <1>2, <1>7, <2>2, ReturnInv2
<1> QED
  BY <1>7, <1>8, <1>9

LEMMA DropPacketInv2 ==
  ASSUME Inv, Inv2, NEW p \in queued, DropPacket(p)
  PROVE  Inv2'
<1>1. PICK q : CheckBoundary(op, q)
  BY DEF DropPacket
<1>2. pc = "flush" /\ asfn' = asfn /\ op \in Ops /\ op.kind # "added"
  BY DEF DropPacket, Inv, Flow
<1> QED
  BY <1>1, <1>2, CheckBoundaryInv2

LEMMA EndDropInv2 ==
  ASSUME Inv, Inv2, EndDrop
  PROVE  Inv2'
<1>1. pc = "flush" /\ asfn' = asfn
  BY DEF EndDrop
<1>2. Typed(node) /\ Covers(node) /\ Seen(node.last)
  BY <1>1 DEF Inv2, Holds, Shown
<1>3. PICK v : v = IF op.kind = "source" THEN [node EXCEPT !.parent = op.a] ELSE node
  OBVIOUS
<1>4. /\ NodeShape(v) /\ v.children = node.children /\ v.num = node.num
      /\ v.self = node.self /\ v.selfPkts = node.selfPkts /\ v.have = node.have
      /\ v.last = node.last
  <2>1. CASE op.kind = "source"
    <3>1. v = [node EXCEPT !.parent = op.a]
      BY <1>3, <2>1
    <3> QED
      BY <1>2, <3>1 DEF Typed, NodeShape
  <2>2. CASE op.kind # "source"
    BY <1>2, <1>3, <2>2 DEF Typed
  <2> QED
    BY <2>1, <2>2
<1>5. Typed(v) /\ Known(v) = Known(node)
  BY <1>2, <1>4, SameChildren DEF Typed
<1>6. Covers(v)
  BY <1>2, <1>4, <1>5 DEF Covers, Capping, Roomy
<1>7. PICK w : w = Rebuild(v)
  OBVIOUS
<1>8. Agrees(w) /\ Seen(w.last)
  BY <1>2, <1>4, <1>5, <1>6, <1>7, RebuildAgrees
<1>9. Return(w, queued)
  BY <1>3, <1>7 DEF EndDrop
<1> QED
  BY <1>1, <1>8, <1>9, ReturnInv2

\* A callback that begins with the look for a slotframe boundary.
LEMMA CallbackInv2 ==
  ASSUME Inv, Inv2, pc = "idle", asfn' = asfn,
         NEW o \in Ops, o.kind \in {"received", "sent", "ready"},
         CheckBoundary(o, queued)
  PROVE  Inv2'
<1>1. op.kind # "removed"
  BY DEF Inv, Flow, NoOp
<1> QED
  BY <1>1, CheckBoundaryInv2

LEMMA TrafficInv2 ==
  ASSUME Inv, Inv2,
         \/ \E a \in Peers : PacketReceived(a) \/ PacketReady(a)
         \/ \E dest \in sent, ok \in BOOLEAN : PacketSent(dest, ok)
  PROVE  Inv2'
<1>1. ASSUME NEW a \in Peers, PacketReceived(a)
      PROVE  Inv2'
  <2>1. PICK o : o = Op("received", a)
    OBVIOUS
  <2>2. o \in Ops /\ o.kind = "received"
    BY <2>1 DEF Op, Ops
  <2>3. CheckBoundary(o, queued) /\ pc = "idle" /\ asfn' = asfn
    BY <1>1, <2>1 DEF PacketReceived
  <2> QED
    BY <2>2, <2>3, CallbackInv2
<1>2. ASSUME NEW a \in Peers, PacketReady(a)
      PROVE  Inv2'
  <2>1. PICK o : o = Op("ready", a)
    OBVIOUS
  <2>2. o \in Ops /\ o.kind = "ready"
    BY <2>1 DEF Op, Ops
  <2>3. CheckBoundary(o, queued) /\ pc = "idle" /\ asfn' = asfn
    BY <1>2, <2>1 DEF PacketReady
  <2> QED
    BY <2>2, <2>3, CallbackInv2
<1>3. ASSUME NEW dest \in sent, NEW ok \in BOOLEAN, PacketSent(dest, ok)
      PROVE  Inv2'
  <2>1. PICK o : o = [Op("sent", dest) EXCEPT !.ok = ok]
    OBVIOUS
  <2>2. o \in Ops /\ o.kind = "sent"
    BY <2>1 DEF Op, Ops, Inv, Names
  <2>3. CheckBoundary(o, queued) /\ pc = "idle" /\ asfn' = asfn
    BY <1>3, <2>1 DEF PacketSent
  <2> QED
    BY <2>2, <2>3, CallbackInv2
<1> QED
  BY <1>1, <1>2, <1>3

LEMMA NewTimeSourceInv2 ==
  ASSUME Inv, Inv2, NEW n \in Peers \cup {NoAddr}, NewTimeSource(n)
  PROVE  Inv2'
<1>1. pc = "idle" /\ pc' = "flush" /\ now' = 0 /\ node' = node /\ asfn' = asfn
  BY DEF NewTimeSource, Goto
<1>2. op.kind # "removed"
  BY <1>1 DEF Inv, Flow, NoOp
<1>3. node' = Shown(node', pc') /\ Holds(node', pc', op') /\ Seen(now')
  BY <1>1, <1>2 DEF Inv2, Holds, Shown, Seen
<1> QED
  BY <1>1, <1>3, Inv2Next

LEMMA ChildAddedInv2 ==
  ASSUME Inv, Inv2, NEW a \in Peers, ChildAdded(a)
  PROVE  Inv2'
<1>1. PICK o : o = Op("added", a)
  OBVIOUS
<1>2. o \in Ops /\ o.kind = "added"
  BY <1>1 DEF Op, Ops
<1>3. AddChild(o, node, queued) /\ pc = "idle" /\ asfn' = asfn
  BY <1>1 DEF ChildAdded
<1>4. op.kind # "removed"
  BY <1>3 DEF Inv, Flow, NoOp
<1>5. Agrees(node) /\ Seen(node.last)
  BY <1>3, <1>4 DEF Inv2, Holds, Shown, Agrees
<1> QED
  BY <1>2, <1>3, <1>5, AddChildInv2

LEMMA ChildRemovedInv2 ==
  ASSUME Inv, Inv2, NEW a \in Peers, ChildRemoved(a)
  PROVE  Inv2'
<1>1. /\ node' = RemoveChild(node, a) /\ pc = "idle" /\ asfn' = asfn
      /\ pc' = "flush" /\ op' = Op("removed", a) /\ now' = 0
  BY DEF ChildRemoved, Goto
<1>2. op.kind # "removed"
  BY <1>1 DEF Inv, Flow, NoOp
<1>3. Agrees(node) /\ Seen(node.last)
  BY <1>1, <1>2 DEF Inv2, Holds, Shown, Agrees
<1>4. Typed(node') /\ Covers(node') /\ node'.last = node.last
  BY <1>1, <1>3, RemoveChildCovers
<1>5. op'.kind = "removed"
  BY <1>1 DEF Op
<1>6. node' = Shown(node', pc') /\ Holds(node', pc', op') /\ Seen(now')
  BY <1>1, <1>3, <1>4, <1>5 DEF Holds, Shown, Seen
<1> QED
  BY <1>1, <1>6, Inv2Next

LEMMA BudgetExhaustedInv2 ==
  ASSUME Inv, Inv2, BudgetExhausted
  PROVE  Inv2'
<1>1. UNCHANGED <<asfn, pc, op, now, at>>
  BY DEF BudgetExhausted, procVars
<1>2. /\ NodeShape(node') /\ node'.children = node.children /\ node'.num = node.num
      /\ node'.self = node.self /\ node'.selfPkts = node.selfPkts
      /\ node'.have = node.have /\ node'.parent = node.parent
      /\ node'.links = node.links /\ node'.doubled = node.doubled
      /\ node'.last = node.last
  BY DEF BudgetExhausted, Inv, Base, NodeShape
<1>3. PICK v : v = Shown(node, pc)
  OBVIOUS
<1>4. PICK w : w = Shown(node', pc')
  OBVIOUS
<1>5. /\ NodeShape(w) /\ w.children = v.children /\ w.num = v.num
      /\ w.self = v.self /\ w.selfPkts = v.selfPkts
      /\ w.have = v.have /\ w.parent = v.parent
      /\ w.links = v.links /\ w.doubled = v.doubled /\ w.last = v.last
  <2>1. PICK n : n = node.num + 1
    OBVIOUS
  <2>2. CASE pc = "add"
    <3>1. v = [node EXCEPT !.num = n] /\ w = [node' EXCEPT !.num = n]
      BY <1>1, <1>2, <1>3, <1>4, <2>1, <2>2 DEF Shown
    <3> QED
      BY <1>2, <3>1 DEF Inv, Base, NodeShape
  <2>3. CASE pc # "add"
    BY <1>1, <1>2, <1>3, <1>4, <2>3 DEF Shown
  <2> QED
    BY <2>2, <2>3
<1>6. Holds(v, pc, op)
  BY <1>3 DEF Inv2
<1>7. Alike(v, w)
  BY <1>5, <1>6, SameTableAlike DEF Holds, Typed
<1>8. Holds(w, pc', op')
  BY <1>1, <1>5, <1>6, <1>7, AlikeAgree DEF Holds, Alike
<1>9. (pc' = "add" => node'.children[at'].cells = 0) /\ Seen(now')
  BY <1>1, <1>2 DEF Inv2
<1> QED
  BY <1>1, <1>4, <1>8, <1>9, Inv2Next

LEMMA Invariant2 == Spec => [](Inv /\ Inv2)
<1>1. Inv /\ Inv2 /\ [Next]_vars => Inv2'
  <2> SUFFICES ASSUME Inv, Inv2, [Next]_vars
               PROVE  Inv2'
    OBVIOUS
  <2>1. CASE Callback
    BY <2>1, TrafficInv2, NewTimeSourceInv2, ChildAddedInv2, ChildRemovedInv2 DEF Callback
  <2>2. CASE Step
    BY <2>2, FillTokensInv2, DropPacketInv2, RaiseTokensInv2, EndUpdateInv2, IntroduceInv2,
       EndDropInv2 DEF Step
  <2>3. CASE BudgetExhausted
    BY <2>3, BudgetExhaustedInv2
  <2>4. CASE UNCHANGED <<node, pc, op, now, at>> /\ asfn' \in {asfn, asfn + 1}
    <3>1. PICK v : v = Shown(node', pc')
      OBVIOUS
    <3>2. Holds(v, pc', op') /\ Seen(now') /\ (pc' = "add" => node'.children[at'].cells = 0)
      BY <2>4, <3>1 DEF Inv2
    <3> QED
      BY <2>4, <3>1, <3>2, Inv2Next
  <2>5. CASE NextSlotframe \/ (\E p \in queued : SlotSends(p)) \/ UNCHANGED vars
    BY <2>4, <2>5 DEF NextSlotframe, SlotSends, vars, procVars
  <2> QED
    BY <2>1, <2>2, <2>3, <2>5 DEF Next, Interrupt
<1> QED
  BY InitInv2, InductiveInvariant, <1>1, PTL DEF Spec

\* What Shown adds does not concern cells and links.
LEMMA ShownAlike ==
  ASSUME NEW v, NodeShape(v), NEW step, NEW w, w = Shown(v, step)
  PROVE  /\ w.children = v.children /\ Known(w) = Known(v)
         /\ w.links = v.links /\ w.doubled = v.doubled /\ w.last = v.last
BY DEF Shown, NodeShape, Known

\* The node listens in its own cell and in exactly the cells that it counts for
\* its children, through every order of slotframe updates, changes of the table
\* and rebuilds; but for a callback that removes a child.
THEOREM ListensToItsCells == Spec => []ListensAsCounted
<1>1. Inv /\ Inv2 => ListensAsCounted
  <2> SUFFICES ASSUME Inv, Inv2, op.kind # "removed"
               PROVE  {l \in node.links : l.opt = "rx"} =
                        {RxLink(Rcv(Self))}
                        \cup UNION {RxCells(a, 0, node.children[a].cells) : a \in Known(node)}
    BY DEF ListensAsCounted
  <2>1. PICK w : w = Shown(node, pc)
    OBVIOUS
  <2>2. Listens(w)
    BY <2>1 DEF Inv2, Holds, Linked
  <2>3. w.children = node.children /\ Known(w) = Known(node) /\ w.links = node.links
    BY <2>1, ShownAlike DEF Inv, Base
  <2> QED
    BY <2>2, <2>3 DEF Listens
<1> QED
  BY <1>1, Invariant2, PTL

\* No link is added that is there already.
THEOREM AddsNewLinksOnly == Spec => []NeverDoubled
<1>1. Inv /\ Inv2 => NeverDoubled
  BY ShownAlike DEF Inv, Base, Inv2, Holds, Linked, NeverDoubled
<1> QED
  BY <1>1, Invariant2, PTL

\* A budget of 0 switches the quotas off: nothing bounds predictions then.
\* With one, the predictions of all children are within their quotas and have
\* their cells, whenever no update is under way.
THEOREM PredictionsHaveCells ==
  ASSUME Budget # 0
  PROVE  Spec => []CellsCoverPrediction
<1>1. Inv /\ Inv2 => CellsCoverPrediction
  <2> SUFFICES ASSUME Inv, Inv2, pc \notin {"fill", "floor"}, NEW a \in Known(node)
               PROVE  /\ node.children[a].c.predicted <= node.children[a].cells
                      /\ node.children[a].c.predicted <= node.children[a].quota
    BY DEF CellsCoverPrediction
  <2>1. PICK w : w = Shown(node, pc)
    OBVIOUS
  <2>2. Covers(w)
    BY <2>1 DEF Inv2, Holds
  <2>3. w.children = node.children /\ Known(w) = Known(node)
    BY <2>1, ShownAlike DEF Inv, Base
  <2> QED
    BY <2>2, <2>3 DEF Covers, Capping
<1> QED
  BY <1>1, Invariant2, PTL

\* With a budget, no child ever has more cells than the slotframe is dimensioned
\* for, and the number of children is that of the table, but while one is added.
THEOREM NodeTypeCorrect ==
  ASSUME Budget # 0
  PROVE  Spec => []TypeOK
<1>1. Inv /\ Inv2 => TypeOK
  <2> SUFFICES ASSUME Inv, Inv2 PROVE TypeOK
    OBVIOUS
  <2>1. PICK w : w = Shown(node, pc)
    OBVIOUS
  <2>2. w.children = node.children /\ Known(w) = Known(node) /\ w.last = node.last
    BY <2>1, ShownAlike DEF Inv, Base
  <2>3. Typed(w) /\ Seen(w.last) /\ Roomy(w)
    BY <2>1 DEF Inv2, Holds, Covers
  <2>4. \A a \in Known(node) :
          /\ node.children[a].quota \in 0 .. MaxCells
          /\ node.children[a].cells \in 0 .. MaxCells
          /\ node.children[a].tokens \in Nat /\ node.children[a].pkts \in Nat
    <3> SUFFICES ASSUME NEW a \in Known(node)
                 PROVE  /\ node.children[a].quota \in 0 .. MaxCells
                        /\ node.children[a].cells \in 0 .. MaxCells
                        /\ node.children[a].tokens \in Nat
                        /\ node.children[a].pkts \in Nat
      OBVIOUS
    <3>1. node.children[a] \in ChildEntries
      BY <2>2, <2>3 DEF Typed
    <3>2. node.children[a].cells <= MaxCells
      BY <2>2, <2>3 DEF Roomy
    <3> QED
      BY <3>1, <3>2, QuotaAssumption DEF ChildEntries
  <2>5. Cardinality(Known(node)) = node.num + IF pc = "add" THEN 1 ELSE 0
    <3>1. w.num = Cardinality(Known(node)) /\ Cardinality(Known(node)) \in Nat
      BY <2>2, <2>3, FS_CardinalityType DEF Typed
    <3>2. CASE pc = "add"
      <4>1. w.num = node.num + 1
        BY <2>1, <3>2 DEF Inv, Base, NodeShape, Shown
      <4> QED
        BY <3>1, <3>2, <4>1
    <3>3. CASE pc # "add"
      <4>1. w.num = node.num
        BY <2>1, <3>3 DEF Shown
      <4> QED
        BY <3>1, <3>3, <4>1
    <3> QED
      BY <3>2, <3>3
  <2>6. /\ Known(node) \subseteq Peers
        /\ Cardinality(Known(node)) <= MaxChildren
        /\ node.last \in {0} \cup FirstAsfn .. asfn
    BY <2>2, <2>3 DEF Typed, Seen
  <2>7. /\ node.parent \in Peers \cup {NoAddr} /\ routes \subseteq Peers
        /\ todo \subseteq Known(node)
        /\ at \in IF pc \in {"floor", "add"} THEN Known(node) ELSE {NoAddr}
    BY DEF Inv, Names, Tasks
  <2> QED
    BY <2>4, <2>5, <2>6, <2>7 DEF TypeOK
<1> QED
  BY <1>1, Invariant2, PTL
=============================================================================
