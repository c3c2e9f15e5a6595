----------------------- MODULE SixpTransactionProofs -----------------------
(***************************************************************************)
(* Proofs about SixpTransaction, for any nodes, blocks, queues and         *)
(* requests: the type invariant, that the next sequence number of a node   *)
(* has moved past that of the transaction it asked for, whatever the peer  *)
(* asks meanwhile, that a node has one transaction with a peer, that the   *)
(* assertion of the code holds, that no block is ever kept for a callback, *)
(* and that responses are taken for the requests they answer.              *)
(*                                                                         *)
(* What a step does to a node is a change of its sequence numbers and its  *)
(* blocks; the invariant is therefore a predicate of the two, and there is *)
(* one lemma for a new transaction and one for changes of those there are. *)
(***************************************************************************)
EXTENDS SixpTransaction, FiniteSetTheorems, SequenceTheorems, TLAPS

-----------------------------------------------------------------------------
(* Types *)

Num == 0 .. SeqnoMax

TypeInv ==
  /\ nbr \in [Node -> [Node -> {NoNbr} \cup Num]]
  /\ trans \in [Node -> [Block -> BlockType \cup {Zero}]]
  /\ out \in [Node -> [Node -> Seq(FrameType)]]
  /\ inp \in [Node -> [Node -> Seq(FrameType)]]
  /\ \A n, p \in Node : Len(out[n][p]) <= QueueSize
  /\ asked \subseteq Requests /\ IsFiniteSet(asked)
  /\ restarts \in 0 .. MaxRestarts

LEMMA TypeInvTypeOK == TypeInv => TypeOK
<1> SUFFICES ASSUME TypeInv PROVE TypeOK
  OBVIOUS
<1>1. \A q \in Seq(FrameType) : \A i \in DOMAIN q : q[i] \in FrameType
  OBVIOUS
<1>2. \A n, p \in Node : out[n][p] \in Seq(FrameType) /\ inp[n][p] \in Seq(FrameType)
  BY DEF TypeInv
<1>3. \A n, p \in Node :
        \A q \in {out[n][p], inp[n][p]} : \A i \in DOMAIN q : q[i] \in FrameType
  BY <1>1, <1>2
<1> QED
  BY <1>3 DEF TypeInv, TypeOK, Num

LEMMA NextSeqnoType == \A k \in Num : NextSeqno(k) \in Num
BY SixpAssumption DEF Num, NextSeqno

\* The states that are entered: blocks are never left in INIT.
LEMMA TransitType ==
  ASSUME NEW t \in BlockType, NEW new \in State \ {"UNAVAILABLE", "INIT"}
  PROVE  Transit(t, new) \in BlockType
BY DEF Transit, BlockType

\* What a transition keeps.
LEMMA TransitKeeps ==
  ASSUME NEW t \in BlockType, NEW new, NEW u, u = Transit(t, new)
  PROVE  /\ u.peer = t.peer /\ u.seqno = t.seqno /\ u.cmd = t.cmd /\ u.req = t.req
         /\ u.st = IF Allowed(t, new) THEN new ELSE t.st
BY DEF Transit, BlockType

\* A fresh block, after its first transition.
LEMMA AllocTransit ==
  ASSUME NEW p \in Node, NEW cmd \in Cmd, NEW k \in Num, NEW req \in Requests,
         NEW new \in {"REQUEST_SENDING", "REQUEST_RECEIVED"},
         NEW u, u = Transit(Alloc(p, cmd, k, req), new)
  PROVE  /\ u \in BlockType
         /\ u.st = new /\ u.peer = p /\ u.seqno = k /\ u.cmd = cmd /\ u.req = req
<1>1. PICK t : t = Alloc(p, cmd, k, req)
  OBVIOUS
<1>2. t = [st |-> "INIT", peer |-> p, seqno |-> k, cmd |-> cmd, timer |-> "timeout",
           req |-> req, ans |-> NoRequest]
  <2>1. PICK z : z = Zero
    OBVIOUS
  <2>2. z \in [st : {"UNAVAILABLE"}, peer : {NoOne}, seqno : {0}, cmd : {"add"}, timer : {"off"},
               req : {NoRequest}, ans : {NoRequest}]
    BY <2>1 DEF Zero
  <2>3. t = [z EXCEPT !.st = "INIT", !.peer = p, !.seqno = k, !.cmd = cmd,
                      !.timer = "timeout", !.req = req]
    BY <1>1, <2>1 DEF Alloc
  <2> QED
    BY <2>2, <2>3
<1>3. u = [t EXCEPT !.st = new, !.timer = "process"]
  BY <1>1, <1>2 DEF Transit, Allowed
<1>4. u = [st |-> new, peer |-> p, seqno |-> k, cmd |-> cmd, timer |-> "process",
           req |-> req, ans |-> NoRequest]
  BY <1>2, <1>3
<1> QED
  BY <1>4 DEF BlockType, State, Sending, Num

LEMMA FrameTyped ==
  ASSUME NEW type \in {"request", "response", "confirmation"}, NEW cmd \in Cmd,
         NEW k \in Num, NEW b \in Block \cup {NoBlock}, NEW req \in Requests
  PROVE  /\ Frame(type, cmd, k, b, req) \in FrameType
         /\ Frame(type, cmd, k, b, req).type = type
         /\ Frame(type, cmd, k, b, req).req = req
BY DEF Frame, FrameType, Num

\* A frame enters the queue if there is room.
LEMMA QueuedType ==
  ASSUME NEW q \in Seq(FrameType), Len(q) <= QueueSize, NEW f \in FrameType
  PROVE  Queued(q, f) \in Seq(FrameType) /\ Len(Queued(q, f)) <= QueueSize
BY SixpAssumption DEF Queued

-----------------------------------------------------------------------------
(* Whose request a frame carries *)

From(q, n) == \A i \in DOMAIN q : q[i].type = "request" => q[i].req[1] = n

\* Requests travel from the node that asks, and no node has frames of itself.
Origin ==
  /\ \A n, p \in Node : From(out[n][p], n) /\ From(inp[n][p], p)
  /\ \A n \in Node : inp[n][n] = <<>>

LEMMA EmptyFrom == \A n : From(<<>>, n)
BY DEF From

LEMMA QueuedFrom ==
  ASSUME NEW q \in Seq(FrameType), NEW n, From(q, n), NEW f \in FrameType,
         f.type = "request" => f.req[1] = n
  PROVE  From(Queued(q, f), n) /\ From(Append(q, f), n)
BY DEF Queued, From

LEMMA TailFrom ==
  ASSUME NEW q \in Seq(FrameType), q # <<>>, NEW n, From(q, n)
  PROVE  /\ Tail(q) \in Seq(FrameType) /\ Len(Tail(q)) <= Len(q)
         /\ From(Tail(q), n)
         /\ Head(q) \in FrameType
         /\ Head(q).type = "request" => Head(q).req[1] = n
BY DEF From

\* That the head of the queue was heard does not change what it is.
LEMMA HeardFrom ==
  ASSUME NEW q \in Seq(FrameType), q # <<>>, NEW n, From(q, n),
         NEW r, r = [q EXCEPT ![1].heard = TRUE]
  PROVE  r \in Seq(FrameType) /\ Len(r) = Len(q) /\ From(r, n)
<1>1. PICK f : f = [q[1] EXCEPT !.heard = TRUE]
  OBVIOUS
<1>2. q[1] \in FrameType /\ Len(q) \in Nat \ {0}
  OBVIOUS
<1>3. f \in FrameType /\ f.type = q[1].type /\ f.req = q[1].req
  BY <1>1, <1>2 DEF FrameType
<1>4. r = [i \in 1 .. Len(q) |-> IF i = 1 THEN f ELSE q[i]]
  <2>1. DOMAIN q = 1 .. Len(q)
    OBVIOUS
  <2>2. r = [q EXCEPT ![1] = [q[1] EXCEPT !.heard = TRUE]]
    OBVIOUS
  <2>3. r = [q EXCEPT ![1] = f]
    BY <1>1, <2>2
  <2> QED
    BY <2>1, <2>3
<1>5. ASSUME NEW i \in 1 .. Len(q) PROVE r[i] \in FrameType
  <2>1. q[i] \in FrameType
    OBVIOUS
  <2>2. r[i] = IF i = 1 THEN f ELSE q[i]
    BY <1>4
  <2> QED
    BY <1>3, <2>1, <2>2
<1>6. r \in Seq(FrameType) /\ Len(r) = Len(q)
  <2>1. PICK k \in Nat : k = Len(q)
    OBVIOUS
  <2>2. r \in [1 .. k -> FrameType]
    BY <1>4, <1>5, <2>1
  <2> QED
    BY <2>1, <2>2
<1> QED
  BY <1>2, <1>3, <1>4, <1>6 DEF From

-----------------------------------------------------------------------------
(* The invariant *)

\* The states of a transaction that the node itself asked for.
Asking ==
  {"REQUEST_SENDING", "REQUEST_SENT", "RESPONSE_RECEIVED", "CONFIRMATION_SENDING",
   "CONFIRMATION_SENT", "TERMINATING"}

Role(n, t) == Asked(t, n) => t.st \in Asking

\* What k, the next sequence number for t's peer, is while t is under way.
Numbered(n, t, k) ==
  /\ Asked(t, n) => k = IF t.cmd = "clear" THEN 0 ELSE NextSeqno(t.seqno)
  /\ Listed(t) /\ t.cmd = "clear" => k \in {NoNbr, 0}

\* A node has at most one transaction with a peer.
OnePerPeer(T) ==
  \A b, c \in Block : Listed(T[b]) /\ Listed(T[c]) /\ T[b].peer = T[c].peer => b = c

NodeInv(n, N, T) ==
  /\ OnePerPeer(T)
  /\ \A b \in Block : Role(n, T[b]) /\ (Listed(T[b]) => Numbered(n, T[b], N[T[b].peer]))

Numbers == {NoNbr} \cup Num

\* Every block in use is in trans_list: WAIT_FREE is never entered.
Blocks == {t \in BlockType : Listed(t)} \cup {Zero}

BlocksInv ==
  /\ nbr \in [Node -> [Node -> Numbers]]
  /\ trans \in [Node -> [Block -> Blocks]]
  /\ \A n \in Node : NodeInv(n, nbr[n], trans[n])

OutInv ==
  /\ out \in [Node -> [Node -> Seq(FrameType)]]
  /\ \A n, p \in Node : Len(out[n][p]) <= QueueSize /\ From(out[n][p], n)

InpInv ==
  /\ inp \in [Node -> [Node -> Seq(FrameType)]]
  /\ \A n, p \in Node : From(inp[n][p], p)
  /\ \A n \in Node : inp[n][n] = <<>>

HistoryInv ==
  asked \subseteq Requests /\ IsFiniteSet(asked) /\ restarts \in 0 .. MaxRestarts

Inv == BlocksInv /\ OutInv /\ InpInv /\ HistoryInv

LEMMA ZeroUnlisted == ~Listed(Zero)
BY DEF Listed, Zero

LEMMA ListedTyped ==
  ASSUME NEW t \in Blocks, Listed(t)
  PROVE  t \in BlockType /\ t.peer \in Node
BY ZeroUnlisted DEF Blocks, BlockType

\* One block and one next sequence number of a node change.
LEMMA BlockChanges ==
  ASSUME BlocksInv, NEW n \in Node, NEW b \in Block, NEW t \in Blocks,
         NEW p \in Node, NEW k \in Numbers,
         trans' = [trans EXCEPT ![n][b] = t], nbr' = [nbr EXCEPT ![n][p] = k],
         \A c \in Block \ {b} : Listed(t) /\ Listed(trans[n][c]) => trans[n][c].peer # t.peer,
         Role(n, t),
         Listed(t) => Numbered(n, t, IF t.peer = p THEN k ELSE nbr[n][t.peer]),
         \A c \in Block \ {b} : Listed(trans[n][c]) /\ trans[n][c].peer = p =>
                                  Numbered(n, trans[n][c], k)
  PROVE  BlocksInv'
<1> DEFINE T == trans'[n]
           N == nbr'[n]
<1>1. /\ nbr \in [Node -> [Node -> Numbers]]
      /\ trans \in [Node -> [Block -> Blocks]]
  BY DEF BlocksInv
<1>2. /\ nbr' \in [Node -> [Node -> Numbers]]
      /\ trans' \in [Node -> [Block -> Blocks]]
  BY <1>1
<1>3. /\ \A m \in Node \ {n} : trans'[m] = trans[m] /\ nbr'[m] = nbr[m]
      /\ T[b] = t /\ \A c \in Block \ {b} : T[c] = trans[n][c]
      /\ \A q \in Node : N[q] = IF q = p THEN k ELSE nbr[n][q]
  BY <1>1
<1> HIDE DEF T, N
<1>4. \A c \in Block : Listed(T[c]) => T[c].peer \in Node
  BY <1>1, <1>3, ListedTyped
<1>5. NodeInv(n, nbr[n], trans[n])
  BY DEF BlocksInv
<1>6. OnePerPeer(T)
  BY <1>3, <1>5 DEF NodeInv, OnePerPeer
<1>7. ASSUME NEW c \in Block
      PROVE  Role(n, T[c]) /\ (Listed(T[c]) => Numbered(n, T[c], N[T[c].peer]))
  <2>1. CASE c = b
    BY <1>3, <1>4, <2>1
  <2>2. CASE c # b
    <3>1. T[c] = trans[n][c]
      BY <1>3, <2>2
    <3>2. Role(n, T[c]) /\ (Listed(T[c]) => Numbered(n, T[c], nbr[n][T[c].peer]))
      BY <1>5, <3>1 DEF NodeInv
    <3>3. Listed(T[c]) => N[T[c].peer] = IF T[c].peer = p THEN k ELSE nbr[n][T[c].peer]
      BY <1>3, <1>4
    <3> QED
      BY <2>2, <3>1, <3>2, <3>3
  <2> QED
    BY <2>1, <2>2
<1>8. NodeInv(n, N, T)
  BY <1>6, <1>7 DEF NodeInv
<1>9. \A m \in Node : NodeInv(m, nbr'[m], trans'[m])
  <2> SUFFICES ASSUME NEW m \in Node, m # n PROVE NodeInv(m, nbr'[m], trans'[m])
    BY <1>8 DEF T, N
  <2>1. trans'[m] = trans[m] /\ nbr'[m] = nbr[m] /\ NodeInv(m, nbr[m], trans[m])
    BY <1>3 DEF BlocksInv
  <2> QED
    BY <2>1
<1> QED
  BY <1>2, <1>9 DEF BlocksInv, NodeInv, OnePerPeer, Role, Numbered, Asked, Listed

\* A transaction that is under way moves on or ends.
LEMMA ListedBlockChanges ==
  ASSUME BlocksInv, NEW n \in Node, NEW b \in Block, NEW s, s = trans[n][b], Listed(s),
         NEW t \in Blocks, Role(n, t),
         Listed(t) => t.peer = s.peer /\ t.seqno = s.seqno /\ t.cmd = s.cmd /\ t.req = s.req,
         NEW k \in Numbers, Numbered(n, s, k),
         trans' = [trans EXCEPT ![n][b] = t], nbr' = [nbr EXCEPT ![n][s.peer] = k]
  PROVE  BlocksInv'
<1>1. s \in Blocks /\ s.peer \in Node /\ NodeInv(n, nbr[n], trans[n])
  BY ListedTyped DEF BlocksInv
<1>2. \A c \in Block \ {b} : Listed(trans[n][c]) => trans[n][c].peer # s.peer
  BY <1>1 DEF NodeInv, OnePerPeer
<1>3. Listed(t) => Numbered(n, t, k)
  BY DEF Numbered, Asked
<1>4. PICK p \in Node : p = s.peer
  BY <1>1
<1>5. /\ \A c \in Block \ {b} : Listed(t) /\ Listed(trans[n][c]) => trans[n][c].peer # t.peer
      /\ Listed(t) => Numbered(n, t, IF t.peer = p THEN k ELSE nbr[n][t.peer])
      /\ \A c \in Block \ {b} : Listed(trans[n][c]) /\ trans[n][c].peer = p =>
                                Numbered(n, trans[n][c], k)
  BY <1>2, <1>3, <1>4
<1>6. nbr' = [nbr EXCEPT ![n][p] = k]
  BY <1>4
<1> QED
  BY <1>5, <1>6, BlockChanges

\* The same, without a change of the sequence number.
LEMMA ListedBlockMoves ==
  ASSUME BlocksInv, NEW n \in Node, NEW b \in Block, NEW s, s = trans[n][b], Listed(s),
         NEW t \in Blocks, Role(n, t),
         Listed(t) => t.peer = s.peer /\ t.seqno = s.seqno /\ t.cmd = s.cmd /\ t.req = s.req,
         trans' = [trans EXCEPT ![n][b] = t], nbr' = nbr
  PROVE  BlocksInv'
<1>1. s \in Blocks /\ s.peer \in Node /\ NodeInv(n, nbr[n], trans[n])
  BY ListedTyped DEF BlocksInv
<1>2. PICK k \in Numbers : k = nbr[n][s.peer]
  BY <1>1 DEF BlocksInv
<1>3. nbr' = [nbr EXCEPT ![n][s.peer] = k]
  BY <1>1, <1>2 DEF BlocksInv
<1>4. Numbered(n, s, k)
  BY <1>1, <1>2 DEF NodeInv
<1> QED
  BY <1>3, <1>4, ListedBlockChanges

\* A transaction with an idle peer begins.
LEMMA NewBlock ==
  ASSUME BlocksInv, NEW n \in Node, NEW p \in Node, With(n, p) = {}, NEW b \in FreeBlocks(n),
         NEW t \in BlockType, Listed(t), t.peer = p, Role(n, t),
         NEW k \in Numbers, Numbered(n, t, k),
         trans' = [trans EXCEPT ![n][b] = t], nbr' = [nbr EXCEPT ![n][p] = k]
  PROVE  BlocksInv'
<1>1. b \in Block /\ t \in Blocks
  BY DEF FreeBlocks, Blocks
<1>2. \A c \in Block : Listed(trans[n][c]) => trans[n][c].peer # p
  BY DEF With
<1>3. /\ \A c \in Block \ {b} : Listed(t) /\ Listed(trans[n][c]) => trans[n][c].peer # t.peer
      /\ Listed(t) => Numbered(n, t, IF t.peer = p THEN k ELSE nbr[n][t.peer])
      /\ \A c \in Block \ {b} : Listed(trans[n][c]) /\ trans[n][c].peer = p =>
                                Numbered(n, trans[n][c], k)
  BY <1>2
<1> QED
  BY <1>1, <1>3, BlockChanges

\* The sequence number for a peer changes without a transaction.
LEMMA NumberChanges ==
  ASSUME BlocksInv, NEW n \in Node, NEW p \in Node, NEW k \in Numbers,
         \A c \in With(n, p) : Numbered(n, trans[n][c], k),
         trans' = trans, nbr' = [nbr EXCEPT ![n][p] = k]
  PROVE  BlocksInv'
<1>1. /\ nbr \in [Node -> [Node -> Numbers]]
      /\ trans \in [Node -> [Block -> Blocks]]
  BY DEF BlocksInv
<1>2. nbr' \in [Node -> [Node -> Numbers]]
  BY <1>1
<1>3. /\ \A m \in Node \ {n} : nbr'[m] = nbr[m]
      /\ \A q \in Node : nbr'[n][q] = IF q = p THEN k ELSE nbr[n][q]
  BY <1>1
<1>4. NodeInv(n, nbr[n], trans[n])
  BY DEF BlocksInv
<1>5. ASSUME NEW c \in Block, Listed(trans[n][c])
      PROVE  Numbered(n, trans[n][c], nbr'[n][trans[n][c].peer])
  <2>1. trans[n][c].peer \in Node /\ Numbered(n, trans[n][c], nbr[n][trans[n][c].peer])
    BY <1>1, <1>4, <1>5, ListedTyped DEF NodeInv
  <2> QED
    BY <1>3, <1>5, <2>1 DEF With
<1>6. NodeInv(n, nbr'[n], trans[n])
  BY <1>4, <1>5 DEF NodeInv
<1>7. \A m \in Node : NodeInv(m, nbr'[m], trans'[m])
  BY <1>3, <1>6 DEF BlocksInv
<1> QED
  BY <1>1, <1>2, <1>7 DEF BlocksInv, NodeInv, OnePerPeer, Role, Numbered, Asked, Listed

\* One queue of frames changes.
LEMMA OutChanges ==
  ASSUME OutInv, NEW n \in Node, NEW p \in Node, NEW q \in Seq(FrameType),
         Len(q) <= QueueSize, From(q, n), out' = [out EXCEPT ![n][p] = q]
  PROVE  OutInv'
<1>1. out \in [Node -> [Node -> Seq(FrameType)]]
  BY DEF OutInv
<1>2. out' \in [Node -> [Node -> Seq(FrameType)]]
  BY <1>1
<1>3. \A m, r \in Node : out'[m][r] = IF m = n /\ r = p THEN q ELSE out[m][r]
  BY <1>1
<1>4. \A m, r \in Node : Len(out'[m][r]) <= QueueSize /\ From(out'[m][r], m)
  BY <1>3 DEF OutInv
<1> QED
  BY <1>2, <1>4 DEF OutInv

LEMMA InpChanges ==
  ASSUME InpInv, NEW n \in Node, NEW p \in Node, NEW q \in Seq(FrameType),
         n = p => q = <<>>, From(q, p), inp' = [inp EXCEPT ![n][p] = q]
  PROVE  InpInv'
<1>1. inp \in [Node -> [Node -> Seq(FrameType)]]
  BY DEF InpInv
<1>2. inp' \in [Node -> [Node -> Seq(FrameType)]]
  BY <1>1
<1>3. \A m, r \in Node : inp'[m][r] = IF m = n /\ r = p THEN q ELSE inp[m][r]
  BY <1>1
<1>4. \A m, r \in Node : From(inp'[m][r], r)
  BY <1>3 DEF InpInv
<1>5. \A m \in Node : inp'[m][m] = <<>>
  BY <1>3 DEF InpInv
<1> QED
  BY <1>2, <1>4, <1>5 DEF InpInv

\* A frame that is no request, or one of the node itself, is queued.
LEMMA SendFrame ==
  ASSUME OutInv, NEW n \in Node, NEW p \in Node, NEW f \in FrameType,
         f.type = "request" => f.req[1] = n,
         out' = [out EXCEPT ![n][p] = Queued(@, f)]
  PROVE  OutInv'
<1>1. /\ out[n][p] \in Seq(FrameType)
      /\ Len(out[n][p]) <= QueueSize /\ From(out[n][p], n)
  BY DEF OutInv
<1>2. /\ Queued(out[n][p], f) \in Seq(FrameType)
      /\ Len(Queued(out[n][p], f)) <= QueueSize /\ From(Queued(out[n][p], f), n)
  BY <1>1, QueuedType, QueuedFrom
<1>3. PICK q \in Seq(FrameType) : q = Queued(out[n][p], f) /\ Len(q) <= QueueSize /\ From(q, n)
  BY <1>2
<1>4. out' = [out EXCEPT ![n][p] = q]
  BY <1>3
<1> QED
  BY <1>3, <1>4, OutChanges

-----------------------------------------------------------------------------
(* The steps *)

\* What a transition does to a transaction that is under way.
LEMMA TransitListed ==
  ASSUME NEW s \in BlockType, Listed(s),
         NEW new \in State \ {"UNAVAILABLE", "INIT", "WAIT_FREE"},
         NEW t, t = Transit(s, new)
  PROVE  /\ t \in Blocks
         /\ t.peer = s.peer /\ t.seqno = s.seqno /\ t.cmd = s.cmd /\ t.req = s.req
         /\ t.st = IF Allowed(s, new) THEN new ELSE s.st
BY TransitType, TransitKeeps DEF Blocks, Listed

\* What the invariant says of a transaction that is under way.
LEMMA UnderWay ==
  ASSUME BlocksInv, NEW n \in Node, NEW b \in Block, NEW s, s = trans[n][b], Listed(s)
  PROVE  /\ s \in BlockType /\ s.peer \in Node /\ Role(n, s)
         /\ Numbered(n, s, nbr[n][s.peer]) /\ nbr[n][s.peer] \in Numbers
BY ListedTyped DEF BlocksInv, NodeInv

LEMMA EntryForType ==
  ASSUME NEW cmd, NEW k \in Numbers
  PROVE  EntryFor(cmd, k) \in Numbers
BY SixpAssumption DEF EntryFor, Numbers, Num

\* An answer goes out in a transaction of the peer.
LEMMA RespondKeeps ==
  ASSUME BlocksInv, OutInv, NEW n \in Node, NEW p \in Node, NEW b \in With(n, p),
         NEW s, s = trans[n][b], s.st = "REQUEST_RECEIVED",
         Answer(n, p, b, s, "response", "RESPONSE_SENDING"),
         nbr' = [nbr EXCEPT ![n][p] = EntryFor(s.cmd, @)]
  PROVE  BlocksInv' /\ OutInv'
<1>1. b \in Block /\ Listed(s) /\ s.peer = p
  BY DEF With
<1>2. s \in BlockType /\ Role(n, s) /\ Numbered(n, s, nbr[n][p]) /\ nbr[n][p] \in Numbers
  BY <1>1, UnderWay
<1>3. ~Asked(s, n)
  BY <1>2 DEF Role, Asking
<1>4. PICK k \in Numbers : k = EntryFor(s.cmd, nbr[n][p])
  BY <1>2, EntryForType
<1>5. Numbered(n, s, k)
  BY <1>1, <1>2, <1>3, <1>4 DEF Numbered, EntryFor
<1>6. PICK t : t = Transit(s, "RESPONSE_SENDING")
  OBVIOUS
<1>7. /\ t \in Blocks /\ t.st = "RESPONSE_SENDING"
      /\ t.peer = s.peer /\ t.seqno = s.seqno /\ t.cmd = s.cmd /\ t.req = s.req
  <2>1. Allowed(s, "RESPONSE_SENDING")
    BY DEF Allowed
  <2>2. "RESPONSE_SENDING" \in State \ {"UNAVAILABLE", "INIT", "WAIT_FREE"}
    BY DEF State, Sending
  <2> QED
    BY <1>1, <1>2, <1>6, <2>1, <2>2, TransitListed
<1>8. Role(n, t)
  BY <1>1, <1>3, <1>7 DEF Role, Asked, Listed
<1>9. trans' = [trans EXCEPT ![n][b] = t] /\ nbr' = [nbr EXCEPT ![n][s.peer] = k]
  BY <1>1, <1>4, <1>6 DEF Answer
<1>10. BlocksInv'
  BY <1>1, <1>5, <1>7, <1>8, <1>9, ListedBlockChanges
<1>11. OutInv'
  <2>1. PICK f \in FrameType : /\ f = Frame("response", s.cmd, s.seqno, b, s.req)
                               /\ f.type = "response"
    BY <1>1, <1>2, FrameTyped DEF BlockType, Num
  <2> QED
    BY <2>1, SendFrame DEF Answer
<1> QED
  BY <1>10, <1>11

LEMMA SendErrorKeeps ==
  ASSUME OutInv, NEW n \in Node, NEW p \in Node, NEW f \in FrameType, SendError(n, p, f)
  PROVE  OutInv'
<1>1. PICK e \in FrameType : /\ e = Frame("response", f.cmd, f.seqno, NoBlock, f.req)
                             /\ e.type = "response"
  BY FrameTyped DEF FrameType, Num
<1> QED
  BY <1>1, SendFrame DEF SendError

LEMMA RequestFailsStep ==
  ASSUME Inv, NEW n \in Node, NEW p \in Node, RequestFails(n, p)
  PROVE  Inv'
<1>1. 0 \in Numbers
  BY SixpAssumption DEF Numbers, Num
<1>2. BlocksInv'
  BY <1>1, NumberChanges DEF Inv, RequestFails
<1> QED
  BY <1>2 DEF Inv, OutInv, InpInv, HistoryInv, From, RequestFails

LEMMA SendRequestStep ==
  ASSUME Inv, NEW a \in Asks, SendRequest(a[1], a[2], a[3])
  PROVE  Inv'
<1>1. PICK n \in Node, p \in Node, cmd \in Cmd : n = a[1] /\ p = a[2] /\ cmd = a[3]
  BY SixpAssumption
<1>2. PICK seqno, req : /\ seqno = IF nbr[n][p] = NoNbr THEN 0 ELSE nbr[n][p]
                        /\ req = <<n, p, cmd, Cardinality(asked)>>
  OBVIOUS
<1>3. PICK b \in FreeBlocks(n) :
        /\ trans' = [trans EXCEPT ![n][b] =
                       Transit(Alloc(p, cmd, seqno, req), "REQUEST_SENDING")]
        /\ out' = [out EXCEPT ![n][p] = Queued(@, Frame("request", cmd, seqno, b, req))]
        /\ nbr' = [nbr EXCEPT ![n][p] = IF cmd = "clear" THEN 0 ELSE NextSeqno(seqno)]
        /\ asked' = asked \cup {req}
  BY <1>1, <1>2 DEF SendRequest
<1>4. /\ With(n, p) = {} /\ Cardinality(asked) < MaxRequests
      /\ UNCHANGED <<inp, restarts>>
  BY <1>1 DEF SendRequest
<1>5. seqno \in Num /\ NextSeqno(seqno) \in Num
  <2>1. nbr[n][p] \in Numbers
    BY DEF Inv, BlocksInv
  <2> QED
    BY <1>2, <2>1, SixpAssumption, NextSeqnoType DEF Numbers, Num
<1>6. req \in Requests /\ req[1] = n
  <2>1. Cardinality(asked) \in 0 .. MaxRequests
    BY <1>4, FS_CardinalityType, SixpAssumption DEF Inv, HistoryInv
  <2> QED
    BY <1>1, <1>2, <2>1 DEF Requests
<1>7. PICK k \in Numbers : k = IF cmd = "clear" THEN 0 ELSE NextSeqno(seqno)
  BY <1>5, SixpAssumption DEF Numbers, Num
<1>8. PICK t \in BlockType :
        /\ t = Transit(Alloc(p, cmd, seqno, req), "REQUEST_SENDING")
        /\ t.st = "REQUEST_SENDING" /\ t.peer = p /\ t.seqno = seqno /\ t.cmd = cmd
        /\ t.req = req
  BY <1>5, <1>6, AllocTransit
<1>9. Listed(t) /\ Role(n, t) /\ Numbered(n, t, k)
  BY <1>7, <1>8 DEF Role, Asking, Numbered, Listed
<1>10. BlocksInv'
  BY <1>3, <1>4, <1>7, <1>8, <1>9, NewBlock DEF Inv
<1>11. OutInv'
  <2>1. b \in Block \cup {NoBlock}
    BY DEF FreeBlocks
  <2>2. PICK f \in FrameType : f = Frame("request", cmd, seqno, b, req) /\ f.req = req
    BY <1>5, <1>6, <2>1, FrameTyped
  <2>3. out' = [out EXCEPT ![n][p] = Queued(@, f)]
    BY <1>3, <2>2
  <2> QED
    BY <1>6, <2>2, <2>3, SendFrame DEF Inv
<1>12. HistoryInv'
  <2>1. IsFiniteSet(asked \cup {req})
    BY FS_AddElement DEF Inv, HistoryInv
  <2> QED
    BY <1>3, <1>4, <1>6, <2>1 DEF Inv, HistoryInv
<1> QED
  BY <1>4, <1>10, <1>11, <1>12 DEF Inv, InpInv, From

LEMMA SendResponseStep ==
  ASSUME Inv, NEW n \in Node, NEW p \in Node, SendResponse(n, p)
  PROVE  Inv'
<1>1. BlocksInv' /\ OutInv'
  BY RespondKeeps DEF Inv, SendResponse
<1> QED
  BY <1>1 DEF Inv, InpInv, HistoryInv, From, SendResponse

LEMMA SendConfirmationStep ==
  ASSUME Inv, NEW n \in Node, NEW p \in Node, SendConfirmation(n, p)
  PROVE  Inv'
<1>1. PICK b \in With(n, p) :
        /\ trans[n][b].st = "RESPONSE_RECEIVED"
        /\ Answer(n, p, b, trans[n][b], "confirmation", "CONFIRMATION_SENDING")
        /\ UNCHANGED <<nbr, inp, asked, restarts>>
  BY DEF SendConfirmation
<1>2. PICK s :
        /\ s = trans[n][b] /\ s.st = "RESPONSE_RECEIVED"
        /\ Answer(n, p, b, s, "confirmation", "CONFIRMATION_SENDING")
        /\ UNCHANGED <<nbr, inp, asked, restarts>>
  BY <1>1
<1>3. b \in Block /\ Listed(s)
  BY <1>2 DEF With
<1>4. s \in BlockType /\ Role(n, s)
  BY <1>2, <1>3, UnderWay DEF Inv
<1>5. PICK t : t = Transit(s, "CONFIRMATION_SENDING")
  OBVIOUS
<1>6. /\ t \in Blocks /\ t.st \in {"CONFIRMATION_SENDING", "RESPONSE_RECEIVED"}
      /\ t.peer = s.peer /\ t.seqno = s.seqno /\ t.cmd = s.cmd /\ t.req = s.req
  <2>1. "CONFIRMATION_SENDING" \in State \ {"UNAVAILABLE", "INIT", "WAIT_FREE"}
    BY DEF State, Sending
  <2> QED
    BY <1>2, <1>3, <1>4, <1>5, <2>1, TransitListed
<1>7. Role(n, t)
  BY <1>6 DEF Role, Asking
<1>8. trans' = [trans EXCEPT ![n][b] = t]
  BY <1>2, <1>5 DEF Answer
<1>9. BlocksInv'
  BY <1>2, <1>3, <1>6, <1>7, <1>8, ListedBlockMoves DEF Inv
<1>10. OutInv'
  <2>1. PICK f \in FrameType : /\ f = Frame("confirmation", s.cmd, s.seqno, b, s.req)
                               /\ f.type = "confirmation"
    BY <1>3, <1>4, FrameTyped DEF BlockType, Num
  <2> QED
    BY <1>2, <2>1, SendFrame DEF Answer, Inv
<1> QED
  BY <1>2, <1>9, <1>10 DEF Inv, InpInv, HistoryInv, From

LEMMA HearStep ==
  ASSUME Inv, NEW n \in Node, NEW p \in Node, Hear(n, p)
  PROVE  Inv'
<1>1. PICK q \in Seq(FrameType) : q = out[n][p] /\ q # <<>> /\ Len(q) <= QueueSize /\ From(q, n)
  BY DEF Hear, Inv, OutInv
<1>2. OutInv'
  <2>1. PICK r : r = [q EXCEPT ![1].heard = TRUE]
    OBVIOUS
  <2>2. r \in Seq(FrameType) /\ Len(r) = Len(q) /\ From(r, n)
    BY <1>1, <2>1, HeardFrom
  <2>3. out' = [out EXCEPT ![n][p] = r]
    BY <1>1, <2>1 DEF Hear
  <2> QED
    BY <1>1, <2>2, <2>3, OutChanges DEF Inv
<1>3. InpInv'
  <2>1. Head(q) \in FrameType /\ (Head(q).type = "request" => Head(q).req[1] = n)
    BY <1>1, TailFrom
  <2>2. PICK i \in Seq(FrameType) : i = inp[p][n] /\ From(i, n)
    BY DEF Inv, InpInv
  <2>3. PICK f \in FrameType : f = Head(q)
    BY <2>1
  <2>4. Append(i, f) \in Seq(FrameType)
    BY <2>2
  <2>5. PICK j \in Seq(FrameType) : j = Append(i, f) /\ From(j, n)
    BY <2>1, <2>2, <2>3, <2>4, QueuedFrom
  <2>6. p # n
    BY SixpAssumption DEF Hear
  <2>7. inp' = [inp EXCEPT ![p][n] = j]
    BY <1>1, <2>2, <2>5, <2>3 DEF Hear
  <2> QED
    BY <2>5, <2>6, <2>7, InpChanges DEF Inv
<1>4. BlocksInv' /\ HistoryInv'
  BY DEF Hear, Inv, BlocksInv, NodeInv, OnePerPeer, Role, Numbered, Asked, Listed, HistoryInv
<1> QED
  BY <1>2, <1>3, <1>4 DEF Inv

\* A MAC callback moves the transaction that is in the block now.  The number it
\* may set is that of a transaction that the peer asked for.
LEMMA MacCallbackKeeps ==
  ASSUME BlocksInv, NEW n \in Node, NEW b \in Block, NEW ok \in BOOLEAN, MacCallback(n, b, ok)
  PROVE  BlocksInv'
<1>1. PICK s : s = trans[n][b]
  OBVIOUS
<1>2. PICK new : new = CallbackState(s, ok)
  OBVIOUS
<1>3. s \in Blocks
  BY <1>1 DEF BlocksInv
<1>4. CASE new = s.st
  <2>1. s.st # "WAIT_FREE"
    BY <1>3 DEF Blocks, Listed, Zero
  <2>2. trans' = [trans EXCEPT ![n][b] = s] /\ nbr' = nbr
    BY <1>1, <1>2, <1>4, <2>1 DEF MacCallback
  <2>3. trans' = trans
    BY <1>1, <2>2 DEF BlocksInv
  <2> QED
    BY <2>2, <2>3 DEF BlocksInv, NodeInv, OnePerPeer, Role, Numbered, Asked, Listed
<1>5. CASE new # s.st
  <2>1. /\ s.st \in Sending /\ new \in {"REQUEST_SENT", "RESPONSE_SENT", "CONFIRMATION_SENT", "TERMINATING"}
        /\ s.st = "REQUEST_SENDING" => new \in {"REQUEST_SENT", "TERMINATING"}
        /\ s.st = "CONFIRMATION_SENDING" => new = "CONFIRMATION_SENT"
        /\ s.st = "RESPONSE_SENDING" => new = "RESPONSE_SENT"
    BY <1>2, <1>5 DEF CallbackState, Sending
  <2>2. Listed(s)
    BY <2>1 DEF Listed, Sending
  <2>3. /\ s \in BlockType /\ s.peer \in Node /\ Role(n, s)
        /\ Numbered(n, s, nbr[n][s.peer]) /\ nbr[n][s.peer] \in Numbers
    BY <1>1, <2>2, UnderWay
  <2>4. PICK t : t = Transit(s, new)
    OBVIOUS
  <2>5. /\ t \in Blocks
        /\ t.peer = s.peer /\ t.seqno = s.seqno /\ t.cmd = s.cmd /\ t.req = s.req
        /\ t.st = IF Allowed(s, new) THEN new ELSE s.st
    <3>1. new \in State \ {"UNAVAILABLE", "INIT", "WAIT_FREE"}
      BY <2>1 DEF State, Sending
    <3> QED
      BY <2>2, <2>3, <2>4, <3>1, TransitListed
  <2>6. Role(n, t)
    BY <2>1, <2>2, <2>3, <2>5 DEF Role, Asking, Asked, Sending
  <2>7. PICK k : k = SeqnoAfter(s, new, nbr[n][s.peer])
    OBVIOUS
  <2>8. k \in Numbers /\ Numbered(n, s, k)
    <3>1. CASE k = nbr[n][s.peer]
      BY <2>3, <3>1
    <3>2. CASE k # nbr[n][s.peer]
      <4>1. k = NextSeqno(s.seqno) /\ new = "RESPONSE_SENT" /\ s.cmd # "clear"
        BY <2>7, <3>2 DEF SeqnoAfter
      <4>2. s.st = "RESPONSE_SENDING" /\ ~Asked(s, n)
        BY <2>1, <2>3, <4>1 DEF Role, Asking, Sending
      <4>3. k \in Num
        BY <2>3, <4>1, NextSeqnoType DEF BlockType, Num
      <4> QED
        BY <4>1, <4>2, <4>3 DEF Numbered, Numbers
    <3> QED
      BY <3>1, <3>2
  <2>9. trans' = [trans EXCEPT ![n][b] = t] /\ nbr' = [nbr EXCEPT ![n][s.peer] = k]
    BY <1>1, <1>2, <1>5, <2>4, <2>7 DEF MacCallback
  <2> QED
    BY <1>1, <2>2, <2>5, <2>6, <2>8, <2>9, ListedBlockChanges
<1> QED
  BY <1>4, <1>5

LEMMA SentStep ==
  ASSUME Inv, NEW n \in Node, NEW p \in Node, NEW ok \in BOOLEAN, Sent(n, p, ok)
  PROVE  Inv'
<1>1. PICK q \in Seq(FrameType) : q = out[n][p] /\ q # <<>> /\ Len(q) <= QueueSize /\ From(q, n)
  BY DEF Sent, Inv, OutInv
<1>2. OutInv'
  <2>1. PICK r \in Seq(FrameType) : r = Tail(q) /\ Len(r) <= Len(q) /\ From(r, n)
    BY <1>1, TailFrom
  <2>2. out' = [out EXCEPT ![n][p] = r]
    BY <1>1, <2>1 DEF Sent
  <2>3. Len(r) <= QueueSize
    BY <1>1, <2>1, SixpAssumption
  <2> QED
    BY <2>1, <2>2, <2>3, OutChanges DEF Inv
<1>3. BlocksInv'
  <2>1. Head(q).blk \in Block \cup {NoBlock}
    BY <1>1, TailFrom DEF FrameType
  <2>2. CASE Head(q).blk = NoBlock
    BY <1>1, <2>2 DEF Sent, Inv, BlocksInv, NodeInv, OnePerPeer, Role, Numbered, Asked, Listed
  <2>3. CASE Head(q).blk # NoBlock
    BY <1>1, <2>1, <2>3, MacCallbackKeeps DEF Sent, Inv
  <2> QED
    BY <2>2, <2>3
<1> QED
  BY <1>2, <1>3 DEF Inv, InpInv, HistoryInv, From, Sent

\* A request of a peer with which a transaction is under way.
LEMMA InputBusyKeeps ==
  ASSUME BlocksInv, OutInv, NEW n \in Node, NEW p \in Node, NEW f \in FrameType,
         NEW b \in With(n, p), InputBusy(n, p, f, b)
  PROVE  BlocksInv' /\ OutInv'
<1>1. PICK s : s = trans[n][b]
  OBVIOUS
<1>2. CASE /\ s.st = "REQUEST_RECEIVED"
           /\ Answer(n, p, b, s, "response", "RESPONSE_SENDING")
           /\ nbr' = [nbr EXCEPT ![n][p] = EntryFor(s.cmd, @)]
  BY <1>1, <1>2, RespondKeeps
<1>3. CASE SendError(n, p, f) /\ UNCHANGED <<nbr, trans>>
  <2>1. OutInv'
    BY <1>3, SendErrorKeeps
  <2> QED
    BY <1>3, <2>1 DEF BlocksInv, NodeInv, OnePerPeer, Role, Numbered, Asked, Listed
<1> QED
  BY <1>1, <1>2, <1>3 DEF InputBusy

\* A request of an idle peer: the node did not ask for the transaction itself.
LEMMA InputRequestKeeps ==
  ASSUME BlocksInv, OutInv, NEW n \in Node, NEW p \in Node, NEW f \in FrameType,
         f.req[1] # n, With(n, p) = {}, InputRequest(n, p, f)
  PROVE  BlocksInv' /\ OutInv'
<1>1. nbr[n][p] \in Numbers
  BY DEF BlocksInv
<1>2. PICK k \in Numbers : k = IF f.cmd = "clear" /\ nbr[n][p] # NoNbr THEN 0 ELSE nbr[n][p]
  BY <1>1, SixpAssumption DEF Numbers, Num
<1>3. f.cmd = "clear" => k \in {NoNbr, 0}
  BY <1>2
<1>4. CASE /\ nbr' = [nbr EXCEPT ![n][p] = k]
           /\ SendError(n, p, f)
           /\ UNCHANGED trans
  <2>1. BlocksInv'
    BY <1>4, NumberChanges
  <2> QED
    BY <1>4, <2>1, SendErrorKeeps
<1>5. PICK t : t = Transit(Alloc(p, f.cmd, f.seqno, f.req), "REQUEST_RECEIVED")
  OBVIOUS
<1>6. /\ t \in BlockType /\ t.st = "REQUEST_RECEIVED" /\ t.peer = p
      /\ t.seqno = f.seqno /\ t.cmd = f.cmd /\ t.req = f.req
  BY <1>5, AllocTransit DEF FrameType, Num
<1>7. ~Asked(t, n) /\ Listed(t)
  BY <1>6 DEF Asked, Listed
<1>8. ASSUME NEW b \in FreeBlocks(n), Inconsistent(f, k),
             Answer(n, p, b, t, "response", "RESPONSE_SENDING"),
             nbr' = [nbr EXCEPT ![n][p] = EntryFor(f.cmd, k)]
      PROVE  BlocksInv' /\ OutInv'
  <2>1. PICK u : u = Transit(t, "RESPONSE_SENDING")
    OBVIOUS
  <2>2. /\ u \in BlockType /\ Listed(u)
        /\ u.peer = p /\ u.req = f.req /\ u.cmd = f.cmd
    <3>1. "RESPONSE_SENDING" \in State \ {"UNAVAILABLE", "INIT"}
      BY DEF State, Sending
    <3>2. Allowed(t, "RESPONSE_SENDING")
      BY <1>6 DEF Allowed
    <3> QED
      BY <1>6, <2>1, <3>1, <3>2, TransitType, TransitKeeps DEF Listed
  <2>3. PICK j \in Numbers : j = EntryFor(f.cmd, k)
    BY EntryForType
  <2>4. f.cmd = "clear" => j \in {NoNbr, 0}
    BY <1>3, <2>3 DEF EntryFor
  <2>5. Role(n, u) /\ Numbered(n, u, j)
    BY <2>2, <2>4 DEF Role, Numbered, Asked
  <2>6. trans' = [trans EXCEPT ![n][b] = u] /\ nbr' = [nbr EXCEPT ![n][p] = j]
    BY <1>8, <2>1, <2>3 DEF Answer
  <2>7. BlocksInv'
    BY <2>2, <2>5, <2>6, NewBlock
  <2>8. OutInv'
    <3>1. b \in Block /\ t.cmd \in Cmd /\ t.seqno \in Num /\ t.req \in Requests
      BY <1>6 DEF FreeBlocks, BlockType, Num
    <3>2. PICK e \in FrameType : /\ e = Frame("response", t.cmd, t.seqno, b, t.req)
                                 /\ e.type = "response"
      BY <3>1, FrameTyped
    <3> QED
      BY <1>8, <3>2, SendFrame DEF Answer
  <2> QED
    BY <2>7, <2>8
<1>9. ASSUME NEW b \in FreeBlocks(n),
             trans' = [trans EXCEPT ![n][b] = t], nbr' = [nbr EXCEPT ![n][p] = k],
             UNCHANGED out
      PROVE  BlocksInv' /\ OutInv'
  <2>1. Role(n, t) /\ Numbered(n, t, k)
    BY <1>3, <1>6, <1>7 DEF Role, Numbered
  <2>2. BlocksInv'
    BY <1>6, <1>7, <1>9, <2>1, NewBlock
  <2> QED
    BY <1>9, <2>2 DEF OutInv, From
<1> QED
  BY <1>2, <1>4, <1>5, <1>8, <1>9 DEF InputRequest

\* A response or a confirmation moves transactions that wait for it.
LEMMA InputAnswerKeeps ==
  ASSUME BlocksInv, OutInv, NEW n \in Node, NEW p \in Node, NEW f \in FrameType,
         InputAnswer(n, p, f)
  PROVE  BlocksInv' /\ OutInv'
<1>1. PICK T : T = trans[n]
  OBVIOUS
<1>2. PICK U : U = [b \in Block |->
        IF b \in With(n, p) /\ T[b].seqno = f.seqno /\ Allowed(T[b], AnswerState(f))
        THEN [Transit(T[b], AnswerState(f)) EXCEPT !.ans = f.req] ELSE T[b]]
  OBVIOUS
<1>3. trans' = [trans EXCEPT ![n] = U] /\ nbr' = nbr /\ out' = out
  BY <1>1, <1>2 DEF InputAnswer
<1>4. /\ trans \in [Node -> [Block -> Blocks]] /\ T \in [Block -> Blocks]
      /\ nbr \in [Node -> [Node -> Numbers]]
      /\ NodeInv(n, nbr[n], T)
  BY <1>1 DEF BlocksInv
<1>5. ASSUME NEW b \in Block
      PROVE  /\ U[b] \in Blocks /\ Role(n, U[b])
             /\ Listed(U[b]) => /\ Listed(T[b])
                                /\ U[b].peer = T[b].peer /\ U[b].seqno = T[b].seqno
                                /\ U[b].cmd = T[b].cmd /\ U[b].req = T[b].req
  <2>1. Role(n, T[b])
    BY <1>4 DEF NodeInv
  <2>2. CASE U[b] = T[b]
    BY <1>4, <2>1, <2>2
  <2>3. CASE U[b] # T[b]
    <3>1. PICK new : new = AnswerState(f)
      OBVIOUS
    <3>2. /\ b \in With(n, p) /\ Allowed(T[b], new)
          /\ U[b] = [Transit(T[b], new) EXCEPT !.ans = f.req]
      BY <1>2, <2>3, <3>1
    <3>3. Listed(T[b]) /\ T[b] \in BlockType
      BY <1>1, <1>4, <3>2, ListedTyped DEF With
    <3>4. PICK t : t = Transit(T[b], new)
      OBVIOUS
    <3>5. new \in {"RESPONSE_RECEIVED", "CONFIRMATION_RECEIVED"}
      BY <3>1 DEF AnswerState
    <3>6. /\ t \in BlockType /\ t.st = new /\ t.peer = T[b].peer /\ t.seqno = T[b].seqno
          /\ t.cmd = T[b].cmd /\ t.req = T[b].req
      <4>1. new \in State \ {"UNAVAILABLE", "INIT"}
        BY <3>5 DEF State, Sending
      <4> QED
        BY <3>2, <3>3, <3>4, <4>1, TransitType, TransitKeeps
    <3>7. PICK r \in Requests : r = f.req
      BY DEF FrameType
    <3>8. U[b] = [t EXCEPT !.ans = r]
      BY <3>2, <3>4, <3>7
    <3>9. /\ U[b] \in BlockType /\ U[b].st = new /\ U[b].peer = T[b].peer
          /\ U[b].seqno = T[b].seqno /\ U[b].cmd = T[b].cmd /\ U[b].req = T[b].req
      BY <3>6, <3>8 DEF BlockType
    <3>10. new = "CONFIRMATION_RECEIVED" => T[b].st \in {"RESPONSE_SENT", "RESPONSE_SENDING"}
      BY <3>2 DEF Allowed
    <3>11. Role(n, U[b])
      BY <2>1, <3>3, <3>5, <3>9, <3>10 DEF Role, Asking, Asked
    <3> QED
      BY <3>3, <3>5, <3>9, <3>11 DEF Blocks, Listed
  <2> QED
    BY <2>2, <2>3
<1>6. NodeInv(n, nbr[n], U)
  <2>1. OnePerPeer(U)
    BY <1>4, <1>5 DEF NodeInv, OnePerPeer
  <2>2. ASSUME NEW b \in Block, Listed(U[b]) PROVE Numbered(n, U[b], nbr[n][U[b].peer])
    <3>1. Numbered(n, T[b], nbr[n][T[b].peer])
      BY <1>4, <1>5, <2>2 DEF NodeInv
    <3> QED
      BY <1>5, <2>2, <3>1 DEF Numbered, Asked
  <2> QED
    BY <1>5, <2>1, <2>2 DEF NodeInv
<1>7. U \in [Block -> Blocks]
  BY <1>2, <1>5
<1>8. trans' \in [Node -> [Block -> Blocks]]
  BY <1>3, <1>4, <1>7
<1>9. \A m \in Node : NodeInv(m, nbr'[m], trans'[m])
  <2> SUFFICES ASSUME NEW m \in Node PROVE NodeInv(m, nbr'[m], trans'[m])
    OBVIOUS
  <2>1. CASE m = n
    BY <1>3, <1>4, <1>6, <2>1
  <2>2. CASE m # n
    <3>1. trans'[m] = trans[m]
      BY <1>3, <1>4, <2>2
    <3> QED
      BY <1>3, <3>1 DEF BlocksInv
  <2> QED
    BY <2>1, <2>2
<1>10. BlocksInv'
  BY <1>3, <1>4, <1>8, <1>9 DEF BlocksInv, NodeInv, OnePerPeer, Role, Numbered, Asked, Listed
<1> QED
  BY <1>3, <1>10 DEF OutInv, From

LEMMA InputStep ==
  ASSUME Inv, NEW n \in Node, NEW p \in Node, Input(n, p)
  PROVE  Inv'
<1>1. PICK q \in Seq(FrameType) : q = inp[n][p] /\ q # <<>> /\ From(q, p)
  BY DEF Input, Inv, InpInv
<1>2. n # p
  BY <1>1 DEF Inv, InpInv
<1>3. PICK f \in FrameType : f = Head(q) /\ (f.type = "request" => f.req[1] = p)
  BY <1>1, TailFrom
<1>4. InpInv'
  <2>1. PICK r \in Seq(FrameType) : r = Tail(q) /\ From(r, p)
    BY <1>1, TailFrom
  <2>2. inp' = [inp EXCEPT ![n][p] = r]
    BY <1>1, <2>1 DEF Input
  <2> QED
    BY <1>2, <2>1, <2>2, InpChanges DEF Inv
<1>5. BlocksInv' /\ OutInv'
  <2>1. CASE InputAnswer(n, p, f)
    BY <2>1, InputAnswerKeeps DEF Inv
  <2>2. CASE \E b \in With(n, p) : InputBusy(n, p, f, b)
    BY <2>2, InputBusyKeeps DEF Inv
  <2>3. CASE f.type = "request" /\ With(n, p) = {} /\ InputRequest(n, p, f)
    BY <1>2, <1>3, <2>3, InputRequestKeeps DEF Inv
  <2> QED
    BY <1>1, <1>3, <2>1, <2>2, <2>3 DEF Input
<1> QED
  BY <1>4, <1>5 DEF Inv, HistoryInv, Input

\* process_trans ends the transaction or lets it wait.
LEMMA ProcessedListed ==
  ASSUME NEW n, NEW s \in BlockType, Listed(s), Role(n, s), NEW t, t = Processed(s)
  PROVE  /\ t \in Blocks /\ Role(n, t)
         /\ Listed(t) => t.peer = s.peer /\ t.seqno = s.seqno /\ t.cmd = s.cmd /\ t.req = s.req
<1>1. CASE s.st = "TERMINATING"
  <2>1. t = Zero
    BY <1>1 DEF Processed, Freed, Sending
  <2> QED
    BY <2>1, ZeroUnlisted DEF Blocks, Role, Asked
<1>2. CASE s.st # "TERMINATING" /\ Over(s)
  <2>1. t = Transit(s, "TERMINATING")
    BY <1>2 DEF Processed
  <2>2. "TERMINATING" \in State \ {"UNAVAILABLE", "INIT", "WAIT_FREE"}
    BY DEF State
  <2>3. Allowed(s, "TERMINATING")
    BY DEF Allowed
  <2> QED
    BY <2>1, <2>2, <2>3, TransitListed DEF Role, Asking
<1>3. CASE s.st # "TERMINATING" /\ ~Over(s)
  <2>1. t = [s EXCEPT !.timer = "timeout"]
    BY <1>3 DEF Processed
  <2>2. /\ t \in BlockType /\ t.st = s.st /\ t.peer = s.peer /\ t.seqno = s.seqno
        /\ t.cmd = s.cmd /\ t.req = s.req
    BY <2>1 DEF BlockType
  <2> QED
    BY <2>2 DEF Blocks, Role, Asked, Listed
<1> QED
  BY <1>1, <1>2, <1>3

LEMMA ProcessTransStep ==
  ASSUME Inv, NEW n \in Node, NEW b \in Block, ProcessTrans(n, b)
  PROVE  Inv'
<1>1. PICK s : s = trans[n][b]
  OBVIOUS
<1>2. s \in BlockType /\ Listed(s) /\ Role(n, s)
  BY <1>1, UnderWay DEF Inv, BlocksInv, Blocks, ProcessTrans, Zero
<1>3. PICK t : t = Processed(s)
  OBVIOUS
<1>4. /\ t \in Blocks /\ Role(n, t)
      /\ Listed(t) => t.peer = s.peer /\ t.seqno = s.seqno /\ t.cmd = s.cmd /\ t.req = s.req
  BY <1>2, <1>3, ProcessedListed
<1>5. trans' = [trans EXCEPT ![n][b] = t] /\ UNCHANGED <<nbr, out, inp, asked, restarts>>
  BY <1>1, <1>3 DEF ProcessTrans
<1>6. BlocksInv'
  BY <1>1, <1>2, <1>4, <1>5, ListedBlockMoves DEF Inv
<1> QED
  BY <1>5, <1>6 DEF Inv, OutInv, InpInv, HistoryInv, From

LEMMA TimeoutStep ==
  ASSUME Inv, NEW n \in Node, NEW b \in Block, Timeout(n, b)
  PROVE  Inv'
<1>1. PICK s : s = trans[n][b]
  OBVIOUS
<1>2. s \in BlockType /\ Listed(s) /\ Role(n, s)
  BY <1>1, UnderWay DEF Inv, BlocksInv, Blocks, Timeout, Zero
<1>3. PICK t : t = Transit(s, "TERMINATING")
  OBVIOUS
<1>4. /\ t \in Blocks /\ Role(n, t)
      /\ t.peer = s.peer /\ t.seqno = s.seqno /\ t.cmd = s.cmd /\ t.req = s.req
  <2>1. "TERMINATING" \in State \ {"UNAVAILABLE", "INIT", "WAIT_FREE"}
    BY DEF State
  <2>2. Allowed(s, "TERMINATING")
    BY DEF Allowed
  <2> QED
    BY <1>2, <1>3, <2>1, <2>2, TransitListed DEF Role, Asking
<1>5. trans' = [trans EXCEPT ![n][b] = t] /\ UNCHANGED <<nbr, out, inp, asked, restarts>>
  BY <1>1, <1>3 DEF Timeout
<1>6. BlocksInv'
  BY <1>1, <1>2, <1>4, <1>5, ListedBlockMoves DEF Inv
<1> QED
  BY <1>5, <1>6 DEF Inv, OutInv, InpInv, HistoryInv, From

\* A power cycle leaves a node without transactions.
LEMMA RestartStep ==
  ASSUME Inv, NEW n \in Node, Restart(n)
  PROVE  Inv'
<1>1. PICK N, T : N = [p \in Node |-> NoNbr] /\ T = [b \in Block |-> Zero]
  OBVIOUS
<1>2. PICK E : E = [p \in Node |-> <<>>]
  OBVIOUS
<1>3. /\ nbr' = [nbr EXCEPT ![n] = N] /\ trans' = [trans EXCEPT ![n] = T]
      /\ out' = [out EXCEPT ![n] = E] /\ inp' = [inp EXCEPT ![n] = E]
      /\ asked' = asked /\ restarts' = restarts + 1 /\ restarts < MaxRestarts
  BY <1>1, <1>2 DEF Restart
<1>4. N \in [Node -> Numbers] /\ T \in [Block -> Blocks]
  BY <1>1 DEF Numbers, Blocks
<1>5. NodeInv(n, N, T)
  BY <1>1, ZeroUnlisted DEF NodeInv, OnePerPeer, Role, Asked
<1>6. BlocksInv'
  <2>1. /\ nbr' \in [Node -> [Node -> Numbers]]
        /\ trans' \in [Node -> [Block -> Blocks]]
    BY <1>3, <1>4 DEF Inv, BlocksInv
  <2>2. ASSUME NEW m \in Node PROVE NodeInv(m, nbr'[m], trans'[m])
    <3>1. CASE m = n
      <4>1. nbr'[m] = N /\ trans'[m] = T
        BY <1>3, <3>1 DEF Inv, BlocksInv
      <4> QED
        BY <1>5, <3>1, <4>1
    <3>2. CASE m # n
      <4>1. nbr'[m] = nbr[m] /\ trans'[m] = trans[m]
        BY <1>3, <3>2 DEF Inv, BlocksInv
      <4> QED
        BY <4>1 DEF Inv, BlocksInv
    <3> QED
      BY <3>1, <3>2
  <2> QED
    BY <2>1, <2>2 DEF BlocksInv, NodeInv, OnePerPeer, Role, Numbered, Asked, Listed
<1>7. E \in [Node -> Seq(FrameType)] /\ \A p \in Node : E[p] = <<>>
  BY <1>2
<1>8. OutInv'
  <2>1. out' \in [Node -> [Node -> Seq(FrameType)]]
    BY <1>3, <1>7 DEF Inv, OutInv
  <2>2. \A m \in Node : out'[m] = IF m = n THEN E ELSE out[m]
    BY <1>3 DEF Inv, OutInv
  <2>3. ASSUME NEW m \in Node, NEW p \in Node
        PROVE  Len(out'[m][p]) <= QueueSize /\ From(out'[m][p], m)
    <3>1. CASE m = n
      <4>1. out'[m][p] = <<>>
        BY <1>7, <2>2, <3>1
      <4> QED
        BY <4>1, EmptyFrom, SixpAssumption
    <3>2. CASE m # n
      BY <2>2, <3>2 DEF Inv, OutInv
    <3> QED
      BY <3>1, <3>2
  <2> QED
    BY <2>1, <2>3 DEF OutInv, From
<1>9. InpInv'
  <2>1. inp' \in [Node -> [Node -> Seq(FrameType)]]
    BY <1>3, <1>7 DEF Inv, InpInv
  <2>2. \A m \in Node : inp'[m] = IF m = n THEN E ELSE inp[m]
    BY <1>3 DEF Inv, InpInv
  <2>3. \A m, p \in Node : From(inp'[m][p], p)
    BY <1>7, <2>2, EmptyFrom DEF Inv, InpInv
  <2>4. \A m \in Node : inp'[m][m] = <<>>
    BY <1>7, <2>2 DEF Inv, InpInv
  <2> QED
    BY <2>1, <2>3, <2>4 DEF InpInv, From
<1>10. HistoryInv'
  BY <1>3, SixpAssumption DEF Inv, HistoryInv
<1> QED
  BY <1>6, <1>8, <1>9, <1>10 DEF Inv

LEMMA InitInv == Init => Inv
<1> SUFFICES ASSUME Init PROVE Inv
  OBVIOUS
<1>1. BlocksInv
  <2>1. /\ nbr \in [Node -> [Node -> Numbers]]
        /\ trans \in [Node -> [Block -> Blocks]]
    BY DEF Init, Numbers, Blocks
  <2>2. ASSUME NEW n \in Node PROVE NodeInv(n, nbr[n], trans[n])
    <3>1. \A b \in Block : trans[n][b] = Zero
      BY DEF Init
    <3> QED
      BY <3>1, ZeroUnlisted DEF NodeInv, OnePerPeer, Role, Asked
  <2> QED
    BY <2>1, <2>2 DEF BlocksInv
<1>2. OutInv /\ InpInv
  <2>1. /\ out \in [Node -> [Node -> Seq(FrameType)]]
        /\ inp \in [Node -> [Node -> Seq(FrameType)]]
        /\ \A n, p \in Node : out[n][p] = <<>> /\ inp[n][p] = <<>>
    BY DEF Init
  <2> QED
    BY <2>1, EmptyFrom, SixpAssumption DEF OutInv, InpInv
<1>3. HistoryInv
  BY FS_EmptySet, SixpAssumption DEF Init, HistoryInv
<1> QED
  BY <1>1, <1>2, <1>3 DEF Inv

-----------------------------------------------------------------------------
(* Theorems *)

LEMMA InductiveInvariant == Spec => []Inv
<1>1. Inv /\ [Next]_vars => Inv'
  <2> SUFFICES ASSUME Inv, [Next]_vars PROVE Inv'
    OBVIOUS
  <2>1. CASE \E a \in Asks : RequestFails(a[1], a[2]) \/ SendRequest(a[1], a[2], a[3])
    <3>1. \A a \in Asks : a[1] \in Node /\ a[2] \in Node
      BY SixpAssumption
    <3> QED
      BY <2>1, <3>1, RequestFailsStep, SendRequestStep
  <2>2. CASE \E n, p \in Node :
               \/ SendResponse(n, p) \/ SendConfirmation(n, p)
               \/ Hear(n, p) \/ Input(n, p)
               \/ \E ok \in BOOLEAN : Sent(n, p, ok)
    BY <2>2, SendResponseStep, SendConfirmationStep, HearStep, InputStep, SentStep
  <2>3. CASE \E n \in Node, b \in Block : ProcessTrans(n, b) \/ Timeout(n, b)
    BY <2>3, ProcessTransStep, TimeoutStep
  <2>4. CASE \E n \in Unstable : Restart(n)
    BY <2>4, RestartStep, SixpAssumption
  <2>5. CASE UNCHANGED vars
    BY <2>5 DEF vars, Inv, BlocksInv, NodeInv, OnePerPeer, Role, Numbered, Asked, Listed,
                OutInv, InpInv, HistoryInv, From
  <2> QED
    BY <2>1, <2>2, <2>3, <2>4, <2>5 DEF Next
<1> QED
  BY InitInv, <1>1, PTL DEF Spec

\* Every variable holds a value of its range.
THEOREM TypeCorrect == Spec => []TypeOK
<1>1. Inv => TypeOK
  <2> SUFFICES ASSUME Inv PROVE TypeOK
    OBVIOUS
  <2>1. TypeInv
    <3>1. trans \in [Node -> [Block -> BlockType \cup {Zero}]]
      BY DEF Inv, BlocksInv, Blocks
    <3> QED
      BY <3>1 DEF Inv, BlocksInv, Numbers, OutInv, InpInv, HistoryInv, TypeInv
  <2> QED
    BY <2>1, TypeInvTypeOK
<1> QED
  BY <1>1, InductiveInvariant, PTL

\* While a transaction that a node asked for is under way, the next sequence number
\* for its peer is past that of the transaction: neither requests of the peer nor
\* errors, nor callbacks of frames that belonged to another transaction in the same
\* block, move it.
THEOREM SeqnoStaysMoved == Spec => []NextSeqnoMoved
<1>1. Inv => NextSeqnoMoved
  <2> SUFFICES ASSUME Inv, NEW n \in Node, NEW b \in Block, Asked(trans[n][b], n)
               PROVE  nbr[n][trans[n][b].peer] =
                        IF trans[n][b].cmd = "clear" THEN 0 ELSE NextSeqno(trans[n][b].seqno)
    BY DEF NextSeqnoMoved
  <2>1. Listed(trans[n][b])
    BY DEF Asked
  <2>2. Numbered(n, trans[n][b], nbr[n][trans[n][b].peer])
    BY <2>1 DEF Inv, BlocksInv, NodeInv
  <2> QED
    BY <2>2 DEF Numbered
<1> QED
  BY <1>1, InductiveInvariant, PTL

\* A node has at most one transaction with each peer, what sixp_trans_find relies on.
OneTransactionPerPeer ==
  \A n, p \in Node : \A b, c \in With(n, p) : b = c

\* A peer that asks again, or is asked, while a transaction is under way gets
\* no second one.
THEOREM OneTransaction == Spec => []OneTransactionPerPeer
<1>1. Inv => OneTransactionPerPeer
  BY DEF Inv, BlocksInv, NodeInv, OnePerPeer, With, OneTransactionPerPeer
<1> QED
  BY <1>1, InductiveInvariant, PTL

\* sixp_trans_transit_state asserts that the response to a CLEAR finds the next
\* sequence number, if there is one, at 0.
ClearFindsZero ==
  \A n \in Node, b \in Block :
    LET t == trans[n][b]
    IN  t.cmd = "clear" /\ Allowed(t, "RESPONSE_SENT") => nbr[n][t.peer] \in {NoNbr, 0}

\* The assert of sixp_trans_transit_state (sixp-trans.c:267) never fails.
THEOREM AssertionHolds == Spec => []ClearFindsZero
<1>1. Inv => ClearFindsZero
  <2> SUFFICES ASSUME Inv, NEW n \in Node, NEW b \in Block, trans[n][b].cmd = "clear",
                      Allowed(trans[n][b], "RESPONSE_SENT")
               PROVE  nbr[n][trans[n][b].peer] \in {NoNbr, 0}
    BY DEF ClearFindsZero
  <2>1. Listed(trans[n][b])
    BY DEF Allowed, Listed
  <2>2. Numbered(n, trans[n][b], nbr[n][trans[n][b].peer])
    BY <2>1 DEF Inv, BlocksInv, NodeInv
  <2> QED
    BY <2>1, <2>2 DEF Numbered
<1> QED
  BY <1>1, InductiveInvariant, PTL

\* No block is ever kept for the MAC callback that is still to come, as
\* sixp_trans_free says: a transaction is freed in state TERMINATING only.
NeverWaitFree == \A n \in Node, b \in Block : trans[n][b].st # "WAIT_FREE"

\* The state in which sixp_trans_free would leave a block is unreachable.
THEOREM BlocksAreNotKept == Spec => []NeverWaitFree
<1>1. Inv => NeverWaitFree
  BY DEF Inv, BlocksInv, Blocks, Listed, Zero, NeverWaitFree
<1> QED
  BY <1>1, InductiveInvariant, PTL

-----------------------------------------------------------------------------
(* Responses and requests: between two nodes of which one asks, what a     *)
(* frame or a transaction has as its sequence number tells which request   *)
(* it is about.                                                            *)

Tag(x) == [seqno |-> x.seqno, cmd |-> x.cmd, req |-> x.req]
TagsOf(q) == {Tag(q[i]) : i \in DOMAIN q}
BlockTags(n, p) == {Tag(trans[n][b]) : b \in With(n, p)}

\* What n holds about requests between n and p.
Half(n, p) == TagsOf(out[n][p]) \cup TagsOf(inp[n][p]) \cup BlockTags(n, p)
Tags(n, p) == Half(n, p) \cup Half(p, n)

\* The condition of ResponseOfRequest: only n asks, without CLEAR.
Sole(n, p) ==
  restarts = 0 /\ \A r \in asked : r[3] # "clear" /\ <<r[1], r[2]>> # <<p, n>>

Known(g, n, p) ==
  /\ g.req \in asked /\ g.cmd = g.req[3]
  /\ <<g.req[1], g.req[2]>> \in {<<n, p>>, <<p, n>>}

AllKnown ==
  /\ \A n, p \in Node : \A g \in Half(n, p) : Known(g, n, p)
  /\ \A r \in asked : r[4] < Cardinality(asked)

Distinct(n, p) ==
  /\ nbr[n][p] <= Cardinality(asked)
  /\ \A g \in Tags(n, p) : g.seqno < nbr[n][p]
  /\ \A g, h \in Tags(n, p) : g.seqno = h.seqno => g.req = h.req

Answered(n, t) == t.st = "RESPONSE_RECEIVED" /\ Sole(n, t.peer) => t.ans = t.req

SeqnoInv ==
  /\ AllKnown
  /\ \A n, p \in Node : Sole(n, p) => Distinct(n, p)
  /\ \A n \in Node, b \in Block : Answered(n, trans[n][b])

\* Tags of queues.
LEMMA QueuedTags ==
  ASSUME NEW q \in Seq(FrameType), NEW f \in FrameType
  PROVE  /\ TagsOf(Append(q, f)) \subseteq TagsOf(q) \cup {Tag(f)}
         /\ TagsOf(Queued(q, f)) \subseteq TagsOf(q) \cup {Tag(f)}
<1>1. ASSUME NEW i \in DOMAIN Append(q, f)
      PROVE  Tag(Append(q, f)[i]) \in TagsOf(q) \cup {Tag(f)}
  <2>1. CASE i = Len(q) + 1
    <3>1. Append(q, f)[i] = f
      BY <2>1
    <3> QED
      BY <3>1
  <2>2. CASE i # Len(q) + 1
    <3>1. i \in DOMAIN q /\ Append(q, f)[i] = q[i]
      BY <2>2
    <3> QED
      BY <3>1 DEF TagsOf
  <2> QED
    BY <2>1, <2>2
<1>2. TagsOf(Append(q, f)) \subseteq TagsOf(q) \cup {Tag(f)}
  BY <1>1 DEF TagsOf
<1> QED
  BY <1>2 DEF Queued

LEMMA TailTags ==
  ASSUME NEW q \in Seq(FrameType), q # <<>>
  PROVE  TagsOf(Tail(q)) \subseteq TagsOf(q) /\ Tag(Head(q)) \in TagsOf(q)
<1>1. ASSUME NEW i \in DOMAIN Tail(q) PROVE Tag(Tail(q)[i]) \in TagsOf(q)
  <2>1. i + 1 \in DOMAIN q /\ Tail(q)[i] = q[i + 1]
    OBVIOUS
  <2> QED
    BY <2>1 DEF TagsOf
<1>2. 1 \in DOMAIN q /\ Head(q) = q[1]
  OBVIOUS
<1> QED
  BY <1>1, <1>2 DEF TagsOf

LEMMA HeardTags ==
  ASSUME NEW q \in Seq(FrameType), q # <<>>, NEW r, r = [q EXCEPT ![1].heard = TRUE]
  PROVE  TagsOf(r) \subseteq TagsOf(q)
<1>1. DOMAIN r = DOMAIN q /\ \A i \in DOMAIN q : q[i] \in FrameType
  OBVIOUS
<1>2. ASSUME NEW i \in DOMAIN q PROVE Tag(r[i]) = Tag(q[i])
  <2>1. CASE i = 1
    <3>1. r[i] = [q[i] EXCEPT !.heard = TRUE]
      BY <2>1
    <3>2. q[i] \in FrameType
      BY <1>1
    <3>3. r[i].seqno = q[i].seqno /\ r[i].cmd = q[i].cmd /\ r[i].req = q[i].req
      BY <3>1, <3>2 DEF FrameType
    <3> QED
      BY <3>3 DEF Tag
  <2>2. CASE i # 1
    <3>1. r[i] = q[i]
      BY <2>2
    <3> QED
      BY <3>1
  <2> QED
    BY <2>1, <2>2
<1> QED
  BY <1>1, <1>2 DEF TagsOf

\* What a step other than a request does.
OutKept == \A n, p \in Node : TagsOf(out'[n][p]) \subseteq Half(n, p)
InpKept == \A n, p \in Node : TagsOf(inp'[n][p]) \subseteq Tags(n, p)
BlocksKept == \A n, p \in Node : BlockTags(n, p)' \subseteq Half(n, p)

NumberKept(n, p) ==
  nbr'[n][p] = nbr[n][p] \/ (nbr[n][p] = NoNbr /\ nbr'[n][p] = 0)

NumbersKept == restarts' = 0 => \A n, p \in Node : Sole(n, p) => NumberKept(n, p)

AnswersKept ==
  \A n \in Node, b \in Block :
    trans'[n][b].st = "RESPONSE_RECEIVED" =>
      \/ /\ trans[n][b].st = "RESPONSE_RECEIVED"
         /\ trans'[n][b].peer = trans[n][b].peer
         /\ trans'[n][b].ans = trans[n][b].ans /\ trans'[n][b].req = trans[n][b].req
      \/ Sole(n, trans'[n][b].peer) => trans'[n][b].ans = trans'[n][b].req

AllKept ==
  /\ OutKept /\ InpKept /\ BlocksKept /\ NumbersKept /\ AnswersKept
  /\ asked' = asked /\ (restarts' = 0 => restarts = 0)

LEMMA TagSeqno ==
  ASSUME Inv, NEW n \in Node, NEW p \in Node, NEW g \in Half(n, p)
  PROVE  g.seqno \in Num
<1>1. \A q \in Seq(FrameType) : \A i \in DOMAIN q : q[i].seqno \in Num
  <2>1. \A q \in Seq(FrameType) : \A i \in DOMAIN q : q[i] \in FrameType
    OBVIOUS
  <2> QED
    BY <2>1 DEF FrameType, Num
<1>2. \A q \in Seq(FrameType) : \A h \in TagsOf(q) : h.seqno \in Num
  BY <1>1 DEF TagsOf, Tag
<1>3. \A b \in With(n, p) : trans[n][b].seqno \in Num
  <2>1. \A b \in With(n, p) : trans[n][b] \in BlockType
    BY UnderWay DEF With, Inv
  <2> QED
    BY <2>1 DEF BlockType, Num
<1>4. \A h \in BlockTags(n, p) : h.seqno \in Num
  BY <1>3 DEF BlockTags, Tag
<1>5. out[n][p] \in Seq(FrameType) /\ inp[n][p] \in Seq(FrameType)
  BY DEF Inv, OutInv, InpInv
<1> QED
  BY <1>2, <1>4, <1>5 DEF Half

LEMMA KeptKeeps ==
  ASSUME Inv, SeqnoInv, AllKept
  PROVE  SeqnoInv'
<1>1. ASSUME NEW n \in Node, NEW p \in Node
      PROVE  Half(n, p)' \subseteq Tags(n, p)
  BY DEF AllKept, OutKept, InpKept, BlocksKept, Half, Tags
<1>2. ASSUME NEW n \in Node, NEW p \in Node
      PROVE  Tags(n, p)' \subseteq Tags(n, p)
  <2>1. Half(n, p)' \subseteq Tags(n, p) /\ Half(p, n)' \subseteq Tags(p, n)
    BY <1>1
  <2> QED
    BY <2>1 DEF Tags
<1>3. AllKnown'
  <2>1. ASSUME NEW n \in Node, NEW p \in Node, NEW g \in Half(n, p)'
        PROVE  Known(g, n, p)'
    <3>1. g \in Tags(n, p)
      BY <1>1
    <3>2. Known(g, n, p) \/ Known(g, p, n)
      BY <3>1 DEF Tags, SeqnoInv, AllKnown
    <3> QED
      BY <3>2 DEF Known, AllKept
  <2>2. \A r \in asked' : r[4] < Cardinality(asked')
    BY DEF SeqnoInv, AllKnown, AllKept
  <2> QED
    BY <2>1, <2>2 DEF AllKnown
<1>4. ASSUME NEW n \in Node, NEW p, Sole(n, p)'
      PROVE  Sole(n, p) /\ restarts' = 0
  BY <1>4 DEF Sole, AllKept
<1>5. ASSUME NEW n \in Node, NEW p \in Node, Sole(n, p)'
      PROVE  Distinct(n, p)'
  <2>1. Sole(n, p) /\ NumberKept(n, p) /\ Distinct(n, p)
    BY <1>4, <1>5 DEF AllKept, NumbersKept, SeqnoInv
  <2>2. \A g \in Tags(n, p) : g.seqno \in Nat
    BY TagSeqno DEF Tags, Num
  <2>3. nbr[n][p] \in Int /\ Cardinality(asked) \in Nat
    BY FS_CardinalityType DEF Inv, BlocksInv, HistoryInv, Numbers, Num, NoNbr
  <2>4. nbr[n][p] <= nbr'[n][p] /\ nbr'[n][p] <= Cardinality(asked) /\ nbr'[n][p] \in Int
    BY <2>1, <2>3 DEF NumberKept, NoNbr, Distinct
  <2>5. \A g \in Tags(n, p)' : g.seqno < nbr'[n][p]
    BY <1>2, <2>1, <2>2, <2>3, <2>4 DEF Distinct
  <2>6. \A g, h \in Tags(n, p)' : g.seqno = h.seqno => g.req = h.req
    BY <1>2, <2>1 DEF Distinct
  <2> QED
    BY <2>4, <2>5, <2>6 DEF Distinct, AllKept
<1>6. ASSUME NEW n \in Node, NEW b \in Block
      PROVE  Answered(n, trans[n][b])'
  <2> SUFFICES ASSUME trans'[n][b].st = "RESPONSE_RECEIVED", Sole(n, trans[n][b].peer)'
               PROVE  trans'[n][b].ans = trans'[n][b].req
    BY DEF Answered
  <2>1. PICK p : p = trans'[n][b].peer
    OBVIOUS
  <2>2. Sole(n, p)'
    BY <2>1 DEF Sole, Answered
  <2>3. Sole(n, trans'[n][b].peer)
    BY <1>4, <2>1, <2>2
  <2> QED
    BY <2>3 DEF AllKept, AnswersKept, SeqnoInv, Answered
<1> QED
  BY <1>3, <1>5, <1>6 DEF SeqnoInv

\* A frame is queued, another one goes.
LEMMA QueuedOut ==
  ASSUME Inv, NEW n \in Node, NEW p \in Node, NEW f \in FrameType,
         Tag(f) \in Half(n, p), out' = [out EXCEPT ![n][p] = Queued(@, f)]
  PROVE  OutKept
<1>1. \A m, q \in Node : out'[m][q] = IF m = n /\ q = p THEN Queued(out[n][p], f) ELSE out[m][q]
  BY DEF Inv, OutInv
<1>2. TagsOf(Queued(out[n][p], f)) \subseteq Half(n, p)
  <2>1. out[n][p] \in Seq(FrameType)
    BY DEF Inv, OutInv
  <2> QED
    BY <2>1, QueuedTags DEF Half
<1> QED
  BY <1>1, <1>2 DEF OutKept, Half

LEMMA TailInp ==
  ASSUME Inv, NEW n \in Node, NEW p \in Node, inp[n][p] # <<>>,
         inp' = [inp EXCEPT ![n][p] = Tail(@)]
  PROVE  /\ InpKept
         /\ Head(inp[n][p]) \in FrameType /\ Tag(Head(inp[n][p])) \in Half(n, p)
<1>1. \A m, q \in Node : inp'[m][q] = IF m = n /\ q = p THEN Tail(inp[n][p]) ELSE inp[m][q]
  BY DEF Inv, InpInv
<1>2. inp[n][p] \in Seq(FrameType)
  BY DEF Inv, InpInv
<1>3. /\ TagsOf(Tail(inp[n][p])) \subseteq TagsOf(inp[n][p])
      /\ Tag(Head(inp[n][p])) \in TagsOf(inp[n][p])
  BY <1>2, TailTags
<1>4. Head(inp[n][p]) \in FrameType
  BY <1>2
<1> QED
  BY <1>1, <1>3, <1>4 DEF InpKept, Half, Tags

\* One block changes: what it is about then, the node knew.
LEMMA OneBlock ==
  ASSUME Inv, NEW n \in Node, NEW b \in Block, NEW t, NEW p \in Node,
         trans' = [trans EXCEPT ![n][b] = t],
         Listed(t) => t.peer = p /\ Tag(t) \in Half(n, p),
         t.st = "RESPONSE_RECEIVED" =>
           /\ trans[n][b].st = "RESPONSE_RECEIVED" /\ t.peer = trans[n][b].peer
           /\ t.ans = trans[n][b].ans /\ t.req = trans[n][b].req
  PROVE  BlocksKept /\ AnswersKept
<1>1. \A m \in Node, c \in Block : trans'[m][c] = IF m = n /\ c = b THEN t ELSE trans[m][c]
  BY DEF Inv, BlocksInv
<1>2. BlocksKept
  <2> SUFFICES ASSUME NEW m \in Node, NEW q \in Node, NEW c \in Block,
                      Listed(trans'[m][c]), trans'[m][c].peer = q
               PROVE  Tag(trans'[m][c]) \in Half(m, q)
    BY DEF BlocksKept, BlockTags, With, Listed, Tag
  <2>1. CASE m = n /\ c = b
    <3>1. trans'[m][c] = t
      BY <1>1, <2>1
    <3> QED
      BY <2>1, <3>1
  <2>2. CASE ~(m = n /\ c = b)
    <3>1. trans'[m][c] = trans[m][c]
      BY <1>1, <2>2
    <3> QED
      BY <3>1 DEF Half, BlockTags, With
  <2> QED
    BY <2>1, <2>2
<1>3. AnswersKept
  BY <1>1 DEF AnswersKept
<1> QED
  BY <1>2, <1>3

LEMMA TransitAns ==
  ASSUME NEW t \in BlockType, NEW new
  PROVE  Transit(t, new).ans = t.ans
BY DEF Transit, BlockType

LEMMA BlockTag ==
  ASSUME NEW n, NEW b \in Block, Listed(trans[n][b])
  PROVE  Tag(trans[n][b]) \in Half(n, trans[n][b].peer)
BY DEF Half, BlockTags, With

\* A transaction that is under way moves to a state other than RESPONSE_RECEIVED.
LEMMA MovedBlock ==
  ASSUME Inv, NEW n \in Node, NEW b \in Block, Listed(trans[n][b]),
         NEW new \in State \ {"UNAVAILABLE", "INIT", "WAIT_FREE", "RESPONSE_RECEIVED"},
         NEW t, t = Transit(trans[n][b], new), trans' = [trans EXCEPT ![n][b] = t]
  PROVE  BlocksKept /\ AnswersKept
<1>1. PICK s : s = trans[n][b]
  OBVIOUS
<1>2. s \in BlockType /\ s.peer \in Node
  BY <1>1, UnderWay DEF Inv
<1>3. t = Transit(s, new)
  BY <1>1
<1>4. /\ t.peer = s.peer /\ t.seqno = s.seqno /\ t.cmd = s.cmd /\ t.req = s.req
      /\ t.st = IF Allowed(s, new) THEN new ELSE s.st
      /\ t.ans = s.ans
  BY <1>2, <1>3, TransitKeeps, TransitAns
<1>5. Tag(t) \in Half(n, s.peer)
  BY <1>1, <1>4, BlockTag DEF Tag
<1>6. t.st = "RESPONSE_RECEIVED" =>
        /\ trans[n][b].st = "RESPONSE_RECEIVED" /\ t.peer = trans[n][b].peer
        /\ t.ans = trans[n][b].ans /\ t.req = trans[n][b].req
  BY <1>1, <1>4
<1>7. PICK p \in Node : p = s.peer
  BY <1>2
<1>8. Listed(t) => t.peer = p /\ Tag(t) \in Half(n, p)
  BY <1>4, <1>5, <1>7
<1> QED
  BY <1>6, <1>8, OneBlock

\* An answer goes out in transaction t, under way or new.
LEMMA AnswerTags ==
  ASSUME Inv, NEW n \in Node, NEW p \in Node, NEW b \in Block, NEW t \in BlockType,
         Tag(t) \in Half(n, p), NEW type \in {"response", "confirmation"}, NEW new,
         Answer(n, p, b, t, type, new)
  PROVE  OutKept
<1>1. PICK f \in FrameType : f = Frame(type, t.cmd, t.seqno, b, t.req)
  BY FrameTyped DEF BlockType, Num
<1>2. Tag(f) = Tag(t)
  BY <1>1 DEF Tag, Frame
<1> QED
  BY <1>1, <1>2, QueuedOut DEF Answer

LEMMA UnchangedKept ==
  ASSUME Inv
  PROVE  /\ out' = out => OutKept
         /\ inp' = inp => InpKept
         /\ trans' = trans => BlocksKept /\ AnswersKept
         /\ nbr' = nbr => NumbersKept
BY DEF OutKept, InpKept, BlocksKept, AnswersKept, NumbersKept, NumberKept, Half, Tags,
       BlockTags, With, Listed

\* The entry for a peer may begin at 0.
LEMMA EntryKept ==
  ASSUME Inv, NEW n \in Node, NEW p \in Node, NEW k,
         k = nbr[n][p] \/ (nbr[n][p] = NoNbr /\ k = 0), nbr' = [nbr EXCEPT ![n][p] = k]
  PROVE  NumbersKept
<1>1. \A m, q \in Node : nbr'[m][q] = IF m = n /\ q = p THEN k ELSE nbr[m][q]
  BY DEF Inv, BlocksInv
<1> QED
  BY <1>1 DEF NumbersKept, NumberKept

-----------------------------------------------------------------------------
(* The steps keep what is known of requests *)

LEMMA RespondKept ==
  ASSUME Inv, NEW n \in Node, NEW p \in Node, NEW b \in With(n, p),
         Answer(n, p, b, trans[n][b], "response", "RESPONSE_SENDING"),
         nbr' = [nbr EXCEPT ![n][p] = EntryFor(trans[n][b].cmd, @)]
  PROVE  OutKept /\ BlocksKept /\ AnswersKept /\ NumbersKept
<1>1. b \in Block /\ Listed(trans[n][b]) /\ trans[n][b].peer = p
  BY DEF With
<1>2. trans[n][b] \in BlockType /\ Tag(trans[n][b]) \in Half(n, p)
  BY <1>1, UnderWay, BlockTag DEF Inv
<1>3. "RESPONSE_SENDING" \in State \ {"UNAVAILABLE", "INIT", "WAIT_FREE", "RESPONSE_RECEIVED"}
  BY DEF State, Sending
<1>4. OutKept
  BY <1>1, <1>2, AnswerTags
<1>5. BlocksKept /\ AnswersKept
  BY <1>1, <1>3, MovedBlock DEF Answer
<1>6. NumbersKept
  BY EntryKept DEF EntryFor
<1> QED
  BY <1>4, <1>5, <1>6

LEMMA SendErrorKept ==
  ASSUME Inv, NEW n \in Node, NEW p \in Node, NEW f \in FrameType, Tag(f) \in Half(n, p),
         SendError(n, p, f)
  PROVE  OutKept
<1>1. PICK e \in FrameType : e = Frame("response", f.cmd, f.seqno, NoBlock, f.req)
  BY FrameTyped DEF FrameType, Num
<1>2. Tag(e) = Tag(f)
  BY <1>1 DEF Tag, Frame
<1> QED
  BY <1>1, <1>2, QueuedOut DEF SendError

LEMMA RequestFailsKept ==
  ASSUME Inv, NEW n \in Node, NEW p \in Node, RequestFails(n, p)
  PROVE  AllKept
BY UnchangedKept, EntryKept DEF RequestFails, AllKept

LEMMA SendResponseKept ==
  ASSUME Inv, NEW n \in Node, NEW p \in Node, SendResponse(n, p)
  PROVE  AllKept
BY UnchangedKept, RespondKept DEF SendResponse, AllKept

LEMMA SendConfirmationKept ==
  ASSUME Inv, NEW n \in Node, NEW p \in Node, SendConfirmation(n, p)
  PROVE  AllKept
<1>1. PICK b \in With(n, p) :
        /\ Answer(n, p, b, trans[n][b], "confirmation", "CONFIRMATION_SENDING")
        /\ UNCHANGED <<nbr, inp, asked, restarts>>
  BY DEF SendConfirmation
<1>2. b \in Block /\ Listed(trans[n][b]) /\ trans[n][b].peer = p
  BY DEF With
<1>3. trans[n][b] \in BlockType /\ Tag(trans[n][b]) \in Half(n, p)
  BY <1>2, UnderWay, BlockTag DEF Inv
<1>4. "CONFIRMATION_SENDING" \in State \ {"UNAVAILABLE", "INIT", "WAIT_FREE", "RESPONSE_RECEIVED"}
  BY DEF State, Sending
<1>5. OutKept
  BY <1>1, <1>2, <1>3, AnswerTags
<1>6. BlocksKept /\ AnswersKept
  BY <1>1, <1>2, <1>4, MovedBlock DEF Answer
<1> QED
  BY <1>1, <1>5, <1>6, UnchangedKept DEF AllKept

LEMMA HearKept ==
  ASSUME Inv, NEW n \in Node, NEW p \in Node, Hear(n, p)
  PROVE  AllKept
<1>1. PICK q \in Seq(FrameType) : q = out[n][p] /\ q # <<>>
  BY DEF Hear, Inv, OutInv
<1>2. OutKept
  <2>1. PICK r : r = [q EXCEPT ![1].heard = TRUE]
    OBVIOUS
  <2>2. out' = [out EXCEPT ![n][p] = r]
    BY <1>1, <2>1 DEF Hear
  <2>3. \A m, s \in Node : out'[m][s] = IF m = n /\ s = p THEN r ELSE out[m][s]
    BY <2>2 DEF Inv, OutInv
  <2>4. TagsOf(r) \subseteq TagsOf(out[n][p])
    BY <1>1, <2>1, HeardTags
  <2> QED
    BY <2>3, <2>4 DEF OutKept, Half
<1>3. InpKept
  <2>1. PICK f \in FrameType : f = Head(q) /\ Tag(f) \in TagsOf(q)
    BY <1>1, TailTags
  <2>2. PICK i \in Seq(FrameType) : i = inp[p][n]
    BY DEF Inv, InpInv
  <2>3. inp' = [inp EXCEPT ![p][n] = Append(i, f)]
    BY <1>1, <2>1, <2>2 DEF Hear
  <2>4. \A m, s \in Node : inp'[m][s] = IF m = p /\ s = n THEN Append(i, f) ELSE inp[m][s]
    BY <2>3 DEF Inv, InpInv
  <2>5. TagsOf(Append(i, f)) \subseteq TagsOf(inp[p][n]) \cup TagsOf(out[n][p])
    BY <1>1, <2>1, <2>2, QueuedTags
  <2> QED
    BY <2>4, <2>5 DEF InpKept, Tags, Half
<1> QED
  BY <1>2, <1>3, UnchangedKept DEF Hear, AllKept

\* The callback moves the number only for a transaction of the peer.
LEMMA MacCallbackKept ==
  ASSUME Inv, SeqnoInv, NEW n \in Node, NEW b \in Block, NEW ok \in BOOLEAN,
         MacCallback(n, b, ok)
  PROVE  BlocksKept /\ AnswersKept /\ NumbersKept
<1>1. PICK s : s = trans[n][b] /\ s \in Blocks
  BY DEF Inv, BlocksInv
<1>2. PICK new : new = CallbackState(s, ok)
  OBVIOUS
<1>3. CASE new = s.st
  <2>1. s.st # "WAIT_FREE"
    BY <1>1 DEF Blocks, Listed, Zero
  <2>2. trans' = [trans EXCEPT ![n][b] = s] /\ nbr' = nbr
    BY <1>1, <1>2, <1>3, <2>1 DEF MacCallback
  <2>3. trans' = trans
    BY <1>1, <2>2 DEF Inv, BlocksInv
  <2> QED
    BY <2>2, <2>3, UnchangedKept
<1>4. CASE new # s.st
  <2>1. /\ s.st \in Sending /\ new \in {"REQUEST_SENT", "RESPONSE_SENT", "CONFIRMATION_SENT", "TERMINATING"}
        /\ new = "RESPONSE_SENT" => s.st = "RESPONSE_SENDING"
    BY <1>2, <1>4 DEF CallbackState, Sending
  <2>2. Listed(s)
    BY <2>1 DEF Listed, Sending
  <2>3. s \in BlockType /\ s.peer \in Node /\ Role(n, s) /\ nbr[n][s.peer] \in Numbers
    BY <1>1, <2>2, UnderWay DEF Inv
  <2>4. new \in State \ {"UNAVAILABLE", "INIT", "WAIT_FREE", "RESPONSE_RECEIVED"}
    BY <2>1 DEF State, Sending
  <2>5. /\ trans' = [trans EXCEPT ![n][b] = Transit(s, new)]
        /\ nbr' = [nbr EXCEPT ![n][s.peer] = SeqnoAfter(s, new, @)]
    BY <1>1, <1>2, <1>4 DEF MacCallback
  <2>6. BlocksKept /\ AnswersKept
    BY <1>1, <2>2, <2>4, <2>5, MovedBlock
  <2>7. ASSUME NEW m \in Node, NEW q \in Node, Sole(m, q) PROVE NumberKept(m, q)
    <3>1. CASE ~(m = n /\ q = s.peer)
      <4>1. nbr'[m][q] = nbr[m][q]
        BY <2>5, <3>1 DEF Inv, BlocksInv
      <4> QED
        BY <4>1 DEF NumberKept
    <3>2. CASE m = n /\ q = s.peer
      <4>1. nbr'[n][q] = SeqnoAfter(s, new, nbr[n][q])
        BY <2>5, <3>2 DEF Inv, BlocksInv
      <4>2. new # "RESPONSE_SENT"
        <5> SUFFICES ASSUME new = "RESPONSE_SENT" PROVE FALSE
          OBVIOUS
        <5>1. s.req[1] # n
          BY <2>1, <2>2, <2>3 DEF Role, Asking, Asked
        <5>2. Tag(s) \in Half(n, q)
          BY <1>1, <2>2, <3>2, BlockTag
        <5>3. PICK g : g = Tag(s)
          OBVIOUS
        <5>4. g.req = s.req
          BY <5>3 DEF Tag
        <5>5. s.req \in asked /\ <<s.req[1], s.req[2]>> \in {<<n, q>>, <<q, n>>}
          BY <5>2, <5>3, <5>4 DEF SeqnoInv, AllKnown, Known
        <5>6. <<s.req[1], s.req[2]>> # <<q, n>>
          BY <2>7, <3>2, <5>5 DEF Sole
        <5> QED
          BY <5>1, <5>5, <5>6
      <4> QED
        BY <3>2, <4>1, <4>2 DEF SeqnoAfter, NumberKept
    <3> QED
      BY <3>1, <3>2
  <2> QED
    BY <2>6, <2>7 DEF NumbersKept
<1> QED
  BY <1>3, <1>4

LEMMA SentKept ==
  ASSUME Inv, SeqnoInv, NEW n \in Node, NEW p \in Node, NEW ok \in BOOLEAN, Sent(n, p, ok)
  PROVE  AllKept
<1>1. PICK q \in Seq(FrameType) : q = out[n][p] /\ q # <<>> /\ From(q, n)
  BY DEF Sent, Inv, OutInv
<1>2. OutKept
  <2>1. \A m, s \in Node : out'[m][s] = IF m = n /\ s = p THEN Tail(q) ELSE out[m][s]
    BY <1>1 DEF Sent, Inv, OutInv
  <2>2. TagsOf(Tail(q)) \subseteq TagsOf(out[n][p])
    BY <1>1, TailTags
  <2> QED
    BY <2>1, <2>2 DEF OutKept, Half
<1>3. BlocksKept /\ AnswersKept /\ NumbersKept
  <2>1. Head(q).blk \in Block \cup {NoBlock}
    BY <1>1, TailFrom DEF FrameType
  <2>2. CASE Head(q).blk = NoBlock
    BY <1>1, <2>2, UnchangedKept DEF Sent
  <2>3. CASE Head(q).blk # NoBlock
    BY <1>1, <2>1, <2>3, MacCallbackKept DEF Sent
  <2> QED
    BY <2>2, <2>3
<1> QED
  BY <1>2, <1>3, UnchangedKept DEF Sent, AllKept

LEMMA InputBusyKept ==
  ASSUME Inv, NEW n \in Node, NEW p \in Node, NEW f \in FrameType, Tag(f) \in Half(n, p),
         NEW b \in With(n, p), InputBusy(n, p, f, b)
  PROVE  OutKept /\ BlocksKept /\ AnswersKept /\ NumbersKept
<1>1. CASE /\ Answer(n, p, b, trans[n][b], "response", "RESPONSE_SENDING")
           /\ nbr' = [nbr EXCEPT ![n][p] = EntryFor(trans[n][b].cmd, @)]
  BY <1>1, RespondKept
<1>2. CASE SendError(n, p, f) /\ UNCHANGED <<nbr, trans>>
  BY <1>2, SendErrorKept, UnchangedKept
<1> QED
  BY <1>1, <1>2 DEF InputBusy

\* A request of an idle peer.  That it is no CLEAR where Sole holds is known.
LEMMA InputRequestKept ==
  ASSUME Inv, SeqnoInv, NEW n \in Node, NEW p \in Node, NEW f \in FrameType,
         Tag(f) \in Half(n, p), InputRequest(n, p, f)
  PROVE  OutKept /\ BlocksKept /\ AnswersKept /\ NumbersKept
<1>1. PICK k : k = IF f.cmd = "clear" /\ nbr[n][p] # NoNbr THEN 0 ELSE nbr[n][p]
  OBVIOUS
<1>2. f.cmd = f.req[3] /\ f.req \in asked /\ <<f.req[1], f.req[2]>> \in {<<n, p>>, <<p, n>>}
  <2>1. PICK g : g = Tag(f)
    OBVIOUS
  <2>2. g.cmd = f.cmd /\ g.req = f.req
    BY <2>1 DEF Tag
  <2> QED
    BY <2>1, <2>2 DEF SeqnoInv, AllKnown, Known
<1>3. Sole(n, p) => f.cmd # "clear"
  BY <1>2 DEF Sole
<1>4. Sole(n, p) => k = nbr[n][p]
  BY <1>1, <1>3
<1>5. ASSUME NEW j, Sole(n, p) => (j = nbr[n][p] \/ (nbr[n][p] = NoNbr /\ j = 0)),
             nbr' = [nbr EXCEPT ![n][p] = j]
      PROVE  NumbersKept
  <2>1. \A m, q \in Node : nbr'[m][q] = IF m = n /\ q = p THEN j ELSE nbr[m][q]
    BY <1>5 DEF Inv, BlocksInv
  <2> QED
    BY <1>5, <2>1 DEF NumbersKept, NumberKept
<1>6. CASE /\ nbr' = [nbr EXCEPT ![n][p] = k]
           /\ SendError(n, p, f)
           /\ UNCHANGED trans
  BY <1>4, <1>5, <1>6, SendErrorKept, UnchangedKept
<1>7. PICK t : t = Transit(Alloc(p, f.cmd, f.seqno, f.req), "REQUEST_RECEIVED")
  OBVIOUS
<1>8. /\ t \in BlockType /\ t.st = "REQUEST_RECEIVED" /\ t.peer = p
      /\ t.seqno = f.seqno /\ t.cmd = f.cmd /\ t.req = f.req
  BY <1>7, AllocTransit DEF FrameType, Num
<1>9. Tag(t) \in Half(n, p)
  BY <1>8 DEF Tag
<1>10. ASSUME NEW b \in FreeBlocks(n), Answer(n, p, b, t, "response", "RESPONSE_SENDING"),
              nbr' = [nbr EXCEPT ![n][p] = EntryFor(f.cmd, k)]
       PROVE  OutKept /\ BlocksKept /\ AnswersKept /\ NumbersKept
  <2>1. PICK u : u = Transit(t, "RESPONSE_SENDING")
    OBVIOUS
  <2>2. /\ u.peer = p /\ u.seqno = t.seqno /\ u.cmd = t.cmd /\ u.req = t.req
        /\ u.st # "RESPONSE_RECEIVED"
    BY <1>8, <2>1, TransitKeeps
  <2>3. Tag(u) \in Half(n, p)
    BY <1>9, <2>2 DEF Tag
  <2>4. b \in Block /\ trans' = [trans EXCEPT ![n][b] = u]
    BY <1>10, <2>1 DEF Answer, FreeBlocks
  <2>5. BlocksKept /\ AnswersKept
    BY <2>2, <2>3, <2>4, OneBlock
  <2>6. OutKept
    BY <1>8, <1>9, <1>10, <2>4, AnswerTags
  <2>7. PICK j : j = EntryFor(f.cmd, k)
    OBVIOUS
  <2>8. Sole(n, p) => (j = nbr[n][p] \/ (nbr[n][p] = NoNbr /\ j = 0))
    BY <1>4, <2>7 DEF EntryFor
  <2>9. NumbersKept
    BY <1>5, <1>10, <2>7, <2>8
  <2> QED
    BY <2>5, <2>6, <2>9
<1>11. ASSUME NEW b \in FreeBlocks(n),
              trans' = [trans EXCEPT ![n][b] = t], nbr' = [nbr EXCEPT ![n][p] = k],
              UNCHANGED out
       PROVE  OutKept /\ BlocksKept /\ AnswersKept /\ NumbersKept
  <2>1. b \in Block
    BY DEF FreeBlocks
  <2>2. BlocksKept /\ AnswersKept
    BY <1>8, <1>9, <1>11, <2>1, OneBlock
  <2> QED
    BY <1>4, <1>5, <1>11, <2>2, UnchangedKept
<1> QED
  BY <1>1, <1>6, <1>7, <1>10, <1>11 DEF InputRequest

\* A response moves the transaction with its sequence number, whose request is
\* the one it answers.
LEMMA InputAnswerKept ==
  ASSUME Inv, SeqnoInv, NEW n \in Node, NEW p \in Node, NEW f \in FrameType,
         Tag(f) \in Half(n, p), InputAnswer(n, p, f)
  PROVE  OutKept /\ BlocksKept /\ AnswersKept /\ NumbersKept
<1>1. PICK T : T = trans[n]
  OBVIOUS
<1>2. PICK U : U = [b \in Block |->
        IF b \in With(n, p) /\ T[b].seqno = f.seqno /\ Allowed(T[b], AnswerState(f))
        THEN [Transit(T[b], AnswerState(f)) EXCEPT !.ans = f.req] ELSE T[b]]
  OBVIOUS
<1>3. trans' = [trans EXCEPT ![n] = U] /\ nbr' = nbr /\ out' = out
  BY <1>1, <1>2 DEF InputAnswer
<1>4. \A m \in Node : trans'[m] = IF m = n THEN U ELSE trans[m]
  BY <1>3 DEF Inv, BlocksInv
<1>5. ASSUME NEW b \in Block
      PROVE  \/ U[b] = trans[n][b]
             \/ /\ b \in With(n, p) /\ trans[n][b].seqno = f.seqno
                /\ U[b].peer = p /\ Tag(U[b]) = Tag(trans[n][b])
                /\ U[b].ans = f.req
  <2>1. CASE U[b] = T[b]
    BY <1>1, <2>1
  <2>2. CASE U[b] # T[b]
    <3>1. PICK new : new = AnswerState(f)
      OBVIOUS
    <3>2. /\ b \in With(n, p) /\ T[b].seqno = f.seqno
          /\ U[b] = [Transit(T[b], new) EXCEPT !.ans = f.req]
      BY <1>2, <2>2, <3>1
    <3>3. Listed(T[b]) /\ T[b].peer = p
      BY <1>1, <3>2 DEF With
    <3>4. T[b] \in BlockType
      BY <1>1, <3>3, UnderWay DEF Inv
    <3>5. PICK t : t = Transit(T[b], new)
      OBVIOUS
    <3>6. /\ t \in BlockType /\ t.peer = T[b].peer /\ t.seqno = T[b].seqno
          /\ t.cmd = T[b].cmd /\ t.req = T[b].req
      <4>1. new \in State \ {"UNAVAILABLE", "INIT"}
        BY <3>1 DEF AnswerState, State, Sending
      <4> QED
        BY <3>4, <3>5, <4>1, TransitType, TransitKeeps
    <3>7. PICK r \in Requests : r = f.req
      BY DEF FrameType
    <3>8. U[b] = [t EXCEPT !.ans = r]
      BY <3>2, <3>5, <3>7
    <3>9. /\ U[b].peer = T[b].peer /\ U[b].seqno = T[b].seqno /\ U[b].cmd = T[b].cmd
          /\ U[b].req = T[b].req /\ U[b].ans = r
      BY <3>6, <3>8 DEF BlockType
    <3> QED
      BY <1>1, <3>2, <3>3, <3>7, <3>9 DEF Tag
  <2> QED
    BY <2>1, <2>2
<1>6. BlocksKept
  <2> SUFFICES ASSUME NEW m \in Node, NEW q \in Node, NEW c \in Block,
                      Listed(trans'[m][c]), trans'[m][c].peer = q
               PROVE  Tag(trans'[m][c]) \in Half(m, q)
    BY DEF BlocksKept, BlockTags, With, Listed, Tag
  <2>1. CASE trans'[m][c] = trans[m][c]
    BY <2>1 DEF Half, BlockTags, With
  <2>2. CASE trans'[m][c] # trans[m][c]
    <3>1. /\ m = n /\ q = p /\ c \in With(n, p)
          /\ Tag(trans'[m][c]) = Tag(trans[n][c])
      BY <1>4, <1>5, <2>2
    <3> QED
      BY <3>1 DEF Half, BlockTags
  <2> QED
    BY <2>1, <2>2
<1>7. AnswersKept
  <2> SUFFICES ASSUME NEW m \in Node, NEW c \in Block, trans'[m][c] # trans[m][c],
                      Sole(m, trans'[m][c].peer)
               PROVE  trans'[m][c].ans = trans'[m][c].req
    BY DEF AnswersKept
  <2>1. PICK u, t : u = trans'[m][c] /\ t = trans[n][c]
    OBVIOUS
  <2>2. /\ m = n /\ u.peer = p /\ c \in With(n, p) /\ t.seqno = f.seqno
        /\ Tag(u) = Tag(t) /\ u.ans = f.req
    BY <1>4, <1>5, <2>1
  <2>3. Sole(n, p)
    BY <2>1, <2>2
  <2>4. PICK g, h : g = Tag(t) /\ h = Tag(f)
    OBVIOUS
  <2>5. g \in Tags(n, p) /\ h \in Tags(n, p)
    BY <2>1, <2>2, <2>4 DEF Tags, Half, BlockTags
  <2>6. g.seqno = h.seqno /\ g.req = u.req /\ h.req = f.req
    BY <2>2, <2>4 DEF Tag
  <2>7. g.req = h.req
    BY <2>3, <2>5, <2>6 DEF SeqnoInv, Distinct
  <2> QED
    BY <2>1, <2>2, <2>6, <2>7
<1> QED
  BY <1>3, <1>6, <1>7, UnchangedKept

LEMMA InputKept ==
  ASSUME Inv, SeqnoInv, NEW n \in Node, NEW p \in Node, Input(n, p)
  PROVE  AllKept
<1>1. PICK f : f = Head(inp[n][p])
  OBVIOUS
<1>2. /\ inp[n][p] # <<>> /\ inp' = [inp EXCEPT ![n][p] = Tail(@)]
      /\ UNCHANGED <<asked, restarts>>
  BY DEF Input
<1>3. InpKept /\ f \in FrameType /\ Tag(f) \in Half(n, p)
  BY <1>1, <1>2, TailInp
<1>4. CASE InputAnswer(n, p, f)
  BY <1>2, <1>3, <1>4, InputAnswerKept DEF AllKept
<1>5. CASE \E b \in With(n, p) : InputBusy(n, p, f, b)
  BY <1>2, <1>3, <1>5, InputBusyKept DEF AllKept
<1>6. CASE InputRequest(n, p, f)
  BY <1>2, <1>3, <1>6, InputRequestKept DEF AllKept
<1> QED
  BY <1>1, <1>4, <1>5, <1>6 DEF Input

LEMMA ProcessTransKept ==
  ASSUME Inv, NEW n \in Node, NEW b \in Block, ProcessTrans(n, b)
  PROVE  AllKept
<1>1. PICK s : s = trans[n][b]
  OBVIOUS
<1>2. s \in BlockType /\ Listed(s) /\ s.peer \in Node /\ Role(n, s)
  BY <1>1, UnderWay DEF Inv, BlocksInv, Blocks, ProcessTrans, Zero
<1>3. PICK t : t = Processed(s)
  OBVIOUS
<1>4. Listed(t) => t.peer = s.peer /\ t.seqno = s.seqno /\ t.cmd = s.cmd /\ t.req = s.req
  BY <1>2, <1>3, ProcessedListed
<1>5. t.st = "RESPONSE_RECEIVED" =>
        s.st = "RESPONSE_RECEIVED" /\ t.peer = s.peer /\ t.ans = s.ans /\ t.req = s.req
  <2>1. CASE s.st = "TERMINATING"
    BY <1>3, <2>1 DEF Processed, Freed, Sending, Zero
  <2>2. CASE s.st # "TERMINATING" /\ Over(s)
    <3>1. t = Transit(s, "TERMINATING") /\ Allowed(s, "TERMINATING")
      BY <1>3, <2>2 DEF Processed, Allowed
    <3> QED
      BY <1>2, <3>1, TransitKeeps
  <2>3. CASE s.st # "TERMINATING" /\ ~Over(s)
    <3>1. t = [s EXCEPT !.timer = "timeout"]
      BY <1>3, <2>3 DEF Processed
    <3> QED
      BY <1>2, <3>1 DEF BlockType
  <2> QED
    BY <2>1, <2>2, <2>3
<1>6. PICK p \in Node : p = s.peer
  BY <1>2
<1>7. Listed(t) => t.peer = p /\ Tag(t) \in Half(n, p)
  <2>1. Tag(s) \in Half(n, p)
    BY <1>1, <1>2, <1>6, BlockTag
  <2> QED
    BY <1>4, <1>6, <2>1 DEF Tag
<1>8. trans' = [trans EXCEPT ![n][b] = t] /\ UNCHANGED <<nbr, out, inp, asked, restarts>>
  BY <1>1, <1>3 DEF ProcessTrans
<1>9. BlocksKept /\ AnswersKept
  BY <1>1, <1>5, <1>7, <1>8, OneBlock
<1> QED
  BY <1>8, <1>9, UnchangedKept DEF AllKept

LEMMA TimeoutKept ==
  ASSUME Inv, NEW n \in Node, NEW b \in Block, Timeout(n, b)
  PROVE  AllKept
<1>1. Listed(trans[n][b])
  BY DEF Inv, BlocksInv, Blocks, Timeout, Zero
<1>2. "TERMINATING" \in State \ {"UNAVAILABLE", "INIT", "WAIT_FREE", "RESPONSE_RECEIVED"}
  BY DEF State
<1>3. BlocksKept /\ AnswersKept
  BY <1>1, <1>2, MovedBlock DEF Timeout
<1> QED
  BY <1>3, UnchangedKept DEF Timeout, AllKept

\* After a power cycle the property says nothing, and the node holds nothing.
LEMMA RestartKept ==
  ASSUME Inv, NEW n \in Node, Restart(n)
  PROVE  AllKept
<1>1. /\ \A m, p \in Node : out'[m][p] = IF m = n THEN <<>> ELSE out[m][p]
      /\ \A m, p \in Node : inp'[m][p] = IF m = n THEN <<>> ELSE inp[m][p]
      /\ \A m \in Node, b \in Block : trans'[m][b] = IF m = n THEN Zero ELSE trans[m][b]
  BY DEF Restart, Inv, BlocksInv, OutInv, InpInv
<1>2. TagsOf(<<>>) = {}
  BY DEF TagsOf
<1>3. OutKept /\ InpKept
  BY <1>1, <1>2 DEF OutKept, InpKept, Half, Tags
<1>4. BlocksKept
  <2> SUFFICES ASSUME NEW m \in Node, NEW q \in Node, NEW c \in Block,
                      Listed(trans'[m][c]), trans'[m][c].peer = q
               PROVE  Tag(trans'[m][c]) \in Half(m, q)
    BY DEF BlocksKept, BlockTags, With, Listed, Tag
  <2>1. trans'[m][c] = trans[m][c]
    BY <1>1, ZeroUnlisted
  <2> QED
    BY <2>1 DEF Half, BlockTags, With
<1>5. AnswersKept
  BY <1>1 DEF AnswersKept, Zero
<1>6. restarts' # 0 /\ asked' = asked
  BY SixpAssumption DEF Restart, Inv, HistoryInv
<1> QED
  BY <1>3, <1>4, <1>5, <1>6 DEF AllKept, NumbersKept

\* Few enough requests that no sequence number comes a second time.
NoRepetition == MaxRequests <= SeqnoMax

\* A new request has a number that no other one has.
LEMMA SendRequestKeeps ==
  ASSUME NoRepetition, Inv, SeqnoInv, NEW a \in Asks, SendRequest(a[1], a[2], a[3])
  PROVE  SeqnoInv'
<1>1. PICK n \in Node, p \in Node, cmd \in Cmd : n = a[1] /\ p = a[2] /\ cmd = a[3]
  BY SixpAssumption
<1>2. PICK seqno, req : /\ seqno = IF nbr[n][p] = NoNbr THEN 0 ELSE nbr[n][p]
                        /\ req = <<n, p, cmd, Cardinality(asked)>>
  OBVIOUS
<1>3. PICK b \in FreeBlocks(n) :
        /\ trans' = [trans EXCEPT ![n][b] =
                       Transit(Alloc(p, cmd, seqno, req), "REQUEST_SENDING")]
        /\ out' = [out EXCEPT ![n][p] = Queued(@, Frame("request", cmd, seqno, b, req))]
        /\ nbr' = [nbr EXCEPT ![n][p] = IF cmd = "clear" THEN 0 ELSE NextSeqno(seqno)]
        /\ asked' = asked \cup {req}
  BY <1>1, <1>2 DEF SendRequest
<1>4. Cardinality(asked) < MaxRequests /\ UNCHANGED <<inp, restarts>>
  BY <1>1 DEF SendRequest
<1>5. seqno \in Num /\ b \in Block
  <2>1. nbr[n][p] \in Numbers
    BY DEF Inv, BlocksInv
  <2> QED
    BY <1>2, <2>1, SixpAssumption DEF Numbers, Num, FreeBlocks
<1>6. /\ Cardinality(asked) \in Nat /\ req \notin asked
      /\ Cardinality(asked') = Cardinality(asked) + 1
  <2>1. IsFiniteSet(asked) /\ \A r \in asked : r[4] < Cardinality(asked)
    BY DEF Inv, HistoryInv, SeqnoInv, AllKnown
  <2>2. Cardinality(asked) \in Nat
    BY <2>1, FS_CardinalityType
  <2>3. req \notin asked
    BY <1>2, <2>1, <2>2
  <2> QED
    BY <1>3, <2>1, <2>2, <2>3, FS_AddElement
<1>7. req \in Requests
  <2>1. Cardinality(asked) \in 0 .. MaxRequests
    BY <1>4, <1>6, SixpAssumption
  <2> QED
    BY <1>1, <1>2, <2>1 DEF Requests
<1>8. PICK t \in BlockType :
        /\ t = Transit(Alloc(p, cmd, seqno, req), "REQUEST_SENDING")
        /\ t.st = "REQUEST_SENDING" /\ t.peer = p /\ t.seqno = seqno /\ t.cmd = cmd
        /\ t.req = req
  BY <1>5, <1>7, AllocTransit
<1>9. PICK f \in FrameType : f = Frame("request", cmd, seqno, b, req)
  BY <1>5, <1>7, FrameTyped
<1>10. PICK g : g = Tag(t)
  OBVIOUS
<1>11. g.seqno = seqno /\ g.cmd = cmd /\ g.req = req /\ Tag(f) = g
  BY <1>8, <1>9, <1>10 DEF Tag, Frame
<1>12. \A m \in Node, c \in Block : trans'[m][c] = IF m = n /\ c = b THEN t ELSE trans[m][c]
  <2>1. trans' = [trans EXCEPT ![n][b] = t]
    BY <1>3, <1>8
  <2> QED
    BY <1>5, <2>1 DEF Inv, BlocksInv
<1>13. ASSUME NEW m \in Node, NEW q \in Node, NEW h \in Half(m, q)'
       PROVE  h \in Half(m, q) \/ (m = n /\ q = p /\ h = g)
  <2>1. CASE h \in TagsOf(out'[m][q])
    <3>1. TagsOf(Queued(out[n][p], f)) \subseteq TagsOf(out[n][p]) \cup {g}
      <4>1. out[n][p] \in Seq(FrameType)
        BY DEF Inv, OutInv
      <4> QED
        BY <1>11, <4>1, QueuedTags
    <3>2. out'[m][q] = IF m = n /\ q = p THEN Queued(out[n][p], f) ELSE out[m][q]
      BY <1>3, <1>9 DEF Inv, OutInv
    <3> QED
      BY <2>1, <3>1, <3>2 DEF Half
  <2>2. CASE h \in TagsOf(inp'[m][q])
    BY <1>4, <2>2 DEF Half
  <2>3. CASE h \in BlockTags(m, q)'
    <3>1. PICK c \in Block : Listed(trans'[m][c]) /\ trans'[m][c].peer = q /\ h = Tag(trans'[m][c])
      BY <2>3 DEF BlockTags, With, Listed, Tag
    <3>2. CASE m = n /\ c = b
      <4>1. trans'[m][c] = t
        BY <1>12, <3>2
      <4> QED
        BY <1>8, <1>10, <3>1, <3>2, <4>1
    <3>3. CASE ~(m = n /\ c = b)
      <4>1. trans'[m][c] = trans[m][c]
        BY <1>12, <3>3
      <4> QED
        BY <3>1, <4>1 DEF Half, BlockTags, With
    <3> QED
      BY <3>2, <3>3
  <2> QED
    BY <2>1, <2>2, <2>3 DEF Half
<1>14. AllKnown'
  <2>1. ASSUME NEW m \in Node, NEW q \in Node, NEW h \in Half(m, q)'
        PROVE  Known(h, m, q)'
    <3>1. CASE h \in Half(m, q)
      BY <1>3, <3>1 DEF SeqnoInv, AllKnown, Known
    <3>2. CASE m = n /\ q = p /\ h = g
      BY <1>2, <1>3, <1>11, <3>2 DEF Known
    <3> QED
      BY <1>13, <3>1, <3>2
  <2>2. ASSUME NEW r \in asked' PROVE r[4] < Cardinality(asked')
    <3>1. CASE r = req
      BY <1>2, <1>6, <3>1
    <3>2. CASE r \in asked
      <4>1. r[4] < Cardinality(asked)
        BY <3>2 DEF SeqnoInv, AllKnown
      <4>2. r[4] \in Int
        BY <3>2, SixpAssumption DEF Inv, HistoryInv, Requests
      <4> QED
        BY <1>6, <4>1, <4>2
    <3> QED
      BY <1>3, <3>1, <3>2
  <2> QED
    BY <2>1, <2>2 DEF AllKnown
<1>15. ASSUME NEW m \in Node, NEW q, Sole(m, q)'
       PROVE  Sole(m, q) /\ ~(m = p /\ q = n) /\ cmd # "clear"
  BY <1>2, <1>3, <1>4, <1>15 DEF Sole
<1>16. ASSUME NEW m \in Node, NEW q \in Node, Sole(m, q)'
       PROVE  Distinct(m, q)'
  <2>1. Sole(m, q) /\ ~(m = p /\ q = n) /\ cmd # "clear" /\ Distinct(m, q)
    BY <1>15, <1>16 DEF SeqnoInv
  <2>2. \A h \in Tags(m, q) : h.seqno \in Nat
    BY TagSeqno DEF Tags, Num
  <2>3. /\ nbr[m][q] \in Int /\ nbr[m][q] <= Cardinality(asked)
        /\ nbr[m][q] = NoNbr \/ nbr[m][q] \in Nat
    BY <2>1 DEF Inv, BlocksInv, Numbers, Num, NoNbr, Distinct
  <2>4. CASE ~(m = n /\ q = p)
    <3>1. Tags(m, q)' \subseteq Tags(m, q)
      BY <1>13, <2>1, <2>4 DEF Tags
    <3>2. nbr'[m][q] = nbr[m][q]
      BY <1>3, <2>4 DEF Inv, BlocksInv
    <3>3. nbr'[m][q] <= Cardinality(asked')
      BY <1>6, <2>3, <3>2
    <3> QED
      BY <2>1, <3>1, <3>2, <3>3 DEF Distinct
  <2>5. CASE m = n /\ q = p
    <3>1. \A h \in Tags(m, q)' : h \in Tags(m, q) \/ h = g
      BY <1>13 DEF Tags
    <3>2. seqno <= Cardinality(asked) /\ seqno \in Nat /\ nbr[n][p] <= seqno
      BY <1>2, <1>6, <2>3, <2>5 DEF NoNbr
    <3>3. NextSeqno(seqno) = seqno + 1
      BY <1>4, <1>6, <3>2, SixpAssumption DEF NextSeqno, NoRepetition
    <3>4. nbr'[n][p] = seqno + 1
      BY <1>3, <2>1, <3>3 DEF Inv, BlocksInv
    <3>5. \A h \in Tags(m, q) : h.seqno < seqno
      BY <2>1, <2>2, <2>3, <2>5, <3>2 DEF Distinct
    <3>6. nbr'[m][q] <= Cardinality(asked')
      BY <1>6, <2>5, <3>2, <3>4
    <3>7. \A h \in Tags(m, q)' : h.seqno < nbr'[m][q]
      BY <1>11, <2>2, <2>5, <3>1, <3>2, <3>4, <3>5
    <3>8. ASSUME NEW h \in Tags(m, q)', NEW i \in Tags(m, q)', h.seqno = i.seqno
          PROVE  h.req = i.req
      BY <1>11, <2>1, <2>2, <3>1, <3>2, <3>5, <3>8 DEF Distinct
    <3> QED
      BY <3>6, <3>7, <3>8 DEF Distinct
  <2> QED
    BY <2>4, <2>5
<1>17. ASSUME NEW m \in Node, NEW c \in Block
       PROVE  Answered(m, trans[m][c])'
  <2> SUFFICES ASSUME trans'[m][c].st = "RESPONSE_RECEIVED", Sole(m, trans[m][c].peer)'
               PROVE  trans'[m][c].ans = trans'[m][c].req
    BY DEF Answered
  <2>1. trans'[m][c] = trans[m][c]
    BY <1>8, <1>12
  <2>2. PICK q : q = trans[m][c].peer
    OBVIOUS
  <2>3. Sole(m, q)'
    BY <2>1, <2>2 DEF Sole
  <2>4. Sole(m, trans[m][c].peer)
    BY <1>15, <2>2, <2>3
  <2> QED
    BY <2>1, <2>4 DEF SeqnoInv, Answered
<1> QED
  BY <1>14, <1>16, <1>17 DEF SeqnoInv

LEMMA SeqnoInit == Init => SeqnoInv
<1> SUFFICES ASSUME Init PROVE SeqnoInv
  OBVIOUS
<1>1. ASSUME NEW n \in Node, NEW p \in Node PROVE Half(n, p) = {}
  <2>1. out[n][p] = <<>> /\ inp[n][p] = <<>> /\ \A b \in Block : trans[n][b] = Zero
    BY DEF Init
  <2>2. BlockTags(n, p) = {}
    BY <2>1, ZeroUnlisted DEF BlockTags, With
  <2>3. TagsOf(<<>>) = {}
    BY DEF TagsOf
  <2> QED
    BY <2>1, <2>2, <2>3 DEF Half
<1>2. asked = {} /\ Cardinality(asked) = 0
  BY FS_EmptySet DEF Init
<1>3. \A n, p \in Node : Distinct(n, p)
  BY <1>1, <1>2 DEF Init, Distinct, Tags, NoNbr
<1>4. \A n \in Node, b \in Block : Answered(n, trans[n][b])
  BY DEF Init, Zero, Answered
<1> QED
  BY <1>1, <1>2, <1>3, <1>4 DEF SeqnoInv, AllKnown

LEMMA SeqnoNext ==
  ASSUME NoRepetition, Inv, SeqnoInv, [Next]_vars
  PROVE  SeqnoInv'
<1>1. CASE \E a \in Asks : RequestFails(a[1], a[2]) \/ SendRequest(a[1], a[2], a[3])
  <2>1. \A a \in Asks : a[1] \in Node /\ a[2] \in Node
    BY SixpAssumption
  <2>2. PICK a \in Asks : RequestFails(a[1], a[2]) \/ SendRequest(a[1], a[2], a[3])
    BY <1>1
  <2>3. CASE RequestFails(a[1], a[2])
    BY <2>1, <2>3, RequestFailsKept, KeptKeeps
  <2>4. CASE SendRequest(a[1], a[2], a[3])
    BY <2>4, SendRequestKeeps
  <2> QED
    BY <2>2, <2>3, <2>4
<1>2. CASE \E n, p \in Node :
             \/ SendResponse(n, p) \/ SendConfirmation(n, p)
             \/ Hear(n, p) \/ Input(n, p)
             \/ \E ok \in BOOLEAN : Sent(n, p, ok)
  BY <1>2, SendResponseKept, SendConfirmationKept, HearKept, InputKept, SentKept, KeptKeeps
<1>3. CASE \E n \in Node, b \in Block : ProcessTrans(n, b) \/ Timeout(n, b)
  BY <1>3, ProcessTransKept, TimeoutKept, KeptKeeps
<1>4. CASE \E n \in Unstable : Restart(n)
  BY <1>4, SixpAssumption, RestartKept, KeptKeeps
<1>5. CASE UNCHANGED vars
  BY <1>5 DEF vars, SeqnoInv, AllKnown, Known, Half, Tags, BlockTags, With, Listed, Sole,
              Distinct, Answered
<1> QED
  BY <1>1, <1>2, <1>3, <1>4, <1>5 DEF Next

\* A response is taken for the request it answers, never for a later one, between
\* two nodes of which one asks, as long as sequence numbers do not repeat: for
\* MaxRequests requests, up to 255 in the code.
THEOREM ResponsesMatch == ASSUME NoRepetition PROVE Spec => []ResponseOfRequest
<1>1. Inv /\ SeqnoInv /\ [Next]_vars => SeqnoInv'
  BY SeqnoNext
<1>2. SeqnoInv => ResponseOfRequest
  BY DEF SeqnoInv, Answered, Sole, ResponseOfRequest
<1> QED
  BY <1>1, <1>2, SeqnoInit, InductiveInvariant, PTL DEF Spec

=============================================================================
