-------------------------- MODULE SixpTransaction --------------------------
(***************************************************************************)
(* 6P transactions (src/os/net/mac/tsch/sixtop/): sixp.c, sixp-trans.c and *)
(* sixp-nbr.c on every node of a neighborhood, with the frames between     *)
(* them.  A transaction is a memory block with a state, a sequence number  *)
(* and one ctimer, which either runs process_trans at once or is the       *)
(* timeout of the scheduling function.  The block's address is the         *)
(* argument of the MAC callback of the frames the transaction sends.       *)
(*                                                                         *)
(* Code runs in callbacks of the network process, each of them atomic: an  *)
(* input, a MAC callback, a timer.  Between two nodes frames keep their    *)
(* order (one MAC queue per neighbor) and the MAC removes duplicates, but  *)
(* a frame may be lost, and it may have been heard although its sender     *)
(* sees no acknowledgment.                                                 *)
(***************************************************************************)
EXTENDS Integers, Sequences, FiniteSets

CONSTANTS
  Node,         \* the nodes
  Asks,         \* <<n, p, cmd>>: a scheduling function of n asks p for cmd;
                \* an "add3" is an add (or delete) in three steps
  Reach,        \* <<n, p>>: p hears n; others are asked in vain
  Block,        \* blocks of trans_memb of each node (SIXTOP_MAX_TRANSACTIONS)
  SeqnoMax,     \* largest sequence number, 255 in the code
  QueueSize,    \* frames in the MAC queue of a neighbor
  MaxRequests,  \* bound: requests sent in all
  Unstable,     \* the nodes that may be power-cycled
  MaxRestarts   \* bound: power cycles in all

NoBlock == "no block"
NoOne == "no one"
NoNbr == -1
NoRequest == <<>>
Cmd == {"add", "add3", "clear"}

ASSUME SixpAssumption ==
  /\ Asks \subseteq Node \X Node \X Cmd
  /\ SeqnoMax \in Nat \ {0}
  /\ QueueSize \in Nat \ {0}
  /\ Reach \subseteq Node \X Node
  /\ \A n \in Node : <<n, n>> \notin Reach  \* no node hears itself
  /\ MaxRequests \in Nat
  /\ Unstable \subseteq Node
  /\ MaxRestarts \in Nat
  /\ NoBlock \notin Block /\ NoOne \notin Node

VARIABLES
  nbr,      \* next_seqno per node and peer, NoNbr when there is no entry
  trans,    \* the blocks of each node
  out,      \* out[n][p]: frames of n for p in the MAC queue, head first
  inp,      \* inp[n][p]: frames of p that n heard and has not handled
  asked,    \* history: the requests sent
  restarts  \* history: power cycles

vars == <<nbr, trans, out, inp, asked, restarts>>
-----------------------------------------------------------------------------
Sending == {"REQUEST_SENDING", "RESPONSE_SENDING", "CONFIRMATION_SENDING"}

State == Sending \cup
  {"UNAVAILABLE", "WAIT_FREE", "TERMINATING", "REQUEST_SENT",
   "REQUEST_RECEIVED", "RESPONSE_SENT", "RESPONSE_RECEIVED",
   "CONFIRMATION_SENT", "CONFIRMATION_RECEIVED", "INIT"}

(* A block after memset; req and ans are history: the request the          *)
(* transaction is about and the one its response answers.                  *)
Zero == [st |-> "UNAVAILABLE", peer |-> NoOne, seqno |-> 0, cmd |-> "add",
         timer |-> "off", req |-> NoRequest, ans |-> NoRequest]

ThreeStep(t) == t.cmd = "add3"

(* sixp_trans_transit_state: the transitions the code accepts. *)
Allowed(t, new) ==
  \/ new = "TERMINATING"
  \/ new = "REQUEST_SENDING" /\ t.st = "INIT"
  \/ new = "REQUEST_SENT" /\ t.st = "REQUEST_SENDING"
  \/ new = "REQUEST_RECEIVED" /\ t.st = "INIT"
  \/ new = "RESPONSE_SENDING" /\ t.st = "REQUEST_RECEIVED"
  \/ new = "RESPONSE_SENT" /\ t.st = "RESPONSE_SENDING"
  \/ new = "RESPONSE_RECEIVED" /\ t.st \in {"REQUEST_SENDING", "REQUEST_SENT"}
  \/ /\ ThreeStep(t)
     /\ \/ /\ new = "CONFIRMATION_RECEIVED"
           /\ t.st \in {"RESPONSE_SENT", "RESPONSE_SENDING"}
        \/ new = "CONFIRMATION_SENDING" /\ t.st = "RESPONSE_RECEIVED"
        \/ new = "CONFIRMATION_SENT" /\ t.st = "CONFIRMATION_SENDING"

(* An accepted transition schedules process_trans, with a ctimer of 0. *)
Transit(t, new) ==
  IF Allowed(t, new) THEN [t EXCEPT !.st = new, !.timer = "process"] ELSE t

(* sixp_nbr_increment_next_seqno on uint8_t: 0 is left to fresh entries    *)
(* and to CLEAR.                                                           *)
NextSeqno(k) == IF k = SeqnoMax THEN 1 ELSE k + 1

(* The next_seqno that a transition of t leaves behind, from value k.      *)
SeqnoAfter(t, new, k) ==
  IF /\ Allowed(t, new) /\ new = "RESPONSE_SENT"
     /\ k # NoNbr /\ t.cmd # "clear"
  THEN NextSeqno(t.seqno) ELSE k

(* The transactions in trans_list: sixp_trans_find looks only there.       *)
Listed(t) == t.st \notin {"UNAVAILABLE", "WAIT_FREE"}
With(n, p) == {b \in Block : Listed(trans[n][b]) /\ trans[n][b].peer = p}
FreeBlocks(n) == {b \in Block : trans[n][b].st = "UNAVAILABLE"}

(* sixp_trans_free. *)
Freed(t) == IF t.st \in Sending THEN [t EXCEPT !.st = "WAIT_FREE"] ELSE Zero

(* sixp_trans_alloc, for a command sent or received. *)
Alloc(p, cmd, seqno, req) ==
  [Zero EXCEPT !.st = "INIT", !.peer = p, !.seqno = seqno, !.cmd = cmd,
               !.timer = "timeout", !.req = req]

(* A frame, with the block its MAC callback will get.  The return code of   *)
(* a response matters to the scheduling functions alone and is left out.   *)
(* History: req.                                                           *)
Frame(type, cmd, seqno, b, req) ==
  [type |-> type, cmd |-> cmd, seqno |-> seqno, blk |-> b, req |-> req,
   heard |-> FALSE]

(* sixtop_output: the MAC queues the frame, or refuses it when the queue   *)
(* is full and calls back with an error at once, which changes no state    *)
(* because the transaction is not in a *_SENDING state yet.                *)
Queued(q, f) == IF Len(q) < QueueSize THEN Append(q, f) ELSE q
-----------------------------------------------------------------------------
Init ==
  /\ nbr = [n \in Node |-> [p \in Node |-> NoNbr]]
  /\ trans = [n \in Node |-> [b \in Block |-> Zero]]
  /\ out = [n \in Node |-> [p \in Node |-> <<>>]]
  /\ inp = [n \in Node |-> [p \in Node |-> <<>>]]
  /\ asked = {}
  /\ restarts = 0

(* sixp_output of a request.  An entry for the peer is allocated, and      *)
(* stays, even when there is no block or no room in packetbuf.             *)
RequestFails(n, p) ==
  /\ With(n, p) = {}
  /\ nbr[n][p] = NoNbr
  /\ Cardinality(asked) < MaxRequests
  /\ nbr' = [nbr EXCEPT ![n][p] = 0]
  /\ UNCHANGED <<trans, out, inp, asked, restarts>>

(* next_seqno moves at once, or returns to 0 after a CLEAR.                *)
SendRequest(n, p, cmd) ==
  /\ With(n, p) = {}
  /\ Cardinality(asked) < MaxRequests
  /\ \E b \in FreeBlocks(n) :
       LET seqno == IF nbr[n][p] = NoNbr THEN 0 ELSE nbr[n][p]
           req == <<n, p, cmd, Cardinality(asked)>>
       IN /\ trans' = [trans EXCEPT ![n][b] =
                         Transit(Alloc(p, cmd, seqno, req), "REQUEST_SENDING")]
          /\ out' = [out EXCEPT ![n][p] =
                       Queued(@, Frame("request", cmd, seqno, b, req))]
          /\ nbr' = [nbr EXCEPT ![n][p] =
                       IF cmd = "clear" THEN 0 ELSE NextSeqno(seqno)]
          /\ asked' = asked \cup {req}
  /\ UNCHANGED <<inp, restarts>>

(* The rest of sixp_output for an answer of transaction t in block b: the  *)
(* frame is handed to the MAC and the state moves to new.                  *)
Answer(n, p, b, t, type, new) ==
  /\ out' = [out EXCEPT ![n][p] =
               Queued(@, Frame(type, t.cmd, t.seqno, b, t.req))]
  /\ trans' = [trans EXCEPT ![n][b] = Transit(t, new)]

(* Answering a request other than CLEAR makes sure of an entry.            *)
EntryFor(cmd, k) == IF k = NoNbr /\ cmd # "clear" THEN 0 ELSE k

(* The scheduling function answers a request, in its input or later.       *)
SendResponse(n, p) ==
  \E b \in With(n, p) :
    /\ trans[n][b].st = "REQUEST_RECEIVED"
    /\ Answer(n, p, b, trans[n][b], "response", "RESPONSE_SENDING")
    /\ nbr' = [nbr EXCEPT ![n][p] = EntryFor(trans[n][b].cmd, @)]
    /\ UNCHANGED <<inp, asked, restarts>>

(* It confirms a response of a three-step transaction.                     *)
SendConfirmation(n, p) ==
  \E b \in With(n, p) :
    /\ trans[n][b].st = "RESPONSE_RECEIVED"
    /\ ThreeStep(trans[n][b])
    /\ Answer(n, p, b, trans[n][b], "confirmation",
              "CONFIRMATION_SENDING")
    /\ UNCHANGED <<nbr, inp, asked, restarts>>
-----------------------------------------------------------------------------
(* The MAC, external: the head of a queue is heard, at most once.          *)
Hear(n, p) ==
  /\ <<n, p>> \in Reach
  /\ out[n][p] # <<>>
  /\ ~Head(out[n][p]).heard
  /\ out' = [out EXCEPT ![n][p][1].heard = TRUE]
  /\ inp' = [inp EXCEPT ![p][n] = Append(@, Head(out[n][p]))]
  /\ UNCHANGED <<nbr, trans, asked, restarts>>

(* mac_callback(ptr, status): the state it moves the block's content to,   *)
(* whichever transaction that is by now; other states are left alone.      *)
CallbackState(t, ok) ==
  IF ok THEN CASE t.st = "REQUEST_SENDING" -> "REQUEST_SENT"
               [] t.st = "RESPONSE_SENDING" -> "RESPONSE_SENT"
               [] t.st = "CONFIRMATION_SENDING" -> "CONFIRMATION_SENT"
               [] OTHER -> t.st
  ELSE IF t.st = "REQUEST_SENDING" THEN "TERMINATING" ELSE t.st

MacCallback(n, b, ok) ==
  LET t == trans[n][b]
      new == CallbackState(t, ok)
  IN IF new = t.st
     THEN /\ trans' = [trans EXCEPT ![n][b] =
                         IF t.st = "WAIT_FREE" THEN Zero ELSE t]
          /\ UNCHANGED nbr
     ELSE /\ trans' = [trans EXCEPT ![n][b] = Transit(t, new)]
          /\ nbr' = [nbr EXCEPT ![n][t.peer] = SeqnoAfter(t, new, @)]

(* The MAC is done with a frame: acknowledged, or given up (which it can   *)
(* also be when it was heard and the acknowledgment was not).              *)
Sent(n, p, ok) ==
  /\ out[n][p] # <<>>
  /\ ok => Head(out[n][p]).heard
  /\ out' = [out EXCEPT ![n][p] = Tail(@)]
  /\ IF Head(out[n][p]).blk = NoBlock
     THEN UNCHANGED <<nbr, trans>>
     ELSE MacCallback(n, Head(out[n][p]).blk, ok)
  /\ UNCHANGED <<inp, asked, restarts>>
-----------------------------------------------------------------------------
(* sixp_input.  An error without a transaction of its own goes out with no *)
(* callback and with the sequence number of the request.                   *)
SendError(n, p, f) ==
  out' = [out EXCEPT ![n][p] =
           Queued(@, Frame("response", f.cmd, f.seqno, NoBlock, f.req))]

InputBusyResets(n, p, f, b) ==
  /\ SendError(n, p, f)
  /\ nbr' = [nbr EXCEPT ![n][p] = IF f.cmd = "clear" THEN 0 ELSE @]
  /\ UNCHANGED trans

(* A request while a transaction with its sender is under way gets BUSY,   *)
(* or ERR_SEQNUM when exactly one of the two starts from 0; the latter     *)
(* answers the transaction under way if its request is still unanswered.   *)
InputBusy(n, p, f, b) ==
  LET t == trans[n][b]
      powerCycled == f.cmd # "clear" /\ (f.seqno = 0) # (t.seqno = 0)
  IN IF powerCycled /\ t.st = "REQUEST_RECEIVED"
     THEN /\ Answer(n, p, b, t, "response", "RESPONSE_SENDING")
          /\ nbr' = [nbr EXCEPT ![n][p] = EntryFor(t.cmd, @)]
     ELSE /\ SendError(n, p, f)
          /\ UNCHANGED <<nbr, trans>>

(* The sequence number contradicts the entry, or the lack of one.          *)
Inconsistent(f, k) ==
  /\ f.cmd # "clear"
  /\ IF k = NoNbr THEN f.seqno # 0 ELSE k # 0 /\ f.seqno = 0

(* A request of an idle peer.  CLEAR resets the entry before there is a    *)
(* block for it.                                                           *)
InputRequest(n, p, f) ==
  LET k == IF f.cmd = "clear" /\ nbr[n][p] # NoNbr THEN 0 ELSE nbr[n][p]
  IN \/ /\ FreeBlocks(n) = {}
        /\ nbr' = [nbr EXCEPT ![n][p] = k]
        /\ SendError(n, p, f)
        /\ UNCHANGED trans
     \/ \E b \in FreeBlocks(n) :
          LET t == Transit(Alloc(p, f.cmd, f.seqno, f.req), "REQUEST_RECEIVED")
          IN IF Inconsistent(f, k)
             THEN /\ Answer(n, p, b, t, "response",
                            "RESPONSE_SENDING")
                  /\ nbr' = [nbr EXCEPT ![n][p] = EntryFor(f.cmd, k)]
             ELSE /\ trans' = [trans EXCEPT ![n][b] = t]
                  /\ nbr' = [nbr EXCEPT ![n][p] = k]
                  /\ UNCHANGED out

(* A response or a confirmation moves the transaction with its sender if   *)
(* the sequence number is the transaction's.                               *)
AnswerState(f) == IF f.type = "response" THEN "RESPONSE_RECEIVED"
                  ELSE "CONFIRMATION_RECEIVED"

InputAnswerOfAny(n, p, f) ==
  /\ trans' = [trans EXCEPT ![n] = [b \in Block |->
       LET t == trans[n][b]
       IN IF b \in With(n, p) /\ Allowed(t, AnswerState(f))
          THEN [Transit(t, AnswerState(f)) EXCEPT !.ans = f.req] ELSE t]]
  /\ UNCHANGED <<nbr, out>>

InputAnswer(n, p, f) ==
  /\ trans' = [trans EXCEPT ![n] = [b \in Block |->
       LET t == trans[n][b]
       IN IF /\ b \in With(n, p) /\ t.seqno = f.seqno
             /\ Allowed(t, AnswerState(f))
          THEN [Transit(t, AnswerState(f)) EXCEPT !.ans = f.req] ELSE t]]
  /\ UNCHANGED <<nbr, out>>

Input(n, p) ==
  /\ inp[n][p] # <<>>
  /\ inp' = [inp EXCEPT ![n][p] = Tail(@)]
  /\ LET f == Head(inp[n][p])
     IN \/ f.type # "request" /\ InputAnswer(n, p, f)
        \/ /\ f.type = "request"
           /\ \E b \in With(n, p) : InputBusy(n, p, f, b)
        \/ f.type = "request" /\ With(n, p) = {} /\ InputRequest(n, p, f)
  /\ UNCHANGED <<asked, restarts>>
-----------------------------------------------------------------------------
(* process_trans: a transaction that is over moves to TERMINATING, which   *)
(* schedules process_trans again and then frees it; any other waits for    *)
(* the peer or the MAC, at most until the timeout.                         *)
Over(t) ==
  \/ t.st \in {"RESPONSE_SENT", "RESPONSE_RECEIVED"} /\ ~ThreeStep(t)
  \/ t.st \in {"CONFIRMATION_SENT", "CONFIRMATION_RECEIVED"}

ProcessedWithoutTimeout(t) ==
  IF t.st = "TERMINATING" THEN Freed(t)
  ELSE IF Over(t) THEN Transit(t, "TERMINATING")
  ELSE [t EXCEPT !.timer = "off"]

Processed(t) ==
  IF t.st = "TERMINATING" THEN Freed(t)
  ELSE IF Over(t) THEN Transit(t, "TERMINATING")
  ELSE [t EXCEPT !.timer = "timeout"]

ProcessTrans(n, b) ==
  /\ trans[n][b].timer = "process"
  /\ trans' = [trans EXCEPT ![n][b] = Processed(@)]
  /\ UNCHANGED <<nbr, out, inp, asked, restarts>>

(* handle_trans_timeout.                                                   *)
Timeout(n, b) ==
  /\ trans[n][b].timer = "timeout"
  /\ trans' = [trans EXCEPT ![n][b] = Transit(@, "TERMINATING")]
  /\ UNCHANGED <<nbr, out, inp, asked, restarts>>

(* sixp_init after a power cycle: nothing of the node's memory is left.    *)
Restart(n) ==
  /\ restarts < MaxRestarts
  /\ restarts' = restarts + 1
  /\ nbr' = [nbr EXCEPT ![n] = [p \in Node |-> NoNbr]]
  /\ trans' = [trans EXCEPT ![n] = [b \in Block |-> Zero]]
  /\ out' = [out EXCEPT ![n] = [p \in Node |-> <<>>]]
  /\ inp' = [inp EXCEPT ![n] = [p \in Node |-> <<>>]]
  /\ UNCHANGED asked

Next ==
  \/ \E a \in Asks :
       RequestFails(a[1], a[2]) \/ SendRequest(a[1], a[2], a[3])
  \/ \E n, p \in Node :
       \/ SendResponse(n, p) \/ SendConfirmation(n, p)
       \/ Hear(n, p) \/ Input(n, p)
       \/ \E ok \in BOOLEAN : Sent(n, p, ok)
  \/ \E n \in Node, b \in Block : ProcessTrans(n, b) \/ Timeout(n, b)
  \/ \E n \in Unstable : Restart(n)

Spec == Init /\ [][Next]_vars

(* A ctimer that is set expires and its handler runs.                      *)
TimersExpire ==
  \A n \in Node, b \in Block : WF_vars(ProcessTrans(n, b) \/ Timeout(n, b))

FairSpec == Spec /\ TimersExpire
-----------------------------------------------------------------------------
Requests == {<<a[1], a[2], a[3], i>> : a \in Asks, i \in 0 .. MaxRequests}

FrameType ==
  [type : {"request", "response", "confirmation"}, cmd : Cmd,
   seqno : 0 .. SeqnoMax, blk : Block \cup {NoBlock}, heard : BOOLEAN,
   req : Requests]

BlockType ==
  [st : State \ {"UNAVAILABLE", "INIT"}, peer : Node, seqno : 0 .. SeqnoMax, cmd : Cmd,
   timer : {"process", "timeout"}, req : Requests,
   ans : Requests \cup {NoRequest}]

TypeOK ==
  /\ nbr \in [Node -> [Node -> {NoNbr} \cup 0 .. SeqnoMax]]
  /\ trans \in [Node -> [Block -> BlockType \cup {Zero}]]
  /\ \A n, p \in Node :
       \A q \in {out[n][p], inp[n][p]} : \A i \in DOMAIN q : q[i] \in FrameType
  /\ \A n, p \in Node : Len(out[n][p]) <= QueueSize
  /\ asked \subseteq Requests
  /\ restarts \in 0 .. MaxRestarts

Asked(t, n) == Listed(t) /\ t.req[1] = n

(* A transaction a node asked for has already moved the next sequence      *)
(* number past its own, or to 0 for a CLEAR, and nothing that happens with *)
(* the peer meanwhile (its requests, errors, late callbacks) moves it.     *)
NextSeqnoMoved ==
  \A n \in Node, b \in Block :
    LET t == trans[n][b]
    IN Asked(t, n) =>
         nbr[n][t.peer] = IF t.cmd = "clear" THEN 0 ELSE NextSeqno(t.seqno)

(* A response is taken for the request it answers, never for a later one,  *)
(* between two nodes of which one asks, without CLEAR, which have not      *)
(* been power-cycled.                                                      *)
ResponseOfRequest ==
  \A n \in Node, b \in Block :
    LET t == trans[n][b]
    IN /\ t.st = "RESPONSE_RECEIVED" /\ restarts = 0
       /\ \A r \in asked : r[3] # "clear" /\ <<r[1], r[2]>> # <<t.peer, n>>
       => t.ans = t.req

(* The same of any two nodes, as sixp_output has it: without its early     *)
(* increment "a delayed response, which is for the previous transaction,   *)
(* may be handled mistakenly for the next request".  The code breaks it:   *)
(* answering a request of the peer sets the number back.                   *)
NoDelayedResponse ==
  \A n \in Node, b \in Block :
    trans[n][b].st = "RESPONSE_RECEIVED" => trans[n][b].ans = trans[n][b].req

(* Every transaction ends, whatever frames are lost, and by then at the    *)
(* latest another one with the peer may start: process_trans leaves no     *)
(* transaction without a timer.                                            *)
TransactionEnds ==
  \A n \in Node, b \in Block :
    Listed(trans[n][b]) ~> ~Listed(trans[n][b])
=============================================================================
