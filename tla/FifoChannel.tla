----------------------------- MODULE FifoChannel -----------------------------
(***************************************************************************)
(* What a ring buffer of os/lib/ringbufindex.c promises its two users: a   *)
(* bounded queue.  The producer appends, the consumer first looks at the   *)
(* head (the head stays queued while it is being used) and then releases   *)
(* it.  No element is lost, duplicated, reordered or overwritten while the *)
(* consumer looks at it.                                                   *)
(***************************************************************************)
EXTENDS Naturals, Sequences

CONSTANTS
  Values,    \* what the slots carry
  Capacity,  \* how many elements can be queued at once
  NoValue    \* what the consumer holds before its first look

VARIABLES
  queue,     \* the elements put and not yet released, oldest first
  held,      \* the consumer is using the head
  got        \* the element the consumer looked at last

channelVars == <<queue, held, got>>

Init ==
  /\ queue = <<>>
  /\ held = FALSE
  /\ got = NoValue

Send(v) ==
  /\ Len(queue) < Capacity
  /\ queue' = Append(queue, v)
  /\ UNCHANGED <<held, got>>

Look ==
  /\ ~held
  /\ queue # <<>>
  /\ held' = TRUE
  /\ got' = Head(queue)
  /\ UNCHANGED queue

Release ==
  /\ held
  /\ queue # <<>>
  /\ held' = FALSE
  /\ queue' = Tail(queue)
  /\ UNCHANGED got

Next == (\E v \in Values : Send(v)) \/ Look \/ Release

Spec == Init /\ [][Next]_channelVars
=============================================================================
