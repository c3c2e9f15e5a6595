---------------------------- MODULE RingBufIndex ----------------------------
(***************************************************************************)
(* os/lib/ringbufindex.c, the lock-free index ring on which every TSCH     *)
(* queue is built, together with the array its user indexes with it        *)
(* (tx_array, dequeued_array, input_array).                                *)
(*                                                                         *)
(* One producer and one consumer share the ring; one of them is the slot   *)
(* operation, in interrupt context, the other one a process.  Both follow  *)
(* the discipline of every user in os/net/mac/tsch:                        *)
(*                                                                         *)
(*   producer  i = peek_put();  array[i] = x;  ... ; put()                 *)
(*   consumer  i = peek_get();  use array[i];  ... ; get()                 *)
(*                                                                         *)
(* and either may be preempted between any two accesses to a pointer: the  *)
(* test of a put or a get and the store that ends it are separate steps.   *)
(* The producer may give up between its peek and its put, which is what    *)
(* a receive slot does when no valid frame arrived.                        *)
(***************************************************************************)
EXTENDS Integers, Sequences

\* The definitions whose names say what is wrong with them (NextIndexUnmasked,
\* FullNever, ...) are broken variants: replacing the definition after them
\* breaks one of the properties.

CONSTANTS
  Size,      \* the size of the ring: mask + 1
  Values,    \* what the array's slots carry
  NoValue    \* the content of a slot never written

\* ringbufindex_init asks for a power of two so that "& mask" is a modulo;
\* nothing below needs more of Size than that modulo.
ASSUME SizeAssumption == Size \in Nat /\ Size >= 2
ASSUME ValueAssumption == NoValue \notin Values

VARIABLES
  put_ptr, get_ptr,  \* the two indexes of struct ringbufindex
  array,             \* the user's array of slots
  ppc, pidx,         \* where the producer is, and the index it works with
  cpc, cidx,         \* the same for the consumer
  got                \* the last value the consumer read

vars == <<put_ptr, get_ptr, array, ppc, pidx, cpc, cidx, got>>
producer == <<put_ptr, array, ppc, pidx>>
consumer == <<get_ptr, cpc, cidx, got>>

Indexes == 0 .. Size - 1
NoIndex == -1

-----------------------------------------------------------------------------
(* The operations of ringbufindex.c *)

NextIndexUnmasked(i) == i + 1
NextIndex(i) == (i + 1) % Size
Elements == (put_ptr - get_ptr) % Size
FullNever == Elements = Size
Full == Elements = Size - 1
Empty == Elements = 0

PeekPut == IF Full THEN NoIndex ELSE put_ptr
PeekGet == IF Empty THEN NoIndex ELSE get_ptr

-----------------------------------------------------------------------------
(* The producer *)

\* A full ring sends the producer away: the slot is skipped or the packet
\* is refused.
ProducerPeek ==
  /\ ppc = "idle"
  /\ PeekPut # NoIndex
  /\ pidx' = PeekPut
  /\ ppc' = "fill"
  /\ UNCHANGED <<put_ptr, array, consumer>>

ProducerFill ==
  /\ ppc = "fill"
  /\ \E v \in Values : array' = [array EXCEPT ![pidx] = v]
  /\ ppc' = "put"
  /\ UNCHANGED <<put_ptr, pidx, consumer>>

ProducerPutTestKeepsTwoFree ==
  /\ ppc = "put"
  /\ ppc' = IF Elements >= Size - 2 THEN "refused" ELSE "store"
  /\ UNCHANGED <<put_ptr, array, pidx, consumer>>
\* ringbufindex_put tests again, with the pointers as they are now.
ProducerPutTest ==
  /\ ppc = "put"
  /\ ppc' = IF Full THEN "refused" ELSE "store"
  /\ UNCHANGED <<put_ptr, array, pidx, consumer>>

ProducerPutStore ==
  /\ ppc = "store"
  /\ put_ptr' = NextIndex(put_ptr)
  /\ ppc' = "idle"
  /\ pidx' = NoIndex
  /\ UNCHANGED <<array, consumer>>

ProducerGivesUp ==
  /\ ppc \in {"fill", "put", "refused"}
  /\ ppc' = "idle"
  /\ pidx' = NoIndex
  /\ UNCHANGED <<put_ptr, array, consumer>>

Producer ==
  \/ ProducerPeek \/ ProducerFill \/ ProducerPutTest \/ ProducerPutStore
  \/ ProducerGivesUp

-----------------------------------------------------------------------------
(* The consumer *)

ConsumerPeek ==
  /\ cpc = "idle"
  /\ PeekGet # NoIndex
  /\ cidx' = PeekGet
  /\ cpc' = "use"
  /\ UNCHANGED <<get_ptr, got, producer>>

ConsumerUse ==
  /\ cpc = "use"
  /\ got' = array[cidx]
  /\ cpc' = "get"
  /\ UNCHANGED <<get_ptr, cidx, producer>>

ConsumerGetTestKeepsLast ==
  /\ cpc = "get"
  /\ cpc' = IF Elements <= 1 THEN "missing" ELSE "store"
  /\ UNCHANGED <<get_ptr, cidx, got, producer>>
ConsumerGetTest ==
  /\ cpc = "get"
  /\ cpc' = IF Empty THEN "missing" ELSE "store"
  /\ UNCHANGED <<get_ptr, cidx, got, producer>>

ConsumerGetStore ==
  /\ cpc = "store"
  /\ get_ptr' = NextIndex(get_ptr)
  /\ cpc' = "idle"
  /\ cidx' = NoIndex
  /\ UNCHANGED <<got, producer>>

Consumer ==
  ConsumerPeek \/ ConsumerUse \/ ConsumerGetTest \/ ConsumerGetStore

-----------------------------------------------------------------------------
Init ==
  /\ put_ptr = 0
  /\ get_ptr = 0
  /\ array = [i \in Indexes |-> NoValue]
  /\ ppc = "idle" /\ pidx = NoIndex
  /\ cpc = "idle" /\ cidx = NoIndex
  /\ got = NoValue

Next == Producer \/ Consumer

\* A process that was polled runs until it has drained its ring.
Fairness == WF_vars(Consumer)

Spec == Init /\ [][Next]_vars /\ Fairness

-----------------------------------------------------------------------------
(* Properties *)

\* The ring, its user's array and its two users keep their types.
TypeOK ==
  /\ put_ptr \in Indexes
  /\ get_ptr \in Indexes
  /\ array \in [Indexes -> Values \cup {NoValue}]
  /\ ppc \in {"idle", "fill", "put", "refused", "store"}
  /\ pidx \in Indexes \cup {NoIndex}
  /\ cpc \in {"idle", "use", "get", "missing", "store"}
  /\ cidx \in Indexes \cup {NoIndex}
  /\ got \in Values \cup {NoValue}

\* The index is in the window of the elements put and not yet removed.
Occupied(i) == (i - get_ptr) % Size < Elements

\* However the consumer's accesses fall between the producer's, the producer
\* never writes a slot whose element has not been removed: the index of a
\* successful peek_put stays free until its put.
NoOverwrite == ppc \in {"fill", "put", "store"} => ~Occupied(pidx)

\* The index of a successful peek_get stays occupied until its get, although
\* the producer goes on meanwhile: the consumer never works on a slot that is
\* being written.
NoStaleRead == cpc \in {"use", "get", "store"} => Occupied(cidx)

\* The slot a put commits is the slot its user filled, and the slot a get
\* removes is the slot its user read.  The users of the ring ignore the
\* result of put and get after a successful peek; this is what allows it.
PeekHolds ==
  /\ ppc # "refused" /\ cpc # "missing"
  /\ ppc # "idle" => pidx = put_ptr
  /\ cpc # "idle" => cidx = get_ptr

\* The ring implements the queue of FifoChannel: elements come out in the
\* order they went in, each exactly once.
Channel == INSTANCE FifoChannel WITH
  Capacity <- Size - 1,
  queue <- [k \in 1 .. Elements |-> array[(get_ptr + k - 1) % Size]],
  held <- cpc \in {"get", "store"}
ImplementsChannel == Channel!Spec

\* The consumer's peek and get cannot starve an element: whatever the
\* producer does, the element at the head is eventually removed.
HeadRemoved ==
  \A i \in Indexes : (get_ptr = i /\ ~Empty) ~> get_ptr # i
=============================================================================
