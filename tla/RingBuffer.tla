----------------------------- MODULE RingBuffer -----------------------------
(***************************************************************************)
(* ring_buffer_put and ring_buffer_get of include/ringbuffer/ringbuf.c,    *)
(* called by any number of producers and consumers: one load or store of   *)
(* another side's variable per step, no lock.  With one producer and one   *)
(* consumer it implements BoundedFifo.                                     *)
(*                                                                         *)
(* The two "dmb sy" of the code order the byte before the head in put, and *)
(* the head before the byte in get.  Nothing in get orders the load of the *)
(* byte before the store of the tail, which frees its slot: the store may  *)
(* go first, as the architecture lets it (GetAdvanceEarly).                *)
(***************************************************************************)
EXTENDS Integers, Sequences

CONSTANTS Producers, Consumers, Byte,
          Size         \* RING_BUFFER_SIZE, a power of two: 256 in the code

ASSUME RingAssumption ==
  /\ Size \in Nat /\ Size > 1
  /\ Producers \cap Consumers = {}

VARIABLES
  head, tail, data,  \* ring_buffer_t
  pc,                \* where each process is in its call
  seen,              \* the index it has loaded or computed: next_head, head, old tail
  byte,              \* the byte it puts, or has got
  code               \* the result of its last call

vars == <<head, tail, data, pc, seen, byte, code>>

Process == Producers \cup Consumers
Index   == 0 .. Size - 1

TypeOK ==
  /\ head \in Index /\ tail \in Index
  /\ data \in [Index -> Byte]
  /\ pc \in [Process -> {"idle", "put", "full?", "store", "publish",
                         "get", "empty?", "load", "advance", "late", "return"}]
  /\ seen \in [Process -> Index]
  /\ byte \in [Process -> Byte]
  /\ code \in [Process -> {-1, 0}]

\* ring_buffer_init sets the indices and leaves the bytes as memory has them.
Init ==
  /\ head = 0 /\ tail = 0
  /\ data \in [Index -> Byte]
  /\ pc = [p \in Process |-> "idle"]
  /\ seen = [p \in Process |-> 0]
  /\ byte \in [Process -> Byte]
  /\ code = [p \in Process |-> 0]

-----------------------------------------------------------------------------
\* (i + 1) & (RING_BUFFER_SIZE - 1)
Succ(i) == (i + 1) % Size

Goto(p, from, to) == pc[p] = from /\ pc' = [pc EXCEPT ![p] = to]

Returns(p, from, result) ==
  Goto(p, from, "return") /\ code' = [code EXCEPT ![p] = result]

Return(p) ==
  /\ Goto(p, "return", "idle")
  /\ UNCHANGED <<head, tail, data, seen, byte, code>>

PutCall(p, b) ==
  /\ Goto(p, "idle", "put")
  /\ byte' = [byte EXCEPT ![p] = b]
  /\ UNCHANGED <<head, tail, data, seen, code>>

\* next_head = (rb->head + 1) & (RING_BUFFER_SIZE - 1)
PutLoadHead(p) ==
  /\ Goto(p, "put", "full?")
  /\ seen' = [seen EXCEPT ![p] = Succ(head)]
  /\ UNCHANGED <<head, tail, data, byte, code>>

PutFull(p) ==
  /\ seen[p] = tail
  /\ Returns(p, "full?", -1)
  /\ UNCHANGED <<head, tail, data, seen, byte>>

\* Variant for mutation: the buffer fills to its last slot.
BugPutRoom(p) ==
  /\ Goto(p, "full?", "store")
  /\ UNCHANGED <<head, tail, data, seen, byte, code>>

\* next_head # rb->tail
PutRoom(p) ==
  /\ seen[p] # tail
  /\ Goto(p, "full?", "store")
  /\ UNCHANGED <<head, tail, data, seen, byte, code>>

\* Variant for mutation: the byte goes to the slot of the new head.
BugPutStore(p) ==
  /\ Goto(p, "store", "publish")
  /\ data' = [data EXCEPT ![seen[p]] = byte[p]]
  /\ UNCHANGED <<head, tail, seen, byte, code>>

\* rb->data[rb->head] = c, and the barrier
PutStore(p) ==
  /\ Goto(p, "store", "publish")
  /\ data' = [data EXCEPT ![head] = byte[p]]
  /\ UNCHANGED <<head, tail, seen, byte, code>>

\* rb->head = next_head
PutPublish(p) ==
  /\ Returns(p, "publish", 0)
  /\ head' = seen[p]
  /\ UNCHANGED <<tail, data, seen, byte>>

-----------------------------------------------------------------------------
GetCall(p) ==
  /\ Goto(p, "idle", "get")
  /\ UNCHANGED <<head, tail, data, seen, byte, code>>

GetLoadHead(p) ==
  /\ Goto(p, "get", "empty?")
  /\ seen' = [seen EXCEPT ![p] = head]
  /\ UNCHANGED <<head, tail, data, byte, code>>

GetEmpty(p) ==
  /\ seen[p] = tail
  /\ Returns(p, "empty?", -1)
  /\ UNCHANGED <<head, tail, data, seen, byte>>

\* rb->head # rb->tail, and the barrier
GetSome(p) ==
  /\ seen[p] # tail
  /\ Goto(p, "empty?", "load")
  /\ UNCHANGED <<head, tail, data, seen, byte, code>>

\* *c = rb->data[rb->tail]
GetLoad(p) ==
  /\ Goto(p, "load", "advance")
  /\ byte' = [byte EXCEPT ![p] = data[tail]]
  /\ UNCHANGED <<head, tail, data, seen, code>>

\* rb->tail = (rb->tail + 1) & (RING_BUFFER_SIZE - 1)
GetAdvance(p) ==
  /\ Returns(p, "advance", 0)
  /\ tail' = Succ(tail)
  /\ UNCHANGED <<head, data, seen, byte>>

\* The same two accesses the other way round.
GetAdvanceEarly(p) ==
  /\ Goto(p, "load", "late")
  /\ tail' = Succ(tail)
  /\ seen' = [seen EXCEPT ![p] = tail]
  /\ UNCHANGED <<head, data, byte, code>>

GetLoadLate(p) ==
  /\ Returns(p, "late", 0)
  /\ byte' = [byte EXCEPT ![p] = data[seen[p]]]
  /\ UNCHANGED <<head, tail, data, seen>>

-----------------------------------------------------------------------------
PutStep(p) == \/ PutLoadHead(p) \/ PutFull(p) \/ PutRoom(p)
              \/ PutStore(p) \/ PutPublish(p)
GetStep(p) == \/ GetLoadHead(p) \/ GetEmpty(p) \/ GetSome(p) \/ GetLoad(p)
              \/ GetAdvance(p) \/ GetAdvanceEarly(p) \/ GetLoadLate(p)

Next == \/ \E p \in Producers : (\E b \in Byte : PutCall(p, b)) \/ PutStep(p)
        \/ \E p \in Consumers : GetCall(p) \/ GetStep(p)
        \/ \E p \in Process : Return(p)

Spec == Init /\ [][Next]_vars

-----------------------------------------------------------------------------
\* One process on each side, what the code's comments take for granted.
OneEach == /\ \A a, b \in Producers : a = b
           /\ \A a, b \in Consumers : a = b

\* What that comes to in a state, for more processes too: on each side at most
\* one is in a call.
InTurn == /\ \A a, b \in Producers : pc[a] # "idle" /\ pc[b] # "idle" => a = b
          /\ \A a, b \in Consumers : pc[a] # "idle" /\ pc[b] # "idle" => a = b

\* The producer never writes the slot that the consumer is about to read or is
\* reading, whatever the two have seen of each other's index (no lock is taken).
SlotsDisjoint ==
  \A p \in Producers, q \in Consumers :
    pc[p] \in {"store", "publish"} =>
      /\ pc[q] \in {"load", "advance"} => head # tail
      /\ pc[q] = "late" => head # seen[q]

-----------------------------------------------------------------------------
\* The strengthening that is inductive while each side is InTurn.
Roles == /\ \A p \in Producers : pc[p] \in {"idle", "put", "full?", "store", "publish", "return"}
         /\ \A q \in Consumers : pc[q] \in {"idle", "get", "empty?", "load", "advance", "late", "return"}

\* What the producer knows of the ring stays true while the consumer moves on.
ProducerSees ==
  \A p \in Producers :
    /\ pc[p] \in {"full?", "store", "publish"} => seen[p] = Succ(head)
    /\ pc[p] \in {"store", "publish"} => seen[p] # tail
    /\ pc[p] = "publish" => data[head] = byte[p]

\* What the consumer knows stays true while the producer moves on.
ConsumerSees ==
  \A q \in Consumers :
    /\ pc[q] = "empty?" /\ seen[q] # tail => head # tail
    /\ pc[q] \in {"load", "advance"} => head # tail
    /\ pc[q] = "late" => tail = Succ(seen[q])
    /\ pc[q] = "advance" => byte[q] = data[tail]

IInv == TypeOK /\ Roles /\ ProducerSees /\ ConsumerSees /\ SlotsDisjoint

-----------------------------------------------------------------------------
\* The abstract queue: the bytes from tail up to head.  A get on an empty queue
\* has failed once it has loaded the head; one that freed its slot early has
\* got that slot's byte before it loads it.
Count == IF head >= tail THEN head - tail ELSE head - tail + Size
Queue == [i \in 1 .. Count |-> data[(tail + i - 1) % Size]]

InCall == [p \in Process |->
             CASE pc[p] = "idle"   -> [op |-> "idle"]
               [] pc[p] = "empty?" /\ seen[p] = tail -> [op |-> "failed"]
               [] pc[p] = "late"   -> [op |-> "got", byte |-> data[seen[p]]]
               [] pc[p] = "return" -> IF code[p] = -1 THEN [op |-> "failed"]
                                      ELSE IF p \in Producers THEN [op |-> "stored"]
                                      ELSE [op |-> "got", byte |-> byte[p]]
               [] OTHER            -> IF p \in Producers THEN [op |-> "put", byte |-> byte[p]]
                                      ELSE [op |-> "get"]]

F == INSTANCE BoundedFifo WITH queue <- Queue, call <- InCall, Capacity <- Size - 1

\* One producer and one consumer without a lock: a queue of Size - 1 bytes, in
\* order and without loss, whose calls fail only when it is full or empty.
ImplementsFifo == F!Spec
=============================================================================
