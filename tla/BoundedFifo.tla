---------------------------- MODULE BoundedFifo ----------------------------
(***************************************************************************)
(* What include/ringbuffer/ringbuf.c promises its two sides: a first-in    *)
(* first-out queue of at most Capacity bytes.  A put or a get acts at one  *)
(* instant of the call; it fails only on a queue that is full or empty at  *)
(* that instant, and no byte is lost, repeated, changed or reordered.      *)
(***************************************************************************)
EXTENDS Sequences, Integers

CONSTANTS Producers, Consumers, Byte, Capacity

VARIABLES queue,     \* the bytes put and not yet got
          call       \* the call each process is in, or its result

vars == <<queue, call>>

Idle         == [op |-> "idle"]
Put(b)       == [op |-> "put", byte |-> b]
Get          == [op |-> "get"]
Put0         == [op |-> "stored"]
Get0(b)      == [op |-> "got", byte |-> b]
Failed       == [op |-> "failed"]

Init == /\ queue = <<>>
        /\ call = [p \in Producers \cup Consumers |-> Idle]

Become(p, from, to) == call[p] = from /\ call' = [call EXCEPT ![p] = to]

Start(p) == /\ \/ p \in Producers /\ \E b \in Byte : Become(p, Idle, Put(b))
               \/ p \in Consumers /\ Become(p, Idle, Get)
            /\ UNCHANGED queue

Store(p) == \E b \in Byte : /\ Len(queue) < Capacity
                            /\ Become(p, Put(b), Put0)
                            /\ queue' = Append(queue, b)

Full(p) == /\ Len(queue) = Capacity
           /\ \E b \in Byte : Become(p, Put(b), Failed)
           /\ UNCHANGED queue

Take(p) == /\ queue # <<>>
           /\ Become(p, Get, Get0(Head(queue)))
           /\ queue' = Tail(queue)

Empty(p) == /\ queue = <<>>
            /\ Become(p, Get, Failed)
            /\ UNCHANGED queue

Return(p) == /\ call[p].op \in {"stored", "got", "failed"}
             /\ call' = [call EXCEPT ![p] = Idle]
             /\ UNCHANGED queue

Next == \E p \in Producers \cup Consumers :
          Start(p) \/ Store(p) \/ Full(p) \/ Take(p) \/ Empty(p) \/ Return(p)

Spec == Init /\ [][Next]_vars
=============================================================================
