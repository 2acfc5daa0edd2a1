-------------------------- MODULE RingBufferProofs --------------------------
(***************************************************************************)
(* Proofs about RingBuffer.tla, for a buffer of any size and any set of    *)
(* bytes, with at most one producer and one consumer in a call (InTurn,    *)
(* OneEach): the inductive invariant, that the two never touch the same    *)
(* slot, and that the buffer implements the queue of BoundedFifo.tla, step *)
(* by step.                                                                *)
(*                                                                         *)
(* Then about RingClients.tla, for its four users (RingUsers): that the    *)
(* delays keep them InTurn, so that together they implement one queue,     *)
(* that the bytes come out in order, and that Ctrl+C is final.             *)
(***************************************************************************)
EXTENDS RingClients, SequenceTheorems, TLAPS

\* Advancing an index by one stays in the buffer and wraps at its end.
LEMMA SuccWraps ==
  ASSUME NEW i \in Index
  PROVE  /\ Succ(i) \in Index
         /\ Succ(i) = IF i = Size - 1 THEN 0 ELSE i + 1
  BY RingAssumption DEF Succ, Index

\* Two indices with the same successor are the same, and no index is its own.
LEMMA SuccInjective ==
  ASSUME NEW i \in Index, NEW j \in Index
  PROVE  /\ Succ(i) = Succ(j) => i = j
         /\ Succ(i) # i
  BY SuccWraps, RingAssumption DEF Index

\* An initial state satisfies the inductive invariant.
LEMMA InitIInv == Init => IInv
  <1> SUFFICES ASSUME Init PROVE IInv
    OBVIOUS
  <1>1. 0 \in Index
    BY RingAssumption DEF Index
  <1>2. TypeOK
    BY <1>1 DEF Init, TypeOK, Process
  <1>3. Roles /\ ProducerSees /\ ConsumerSees /\ SlotsDisjoint
    BY DEF Init, Roles, ProducerSees, ConsumerSees, SlotsDisjoint, Process
  <1>4. QED
    BY <1>2, <1>3 DEF IInv

\* A step of the producer preserves the inductive invariant.
LEMMA PutPreserves ==
  ASSUME InTurn, IInv, NEW p \in Producers,
         (\E b \in Byte : PutCall(p, b)) \/ PutStep(p)
  PROVE  IInv'
  <1> USE DEF IInv, TypeOK, Process, Roles, ProducerSees, ConsumerSees, SlotsDisjoint, InTurn
  <1>0. p \notin Consumers /\ head \in Index /\ tail \in Index /\ seen[p] \in Index
    BY RingAssumption
  <1>1. ASSUME NEW b \in Byte, PutCall(p, b) PROVE IInv'
    BY <1>0, <1>1 DEF PutCall, Goto
  <1>2. CASE PutLoadHead(p)
    BY <1>0, <1>2, SuccWraps DEF PutLoadHead, Goto
  <1>3. CASE PutFull(p)
    BY <1>0, <1>3 DEF PutFull, Returns, Goto
  <1>4. CASE PutRoom(p)
    BY <1>0, <1>4, SuccInjective DEF PutRoom, Goto
  <1>5. CASE PutStore(p)
    BY <1>0, <1>5 DEF PutStore, Goto
  <1>6. CASE PutPublish(p)
    BY <1>0, <1>6 DEF PutPublish, Returns, Goto
  <1>7. QED
    BY <1>1, <1>2, <1>3, <1>4, <1>5, <1>6 DEF PutStep

\* A step of the consumer preserves the inductive invariant.
LEMMA GetPreserves ==
  ASSUME InTurn, IInv, NEW q \in Consumers, GetCall(q) \/ GetStep(q)
  PROVE  IInv'
  <1> USE DEF IInv, TypeOK, Process, Roles, ProducerSees, ConsumerSees, SlotsDisjoint, InTurn
  <1>0. q \notin Producers /\ head \in Index /\ tail \in Index /\ seen[q] \in Index
    BY RingAssumption
  <1>1. CASE GetCall(q)
    BY <1>0, <1>1 DEF GetCall, Goto
  <1>2. CASE GetLoadHead(q)
    BY <1>0, <1>2 DEF GetLoadHead, Goto
  <1>3. CASE GetEmpty(q)
    BY <1>0, <1>3 DEF GetEmpty, Returns, Goto
  <1>4. CASE GetSome(q)
    BY <1>0, <1>4 DEF GetSome, Goto
  <1>5. CASE GetLoad(q)
    BY <1>0, <1>5 DEF GetLoad, Goto
  <1>6. CASE GetAdvance(q)
    BY <1>0, <1>6, SuccWraps, SuccInjective DEF GetAdvance, Returns, Goto
  <1>7. CASE GetAdvanceEarly(q)
    BY <1>0, <1>7, SuccWraps, SuccInjective DEF GetAdvanceEarly, Goto
  <1>8. CASE GetLoadLate(q)
    BY <1>0, <1>8 DEF GetLoadLate, Returns, Goto
  <1>9. QED
    BY <1>1, <1>2, <1>3, <1>4, <1>5, <1>6, <1>7, <1>8 DEF GetStep

\* So does every step.
LEMMA NextIInv == InTurn /\ IInv /\ [Next]_vars => IInv'
  <1> SUFFICES ASSUME InTurn, IInv, [Next]_vars PROVE IInv'
    OBVIOUS
  <1>1. ASSUME NEW p \in Process, Return(p) PROVE IInv'
    BY <1>1, RingAssumption DEF Return, Goto, IInv, TypeOK, Process, Roles,
       ProducerSees, ConsumerSees, SlotsDisjoint, InTurn
  <1>2. CASE UNCHANGED vars
    BY <1>2 DEF vars, IInv, TypeOK, Roles, ProducerSees, ConsumerSees, SlotsDisjoint
  <1>3. QED
    BY <1>1, <1>2, PutPreserves, GetPreserves DEF Next

\* The inductive invariant holds in every reachable state, whatever the size.
THEOREM Invariance ==
  ASSUME OneEach
  PROVE  Spec => []IInv
  <1>1. IInv /\ [Next]_vars => IInv'
    BY NextIInv DEF OneEach, InTurn
  <1>2. QED
    BY InitIInv, <1>1, PTL DEF Spec

\* Both indices stay inside the buffer and every variable keeps its type.
THEOREM TypeCorrect ==
  ASSUME OneEach
  PROVE  Spec => []TypeOK
  <1>1. IInv => TypeOK
    BY DEF IInv
  <1>2. QED
    BY Invariance, <1>1, PTL

\* The producer never writes the slot the consumer reads, even when the
\* consumer's store of the tail passes its load of the byte.
THEOREM NoSharedSlot ==
  ASSUME OneEach
  PROVE  Spec => []SlotsDisjoint
  <1>1. IInv => SlotsDisjoint
    BY DEF IInv
  <1>2. QED
    BY Invariance, <1>1, PTL

-----------------------------------------------------------------------------
\* (tail + i - 1) % RING_BUFFER_SIZE, the slot of the i-th byte from tail t.
SlotOf(t, i) == (t + i - 1) % Size

\* It wraps at the end of the buffer, once.
LEMMA SlotWraps ==
  ASSUME NEW t \in Index, NEW i \in 1 .. Size
  PROVE  /\ SlotOf(t, i) \in Index
         /\ SlotOf(t, i) = IF t + i - 1 < Size THEN t + i - 1 ELSE t + i - 1 - Size
  <1>1. t \in Int /\ i \in Int /\ Size \in Int /\ Size > 1 /\ 0 <= t + i - 1 /\ t + i - 1 < 2 * Size
    BY RingAssumption DEF Index
  <1>2. CASE t + i - 1 < Size
    BY <1>1, <1>2 DEF SlotOf, Index
  <1>3. CASE t + i - 1 >= Size
    BY <1>1, <1>3 DEF SlotOf, Index
  <1>4. QED
    BY <1>1, <1>2, <1>3

\* What the indices say of the number of bytes between them.
LEMMA CountBounds ==
  ASSUME TypeOK
  PROVE  /\ Count \in 0 .. Size - 1
         /\ Count = 0 <=> head = tail
         /\ Count = Size - 1 <=> Succ(head) = tail
         /\ SlotOf(tail, Count + 1) = head
         /\ \A i \in 1 .. Count : SlotOf(tail, i) # head
  <1>1. head \in Index /\ tail \in Index
    BY DEF TypeOK
  <1>2. Count \in 0 .. Size - 1 /\ (Count = 0 <=> head = tail)
    BY <1>1, RingAssumption DEF Count, Index
  <1>3. Count = Size - 1 <=> Succ(head) = tail
    BY <1>1, SuccWraps, RingAssumption DEF Count, Index
  <1>4. Count + 1 \in 1 .. Size
    BY <1>2, RingAssumption
  <1>5. SlotOf(tail, Count + 1) = head
    BY <1>1, <1>4, SlotWraps, RingAssumption DEF Count, Index
  <1>6. ASSUME NEW i \in 1 .. Count PROVE SlotOf(tail, i) # head
    <2>1. i \in 1 .. Size
      BY <1>2, RingAssumption
    <2>2. SlotOf(tail, i) = IF tail + i - 1 < Size THEN tail + i - 1 ELSE tail + i - 1 - Size
      BY <1>1, <2>1, SlotWraps
    <2>3. /\ head \in Int /\ tail \in Int /\ i \in Int /\ Size \in Int /\ Count \in Int
          /\ 0 <= head /\ head < Size /\ 0 <= tail /\ tail < Size /\ 1 <= i /\ i <= Count
      BY <1>1, <1>2, RingAssumption DEF Index
    <2>4. Count = IF head >= tail THEN head - tail ELSE head - tail + Size
      BY DEF Count
    <2>5. QED
      BY <2>2, <2>3, <2>4
  <1>7. QED
    BY <1>2, <1>3, <1>5, <1>6

\* The abstract queue is a sequence of the Count bytes from tail on.
QueueOK == /\ Queue \in Seq(Byte)
           /\ Len(Queue) = Count
           /\ \A i \in 1 .. Count : Queue[i] = data[SlotOf(tail, i)]

\* It is one in every state of the right types, ...
LEMMA QueueIsSeq == TypeOK => QueueOK
  <1> SUFFICES ASSUME TypeOK PROVE QueueOK
    OBVIOUS
  <1>1. Count \in Nat /\ \A i \in 1 .. Count : i \in 1 .. Size
    BY CountBounds, RingAssumption
  <1>2. ASSUME NEW i \in 1 .. Count PROVE data[SlotOf(tail, i)] \in Byte
    BY <1>1, SlotWraps DEF TypeOK
  <1>3. Queue = [i \in 1 .. Count |-> data[SlotOf(tail, i)]]
    BY DEF Queue, SlotOf
  <1>4. QED
    BY <1>1, <1>2, <1>3 DEF QueueOK

\* ... the next one included.
LEMMA NextQueueIsSeq == TypeOK' => QueueOK'
  BY QueueIsSeq, PTL

\* Publishing the byte that the producer has stored at the head appends it.
LEMMA PublishAppends ==
  ASSUME TypeOK, TypeOK', head' = Succ(head), Succ(head) # tail, UNCHANGED <<tail, data>>
  PROVE  Len(Queue) < Size - 1 /\ Queue' = Append(Queue, data[head])
  <1>1. Count \in Nat /\ Count < Size - 1 /\ Count' = Count + 1
    <2>1. head \in Index /\ tail \in Index /\ tail' = tail
      BY DEF TypeOK
    <2>2. Count \in 0 .. Size - 1 /\ Count # Size - 1
      BY CountBounds
    <2>3. QED
      BY <2>1, <2>2, SuccWraps, RingAssumption DEF Count, Index
  <1>2. Queue \in Seq(Byte) /\ Len(Queue) = Count /\ Queue' \in Seq(Byte) /\ Len(Queue') = Count + 1
    BY <1>1, QueueIsSeq, NextQueueIsSeq DEF QueueOK
  <1>3. ASSUME NEW i \in 1 .. Count + 1 PROVE Queue'[i] = Append(Queue, data[head])[i]
    <2>1. Queue'[i] = data[SlotOf(tail, i)]
      BY <1>1, NextQueueIsSeq DEF QueueOK, SlotOf
    <2>2. CASE i = Count + 1
      <3>1. Queue'[i] = data[head]
        BY <2>1, <2>2, CountBounds
      <3>2. data[head] \in Byte
        BY DEF TypeOK
      <3>3. Append(Queue, data[head])[Count + 1] = data[head]
        BY <1>2, <3>2, AppendProperties
      <3>4. QED
        BY <2>2, <3>1, <3>3
    <2>3. CASE i \in 1 .. Count
      <3>1. Queue[i] = data[SlotOf(tail, i)]
        BY <2>3, QueueIsSeq DEF QueueOK
      <3>2. data[head] \in Byte
        BY DEF TypeOK
      <3>3. Append(Queue, data[head])[i] = Queue[i]
        BY <1>2, <2>3, <3>2, AppendProperties
      <3>4. QED
        BY <2>1, <3>1, <3>3
    <2>4. i = Count + 1 \/ i \in 1 .. Count
      BY <1>1
    <2>5. QED
      BY <2>2, <2>3, <2>4
  <1>4. QED
    BY <1>1, <1>2, <1>3

\* Advancing the tail over the next byte takes it from the queue.
LEMMA AdvanceTakes ==
  ASSUME TypeOK, TypeOK', tail' = Succ(tail), head # tail, UNCHANGED <<head, data>>
  PROVE  Queue # <<>> /\ Head(Queue) = data[tail] /\ Queue' = Tail(Queue)
  <1>1. Count \in Nat /\ Count > 0 /\ Count' = Count - 1
    <2>1. head \in Index /\ tail \in Index /\ head' = head
      BY DEF TypeOK
    <2>2. Count \in 0 .. Size - 1 /\ Count # 0
      BY CountBounds
    <2>3. QED
      BY <2>1, <2>2, SuccWraps, RingAssumption DEF Count, Index
  <1>2. Queue \in Seq(Byte) /\ Len(Queue) = Count /\ Queue' \in Seq(Byte) /\ Len(Queue') = Count - 1
    BY <1>1, QueueIsSeq, NextQueueIsSeq DEF QueueOK
  <1>3. Head(Queue) = data[tail]
    <2>1. SlotOf(tail, 1) = tail
      BY SlotWraps, RingAssumption DEF TypeOK, Index
    <2>2. QED
      BY <1>1, <1>2, <2>1, QueueIsSeq DEF QueueOK
  <1>4. ASSUME NEW i \in 1 .. Count - 1 PROVE Queue'[i] = Queue[i + 1]
    <2>1. Queue'[i] = data[SlotOf(tail', i)]
      BY <1>1, NextQueueIsSeq DEF QueueOK, SlotOf
    <2>2. SlotOf(tail', i) = SlotOf(tail, i + 1)
      <3>1. i \in 1 .. Size /\ i + 1 \in 1 .. Size /\ tail \in Index /\ tail' \in Index
        BY <1>1, CountBounds, RingAssumption DEF TypeOK
      <3>2. /\ SlotOf(tail', i) = IF tail' + i - 1 < Size THEN tail' + i - 1
                                  ELSE tail' + i - 1 - Size
            /\ SlotOf(tail, i + 1) = IF tail + (i + 1) - 1 < Size THEN tail + (i + 1) - 1
                                     ELSE tail + (i + 1) - 1 - Size
            /\ tail' = IF tail = Size - 1 THEN 0 ELSE tail + 1
        BY <3>1, SlotWraps, SuccWraps
      <3>3. tail \in Int /\ i \in Int /\ Size \in Int /\ 0 <= tail /\ tail < Size /\ 1 <= i /\ i < Size
        BY <1>1, <3>1, CountBounds, RingAssumption DEF Index
      <3>4. QED
        BY <3>2, <3>3
    <2>3. QED
      BY <1>1, <2>1, <2>2, QueueIsSeq DEF QueueOK
  <1>5. QED
    BY <1>1, <1>2, <1>3, <1>4

-----------------------------------------------------------------------------
\* A call whose process does not move stays what it is, whatever the other side
\* does to the ring: NoSharedSlot is why the byte of a late load stays too.
LEMMA CallUnmoved ==
  ASSUME NEW r \in Process,
         pc'[r] = pc[r], seen'[r] = seen[r], byte'[r] = byte[r], code'[r] = code[r],
         pc[r] = "empty?" => tail' = tail,
         pc[r] = "late" => data'[seen[r]] = data[seen[r]]
  PROVE  InCall'[r] = InCall[r]
  BY DEF InCall, Process

\* A step that changes one process's call changes that call only.
LEMMA CallMoves ==
  ASSUME NEW p \in Process, \A r \in Process : r # p => InCall'[r] = InCall[r]
  PROVE  /\ InCall' = [InCall EXCEPT ![p] = InCall'[p]]
         /\ InCall'[p] = InCall[p] => InCall' = InCall
  <1>1. InCall = [r \in Process |-> InCall[r]]
    BY DEF InCall
  <1>2. InCall' = [r \in Process |-> InCall'[r]]
    BY DEF InCall
  <1>3. QED
    BY <1>1, <1>2

\* What the call of a process is, by where it is.
CallOK(r) ==
  /\ pc[r] = "idle" => InCall[r] = F!Idle
  /\ pc[r] = "empty?" /\ seen[r] = tail => InCall[r] = F!Failed
  /\ pc[r] = "late" => InCall[r] = F!Get0(data[seen[r]])
  /\ pc[r] = "return" =>
       InCall[r] = IF code[r] = -1 THEN F!Failed
                   ELSE IF r \in Producers THEN F!Put0 ELSE F!Get0(byte[r])
  /\ pc[r] \in {"put", "full?", "store", "publish"} /\ r \in Producers =>
       InCall[r] = F!Put(byte[r])
  /\ \/ pc[r] \in {"get", "load", "advance"}
     \/ pc[r] = "empty?" /\ seen[r] # tail
     => (r \notin Producers => InCall[r] = F!Get)

\* So it is, before a step and after it.
LEMMA CallIs == \A r \in Process : CallOK(r) /\ CallOK(r)'
  <1> SUFFICES ASSUME NEW r \in Process PROVE CallOK(r) /\ CallOK(r)'
    OBVIOUS
  <1>1. CallOK(r)
    BY DEF CallOK, InCall, F!Idle, F!Failed, F!Get0, F!Put0, F!Put, F!Get
  <1>2. CallOK(r)'
    BY DEF CallOK, InCall, F!Idle, F!Failed, F!Get0, F!Put0, F!Put, F!Get
  <1>3. QED
    BY <1>1, <1>2

\* While neither index moves, the queue is the same if its slots are.
LEMMA QueueUnmoved ==
  ASSUME TypeOK, UNCHANGED <<head, tail>>,
         UNCHANGED data \/ \E b : data' = [data EXCEPT ![head] = b]
  PROVE  Queue' = Queue
  <1>1. Count' = Count
    BY DEF Count
  <1>2. ASSUME NEW i \in 1 .. Count PROVE data'[SlotOf(tail, i)] = data[SlotOf(tail, i)]
    <2>1. SlotOf(tail, i) # head
      BY CountBounds
    <2>2. SlotOf(tail, i) \in Index
      BY CountBounds, SlotWraps, RingAssumption DEF TypeOK
    <2>3. QED
      BY <2>1, <2>2 DEF TypeOK
  <1>3. QED
    BY <1>1, <1>2 DEF Queue, SlotOf

\* A step of p that leaves its call and the queue as they are is a stutter.
LEMMA Stutters ==
  ASSUME NEW p \in Process, \A r \in Process : r # p => InCall'[r] = InCall[r],
         InCall'[p] = InCall[p], Queue' = Queue
  PROVE  UNCHANGED F!vars
  BY CallMoves DEF F!vars

\* What a producer does to the ring leaves the calls of the others as they are.
LEMMA PutLeavesOthers ==
  ASSUME InTurn, IInv, NEW p \in Producers, (\E b \in Byte : PutCall(p, b)) \/ PutStep(p),
         NEW r \in Process, r # p
  PROVE  InCall'[r] = InCall[r]
  <1>0. p \in Process /\ TypeOK
    BY DEF Process, IInv
  <1>1. pc[r] = "late" => head # seen[r] \/ pc[p] # "store"
    BY DEF IInv, Roles, SlotsDisjoint, Process
  <1>2. /\ pc'[r] = pc[r] /\ seen'[r] = seen[r] /\ byte'[r] = byte[r] /\ code'[r] = code[r]
        /\ tail' = tail
        /\ pc[r] = "late" => data'[seen[r]] = data[seen[r]]
    BY <1>0, <1>1 DEF PutStep, PutCall, PutLoadHead, PutFull, PutRoom, PutStore, PutPublish,
       Goto, Returns, TypeOK
  <1>3. QED
    BY <1>2, CallUnmoved

\* The beginning of a call of ring_buffer_put.
LEMMA PutBegins ==
  ASSUME InTurn, IInv, NEW p \in Producers, NEW b \in Byte, PutCall(p, b)
  PROVE  F!Become(p, F!Idle, F!Put(b)) /\ Queue' = Queue
  <1>0. /\ p \in Process /\ TypeOK /\ CallOK(p) /\ CallOK(p)'
    BY CallIs DEF Process, IInv
  <1>1. Queue' = Queue
    BY <1>0, QueueUnmoved DEF PutCall
  <1>2. InCall[p] = F!Idle /\ InCall'[p] = F!Put(b)
    BY <1>0 DEF CallOK, PutCall, Goto, TypeOK
  <1>3. QED
    BY <1>0, <1>1, <1>2, PutLeavesOthers, CallMoves DEF F!Become

\* Every step of ring_buffer_put is that of a put on the queue, or none.
LEMMA PutImplements ==
  ASSUME InTurn, IInv, IInv', NEW p \in Producers, PutStep(p)
  PROVE  F!Store(p) \/ F!Full(p) \/ UNCHANGED F!vars
  <1>0. /\ p \in Process /\ TypeOK /\ TypeOK' /\ CallOK(p) /\ CallOK(p)'
    BY CallIs DEF Process, IInv
  <1> DEFINE Moves(c, d) == InCall[p] = c /\ InCall'[p] = d
  <1>1. ASSUME NEW r \in Process, r # p PROVE InCall'[r] = InCall[r]
    BY <1>1, PutLeavesOthers
  <1>2. ASSUME NEW c, NEW d, Moves(c, d) PROVE F!Become(p, c, d)
    BY <1>0, <1>1, <1>2, CallMoves DEF F!Become
  <1>3. CASE PutLoadHead(p) \/ PutRoom(p) \/ PutStore(p)
    <2>1. Queue' = Queue
      BY <1>0, <1>3, QueueUnmoved DEF PutLoadHead, PutRoom, PutStore
    <2>2. InCall'[p] = InCall[p]
      BY <1>0, <1>3 DEF CallOK, PutLoadHead, PutRoom, PutStore, Goto, TypeOK
    <2>3. QED
      BY <1>0, <1>1, <2>1, <2>2, Stutters
  <1>4. CASE PutFull(p)
    <2>1. Queue' = Queue /\ Len(Queue) = Size - 1
      <3>1. Succ(head) = tail
        BY <1>4 DEF IInv, ProducerSees, PutFull, Returns, Goto
      <3>2. Queue' = Queue
        BY <1>0, <1>4, QueueUnmoved DEF PutFull
      <3>3. QED
        BY <1>0, <3>1, <3>2, CountBounds, QueueIsSeq DEF QueueOK
    <2>2. Moves(F!Put(byte[p]), F!Failed) /\ byte[p] \in Byte
      BY <1>0, <1>4 DEF CallOK, PutFull, Returns, Goto, TypeOK
    <2>3. QED
      BY <1>2, <2>1, <2>2 DEF F!Full
  <1>5. CASE PutPublish(p)
    <2>1. Len(Queue) < Size - 1 /\ Queue' = Append(Queue, byte[p])
      <3>1. head' = Succ(head) /\ Succ(head) # tail /\ data[head] = byte[p]
        BY <1>5 DEF IInv, ProducerSees, PutPublish, Returns, Goto
      <3>2. QED
        BY <1>0, <1>5, <3>1, PublishAppends DEF PutPublish
    <2>2. Moves(F!Put(byte[p]), F!Put0) /\ byte[p] \in Byte
      BY <1>0, <1>5 DEF CallOK, PutPublish, Returns, Goto, TypeOK
    <2>3. QED
      BY <1>2, <2>1, <2>2 DEF F!Store
  <1>6. QED
    BY <1>3, <1>4, <1>5 DEF PutStep

\* What a consumer does to the ring leaves the calls of the others as they are.
LEMMA GetLeavesOthers ==
  ASSUME InTurn, IInv, NEW q \in Consumers, GetCall(q) \/ GetStep(q),
         NEW r \in Process, r # q
  PROVE  InCall'[r] = InCall[r]
  <1>0. q \in Process /\ TypeOK
    BY DEF Process, IInv
  <1>1. GetStep(q) => pc[q] # "idle"
    BY DEF GetStep, GetLoadHead, GetEmpty, GetSome, GetLoad, GetAdvance, GetAdvanceEarly,
       GetLoadLate, Goto, Returns
  <1>2. GetStep(q) => pc[r] # "empty?" /\ pc[r] # "late"
    BY <1>1 DEF IInv, Roles, InTurn, Process
  <1>3. /\ pc'[r] = pc[r] /\ seen'[r] = seen[r] /\ byte'[r] = byte[r] /\ code'[r] = code[r]
        /\ data' = data
        /\ pc[r] = "empty?" => tail' = tail
    BY <1>0, <1>2 DEF GetStep, GetCall, GetLoadHead, GetEmpty, GetSome, GetLoad, GetAdvance,
       GetAdvanceEarly, GetLoadLate, Goto, Returns, TypeOK
  <1>4. QED
    BY <1>3, CallUnmoved

\* The beginning of a call of ring_buffer_get.
LEMMA GetBegins ==
  ASSUME InTurn, IInv, NEW q \in Consumers, GetCall(q)
  PROVE  F!Become(q, F!Idle, F!Get) /\ Queue' = Queue
  <1>0. /\ q \in Process /\ q \notin Producers /\ TypeOK /\ CallOK(q) /\ CallOK(q)'
    BY CallIs, RingAssumption DEF Process, IInv
  <1>1. Queue' = Queue
    BY <1>0, QueueUnmoved DEF GetCall
  <1>2. InCall[q] = F!Idle /\ InCall'[q] = F!Get
    BY <1>0 DEF CallOK, GetCall, Goto, TypeOK
  <1>3. QED
    BY <1>0, <1>1, <1>2, GetLeavesOthers, CallMoves DEF F!Become

\* Every step of ring_buffer_get is that of a get on the queue, or none: the get
\* acts when it advances the tail, early or not, and fails when it has loaded
\* the head of an empty buffer.
LEMMA GetImplements ==
  ASSUME InTurn, IInv, IInv', NEW q \in Consumers, GetStep(q)
  PROVE  F!Take(q) \/ F!Empty(q) \/ UNCHANGED F!vars
  <1>0. /\ q \in Process /\ TypeOK /\ TypeOK' /\ q \notin Producers
        /\ CallOK(q) /\ CallOK(q)'
    BY CallIs, RingAssumption DEF Process, IInv
  <1> DEFINE Moves(c, d) == InCall[q] = c /\ InCall'[q] = d
  <1>1. ASSUME NEW r \in Process, r # q PROVE InCall'[r] = InCall[r]
    BY <1>1, GetLeavesOthers
  <1>2. ASSUME NEW c, NEW d, Moves(c, d) PROVE F!Become(q, c, d)
    BY <1>0, <1>1, <1>2, CallMoves DEF F!Become
  <1>3. CASE GetLoadHead(q)
    <2>1. Queue' = Queue
      BY <1>0, <1>3, QueueUnmoved DEF GetLoadHead
    <2>2. pc[q] = "get" /\ pc'[q] = "empty?" /\ seen'[q] = head /\ tail' = tail
      BY <1>0, <1>3 DEF GetLoadHead, Goto, TypeOK
    <2>3. CASE head = tail
      <3>1. Queue = <<>>
        BY <1>0, <2>3, CountBounds, QueueIsSeq DEF QueueOK
      <3>2. Moves(F!Get, F!Failed)
        BY <1>0, <2>2, <2>3 DEF CallOK
      <3>3. QED
        BY <1>2, <2>1, <3>1, <3>2 DEF F!Empty
    <2>4. CASE head # tail
      <3>1. InCall'[q] = InCall[q]
        BY <1>0, <2>2, <2>4 DEF CallOK
      <3>2. QED
        BY <1>0, <1>1, <2>1, <3>1, Stutters
    <2>5. QED
      BY <2>3, <2>4
  <1>4. CASE GetEmpty(q) \/ GetSome(q) \/ GetLoad(q) \/ GetLoadLate(q)
    <2>1. Queue' = Queue
      BY <1>0, <1>4, QueueUnmoved DEF GetEmpty, GetSome, GetLoad, GetLoadLate
    <2>2. InCall'[q] = InCall[q]
      BY <1>0, <1>4 DEF CallOK, GetEmpty, GetSome, GetLoad, GetLoadLate, Returns, Goto, TypeOK
    <2>3. QED
      BY <1>0, <1>1, <2>1, <2>2, Stutters
  <1>5. CASE GetAdvance(q) \/ GetAdvanceEarly(q)
    <2>1. /\ pc[q] \in {"load", "advance"} /\ head # tail
          /\ tail' = Succ(tail) /\ UNCHANGED <<head, data>>
      BY <1>5 DEF IInv, ConsumerSees, GetAdvance, GetAdvanceEarly, Returns, Goto
    <2>2. Queue # <<>> /\ Head(Queue) = data[tail] /\ Queue' = Tail(Queue)
      BY <1>0, <2>1, AdvanceTakes
    <2>3. Moves(F!Get, F!Get0(data[tail]))
      <3>1. CASE GetAdvance(q)
        BY <1>0, <3>1 DEF CallOK, GetAdvance, Returns, Goto, TypeOK, IInv, ConsumerSees
      <3>2. CASE GetAdvanceEarly(q)
        BY <1>0, <3>2 DEF CallOK, GetAdvanceEarly, Goto, TypeOK
      <3>3. QED
        BY <1>5, <3>1, <3>2
    <2>4. QED
      BY <1>2, <2>2, <2>3 DEF F!Take
  <1>6. QED
    BY <1>3, <1>4, <1>5 DEF GetStep

\* A return is a return.
LEMMA ReturnImplements ==
  ASSUME IInv, NEW p \in Process, Return(p)
  PROVE  F!Return(p)
  <1>0. TypeOK /\ p \in Producers \cup Consumers /\ CallOK(p) /\ CallOK(p)'
    BY CallIs DEF Process, IInv
  <1>1. ASSUME NEW r \in Process, r # p PROVE InCall'[r] = InCall[r]
    BY <1>0, <1>1, CallUnmoved DEF Return, Goto, TypeOK
  <1>2. Queue' = Queue
    BY <1>0, QueueUnmoved DEF Return
  <1>3. InCall[p].op \in {"stored", "got", "failed"} /\ InCall'[p] = F!Idle
    BY <1>0 DEF CallOK, Return, Goto, TypeOK, F!Put0, F!Get0, F!Failed
  <1>4. QED
    BY <1>1, <1>2, <1>3, CallMoves DEF F!Return

\* The buffer starts as the empty queue, with no call on its way.
LEMMA InitImplements == Init => F!Init
  <1> SUFFICES ASSUME Init PROVE F!Init
    OBVIOUS
  <1>1. Queue = <<>>
    <2>1. TypeOK /\ head = tail
      BY InitIInv DEF IInv, Init
    <2>2. QED
      BY <2>1, CountBounds, QueueIsSeq DEF QueueOK
  <1>2. ASSUME NEW r \in Process PROVE InCall[r] = F!Idle
    BY <1>2, CallIs DEF CallOK, Init
  <1>3. InCall = [r \in Process |-> F!Idle]
    <2>1. InCall = [r \in Process |-> InCall[r]]
      BY DEF InCall
    <2>2. QED
      BY <1>2, <2>1
  <1>4. QED
    BY <1>1, <1>3 DEF F!Init, Process

\* A step of the buffer is one of the queue, or none.
LEMMA NextImplements ==
  ASSUME InTurn, IInv, IInv', [Next]_vars
  PROVE  [F!Next]_(F!vars)
  <1>1. CASE UNCHANGED vars
    BY <1>1 DEF vars, F!vars, Queue, InCall, Count
  <1>2. ASSUME NEW p \in Producers, NEW b \in Byte, PutCall(p, b) PROVE F!Next
    BY <1>2, PutBegins DEF F!Next, F!Start, Process
  <1>3. ASSUME NEW p \in Producers, PutStep(p) PROVE [F!Next]_(F!vars)
    BY <1>3, PutImplements DEF F!Next, Process
  <1>4. ASSUME NEW q \in Consumers, GetCall(q) PROVE F!Next
    BY <1>4, GetBegins DEF F!Next, F!Start, Process
  <1>5. ASSUME NEW q \in Consumers, GetStep(q) PROVE [F!Next]_(F!vars)
    BY <1>5, GetImplements DEF F!Next, Process
  <1>6. ASSUME NEW p \in Process, Return(p) PROVE F!Next
    BY <1>6, ReturnImplements DEF F!Next, Process
  <1>7. QED
    BY <1>1, <1>2, <1>3, <1>4, <1>5, <1>6 DEF Next

\* One producer and one consumer without a lock: a queue of Size - 1 bytes,
\* in order and without loss, whose calls fail only when it is full or empty,
\* even though the tail may be stored before the byte it frees is loaded.
THEOREM Implements ==
  ASSUME OneEach
  PROVE  Spec => ImplementsFifo
  <1>1. IInv /\ IInv' /\ [Next]_vars => [F!Next]_(F!vars)
    BY NextImplements DEF OneEach, InTurn
  <1>2. QED
    BY InitImplements, Invariance, <1>1, PTL DEF Spec, ImplementsFifo, F!Spec

-----------------------------------------------------------------------------
\* Who the processes are.
LEMMA Members ==
  ASSUME RingUsers
  PROVE  /\ Producers = {"core1", "uart_rx"} /\ Consumers = {"core2", "echo"}
         /\ Process = {"core1", "uart_rx", "core2", "echo"}
         /\ Test \in Seq(Byte) /\ Len(Test) \in Nat /\ Len(Test) > 0 /\ Len(Test) < Size
         /\ Free # "core2" /\ Free # "echo" /\ Free # "core3" /\ MaxMail \in Nat
  <1>1. Test \in Seq(Byte) /\ Test # <<>> /\ Len(Test) < Size
    BY DEF RingUsers
  <1>2. Len(Test) \in Nat /\ Len(Test) > 0
    BY <1>1, EmptySeq, LenProperties
  <1>3. QED
    BY <1>1, <1>2 DEF RingUsers, Process

\* A move changes the place of the process that makes it, and no other.
LEMMA Moved ==
  ASSUME RingUsers, Places, NEW p \in Process \cup {"core3"}, NEW a, NEW b, Move(p, a, b)
  PROVE  /\ at[p] = a /\ at'[p] = b /\ DOMAIN at' = DOMAIN at
         /\ p # "core1" => at'["core1"] = at["core1"]
         /\ p # "core2" => at'["core2"] = at["core2"]
         /\ p # "core3" => at'["core3"] = at["core3"]
         /\ p # "uart_rx" => at'["uart_rx"] = at["uart_rx"]
         /\ p # "echo" => at'["echo"] = at["echo"]
  BY Members DEF Move, Places

\* A move to another of the process's places.
LEMMA PlacesKept ==
  ASSUME RingUsers, Places, NEW p \in Process \cup {"core3"}, NEW a, NEW b, Move(p, a, b),
         p = "core1" => b \in {"push", "pushed", "wfe"},
         p = "core2" => b \in {"delay", "loop", "got", "ask", "print", "wfe"},
         p = "uart_rx" => b \in {"loop", "put"},
         p = "echo" => b \in {"loop", "got", "ask", "key", "halted"},
         p = "core3" => b \in {"poll", "ask", "report"}
  PROVE  Places'
  <1>1. p \in {"core1", "uart_rx", "core2", "echo", "core3"}
    BY Members
  <1>2. /\ at'[p] = b /\ DOMAIN at' = DOMAIN at
        /\ p # "core1" => at'["core1"] = at["core1"]
        /\ p # "core2" => at'["core2"] = at["core2"]
        /\ p # "core3" => at'["core3"] = at["core3"]
        /\ p # "uart_rx" => at'["uart_rx"] = at["uart_rx"]
        /\ p # "echo" => at'["echo"] = at["echo"]
    BY Moved
  <1>3. QED
    BY <1>1, <1>2 DEF Places

\* The places where SPINLOCK is held.
Printing == {"print", "key", "halted", "report"}

\* A move keeps the lock with who prints, if it takes the lock when it is free and
\* releases it only from where it is held.
LEMMA LockKept ==
  ASSUME RingUsers, Places, LockHeld, NEW p \in Process \cup {"core3"}, NEW a, NEW b, Move(p, a, b),
         \/ lock' = lock /\ b \notin Printing
         \/ lock' = lock /\ a \in Printing
         \/ lock = Free /\ lock' = p
         \/ a \in Printing /\ b \notin Printing /\ lock' = Free
  PROVE  LockHeld'
  <1>1. p \in {"core1", "uart_rx", "core2", "echo", "core3"}
    BY Members
  <1>2. /\ p # "core2" => at'["core2"] = at["core2"]
        /\ p # "echo" => at'["echo"] = at["echo"]
        /\ p # "core3" => at'["core3"] = at["core3"]
        /\ p \in {"core1", "uart_rx"} => a \notin Printing
        /\ at[p] = a /\ at'[p] = b
    BY <1>1, Moved DEF Places, Printing
  <1>3. QED
    BY <1>1, <1>2, Members DEF LockHeld, Places, Printing

\* What holds for any timing.
AnyTiming == ClientsTypeOK /\ LockHeld

\* It holds when the cores start.
LEMMA InitAnyTiming == RingUsers /\ ClientsInit => AnyTiming
  BY Members, EmptySeq DEF ClientsInit, AnyTiming, ClientsTypeOK, Places, LockHeld

\* Any move of the other cores' loops keeps it, whatever it does to the ring.
LEMMA MoveAnyTiming ==
  ASSUME RingUsers, AnyTiming, UNCHANGED <<held, sent, typed>>,
         NEW p \in {"core2", "uart_rx", "echo", "core3"}, NEW a, NEW b, Move(p, a, b),
         p = "core2" => b \in {"delay", "loop", "got", "ask", "print", "wfe"},
         p = "uart_rx" => b \in {"loop", "put"},
         p = "echo" => b \in {"loop", "got", "ask", "key", "halted"},
         p = "core3" => b \in {"poll", "ask", "report"},
         \/ lock' = lock /\ b \notin Printing
         \/ lock' = lock /\ a \in Printing
         \/ lock = Free /\ lock' = p
         \/ a \in Printing /\ b \notin Printing /\ lock' = Free,
         turn' \in {"none", "uart_rx", "echo"}, rx' \in Seq(Byte), mail' \in 0 .. MaxMail
  PROVE  AnyTiming'
  <1>0. /\ ClientsTypeOK /\ LockHeld /\ Places /\ p \in Process \cup {"core3"} /\ p # "core1"
    BY Members DEF AnyTiming, ClientsTypeOK
  <1>1. Places' /\ LockHeld' /\ at'["core1"] = at["core1"]
    BY <1>0, Moved, PlacesKept, LockKept
  <1>2. QED
    BY <1>0, <1>1 DEF AnyTiming, ClientsTypeOK

\* No step of Core 1 disturbs it, ...
LEMMA Core1AnyTiming ==
  ASSUME RingUsers, AnyTiming, Core1, UNCHANGED held PROVE AnyTiming'
  <1>0. /\ ClientsTypeOK /\ LockHeld /\ Places /\ "core1" \in Process \cup {"core3"}
        /\ Len(Test) \in Nat
    BY Members DEF AnyTiming, ClientsTypeOK
  <1>1. CASE Push
    <2>1. Move("core1", "push", "pushed")
      BY <1>1 DEF Push
    <2>2. LockHeld'
      BY <1>0, <1>1, <2>1, LockKept DEF Push, Printing
    <2>3. Places' /\ at'["core1"] = "pushed" /\ at["core1"] = "push"
      BY <1>0, <2>1, Moved, PlacesKept
    <2>4. QED
      BY <1>0, <1>1, <2>2, <2>3 DEF AnyTiming, Push, ClientsTypeOK
  <1>2. CASE Pushed
    <2>1. \/ Move("core1", "pushed", "push") /\ sent < Len(Test)
          \/ Move("core1", "pushed", "wfe") /\ ~(sent < Len(Test))
      BY <1>2 DEF Pushed
    <2>2. LockHeld'
      BY <1>0, <1>2, <2>1, LockKept DEF Pushed, Printing
    <2>3. Places' /\ at'["core1"] = IF sent < Len(Test) THEN "push" ELSE "wfe"
      BY <1>0, <2>1, Moved, PlacesKept
    <2>4. QED
      BY <1>0, <1>2, <2>2, <2>3 DEF AnyTiming, Pushed, ClientsTypeOK
  <1>3. CASE InRing("core1")
    BY <1>3 DEF InRing, clients, AnyTiming, ClientsTypeOK, Places, LockHeld
  <1>4. QED
    BY <1>1, <1>2, <1>3 DEF Core1

\* ... no step of Core 2, ...
LEMMA Core2AnyTiming ==
  ASSUME RingUsers, AnyTiming, Core2, UNCHANGED held PROVE AnyTiming'
  <1>0. turn \in {"none", "uart_rx", "echo"} /\ rx \in Seq(Byte) /\ mail \in 0 .. MaxMail
    BY DEF AnyTiming, ClientsTypeOK
  <1>1. CASE Delayed
    BY <1>0, <1>1, MoveAnyTiming DEF Delayed, Printing
  <1>2. CASE Get
    BY <1>0, <1>2, MoveAnyTiming DEF Get, Printing
  <1>3. CASE GotByte
    BY <1>0, <1>3, MoveAnyTiming DEF GotByte, Printing
  <1>4. CASE GotNothing
    BY <1>0, <1>4, MoveAnyTiming DEF GotNothing, Printing
  <1>5. CASE Wake
    BY <1>0, <1>5, MoveAnyTiming DEF Wake, Printing
  <1>6. CASE AskPrint
    BY <1>0, <1>6, MoveAnyTiming DEF AskPrint, Acquire, Printing
  <1>7. CASE PrintByte
    BY <1>0, <1>7, MoveAnyTiming DEF PrintByte, Printing
  <1>8. CASE InRing("core2")
    BY <1>8 DEF InRing, clients, AnyTiming, ClientsTypeOK, Places, LockHeld
  <1>9. QED
    BY <1>1, <1>2, <1>3, <1>4, <1>5, <1>6, <1>7, <1>8 DEF Core2

\* ... no step of the tasks of Core 0, ...
LEMMA Core0AnyTiming ==
  ASSUME RingUsers, AnyTiming, Core0, UNCHANGED held PROVE AnyTiming'
  <1>0. turn \in {"none", "uart_rx", "echo"} /\ rx \in Seq(Byte) /\ mail \in 0 .. MaxMail
    BY DEF AnyTiming, ClientsTypeOK
  <1>1. CASE StartTasks \/ RxNothing
    BY <1>1 DEF StartTasks, RxNothing, Yield, AnyTiming, ClientsTypeOK, Places, LockHeld
  <1>2. CASE RxByte
    <2>1. rx' \in Seq(Byte)
      BY <1>0, <1>2, HeadTailProperties DEF RxByte
    <2>2. QED
      BY <1>0, <1>2, <2>1, MoveAnyTiming DEF RxByte, Printing
  <1>3. CASE RxStored
    BY <1>0, <1>3, MoveAnyTiming DEF RxStored, Yield, Printing
  <1>4. CASE EchoGet
    BY <1>0, <1>4, MoveAnyTiming DEF EchoGet, Printing
  <1>5. CASE EchoNothing
    BY <1>0, <1>5, MoveAnyTiming DEF EchoNothing, Yield, Printing
  <1>6. CASE EchoByte
    BY <1>0, <1>6, MoveAnyTiming DEF EchoByte, Printing
  <1>7. CASE AskKey
    BY <1>0, <1>7, MoveAnyTiming DEF AskKey, Acquire, Printing
  <1>8. CASE Halt
    BY <1>0, <1>8, MoveAnyTiming DEF Halt, Printing
  <1>9. CASE Echo
    BY <1>0, <1>9, MoveAnyTiming DEF Echo, Yield, Printing
  <1>10. CASE InRing("uart_rx") \/ InRing("echo")
    BY <1>10 DEF InRing, clients, AnyTiming, ClientsTypeOK, Places, LockHeld
  <1>11. QED
    BY <1>1, <1>2, <1>3, <1>4, <1>5, <1>6, <1>7, <1>8, <1>9, <1>10 DEF Core0

\* ... and none of Core 3, nor a key that is typed.
LEMMA NextAnyTiming == RingUsers /\ AnyTiming /\ [ClientsNext]_allVars => AnyTiming'
  <1> SUFFICES ASSUME RingUsers, AnyTiming, [ClientsNext]_allVars PROVE AnyTiming'
    OBVIOUS
  <1>0. /\ turn \in {"none", "uart_rx", "echo"} /\ mail \in 0 .. MaxMail
        /\ rx \in Seq(Byte) /\ typed \in Seq(Byte)
    BY DEF AnyTiming, ClientsTypeOK
  <1>1. ASSUME Core3, UNCHANGED held PROVE AnyTiming'
    <2>1. CASE Poll
      BY <1>1, <2>1 DEF Poll, AnyTiming, ClientsTypeOK, Places, LockHeld
    <2>2. CASE PollMessage
      <3>1. mail' \in 0 .. MaxMail
        BY <1>0, <2>2, Members DEF PollMessage
      <3>2. QED
        BY <1>0, <1>1, <2>2, <3>1, MoveAnyTiming DEF PollMessage, Printing
    <2>3. CASE AskReport
      BY <1>0, <1>1, <2>3, MoveAnyTiming DEF AskReport, Acquire, Printing
    <2>4. CASE Report
      BY <1>0, <1>1, <2>4, MoveAnyTiming DEF Report, Printing
    <2>5. QED
      BY <1>1, <2>1, <2>2, <2>3, <2>4 DEF Core3
  <1>2. ASSUME NEW b \in Byte, Type(b), UNCHANGED held PROVE AnyTiming'
    <2>1. rx' \in Seq(Byte) /\ typed' \in Seq(Byte)
      BY <1>0, <1>2, AppendProperties DEF Type
    <2>2. QED
      BY <1>2, <2>1 DEF Type, AnyTiming, ClientsTypeOK, Places, LockHeld
  <1>3. CASE UNCHANGED allVars
    BY <1>3 DEF allVars, clients, AnyTiming, ClientsTypeOK, Places, LockHeld
  <1>4. QED
    BY <1>1, <1>2, <1>3, Core0AnyTiming, Core1AnyTiming, Core2AnyTiming DEF ClientsNext

\* Ctrl+C is final for any timing: who prints under SPINLOCK has it, and Core 0 keeps it.
THEOREM SpinlockStaysHalted ==
  ASSUME RingUsers
  PROVE  SafeSpec => HaltIsFinal
  <1>1. AnyTiming /\ [ClientsNext]_allVars
          => [Halted => UNCHANGED <<got, out>> /\ at'["core3"] # "report"]_allVars
    <2> SUFFICES ASSUME AnyTiming, ClientsNext, Halted
                 PROVE  UNCHANGED <<got, out>> /\ at'["core3"] # "report"
      OBVIOUS
    <2>1. /\ at["echo"] = "halted" /\ lock = "echo" /\ lock # Free
          /\ at["core2"] # "print" /\ at["core3"] # "report"
      BY Members DEF Halted, AnyTiming, LockHeld
    <2>2. ~PrintByte /\ ~Echo /\ ~Halt /\ ~AskReport /\ ~Report /\ ~AskPrint /\ ~AskKey
      BY <2>1 DEF PrintByte, Echo, Halt, AskReport, Report, AskPrint, AskKey, Acquire, Move
    <2>3. UNCHANGED <<got, out>>
      BY <2>2 DEF ClientsNext, Core0, Core1, Core2, Core3, InRing, clients, Push, Pushed, Delayed,
         Get, GotByte, GotNothing, Wake, Type, StartTasks, RxNothing, RxByte, RxStored,
         EchoGet, EchoNothing, EchoByte, Poll, PollMessage
    <2>4. at["core3"] # "report" /\ DOMAIN at = Process \cup {"core3"}
      BY <2>1 DEF AnyTiming, ClientsTypeOK, Places
    <2>5. ASSUME Core3 PROVE at'["core3"] # "report"
      BY <2>2, <2>4, <2>5 DEF Core3, Poll, PollMessage, Move
    <2>6. ASSUME Core0 PROVE at'["core3"] # "report"
      BY <2>2, <2>4, <2>6 DEF Core0, InRing, clients, StartTasks, RxNothing, RxByte, RxStored, EchoGet,
         EchoNothing, EchoByte, Move
    <2>7. ASSUME Core1 \/ Core2 \/ \E b \in Byte : Type(b)
          PROVE  at'["core3"] # "report"
      BY <2>2, <2>4, <2>7 DEF Core1, Core2, InRing, clients, Push, Pushed, Delayed, Get, GotByte,
         GotNothing, Wake, Type, Move
    <2>8. at'["core3"] # "report"
      BY <2>5, <2>6, <2>7 DEF ClientsNext
    <2>9. QED
      BY <2>3, <2>8
  <1>2. QED
    BY InitAnyTiming, NextAnyTiming, <1>1, PTL DEF SafeSpec, HaltIsFinal

-----------------------------------------------------------------------------
\* While everyone keeps to the places of its loop, nobody is in the ring twice.
LEMMA ApartInTurn == RingUsers /\ AnyTiming /\ Apart => InTurn
  <1> SUFFICES ASSUME RingUsers, AnyTiming, Apart PROVE InTurn
    OBVIOUS
  <1>1. pc["core1"] = "idle" \/ pc["uart_rx"] = "idle"
    BY DEF Apart, Received
  <1>2. pc["core2"] = "idle" \/ pc["echo"] = "idle"
    BY DEF Apart, Received
  <1>3. QED
    BY <1>1, <1>2, Members DEF InTurn

\* A step of a process in the ring.
RingAct(p) == \/ p \in Producers /\ ((\E b \in Byte : PutCall(p, b)) \/ PutStep(p))
              \/ p \in Consumers /\ (GetCall(p) \/ GetStep(p))
              \/ Return(p)

\* The steps in the middle of a call are made inside it.
LEMMA StepsInCall ==
  ASSUME NEW p, PutStep(p) \/ GetStep(p) \/ Return(p)
  PROVE  pc[p] # "idle"
  BY DEF PutStep, PutLoadHead, PutFull, PutRoom, PutStore, PutPublish, GetStep, GetLoadHead, GetEmpty,
     GetSome, GetLoad, GetAdvance, GetAdvanceEarly, GetLoadLate, Return, Goto, Returns

\* A step in the ring leaves the places, the calls and the bytes of the others alone.
LEMMA OthersKeep ==
  ASSUME InTurn, IInv, NEW p \in Process, RingAct(p), NEW r \in Process, r # p
  PROVE  InCall'[r] = InCall[r] /\ pc'[r] = pc[r] /\ byte'[r] = byte[r]
  <1>0. TypeOK
    BY DEF IInv
  <1>1. CASE p \in Producers /\ ((\E b \in Byte : PutCall(p, b)) \/ PutStep(p))
    <2>1. InCall'[r] = InCall[r]
      BY <1>1, PutLeavesOthers
    <2>2. pc'[r] = pc[r] /\ byte'[r] = byte[r]
      BY <1>0, <1>1 DEF PutCall, PutStep, PutLoadHead, PutFull, PutRoom, PutStore, PutPublish, Goto,
         Returns, TypeOK
    <2>3. QED
      BY <2>1, <2>2
  <1>2. CASE p \in Consumers /\ (GetCall(p) \/ GetStep(p))
    <2>1. InCall'[r] = InCall[r]
      BY <1>2, GetLeavesOthers
    <2>2. pc'[r] = pc[r] /\ byte'[r] = byte[r]
      BY <1>0, <1>2 DEF GetCall, GetStep, GetLoadHead, GetEmpty, GetSome, GetLoad, GetAdvance,
         GetAdvanceEarly, GetLoadLate, Goto, Returns, TypeOK
    <2>3. QED
      BY <2>1, <2>2
  <1>3. CASE Return(p)
    <2>1. pc'[r] = pc[r] /\ byte'[r] = byte[r]
      BY <1>0, <1>3 DEF Return, Goto, TypeOK
    <2>2. F!Return(p)
      BY <1>3, ReturnImplements
    <2>3. InCall'[r] = InCall[r]
      BY <2>2 DEF F!Return, InCall
    <2>4. QED
      BY <2>1, <2>3
  <1>4. QED
    BY <1>1, <1>2, <1>3 DEF RingAct

\* What a process holds, by the call it is in and its place.
HoldsOK(p) ==
  /\ InCall[p].op \notin {"put", "got"} =>
       Holds(p) = IF at[p] \in {"ask", "print", "key"} THEN <<byte[p]>> ELSE <<>>
  /\ InCall[p] \in {F!Idle, F!Get, F!Failed, F!Put0} => InCall[p].op \notin {"put", "got"}
  /\ \A b : InCall[p] = F!Put(b) \/ InCall[p] = F!Get0(b) => Holds(p) = <<b>>

\* HoldsOK holds, before a step and after it.
LEMMA HoldsBy == \A p \in Process : HoldsOK(p) /\ HoldsOK(p)'
  <1> SUFFICES ASSUME NEW p \in Process PROVE HoldsOK(p) /\ HoldsOK(p)'
    OBVIOUS
  <1>1. HoldsOK(p)
    <2>1. InCall[p].op \notin {"put", "got"} =>
            Holds(p) = IF at[p] \in {"ask", "print", "key"} THEN <<byte[p]>> ELSE <<>>
      BY DEF Holds
    <2>2. InCall[p] \in {F!Idle, F!Get, F!Failed, F!Put0} => InCall[p].op \notin {"put", "got"}
      BY DEF F!Idle, F!Get, F!Failed, F!Put0
    <2>3. ASSUME NEW b, InCall[p] = F!Put(b) \/ InCall[p] = F!Get0(b) PROVE Holds(p) = <<b>>
      <3>1. InCall[p].op \in {"put", "got"} /\ InCall[p].byte = b
        BY <2>3 DEF F!Put, F!Get0
      <3>2. Holds(p) = <<InCall[p].byte>>
        BY <3>1 DEF Holds
      <3>3. QED
        BY <3>1, <3>2
    <2>4. QED
      BY <2>1, <2>2, <2>3 DEF HoldsOK
  <1>2. HoldsOK(p)'
    <2>1. InCall'[p].op \notin {"put", "got"} =>
            Holds(p)' = IF at'[p] \in {"ask", "print", "key"} THEN <<byte'[p]>> ELSE <<>>
      BY DEF Holds
    <2>2. InCall'[p] \in {F!Idle, F!Get, F!Failed, F!Put0} => InCall'[p].op \notin {"put", "got"}
      BY DEF F!Idle, F!Get, F!Failed, F!Put0
    <2>3. ASSUME NEW b, InCall'[p] = F!Put(b) \/ InCall'[p] = F!Get0(b) PROVE Holds(p)' = <<b>>
      <3>1. InCall'[p].op \in {"put", "got"} /\ InCall'[p].byte = b
        BY <2>3 DEF F!Put, F!Get0
      <3>2. Holds(p)' = <<InCall'[p].byte>>
        BY <3>1 DEF Holds
      <3>3. QED
        BY <3>1, <3>2
    <2>4. QED
      BY <2>1, <2>2, <2>3 DEF HoldsOK
  <1>3. QED
    BY <1>1, <1>2

\* What a process holds changes only with its call, its byte or its place.
LEMMA HoldsSame ==
  ASSUME NEW r, InCall'[r] = InCall[r], byte'[r] = byte[r], at'[r] = at[r]
  PROVE  Holds(r)' = Holds(r)
  BY DEF Holds

\* What a process holds is a byte or nothing.
LEMMA HoldsType ==
  ASSUME TypeOK, NEW p \in Process
  PROVE  Holds(p) \in Seq(Byte)
  <1>1. byte[p] \in Byte /\ data[seen[p]] \in Byte
    BY DEF TypeOK
  <1>2. InCall[p].op \in {"put", "got"} => InCall[p].byte \in Byte
    BY <1>1 DEF InCall
  <1>3. \A b \in Byte : <<b>> \in Seq(Byte)
    OBVIOUS
  <1>4. <<>> \in Seq(Byte)
    OBVIOUS
  <1>5. QED
    BY <1>1, <1>2, <1>3, <1>4 DEF Holds

-----------------------------------------------------------------------------
\* What remains of a sequence, one element further.
LEMMA AfterNext ==
  ASSUME NEW S, NEW s \in Seq(S), NEW n \in Nat, n < Len(s)
  PROVE  /\ After(s, n) \in Seq(S) /\ After(s, n) # <<>> /\ Len(After(s, n)) = Len(s) - n
         /\ s[n + 1] \in S /\ Head(After(s, n)) = s[n + 1]
         /\ Tail(After(s, n)) = After(s, n + 1)
  <1>1. Len(s) \in Nat /\ n + 1 \in 1 .. Len(s) /\ Len(s) \in n + 1 .. Len(s)
    BY LenProperties
  <1>2. \A i \in n + 1 .. Len(s) : s[i] \in S
    BY ElementOfSeq
  <1>3. After(s, n) \in Seq(S) /\ Len(After(s, n)) = Len(s) - n
    BY <1>1, <1>2, SubSeqProperties DEF After
  <1>4. Head(After(s, n)) = s[n + 1] /\ Tail(After(s, n)) = After(s, n + 1)
    BY <1>1, HeadTailOfSubSeq DEF After
  <1>5. After(s, n) # <<>>
    <2>1. Len(After(s, n)) # 0
      BY <1>1, <1>3
    <2>2. QED
      BY <2>1, EmptySeq
  <1>6. QED
    BY <1>1, <1>2, <1>3, <1>4, <1>5

\* Nothing remains after the last.
LEMMA AfterAll ==
  ASSUME NEW S, NEW s \in Seq(S)
  PROVE  After(s, Len(s)) = <<>>
  BY SubSeqEmpty, LenProperties DEF After

\* All remains after nothing.
LEMMA AfterNone ==
  ASSUME NEW S, NEW s \in Seq(S)
  PROVE  After(s, 0) = s
  BY SubSeqFull DEF After

\* A new last element comes after all others.
LEMMA AfterAppend ==
  ASSUME NEW S, NEW s \in Seq(S), NEW b \in S, NEW n \in 0 .. Len(s)
  PROVE  After(Append(s, b), n) = Append(After(s, n), b)
  <1> DEFINE t == Append(s, b)
  <1>1. /\ t \in Seq(S) /\ Len(t) = Len(s) + 1 /\ Len(s) \in Nat
        /\ \A i \in 1 .. Len(s) : t[i] = s[i]
        /\ t[Len(s) + 1] = b
    BY AppendProperties, LenProperties
  <1>2. \A i \in n + 1 .. Len(s) : s[i] \in S
    BY ElementOfSeq, <1>1
  <1>3. \A i \in n + 1 .. Len(t) : t[i] \in S
    BY ElementOfSeq, <1>1
  <1> HIDE DEF t
  <1>4. /\ After(s, n) \in Seq(S) /\ Len(After(s, n)) = Len(s) - n
        /\ \A i \in 1 .. Len(s) - n : After(s, n)[i] = s[n + i]
    BY <1>1, <1>2, SubSeqProperties DEF After
  <1>5. /\ After(t, n) \in Seq(S) /\ Len(After(t, n)) = Len(s) + 1 - n
        /\ \A i \in 1 .. Len(s) + 1 - n : After(t, n)[i] = t[n + i]
    BY <1>1, <1>3, SubSeqProperties DEF After
  <1> DEFINE u == After(s, n)
             v == After(t, n)
  <1>u. /\ u \in Seq(S) /\ Len(u) = Len(s) - n /\ \A i \in 1 .. Len(s) - n : u[i] = s[n + i]
    BY <1>4 DEF u
  <1>v. /\ v \in Seq(S) /\ Len(v) = Len(s) + 1 - n /\ \A i \in 1 .. Len(s) + 1 - n : v[i] = t[n + i]
    BY <1>5 DEF v
  <1> HIDE DEF u, v
  <1>6. /\ Append(u, b) \in Seq(S) /\ Len(Append(u, b)) = Len(u) + 1
        /\ \A i \in 1 .. Len(u) : Append(u, b)[i] = u[i]
        /\ Append(u, b)[Len(u) + 1] = b
    BY <1>u, AppendProperties
  <1>7. ASSUME NEW i \in 1 .. Len(s) + 1 - n PROVE v[i] = Append(u, b)[i]
    <2>1. v[i] = t[n + i]
      BY <1>v
    <2>2. CASE i = Len(s) + 1 - n
      <3>1. n + i = Len(s) + 1 /\ i = Len(u) + 1
        BY <1>1, <1>u, <2>2
      <3>2. v[i] = b
        BY <1>1, <2>1, <3>1, Zenon
      <3>3. QED
        BY <1>6, <3>1, <3>2
    <2>3. CASE i # Len(s) + 1 - n
      <3>1. i \in 1 .. Len(s) - n /\ n + i \in 1 .. Len(s)
        BY <1>1, <2>3
      <3>2. i \in 1 .. Len(u) /\ u[i] = s[n + i]
        BY <1>u, <3>1
      <3>3. v[i] = s[n + i]
        BY <1>1, <2>1, <3>1
      <3>4. QED
        BY <1>6, <3>2, <3>3
    <2>4. QED
      BY <2>2, <2>3
  <1>8. v = Append(u, b)
    <2>1. v \in Seq(S) /\ Len(v) = Len(s) + 1 - n /\ Len(Append(u, b)) = Len(s) + 1 - n
      BY <1>1, <1>u, <1>v, <1>6
    <2>2. QED
      BY <1>6, <1>7, <2>1, SeqEqual
  <1>9. QED
    BY <1>8 DEF t, u, v

\* A byte that a process takes from its input is, held, at the same place of what is on
\* its way.
LEMMA MovesOn ==
  ASSUME NEW S, NEW r \in Seq(S), r # <<>>
  PROVE  <<Head(r)>> \o Tail(r) = r /\ <<>> \o r = r
  <1>1. Len(r) \in Nat /\ 1 \in 1 .. Len(r) /\ Len(r) \in 1 .. Len(r)
    BY EmptySeq, LenProperties
  <1>2. SubSeq(r, 1, Len(r)) = <<r[1]>> \o SubSeq(r, 1 + 1, Len(r))
    BY <1>1, SubSeqRecursiveFirst
  <1>3. SubSeq(r, 1, Len(r)) = r /\ Tail(r) = SubSeq(r, 2, Len(r)) /\ Head(r) = r[1]
    BY SubSeqFull, TailIsSubSeq
  <1>4. QED
    BY <1>2, <1>3, ConcatEmptySeq

\* A byte that goes from who holds it to the ring keeps its place, ...
LEMMA StoresOn ==
  ASSUME NEW S, NEW q \in Seq(S), NEW b \in S, NEW r \in Seq(S)
  PROVE  q \o (<<b>> \o r) = Append(q, b) \o (<<>> \o r)
  <1>1. <<b>> \in Seq(S)
    OBVIOUS
  <1>2. (q \o <<b>>) \o r = q \o (<<b>> \o r)
    BY <1>1, ConcatAssociative
  <1>3. Append(q, b) = q \o <<b>> /\ <<>> \o r = r
    BY AppendIsConcat, ConcatEmptySeq
  <1>4. QED
    BY <1>2, <1>3

\* ... and one that goes from the ring to who gets it.
LEMMA TakesOn ==
  ASSUME NEW S, NEW q \in Seq(S), q # <<>>, NEW r \in Seq(S)
  PROVE  <<>> \o (q \o r) = <<Head(q)>> \o (Tail(q) \o r)
  <1>1. <<Head(q)>> \in Seq(S) /\ Tail(q) \in Seq(S) /\ q \o r \in Seq(S)
    BY HeadTailProperties, ConcatProperties
  <1>2. (<<Head(q)>> \o Tail(q)) \o r = <<Head(q)>> \o (Tail(q) \o r)
    BY <1>1, ConcatAssociative
  <1>3. <<Head(q)>> \o Tail(q) = q /\ <<>> \o (q \o r) = q \o r
    BY <1>1, MovesOn, ConcatEmptySeq
  <1>4. QED
    BY <1>2, <1>3

\* What is appended to the last part is appended to the whole.
LEMMA AppendsOn ==
  ASSUME NEW S, NEW q \in Seq(S), NEW b \in S, NEW r \in Seq(S)
  PROVE  q \o Append(r, b) = Append(q \o r, b)
  <1>1. <<b>> \in Seq(S) /\ q \o r \in Seq(S)
    BY ConcatProperties
  <1>2. (q \o r) \o <<b>> = q \o (r \o <<b>>)
    BY <1>1, ConcatAssociative
  <1>3. Append(r, b) = r \o <<b>> /\ Append(q \o r, b) = (q \o r) \o <<b>>
    BY <1>1, AppendIsConcat
  <1>4. QED
    BY <1>2, <1>3

-----------------------------------------------------------------------------
\* Puts are made on one side and gets on the other.
LEMMA Sides ==
  ASSUME IInv, NEW p \in Process
  PROVE  /\ p \in Producers /\ (PutStep(p) \/ GetStep(p)) => PutStep(p)
         /\ p \in Consumers /\ (PutStep(p) \/ GetStep(p)) => GetStep(p)
  BY DEF IInv, Roles, PutStep, PutLoadHead, PutFull, PutRoom, PutStore, PutPublish, GetStep,
     GetLoadHead, GetEmpty, GetSome, GetLoad, GetAdvance, GetAdvanceEarly, GetLoadLate, Goto, Returns

\* A step of Core 1 is one of its calls, ...
LEMMA Core1Rings ==
  ASSUME RingUsers, AnyTiming, IInv, Core1
  PROVE  RingAct("core1")
  <1>1. CASE Push
    <2>1. at["core1"] = "push"
      BY <1>1 DEF Push, Move
    <2>2. sent \in Nat /\ sent < Len(Test)
      BY <2>1, Members DEF AnyTiming, ClientsTypeOK
    <2>3. Test[sent + 1] \in Byte
      BY <2>2, Members, AfterNext
    <2>4. QED
      BY <1>1, <2>3, Members DEF Push, RingAct
  <1>2. CASE Pushed
    BY <1>2 DEF Pushed, RingAct
  <1>3. CASE InRing("core1")
    BY <1>3, Sides, Members DEF InRing, RingAct
  <1>4. QED
    BY <1>1, <1>2, <1>3 DEF Core1

\* ... one of Core 2 is too, or leaves the ring alone, ...
LEMMA Core2Rings ==
  ASSUME RingUsers, IInv, Core2
  PROVE  RingAct("core2") \/ UNCHANGED ring
  <1>1. InRing("core2") => RingAct("core2")
    BY Sides, Members DEF InRing, RingAct
  <1>2. Get \/ GotByte \/ GotNothing => RingAct("core2")
    BY Members DEF Get, GotByte, GotNothing, RingAct
  <1>3. QED
    BY <1>1, <1>2 DEF Core2, Delayed, Wake, AskPrint, PrintByte

\* ... and so is one of the tasks of Core 0.
LEMMA Core0Rings ==
  ASSUME RingUsers, AnyTiming, IInv, Core0
  PROVE  RingAct("uart_rx") \/ RingAct("echo") \/ UNCHANGED ring
  <1>1. InRing("uart_rx") => RingAct("uart_rx")
    BY Sides, Members DEF InRing, RingAct
  <1>2. InRing("echo") => RingAct("echo")
    BY Sides, Members DEF InRing, RingAct
  <1>3. RxByte => RingAct("uart_rx")
    <2>1. RxByte => Head(rx) \in Byte
      BY HeadTailProperties DEF RxByte, AnyTiming, ClientsTypeOK
    <2>2. QED
      BY <2>1, Members DEF RxByte, RingAct
  <1>4. RxStored => RingAct("uart_rx")
    BY DEF RxStored, RingAct
  <1>5. EchoGet \/ EchoNothing \/ EchoByte => RingAct("echo")
    BY Members DEF EchoGet, EchoNothing, EchoByte, RingAct
  <1>6. QED
    BY <1>1, <1>2, <1>3, <1>4, <1>5 DEF Core0, StartTasks, RxNothing, AskKey, Halt, Echo

\* So every step is one of the ring's, or leaves it alone.
LEMMA ClientsRing ==
  ASSUME RingUsers, AnyTiming, IInv, [ClientsNext]_allVars
  PROVE  [Next]_vars
  <1>1. ASSUME NEW p \in Process, RingAct(p) PROVE Next
    BY <1>1 DEF RingAct, Next
  <1>2. Core1 \/ Core2 \/ Core0 => Next \/ UNCHANGED vars
    BY <1>1, Core1Rings, Core2Rings, Core0Rings, Members DEF ring
  <1>3. Core3 \/ (\E b \in Byte : Type(b)) \/ UNCHANGED allVars => UNCHANGED vars
    BY DEF Core3, Poll, PollMessage, AskReport, Report, Type, allVars, ring
  <1>4. QED
    BY <1>2, <1>3 DEF ClientsNext

\* Hence the ring keeps its invariant while the delays hold.
LEMMA RingKept ==
  ASSUME RingUsers, AnyTiming, IInv, Apart, [ClientsNext]_allVars
  PROVE  InTurn /\ IInv' /\ [Next]_vars
  BY ApartInTurn, ClientsRing, NextIInv

-----------------------------------------------------------------------------
\* Core 1 acts before Core 2 has got through its delay and sched_run has started, ...
LEMMA Core1Acts ==
  ASSUME RingUsers, AnyTiming, Apart, Core1
  PROVE  turn = "none" /\ at["core2"] = "delay" /\ at["core1"] # "wfe"
  <1>1. at["core1"] # "wfe"
    <2>1. InRing("core1") => pc["core1"] # "idle"
      BY StepsInCall DEF InRing
    <2>2. QED
      BY <2>1 DEF Core1, Push, Pushed, Move, Apart
  <1>2. QED
    BY <1>1 DEF Apart

\* ... Core 2 before it has received everything, ...
LEMMA Core2Acts ==
  ASSUME RingUsers, AnyTiming, Apart, Core2
  PROVE  turn = "none" /\ ~Received
  <1>1. ~Received
    <2>1. InRing("core2") => pc["core2"] # "idle"
      BY StepsInCall DEF InRing
    <2>2. InRing("core2") => at["core2"] = "got"
      BY <2>1 DEF Apart
    <2>3. Len(got) < Len(Test) => Len(got) # Len(Test)
      BY Members
    <2>4. QED
      BY <2>2, <2>3 DEF Core2, Delayed, Get, GotByte, GotNothing, Wake, AskPrint, PrintByte, Acquire,
         Move, Received
  <1>2. QED
    BY <1>1 DEF Apart

\* ... and each task in its turn.
LEMMA TasksAct ==
  ASSUME RingUsers, AnyTiming, Apart
  PROVE  /\ RxNothing \/ RxByte \/ RxStored \/ InRing("uart_rx") => turn = "uart_rx"
         /\ EchoGet \/ EchoNothing \/ EchoByte \/ AskKey \/ Halt \/ Echo \/ InRing("echo") => turn = "echo"
  <1>1. InRing("uart_rx") => turn = "uart_rx"
    BY StepsInCall DEF InRing, Apart
  <1>2. InRing("echo") => turn = "echo"
    BY StepsInCall DEF InRing, Apart
  <1>3. QED
    BY <1>1, <1>2 DEF RxNothing, RxByte, RxStored, EchoGet, EchoNothing, EchoByte, AskKey, Halt, Echo,
       Yield, Acquire, Move, Apart

-----------------------------------------------------------------------------
\* The cores stay apart, whatever Core 1 does, ...
LEMMA Core1Apart ==
  ASSUME RingUsers, AnyTiming, IInv, Apart, Core1 PROVE Apart'
  <1>0. /\ ClientsTypeOK /\ Places /\ "core1" \in Process /\ "core1" \in Process \cup {"core3"}
        /\ TypeOK /\ InTurn /\ turn = "none" /\ at["core2"] = "delay"
    BY Members, ApartInTurn, Core1Acts DEF AnyTiming, ClientsTypeOK, IInv
  <1>1. pc'["core2"] = pc["core2"] /\ pc'["uart_rx"] = pc["uart_rx"] /\ pc'["echo"] = pc["echo"]
    BY <1>0, Core1Rings, OthersKeep, Members
  <1>2. UNCHANGED <<turn, got>>
    BY DEF Core1, Push, Pushed, InRing, clients
  <1>3. CASE Push
    <2>1. Move("core1", "push", "pushed")
      BY <1>3 DEF Push
    <2>2. /\ at'["core1"] = "pushed" /\ at'["core2"] = at["core2"]
          /\ at'["uart_rx"] = at["uart_rx"] /\ at'["echo"] = at["echo"]
      BY <1>0, <2>1, Moved
    <2>3. QED
      BY <1>0, <1>1, <1>2, <2>2 DEF Apart
  <1>4. CASE Pushed
    <2>1. Move("core1", "pushed", "push") \/ Move("core1", "pushed", "wfe")
      BY <1>4 DEF Pushed
    <2>2. /\ at'["core2"] = at["core2"]
          /\ at'["uart_rx"] = at["uart_rx"] /\ at'["echo"] = at["echo"]
      BY <1>0, <2>1, Moved
    <2>3. pc'["core1"] = "idle"
      BY <1>0, <1>4 DEF Pushed, Return, Goto, TypeOK
    <2>4. QED
      BY <1>0, <1>1, <1>2, <2>2, <2>3 DEF Apart
  <1>5. CASE InRing("core1")
    <2>1. at' = at /\ at["core1"] = "pushed"
      BY <1>5, StepsInCall DEF InRing, clients, Apart
    <2>2. QED
      BY <1>0, <1>1, <1>2, <2>1 DEF Apart
  <1>6. QED
    BY <1>3, <1>4, <1>5 DEF Core1

\* ... Core 2 does, ...
LEMMA Core2Apart ==
  ASSUME RingUsers, AnyTiming, IInv, Apart, Settled, Core2 PROVE Apart'
  <1>0. /\ ClientsTypeOK /\ Places /\ "core2" \in Process /\ "core2" \in Process \cup {"core3"}
        /\ TypeOK /\ InTurn /\ turn = "none"
    BY Members, ApartInTurn, Core2Acts DEF AnyTiming, ClientsTypeOK, IInv
  <1>1. /\ pc'["core1"] = pc["core1"] /\ pc'["uart_rx"] = pc["uart_rx"] /\ pc'["echo"] = pc["echo"]
        /\ RingAct("core2") \/ pc' = pc
    <2>1. RingAct("core2") \/ pc' = pc
      BY Core2Rings DEF vars, ring
    <2>2. QED
      BY <1>0, <2>1, OthersKeep, Members
  <1>2. UNCHANGED turn
    BY DEF Core2, Delayed, Get, GotByte, GotNothing, Wake, AskPrint, PrintByte, InRing, clients
  <1>3. CASE InRing("core2")
    <2>1. at' = at /\ got' = got /\ at["core2"] = "got"
      BY <1>3, StepsInCall DEF InRing, clients, Apart
    <2>2. QED
      BY <1>0, <1>1, <1>2, <2>1 DEF Apart
  <1>4. ASSUME NEW a, NEW b, Move("core2", a, b), b = "got" \/ pc'["core2"] = "idle",
               at["core1"] = "wfe"
        PROVE  Apart'
    <2>1. /\ at'["core2"] = b /\ at'["core1"] = at["core1"]
          /\ at'["uart_rx"] = at["uart_rx"] /\ at'["echo"] = at["echo"]
      BY <1>0, <1>4, Moved
    <2>2. QED
      BY <1>0, <1>1, <1>2, <1>4, <2>1 DEF Apart
  <1>5. CASE Delayed
    <2>1. at["core1"] = "wfe" /\ pc'["core2"] = "idle"
      BY <1>5 DEF Delayed, Settled, AllPairs, Move, Apart, ring, vars
    <2>2. QED
      BY <1>4, <1>5, <2>1 DEF Delayed
  <1>6. at["core2"] # "delay" => at["core1"] = "wfe"
    BY DEF Apart
  <1>7. CASE Get
    <2>1. at["core2"] = "loop" /\ Move("core2", "loop", "got")
      BY <1>7 DEF Get, Move
    <2>2. QED
      BY <1>4, <1>6, <2>1
  <1>8. CASE GotByte \/ GotNothing
    <2>1. at["core2"] = "got" /\ pc'["core2"] = "idle"
      BY <1>0, <1>8 DEF GotByte, GotNothing, Move, Return, Goto, TypeOK
    <2>2. QED
      BY <1>4, <1>6, <1>8, <2>1 DEF GotByte, GotNothing
  <1>9. CASE Wake \/ AskPrint \/ PrintByte
    <2>1. at["core2"] \in {"wfe", "ask", "print"} /\ pc' = pc
      BY <1>9 DEF Wake, AskPrint, PrintByte, Acquire, Move, ring, vars
    <2>2. pc'["core2"] = "idle" /\ at["core1"] = "wfe"
      BY <1>6, <2>1 DEF Apart
    <2>3. QED
      BY <1>4, <1>9, <2>2 DEF Wake, AskPrint, PrintByte, Acquire
  <1>10. QED
    BY <1>3, <1>5, <1>7, <1>8, <1>9 DEF Core2

\* ... or the tasks of Core 0 do.
LEMMA Core0Apart ==
  ASSUME RingUsers, AnyTiming, IInv, Apart, Settled, Core0 PROVE Apart'
  <1>0. /\ ClientsTypeOK /\ Places /\ {"uart_rx", "echo"} \subseteq Process \cup {"core3"}
        /\ TypeOK /\ InTurn /\ "uart_rx" \in Process /\ "echo" \in Process
    BY Members, ApartInTurn DEF AnyTiming, ClientsTypeOK, IInv
  <1>1. UNCHANGED got
    BY DEF Core0, StartTasks, RxNothing, RxByte, RxStored, InRing, clients, EchoGet, EchoNothing,
       EchoByte, AskKey, Halt, Echo
  <1>2. CASE StartTasks
    BY <1>2 DEF StartTasks, Settled, AllPairs, Apart, Received, ring, vars
  <1>3. CASE RxNothing
    BY <1>3 DEF RxNothing, Yield, Apart, Received, ring, vars
  <1>4. ASSUME NEW a, NEW b, Move("uart_rx", a, b), turn = "uart_rx",
               RingAct("uart_rx"), b = "put" \/ pc'["uart_rx"] = "idle",
               turn' \in IF b = "loop" THEN {"uart_rx", "echo"} ELSE {"uart_rx"}
        PROVE  Apart'
    <2>1. /\ at'["core2"] = at["core2"] /\ at'["core1"] = at["core1"]
          /\ at'["uart_rx"] = b /\ at'["echo"] = at["echo"]
      BY <1>0, <1>4, Moved
    <2>2. pc'["core1"] = pc["core1"] /\ pc'["core2"] = pc["core2"] /\ pc'["echo"] = pc["echo"]
      BY <1>0, <1>4, OthersKeep, Members
    <2>3. QED
      BY <1>1, <1>4, <2>1, <2>2 DEF Apart, Received
  <1>5. CASE RxByte
    <2>1. Head(rx) \in Byte
      BY <1>5, HeadTailProperties DEF RxByte, AnyTiming, ClientsTypeOK
    <2>2. RingAct("uart_rx") /\ turn = "uart_rx" /\ turn' = "uart_rx" /\ Move("uart_rx", "loop", "put")
      BY <1>5, <2>1, Members DEF RxByte, RingAct
    <2>3. QED
      BY <1>4, <2>2
  <1>6. CASE RxStored
    <2>1. RingAct("uart_rx") /\ pc'["uart_rx"] = "idle" /\ turn = "uart_rx" /\ turn' = "echo"
      BY <1>0, <1>6 DEF RxStored, Yield, RingAct, Return, Goto, TypeOK
    <2>2. QED
      BY <1>4, <1>6, <2>1 DEF RxStored
  <1>7. CASE InRing("uart_rx")
    <2>1. /\ at' = at /\ at["uart_rx"] = "put" /\ turn' = turn
          /\ pc'["core1"] = pc["core1"] /\ pc'["core2"] = pc["core2"] /\ pc'["echo"] = pc["echo"]
      <3>1. at' = at /\ at["uart_rx"] = "put" /\ turn' = turn
        BY <1>7, StepsInCall DEF InRing, clients, Apart
      <3>2. RingAct("uart_rx")
        BY <1>0, <1>7, Sides, Members DEF InRing, RingAct
      <3>3. QED
        BY <1>0, <3>1, <3>2, OthersKeep, Members
    <2>2. QED
      BY <1>1, <2>1 DEF Apart, Received
  <1>8. ASSUME NEW a, NEW b, Move("echo", a, b), turn = "echo",
               RingAct("echo") \/ pc' = pc, b = "got" \/ pc'["echo"] = "idle",
               turn' \in IF b = "loop" THEN {"uart_rx", "echo"} ELSE {"echo"}
        PROVE  Apart'
    <2>1. /\ at'["core2"] = at["core2"] /\ at'["core1"] = at["core1"]
          /\ at'["uart_rx"] = at["uart_rx"] /\ at'["echo"] = b
      BY <1>0, <1>8, Moved
    <2>2. pc'["core1"] = pc["core1"] /\ pc'["core2"] = pc["core2"] /\ pc'["uart_rx"] = pc["uart_rx"]
      BY <1>0, <1>8, OthersKeep, Members
    <2>3. QED
      BY <1>1, <1>8, <2>1, <2>2 DEF Apart, Received
  <1>9. CASE EchoGet
    <2>1. RingAct("echo") /\ turn = "echo" /\ turn' = turn
      BY <1>9, Members DEF EchoGet, RingAct
    <2>2. QED
      BY <1>8, <1>9, <2>1 DEF EchoGet
  <1>10. CASE EchoNothing \/ EchoByte
    <2>1. RingAct("echo") /\ pc'["echo"] = "idle" /\ turn = "echo"
      BY <1>0, <1>10, TasksAct DEF EchoNothing, EchoByte, RingAct, Return, Goto, TypeOK
    <2>2. \/ Move("echo", "got", "loop") /\ turn' = "uart_rx"
          \/ Move("echo", "got", "ask") /\ turn' = "echo"
      BY <1>10, <2>1 DEF EchoNothing, EchoByte, Yield
    <2>3. QED
      BY <1>8, <2>1, <2>2
  <1>11. CASE AskKey \/ Halt \/ Echo
    <2>1. pc' = pc /\ at["echo"] # "got" /\ turn = "echo"
      BY <1>11, TasksAct DEF AskKey, Halt, Echo, Acquire, Move, ring, vars
    <2>2. pc'["echo"] = "idle"
      BY <2>1 DEF Apart
    <2>3. \/ Move("echo", "key", "loop") /\ turn' = "uart_rx"
          \/ (\E a, b : Move("echo", a, b)) /\ turn' = "echo"
      BY <1>11, <2>1 DEF AskKey, Halt, Echo, Acquire, Yield
    <2>4. QED
      BY <1>8, <2>1, <2>2, <2>3
  <1>12. CASE InRing("echo")
    <2>1. /\ at' = at /\ at["echo"] = "got" /\ turn' = turn
          /\ pc'["core1"] = pc["core1"] /\ pc'["core2"] = pc["core2"] /\ pc'["uart_rx"] = pc["uart_rx"]
      <3>1. at' = at /\ at["echo"] = "got" /\ turn' = turn
        BY <1>12, StepsInCall DEF InRing, clients, Apart
      <3>2. RingAct("echo")
        BY <1>0, <1>12, Sides, Members DEF InRing, RingAct
      <3>3. QED
        BY <1>0, <3>1, <3>2, OthersKeep, Members
    <2>2. QED
      BY <1>1, <2>1 DEF Apart, Received
  <1>13. QED
    BY <1>2, <1>3, <1>5, <1>6, <1>7, <1>9, <1>10, <1>11, <1>12 DEF Core0

\* So no step brings them together.
LEMMA NextApart ==
  ASSUME RingUsers, AnyTiming, IInv, Apart, Settled, [ClientsNext]_allVars PROVE Apart'
  <1>1. ASSUME Core3 PROVE Apart'
    <2>1. /\ pc' = pc /\ turn' = turn /\ got' = got
          /\ at' = at \/ \E a, b : Move("core3", a, b)
      BY <1>1 DEF Core3, Poll, PollMessage, AskReport, Report, Acquire, ring, vars
    <2>2. /\ at'["core1"] = at["core1"] /\ at'["core2"] = at["core2"]
          /\ at'["uart_rx"] = at["uart_rx"] /\ at'["echo"] = at["echo"]
      BY <2>1, Moved DEF AnyTiming, ClientsTypeOK
    <2>3. QED
      BY <2>1, <2>2 DEF Apart, Received
  <1>2. (\E b \in Byte : Type(b)) \/ UNCHANGED allVars => Apart'
    BY DEF Type, allVars, clients, ring, vars, Apart, Received
  <1>3. QED
    BY <1>1, <1>2, Core1Apart, Core2Apart, Core0Apart DEF ClientsNext

-----------------------------------------------------------------------------
\* The places at which a process holds a byte that it has got.
Asks == {"ask", "print", "key"}

\* A call that changes is the new one.
LEMMA Becomes ==
  ASSUME NEW p \in Process, NEW a, NEW b, F!Become(p, a, b)
  PROVE  InCall[p] = a /\ InCall'[p] = b
  BY DEF F!Become, InCall

\* The bytes on their way from p to c stay on it when a put begins, ...
LEMMA PutBeginsFlow ==
  ASSUME InTurn, IInv, NEW p \in Producers, NEW c \in Consumers, NEW r \in Seq(Byte), r # <<>>,
         PutCall(p, Head(r)), at[p] \notin Asks, at'[c] = at[c]
  PROVE  /\ Holds(c)' \o (Queue' \o (Holds(p)' \o Tail(r))) = Holds(c) \o (Queue \o (Holds(p) \o r))
         /\ Queue' = Queue /\ InCall'[p] = F!Put(Head(r)) /\ InCall'[c] = InCall[c]
  <1>0. p \in Process /\ c \in Process /\ c # p /\ Head(r) \in Byte
    BY RingAssumption, HeadTailProperties DEF Process
  <1>1. InCall[p] = F!Idle /\ InCall'[p] = F!Put(Head(r)) /\ Queue' = Queue
    BY <1>0, PutBegins, Becomes
  <1>2. Holds(p) = <<>> /\ Holds(p)' = <<Head(r)>>
    BY <1>0, <1>1, HoldsBy DEF HoldsOK, Asks
  <1>3. Holds(c)' = Holds(c) /\ InCall'[c] = InCall[c]
    BY <1>0, OthersKeep, HoldsSame DEF RingAct
  <1>4. QED
    BY <1>1, <1>2, <1>3, MovesOn

\* ... while it goes on, unless the ring is full, ...
LEMMA PutFlow ==
  ASSUME InTurn, IInv, IInv', NEW p \in Producers, NEW c \in Consumers, NEW r \in Seq(Byte),
         PutStep(p), at[p] \notin Asks, at' = at,
         \A b : InCall[p] = F!Put(b) => Len(Queue) # Size - 1
  PROVE  /\ Holds(c)' \o (Queue' \o (Holds(p)' \o r)) = Holds(c) \o (Queue \o (Holds(p) \o r))
         /\ InCall'[c] = InCall[c]
         /\ \/ Queue' = Queue /\ InCall'[p] = InCall[p]
            \/ \E b \in Byte : /\ InCall[p] = F!Put(b) /\ InCall'[p] = F!Put0
                               /\ Queue' = Append(Queue, b)
  <1>0. p \in Process /\ c \in Process /\ c # p /\ TypeOK /\ RingAct(p)
    BY RingAssumption DEF Process, IInv, RingAct
  <1>1. Holds(c)' = Holds(c) /\ InCall'[c] = InCall[c]
    BY <1>0, OthersKeep, HoldsSame
  <1>2. CASE F!Store(p)
    <2>1. PICK b \in Byte : F!Become(p, F!Put(b), F!Put0) /\ Queue' = Append(Queue, b)
      BY <1>2 DEF F!Store
    <2>2. InCall[p] = F!Put(b) /\ InCall'[p] = F!Put0
      BY <1>0, <2>1, Becomes
    <2>3. Holds(p) = <<b>> /\ Holds(p)' = <<>>
      BY <1>0, <2>2, HoldsBy DEF HoldsOK, Asks
    <2>4. Queue \in Seq(Byte)
      BY <1>0, QueueIsSeq DEF QueueOK
    <2>5. Queue \o (<<b>> \o r) = Append(Queue, b) \o (<<>> \o r)
      BY <2>4, StoresOn
    <2>6. QED
      BY <1>1, <2>1, <2>2, <2>3, <2>5
  <1>3. CASE F!Full(p)
    BY <1>0, <1>3, Becomes DEF F!Full
  <1>4. CASE UNCHANGED F!vars
    <2>1. Queue' = Queue /\ InCall' = InCall
      BY <1>4 DEF F!vars
    <2>2. InCall[p].op \notin {"put", "got"} => Holds(p)' = Holds(p)
      BY <1>0, <2>1, HoldsBy DEF HoldsOK, Asks
    <2>3. InCall[p].op \in {"put", "got"} => Holds(p)' = Holds(p)
      BY <2>1 DEF Holds
    <2>4. QED
      BY <1>1, <2>1, <2>2, <2>3
  <1>5. QED
    BY <1>2, <1>3, <1>4, PutImplements

\* ... when a get begins, ...
LEMMA GetBeginsFlow ==
  ASSUME InTurn, IInv, NEW p \in Producers, NEW c \in Consumers,
         GetCall(c), at[c] \notin Asks, at'[c] \notin Asks, at'[p] = at[p]
  PROVE  /\ Holds(c)' = Holds(c) /\ Holds(p)' = Holds(p) /\ Queue' = Queue
         /\ InCall'[c] = F!Get /\ InCall'[p] = InCall[p]
  <1>0. p \in Process /\ c \in Process /\ c # p
    BY RingAssumption DEF Process
  <1>1. InCall[c] = F!Idle /\ InCall'[c] = F!Get /\ Queue' = Queue
    BY <1>0, GetBegins, Becomes
  <1>2. Holds(c) = <<>> /\ Holds(c)' = <<>>
    BY <1>0, <1>1, HoldsBy DEF HoldsOK, Asks
  <1>3. Holds(p)' = Holds(p) /\ InCall'[p] = InCall[p]
    BY <1>0, OthersKeep, HoldsSame DEF RingAct
  <1>4. QED
    BY <1>1, <1>2, <1>3

\* ... while it goes on, failing only on an empty ring, ...
LEMMA GetFlow ==
  ASSUME InTurn, IInv, IInv', NEW p \in Producers, NEW c \in Consumers, NEW r \in Seq(Byte),
         GetStep(c), at[c] \notin Asks, at' = at
  PROVE  /\ Holds(c)' \o (Queue' \o (Holds(p)' \o r)) = Holds(c) \o (Queue \o (Holds(p) \o r))
         /\ InCall'[p] = InCall[p]
         /\ \/ Queue' = Queue /\ InCall'[c] = InCall[c]
            \/ Queue = <<>> /\ Queue' = <<>> /\ InCall'[c] = F!Failed
            \/ Queue # <<>> /\ Queue' = Tail(Queue)
  <1>0. p \in Process /\ c \in Process /\ c # p /\ TypeOK /\ RingAct(c)
    BY RingAssumption DEF Process, IInv, RingAct
  <1>1. Holds(p)' = Holds(p) /\ InCall'[p] = InCall[p]
    BY <1>0, OthersKeep, HoldsSame
  <1>2. CASE F!Take(c)
    <2>1. InCall[c] = F!Get /\ InCall'[c] = F!Get0(Head(Queue)) /\ Queue # <<>> /\ Queue' = Tail(Queue)
      BY <1>0, <1>2, Becomes DEF F!Take
    <2>2. Holds(c) = <<>> /\ Holds(c)' = <<Head(Queue)>>
      BY <1>0, <2>1, HoldsBy DEF HoldsOK, Asks
    <2>3. Queue \in Seq(Byte) /\ Holds(p) \in Seq(Byte)
      BY <1>0, QueueIsSeq, HoldsType DEF QueueOK
    <2>4. Holds(p) \o r \in Seq(Byte)
      BY <2>3, ConcatProperties
    <2>5. <<>> \o (Queue \o (Holds(p) \o r)) = <<Head(Queue)>> \o (Tail(Queue) \o (Holds(p) \o r))
      BY <2>1, <2>3, <2>4, TakesOn
    <2>6. QED
      BY <1>1, <2>1, <2>2, <2>5
  <1>3. CASE F!Empty(c)
    <2>1. InCall[c] = F!Get /\ InCall'[c] = F!Failed /\ Queue = <<>> /\ Queue' = Queue
      BY <1>0, <1>3, Becomes DEF F!Empty
    <2>2. Holds(c) = <<>> /\ Holds(c)' = <<>>
      BY <1>0, <2>1, HoldsBy DEF HoldsOK, Asks
    <2>3. QED
      BY <1>1, <2>1, <2>2
  <1>4. CASE UNCHANGED F!vars
    <2>1. Queue' = Queue /\ InCall' = InCall
      BY <1>4 DEF F!vars
    <2>2. InCall[c].op \notin {"put", "got"} => Holds(c)' = Holds(c)
      BY <1>0, <2>1, HoldsBy DEF HoldsOK, Asks
    <2>3. InCall[c].op \in {"put", "got"} => Holds(c)' = Holds(c)
      BY <2>1 DEF Holds
    <2>4. QED
      BY <1>1, <2>1, <2>2, <2>3
  <1>5. QED
    BY <1>2, <1>3, <1>4, GetImplements

\* ... and when it returns, since who returns with a byte holds it.
LEMMA ReturnFlow ==
  ASSUME InTurn, IInv, NEW p \in Process, NEW r \in Process, r # p, Return(p), at'[r] = at[r]
  PROVE  /\ Queue' = Queue /\ InCall'[p] = F!Idle
         /\ Holds(r)' = Holds(r) /\ InCall'[r] = InCall[r]
         /\ p \in Producers /\ at[p] \notin Asks /\ at'[p] \notin Asks => Holds(p)' = Holds(p)
         /\ p \in Consumers /\ code[p] = 0 /\ at'[p] = "ask" =>
              Holds(p)' = Holds(p) /\ InCall[p].op = "got"
         /\ p \in Consumers /\ code[p] = -1 /\ at[p] \notin Asks /\ at'[p] \notin Asks =>
              Holds(p)' = Holds(p) /\ InCall[p].op = "failed"
  <1>0. TypeOK /\ CallOK(p) /\ pc[p] = "return" /\ byte' = byte
    BY CallIs DEF IInv, Return, Goto
  <1>1. Queue' = Queue /\ InCall'[p] = F!Idle
    <2>1. F!Return(p)
      BY ReturnImplements
    <2>2. QED
      BY <2>1 DEF F!Return, InCall
  <1>2. Holds(r)' = Holds(r) /\ InCall'[r] = InCall[r]
    BY OthersKeep, HoldsSame DEF RingAct
  <1>3. Holds(p)' = IF at'[p] \in Asks THEN <<byte[p]>> ELSE <<>>
    BY <1>0, <1>1, HoldsBy DEF HoldsOK, Asks
  <1>4. ASSUME p \in Producers, at[p] \notin Asks, at'[p] \notin Asks PROVE Holds(p)' = Holds(p)
    <2>1. InCall[p] \in {F!Failed, F!Put0}
      BY <1>0, <1>4 DEF CallOK
    <2>2. QED
      BY <1>3, <1>4, <2>1, HoldsBy DEF HoldsOK, Asks
  <1>5. ASSUME p \in Consumers, code[p] = 0, at'[p] = "ask"
        PROVE  Holds(p)' = Holds(p) /\ InCall[p].op = "got"
    <2>1. InCall[p] = F!Get0(byte[p])
      BY <1>0, <1>5, RingAssumption DEF CallOK
    <2>2. InCall[p].op = "got"
      BY <2>1 DEF F!Get0
    <2>3. QED
      BY <1>3, <1>5, <2>1, <2>2, HoldsBy DEF HoldsOK, Asks
  <1>6. ASSUME p \in Consumers, code[p] = -1, at[p] \notin Asks, at'[p] \notin Asks
        PROVE  Holds(p)' = Holds(p) /\ InCall[p].op = "failed"
    <2>1. InCall[p] = F!Failed
      BY <1>0, <1>6 DEF CallOK
    <2>2. InCall[p].op = "failed"
      BY <2>1 DEF F!Failed
    <2>3. QED
      BY <1>3, <1>6, <2>1, <2>2, HoldsBy DEF HoldsOK, Asks
  <1>7. QED
    BY <1>1, <1>2, <1>4, <1>5, <1>6

-----------------------------------------------------------------------------
\* A step that leaves the ring alone leaves what a process holds alone, unless it
\* goes to or from the places at which it has a byte.
LEMMA HoldsKept ==
  ASSUME UNCHANGED ring
  PROVE  /\ Queue' = Queue /\ InCall' = InCall
         /\ \A p \in Process : (at[p] \in Asks <=> at'[p] \in Asks) => Holds(p)' = Holds(p)
  <1>1. Queue' = Queue /\ InCall' = InCall /\ byte' = byte
    BY DEF ring, vars, Queue, Count, InCall
  <1>2. QED
    BY <1>1 DEF Holds, Asks

\* The first byte on its way comes out: it is the next of what remains.
LEMMA ComesOut ==
  ASSUME NEW S, NEW s \in Seq(S), NEW n \in Nat, n <= Len(s), NEW b \in S, NEW w \in Seq(S),
         <<b>> \o w = After(s, n)
  PROVE  n < Len(s) /\ s[n + 1] = b /\ <<>> \o w = After(s, n + 1)
  <1>1. <<b>> \in Seq(S) /\ Len(<<b>>) = 1 /\ <<b>>[1] = b /\ <<b>> # <<>>
    OBVIOUS
  <1>2. <<b>> \o w # <<>>
    BY <1>1, ConcatEqualIffEmpty
  <1>3. n # Len(s)
    BY <1>2, AfterAll
  <1>4. n < Len(s)
    BY <1>3, LenProperties
  <1>5. Head(After(s, n)) = s[n + 1] /\ Tail(After(s, n)) = After(s, n + 1)
    BY <1>4, AfterNext
  <1>6. Head(<<b>> \o w) = b /\ Tail(<<b>> \o w) = w
    <2>1. Len(w) \in Nat /\ <<b>> \o w \in Seq(S) /\ Len(<<b>> \o w) = 1 + Len(w)
      BY <1>1, ConcatProperties, LenProperties
    <2>2. \A i \in 1 .. 1 + Len(w) : (<<b>> \o w)[i] = IF i <= 1 THEN b ELSE w[i - 1]
      BY <1>1, ConcatProperties
    <2>3. Head(<<b>> \o w) = b
      BY <2>1, <2>2
    <2>4. /\ Tail(<<b>> \o w) \in Seq(S) /\ Len(Tail(<<b>> \o w)) = Len(w)
          /\ \A i \in 1 .. Len(w) : Tail(<<b>> \o w)[i] = (<<b>> \o w)[i + 1]
      BY <1>2, <2>1, HeadTailProperties
    <2>5. ASSUME NEW i \in 1 .. Len(w) PROVE Tail(<<b>> \o w)[i] = w[i]
      <3>1. i + 1 \in 1 .. 1 + Len(w) /\ ~(i + 1 <= 1) /\ (i + 1) - 1 = i
        BY <2>1
      <3>2. (<<b>> \o w)[i + 1] = w[i]
        BY <2>2, <3>1
      <3>3. QED
        BY <2>4, <3>2
    <2>6. Tail(<<b>> \o w) = w
      BY <2>4, <2>5, SeqEqual
    <2>7. QED
      BY <2>3, <2>6
  <1>7. QED
    BY <1>4, <1>5, <1>6, ConcatEmptySeq

\* What is on its way is as long as its parts.
LEMMA WayLength ==
  ASSUME NEW S, NEW h \in Seq(S), NEW q \in Seq(S), NEW g \in Seq(S), NEW r \in Seq(S)
  PROVE  /\ h \o (q \o (g \o r)) \in Seq(S) /\ q \o (g \o r) \in Seq(S)
         /\ Len(h \o (q \o (g \o r))) = Len(h) + (Len(q) + (Len(g) + Len(r)))
         /\ Len(h) \in Nat /\ Len(q) \in Nat /\ Len(g) \in Nat /\ Len(r) \in Nat
  <1>1. g \o r \in Seq(S) /\ Len(g \o r) = Len(g) + Len(r)
    BY ConcatProperties
  <1>2. q \o (g \o r) \in Seq(S) /\ Len(q \o (g \o r)) = Len(q) + Len(g \o r)
    BY <1>1, ConcatProperties
  <1>3. QED
    BY <1>1, <1>2, ConcatProperties, LenProperties

\* The sequences that the flows are about.
LEMMA FlowTypes ==
  ASSUME RingUsers, AnyTiming, SettledIInv
  PROVE  /\ TypeOK /\ Queue \in Seq(Byte) /\ Len(got) \in Nat /\ Len(out) \in Nat
         /\ \A p \in Process : Holds(p) \in Seq(Byte)
         /\ After(Test, sent) \in Seq(Byte) /\ rx \in Seq(Byte) /\ typed \in Seq(Byte)
         /\ Test \in Seq(Byte) /\ sent \in Nat
         /\ got \in Seq(Byte) /\ out \in Seq(KeyEvents)
  <1>1. TypeOK /\ got \in Seq(Byte) /\ out \in Seq(KeyEvents)
    BY DEF SettledIInv, IInv, Outputs
  <1>2. Queue \in Seq(Byte) /\ \A p \in Process : Holds(p) \in Seq(Byte)
    BY <1>1, QueueIsSeq, HoldsType DEF QueueOK
  <1>3. sent \in Nat /\ sent <= Len(Test) /\ Test \in Seq(Byte) /\ rx \in Seq(Byte) /\ typed \in Seq(Byte)
    BY Members DEF AnyTiming, ClientsTypeOK
  <1>4. After(Test, sent) \in Seq(Byte)
    <2>1. CASE sent = Len(Test)
      BY <1>3, <2>1, AfterAll, EmptySeq
    <2>2. CASE sent < Len(Test)
      BY <1>3, <2>2, AfterNext
    <2>3. QED
      BY <1>3, <2>1, <2>2, Members
  <1>5. Len(got) \in Nat /\ Len(out) \in Nat
    BY <1>1, LenProperties
  <1>6. QED
    BY <1>1, <1>2, <1>3, <1>4, <1>5

\* What Core 1 has still to see printed goes on its way as it is, ...
LEMMA Core1Flows ==
  ASSUME RingUsers, AnyTiming, SettledIInv, IInv', Apart', InTurn, Core1
  PROVE  SettledIInv'
  <1>0. /\ "core1" \in Producers /\ "core2" \in Consumers /\ "core1" \in Process /\ "core2" \in Process
        /\ "core1" \in Process \cup {"core3"} /\ Places
        /\ at["core1"] \notin Asks /\ Apart /\ IInv /\ turn = "none"
    BY Members, Core1Acts DEF AnyTiming, ClientsTypeOK, Places, Asks, SettledIInv
  <1> DEFINE r == After(Test, sent)
             left == Holds("core2") \o (Queue \o (Holds("core1") \o r))
  <1>1. UNCHANGED <<turn, got, out, rx, typed>>
    BY DEF Core1, Push, Pushed, InRing, clients
  <1>2. IsPrefix(got, Test) /\ left = After(Test, Len(got))
    BY <1>0 DEF SettledIInv, TestFlows, OnTheWay
  <1>3. r \in Seq(Byte)
    BY FlowTypes
  <1>4. Holds("core2")' \o (Queue' \o (Holds("core1")' \o After(Test, sent'))) = left
    <2>1. CASE Push
      <3>1. Move("core1", "push", "pushed") /\ sent' = sent + 1 /\ PutCall("core1", Test[sent + 1])
        BY <2>1 DEF Push
      <3>2. at["core1"] = "push" /\ at'["core2"] = at["core2"]
        BY <1>0, <3>1, Moved
      <3>3. sent \in Nat /\ sent < Len(Test) /\ Test \in Seq(Byte)
        BY <3>2, FlowTypes DEF AnyTiming, ClientsTypeOK
      <3>4. r # <<>> /\ Head(r) = Test[sent + 1] /\ Tail(r) = After(Test, sent')
        BY <3>1, <3>3, AfterNext
      <3> HIDE DEF r
      <3>5. Holds("core2")' \o (Queue' \o (Holds("core1")' \o Tail(r))) = left
        BY <1>0, <1>3, <3>1, <3>2, <3>4, PutBeginsFlow
      <3>6. QED
        BY <3>4, <3>5
    <2>2. CASE Pushed
      <3>1. Return("core1") /\ sent' = sent /\ (Move("core1", "pushed", "push") \/ Move("core1", "pushed", "wfe"))
        BY <2>2 DEF Pushed
      <3>2. at'["core2"] = at["core2"] /\ at'["core1"] \notin Asks
        BY <1>0, <3>1, Moved DEF Asks
      <3>3. Queue' = Queue /\ Holds("core2")' = Holds("core2") /\ Holds("core1")' = Holds("core1")
        BY <1>0, <3>1, <3>2, ReturnFlow
      <3>4. QED
        BY <3>1, <3>3
    <2>3. CASE InRing("core1")
      <3>1. PutStep("core1") /\ at' = at /\ sent' = sent
        BY <1>0, <2>3, Sides DEF InRing, clients
      <3>2. ASSUME NEW b, InCall["core1"] = F!Put(b) PROVE Len(Queue) # Size - 1
        <4>1. Holds("core1") = <<b>> /\ Len(<<b>>) = 1
          BY <1>0, <3>2, HoldsBy DEF HoldsOK
        <4>2. /\ Len(left) = Len(Holds("core2")) + (Len(Queue) + (1 + Len(r)))
              /\ Len(Holds("core2")) \in Nat /\ Len(Queue) \in Nat /\ Len(r) \in Nat
          <5>1. Holds("core1") \in Seq(Byte) /\ Holds("core2") \in Seq(Byte) /\ Queue \in Seq(Byte)
            BY <1>0, FlowTypes
          <5> HIDE DEF r
          <5>2. Len(left) = Len(Holds("core2")) + (Len(Queue) + (Len(Holds("core1")) + Len(r)))
            BY <1>3, <5>1, WayLength
          <5>3. Len(Holds("core1")) = 1
            BY <4>1
          <5>4. QED
            BY <1>3, <5>1, <5>2, <5>3, LenProperties
        <4>3. Len(After(Test, Len(got))) <= Len(Test)
          <5>1. Len(got) \in Nat /\ Len(got) <= Len(Test) /\ Test \in Seq(Byte) /\ Len(Test) \in Nat
            BY <1>2, FlowTypes, Members DEF IsPrefix
          <5>2. CASE Len(got) = Len(Test)
            BY <5>1, <5>2, AfterAll, EmptySeq
          <5>3. CASE Len(got) < Len(Test)
            BY <5>1, <5>3, AfterNext
          <5>4. QED
            BY <5>1, <5>2, <5>3
        <4>4. Len(Test) \in Nat /\ Len(Test) < Size
          BY Members
        <4> HIDE DEF left, r
        <4>5. QED
          BY <1>2, <4>2, <4>3, <4>4, RingAssumption
      <3> HIDE DEF r
      <3>3. Holds("core2")' \o (Queue' \o (Holds("core1")' \o r)) = left
        BY <1>0, <1>3, <3>1, <3>2, PutFlow
      <3>4. QED
        BY <3>1, <3>3 DEF r
    <2>4. QED
      BY <2>1, <2>2, <2>3 DEF Core1
  <1> HIDE DEF left
  <1>5. TestFlows'
    BY <1>0, <1>1, <1>2, <1>4 DEF TestFlows, OnTheWay
  <1>6. KeysFlow' /\ AtMostOne' /\ Outputs'
    BY <1>0, <1>1 DEF SettledIInv, KeysFlow, AtMostOne, Outputs
  <1>7. QED
    BY <1>5, <1>6 DEF SettledIInv

\* A prefix that grows by the next element is one.
LEMMA PrefixGrows ==
  ASSUME NEW S, NEW s \in Seq(S), NEW b \in S, NEW t,
         IsPrefix(s, t), Len(s) < Len(t), Len(t) \in Nat, t[Len(s) + 1] = b
  PROVE  /\ IsPrefix(Append(s, b), t)
         /\ Append(s, b) \in Seq(S) /\ Len(Append(s, b)) = Len(s) + 1 /\ Len(s) \in Nat
  <1> DEFINE u == Append(s, b)
             n == Len(s)
  <1>1. n \in Nat
    BY LenProperties
  <1>2. /\ u \in Seq(S) /\ Len(u) = n + 1 /\ \A i \in 1 .. n : u[i] = s[i]
        /\ u[n + 1] = b
    BY AppendProperties
  <1>3. \A i \in 1 .. n : s[i] = t[i]
    BY DEF IsPrefix
  <1>4. t[n + 1] = b /\ n < Len(t)
    OBVIOUS
  <1> HIDE DEF u, n
  <1>5. ASSUME NEW i \in 1 .. n + 1 PROVE u[i] = t[i]
    <2>1. CASE i = n + 1
      BY <1>2, <1>4, <2>1
    <2>2. CASE i # n + 1
      <3>1. i \in 1 .. n
        BY <1>1, <2>2
      <3>2. QED
        BY <1>2, <1>3, <3>1
    <2>3. QED
      BY <2>1, <2>2
  <1>6. IsPrefix(u, t)
    BY <1>1, <1>2, <1>4, <1>5 DEF IsPrefix
  <1>7. QED
    BY <1>1, <1>2, <1>6 DEF u, n

\* The byte that Core 2 holds where it prints, and Core 0 where it echoes.
LEMMA PrintsWhatItHolds ==
  ASSUME TypeOK, NEW p \in Process, pc[p] = "idle", at[p] \in Asks, UNCHANGED ring, at'[p] \notin Asks
  PROVE  Holds(p) = <<byte[p]>> /\ byte[p] \in Byte /\ Holds(p)' = <<>>
  <1>1. InCall[p] = F!Idle
    BY CallIs DEF CallOK
  <1>2. InCall' = InCall
    BY HoldsKept
  <1>3. QED
    BY <1>1, <1>2, HoldsBy DEF HoldsOK, Asks, TypeOK

\* ... and comes out as it is at Core 2.
LEMMA Core2Flows ==
  ASSUME RingUsers, AnyTiming, SettledIInv, Settled, IInv', Apart', InTurn, Core2
  PROVE  SettledIInv'
  <1>0. /\ "core1" \in Producers /\ "core2" \in Consumers /\ "core1" \in Process /\ "core2" \in Process
        /\ "core1" \in Process \cup {"core3"} /\ Places /\ "core2" \in Process \cup {"core3"}
        /\ at["core1"] \notin Asks /\ Apart /\ IInv /\ turn = "none"
    BY Members, Core2Acts DEF AnyTiming, ClientsTypeOK, Places, Asks, SettledIInv
  <1> DEFINE r == After(Test, sent)
             left == Holds("core2") \o (Queue \o (Holds("core1") \o r))
             next == Holds("core2")' \o (Queue' \o (Holds("core1")' \o r))
  <1>1. UNCHANGED <<turn, out, rx, typed, sent>>
    BY DEF Core2, Delayed, Get, GotByte, GotNothing, Wake, AskPrint, PrintByte, InRing, clients
  <1>2. IsPrefix(got, Test) /\ left = After(Test, Len(got))
    BY <1>0 DEF SettledIInv, TestFlows, OnTheWay
  <1>3. r \in Seq(Byte)
    BY FlowTypes
  <1> HIDE DEF r
  <1>4. ASSUME NEW a, NEW b, Move("core2", a, b)
        PROVE  at["core2"] = a /\ at'["core2"] = b /\ at'["core1"] = at["core1"]
    BY <1>0, <1>4, Moved
  <1>5. \/ next = left /\ got' = got
        \/ got' = Append(got, byte["core2"]) /\ IsPrefix(got', Test) /\ got' \in Seq(Byte)
           /\ next = After(Test, Len(got'))
    <2>1. CASE Delayed \/ Wake \/ AskPrint
      <3>1. /\ UNCHANGED ring /\ got' = got
            /\ \/ Move("core2", "delay", "loop")
               \/ Move("core2", "wfe", "loop")
               \/ Move("core2", "ask", "print")
        BY <2>1 DEF Delayed, Wake, AskPrint, Acquire
      <3>2. at'["core1"] = at["core1"] /\ (at["core2"] \in Asks <=> at'["core2"] \in Asks)
        BY <1>4, <3>1 DEF Asks
      <3>3. Queue' = Queue /\ Holds("core2")' = Holds("core2") /\ Holds("core1")' = Holds("core1")
        BY <1>0, <3>1, <3>2, HoldsKept
      <3>4. QED
        BY <3>1, <3>3
    <2>2. CASE Get
      <3>1. GetCall("core2") /\ got' = got /\ Move("core2", "loop", "got")
        BY <2>2 DEF Get
      <3>2. at["core2"] \notin Asks /\ at'["core2"] \notin Asks /\ at'["core1"] = at["core1"]
        BY <1>4, <3>1 DEF Asks
      <3>3. Queue' = Queue /\ Holds("core2")' = Holds("core2") /\ Holds("core1")' = Holds("core1")
        BY <1>0, <3>1, <3>2, GetBeginsFlow
      <3>4. QED
        BY <3>1, <3>3
    <2>3. CASE GotByte
      <3>1. Return("core2") /\ got' = got /\ Move("core2", "got", "ask") /\ code["core2"] = 0
        BY <2>3 DEF GotByte
      <3>2. at'["core2"] = "ask" /\ at'["core1"] = at["core1"]
        BY <1>4, <3>1
      <3>3. Queue' = Queue /\ Holds("core2")' = Holds("core2") /\ Holds("core1")' = Holds("core1")
        BY <1>0, <3>1, <3>2, ReturnFlow
      <3>4. QED
        BY <3>1, <3>3
    <2>4. CASE GotNothing
      <3>1. Return("core2") /\ got' = got /\ Move("core2", "got", "wfe") /\ code["core2"] = -1
        BY <2>4 DEF GotNothing
      <3>2. at["core2"] \notin Asks /\ at'["core2"] \notin Asks /\ at'["core1"] = at["core1"]
        BY <1>4, <3>1 DEF Asks
      <3>3. Queue' = Queue /\ Holds("core2")' = Holds("core2") /\ Holds("core1")' = Holds("core1")
        BY <1>0, <3>1, <3>2, ReturnFlow
      <3>4. QED
        BY <3>1, <3>3
    <2>5. CASE PrintByte
      <3>1. UNCHANGED ring /\ Move("core2", "print", "loop") /\ got' = Append(got, byte["core2"])
        BY <2>5 DEF PrintByte
      <3>2. at["core2"] = "print" /\ at'["core2"] = "loop" /\ at'["core1"] = at["core1"]
        BY <1>4, <3>1
      <3>3. pc["core2"] = "idle"
        BY <1>0, <3>2 DEF Apart
      <3>4. Holds("core2") = <<byte["core2"]>> /\ byte["core2"] \in Byte /\ Holds("core2")' = <<>>
        BY <1>0, <3>1, <3>2, <3>3, PrintsWhatItHolds DEF IInv, Asks
      <3>5. Queue' = Queue /\ Holds("core1")' = Holds("core1")
        BY <1>0, <3>1, <3>2, HoldsKept
      <3> DEFINE w == Queue \o (Holds("core1") \o r)
                 b == byte["core2"]
      <3>6. w \in Seq(Byte)
        BY <1>0, <1>3, FlowTypes, WayLength
      <3>7. <<b>> \o w = After(Test, Len(got)) /\ next = <<>> \o w
        BY <1>2, <3>4, <3>5
      <3> HIDE DEF w
      <3>8. Len(got) \in Nat /\ Len(got) <= Len(Test) /\ Test \in Seq(Byte) /\ got \in Seq(Byte)
        BY <1>2, FlowTypes DEF IsPrefix
      <3>9. /\ Len(got) < Len(Test) /\ Test[Len(got) + 1] = b
            /\ <<>> \o w = After(Test, Len(got) + 1)
        BY <3>4, <3>6, <3>7, <3>8, ComesOut
      <3>10. Len(Test) \in Nat
        BY Members
      <3>11. IsPrefix(Append(got, b), Test) /\ Append(got, b) \in Seq(Byte) /\ Len(Append(got, b)) = Len(got) + 1
        BY <1>2, <3>4, <3>8, <3>9, <3>10, PrefixGrows
      <3>12. QED
        BY <3>1, <3>7, <3>9, <3>11
    <2>6. CASE InRing("core2")
      <3>1. GetStep("core2") /\ at' = at /\ got' = got
        BY <1>0, <2>6, Sides DEF InRing, clients
      <3>2. at["core2"] \notin Asks
        BY <1>0, <2>6, StepsInCall DEF InRing, Apart, Asks
      <3>3. next = left
        BY <1>0, <1>3, <3>1, <3>2, GetFlow
      <3>4. QED
        BY <3>1, <3>3
    <2>7. QED
      BY <2>1, <2>2, <2>3, <2>4, <2>5, <2>6 DEF Core2
  <1>6. next = OnTheWay("core2", "core1", After(Test, sent))'
    BY <1>1 DEF r, OnTheWay
  <1> HIDE DEF left, next
  <1>7. TestFlows'
    BY <1>0, <1>1, <1>2, <1>5, <1>6 DEF TestFlows
  <1>8. KeysFlow' /\ AtMostOne' /\ Outputs'
    BY <1>0, <1>1, <1>5 DEF SettledIInv, KeysFlow, AtMostOne, Outputs
  <1>9. QED
    BY <1>7, <1>8 DEF SettledIInv

\* The keys, in the same way: uart_rx_task puts them on their way as they are, ...
LEMMA RxFlows ==
  ASSUME RingUsers, AnyTiming, SettledIInv, IInv', Apart', InTurn,
         RxNothing \/ RxByte \/ RxStored \/ InRing("uart_rx")
  PROVE  SettledIInv'
  <1>0. /\ "uart_rx" \in Producers /\ "echo" \in Consumers /\ "uart_rx" \in Process /\ "echo" \in Process
        /\ "uart_rx" \in Process \cup {"core3"} /\ Places
        /\ at["uart_rx"] \notin Asks /\ at["echo"] = "loop" /\ Apart /\ IInv /\ turn = "uart_rx"
        /\ TypeOK /\ pc["echo"] = "idle"
    BY Members, TasksAct DEF AnyTiming, ClientsTypeOK, Places, Asks, SettledIInv, Apart, IInv
  <1> DEFINE left == Holds("echo") \o (Queue \o (Holds("uart_rx") \o rx))
             next == Holds("echo")' \o (Queue' \o (Holds("uart_rx")' \o rx'))
  <1>1. UNCHANGED <<got, out, typed>> /\ turn' \in {"uart_rx", "echo"}
    BY <1>0 DEF RxNothing, RxByte, RxStored, InRing, clients, Yield
  <1>2. IsPrefix(out, Events(typed)) /\ left = After(typed, Len(out)) /\ rx \in Seq(Byte) /\ got = Test
        /\ Queue \in Seq(Byte)
    BY <1>0, FlowTypes DEF SettledIInv, KeysFlow, TestFlows, OnTheWay
  <1>3. InCall["echo"] = F!Idle
    BY <1>0, CallIs DEF CallOK
  <1>4. /\ Len(Queue) <= 1 /\ (InCall["uart_rx"].op \in {"idle", "put"} => Queue = <<>>)
    BY <1>0 DEF SettledIInv, AtMostOne
  <1>5. /\ next = left /\ InCall'["echo"] = InCall["echo"] /\ at'["echo"] = at["echo"]
        /\ Len(Queue') <= 1
        /\ turn' = "uart_rx" /\ InCall'["uart_rx"].op \in {"idle", "put"} => Queue' = <<>>
    <2>1. CASE RxNothing
      <3>1. UNCHANGED ring /\ at' = at /\ rx' = rx
        BY <2>1 DEF RxNothing
      <3>2. /\ Queue' = Queue /\ InCall' = InCall /\ Holds("echo")' = Holds("echo")
            /\ Holds("uart_rx")' = Holds("uart_rx")
        BY <1>0, <3>1, HoldsKept
      <3>3. QED
        BY <1>4, <3>1, <3>2
    <2>2. CASE RxByte
      <3>1. rx # <<>> /\ PutCall("uart_rx", Head(rx)) /\ rx' = Tail(rx) /\ Move("uart_rx", "loop", "put")
        BY <2>2 DEF RxByte
      <3>2. at'["echo"] = at["echo"] /\ at["uart_rx"] = "loop"
        BY <1>0, <3>1, Moved
      <3>3. /\ Holds("echo")' \o (Queue' \o (Holds("uart_rx")' \o Tail(rx))) = left
            /\ Queue' = Queue /\ InCall'["echo"] = InCall["echo"]
        BY <1>0, <1>2, <3>1, <3>2, PutBeginsFlow
      <3>4. Queue = <<>>
        <4>1. pc["uart_rx"] = "idle"
          BY <1>0, <3>2 DEF Apart
        <4>2. InCall["uart_rx"].op = "idle"
          BY <1>0, <4>1, CallIs DEF CallOK, F!Idle
        <4>3. QED
          BY <1>4, <4>2
      <3>5. QED
        BY <1>4, <3>1, <3>2, <3>3, <3>4
    <2>3. CASE RxStored
      <3>1. /\ Return("uart_rx") /\ rx' = rx /\ Move("uart_rx", "put", "loop") /\ turn' = "echo"
        BY <1>0, <2>3 DEF RxStored, Yield
      <3>2. at'["echo"] = at["echo"] /\ at'["uart_rx"] \notin Asks
        BY <1>0, <3>1, Moved DEF Asks
      <3>3. /\ Queue' = Queue /\ InCall'["echo"] = InCall["echo"] /\ Holds("echo")' = Holds("echo")
            /\ Holds("uart_rx")' = Holds("uart_rx")
        BY <1>0, <3>1, <3>2, ReturnFlow
      <3>4. QED
        BY <1>4, <3>1, <3>2, <3>3
    <2>4. CASE InRing("uart_rx")
      <3>1. PutStep("uart_rx") /\ at' = at /\ rx' = rx /\ turn' = turn
        BY <1>0, <2>4, Sides DEF InRing, clients
      <3>2. ASSUME NEW b, InCall["uart_rx"] = F!Put(b) PROVE Len(Queue) # Size - 1
        <4>1. Queue = <<>>
          BY <1>4, <3>2 DEF F!Put
        <4>2. Len(Queue) = 0
          BY <4>1
        <4>3. QED
          BY <4>2, RingAssumption
      <3>3. /\ Holds("echo")' \o (Queue' \o (Holds("uart_rx")' \o rx)) = left
            /\ InCall'["echo"] = InCall["echo"]
            /\ \/ Queue' = Queue /\ InCall'["uart_rx"] = InCall["uart_rx"]
               \/ \E b \in Byte : /\ InCall["uart_rx"] = F!Put(b) /\ InCall'["uart_rx"] = F!Put0
                                  /\ Queue' = Append(Queue, b)
        BY <1>0, <1>2, <3>1, <3>2, PutFlow
      <3>4. CASE Queue' = Queue /\ InCall'["uart_rx"] = InCall["uart_rx"]
        BY <1>0, <1>4, <3>1, <3>3, <3>4
      <3>5. ASSUME NEW b \in Byte, InCall["uart_rx"] = F!Put(b), InCall'["uart_rx"] = F!Put0,
                   Queue' = Append(Queue, b)
            PROVE  Len(Queue') <= 1 /\ InCall'["uart_rx"].op \notin {"idle", "put"}
        <4>1. Queue = <<>>
          BY <1>4, <3>5 DEF F!Put
        <4>2. Queue' = <<b>> /\ Len(<<b>>) = 1
          BY <3>5, <4>1
        <4>3. QED
          BY <3>5, <4>2 DEF F!Put0
      <3>6. QED
        BY <3>1, <3>3, <3>4, <3>5
    <2>5. QED
      BY <2>1, <2>2, <2>3, <2>4
  <1>6. next = OnTheWay("echo", "uart_rx", rx)'
    BY DEF OnTheWay
  <1> HIDE DEF left, next
  <1>7. TestFlows' /\ KeysFlow' /\ Outputs'
    BY <1>0, <1>1, <1>2, <1>5, <1>6 DEF TestFlows, KeysFlow, Outputs, SettledIInv
  <1>8. AtMostOne'
    <2>1. InCall["echo"].op = "idle" /\ at'["echo"] = "loop"
      BY <1>0, <1>3, <1>5 DEF F!Idle
    <2>2. QED
      BY <1>1, <1>5, <2>1 DEF AtMostOne
  <1>9. QED
    BY <1>7, <1>8 DEF SettledIInv

\* The events of a sequence of keys.
LEMMA EventsOf ==
  ASSUME NEW s \in Seq(Byte)
  PROVE  /\ Len(Events(s)) = Len(s) /\ Len(s) \in Nat
         /\ \A i \in 1 .. Len(s) : Events(s)[i] = KeyEvent(s[i])
  <1>1. Len(s) \in Nat /\ DOMAIN s = 1 .. Len(s)
    BY LenProperties
  <1>2. Events(s) = [i \in 1 .. Len(s) |-> KeyEvent(s[i])]
    BY <1>1 DEF Events
  <1>3. \A i \in 1 .. Len(s) : KeyEvent(s[i]) \in KeyEvents
    BY ElementOfSeq DEF KeyEvents
  <1>4. Events(s) \in Seq(KeyEvents)
    BY <1>1, <1>2, <1>3
  <1>5. Len(Events(s)) = Len(s)
    BY <1>1, <1>2
  <1>6. QED
    BY <1>1, <1>2, <1>5

\* The next key on its way is the next to be echoed.
LEMMA EchoesNext ==
  ASSUME NEW s \in Seq(Byte), NEW o \in Seq(KeyEvents), NEW b \in Byte,
         NEW w \in Seq(Byte), IsPrefix(o, Events(s)), <<b>> \o w = After(s, Len(o))
  PROVE  /\ IsPrefix(Append(o, KeyEvent(b)), Events(s))
         /\ Append(o, KeyEvent(b)) \in Seq(KeyEvents)
         /\ <<>> \o w = After(s, Len(Append(o, KeyEvent(b))))
  <1> DEFINE n == Len(o)
  <1>1. Len(Events(s)) = Len(s) /\ Len(s) \in Nat /\ \A i \in 1 .. Len(s) : Events(s)[i] = KeyEvent(s[i])
    BY EventsOf
  <1>2. n \in Nat /\ n <= Len(s)
    BY <1>1, LenProperties DEF IsPrefix
  <1>3. <<b>> \o w = After(s, n)
    OBVIOUS
  <1> HIDE DEF n
  <1>4. n < Len(s) /\ s[n + 1] = b /\ <<>> \o w = After(s, n + 1)
    BY <1>2, <1>3, ComesOut
  <1>5. n + 1 \in 1 .. Len(s)
    BY <1>1, <1>2, <1>4
  <1>6. n < Len(Events(s)) /\ Len(Events(s)) \in Nat /\ Events(s)[n + 1] = KeyEvent(b)
    BY <1>1, <1>4, <1>5
  <1>7. KeyEvent(b) \in KeyEvents
    BY DEF KeyEvents
  <1>8. /\ IsPrefix(Append(o, KeyEvent(b)), Events(s))
        /\ Append(o, KeyEvent(b)) \in Seq(KeyEvents)
        /\ Len(Append(o, KeyEvent(b))) = n + 1
    BY <1>6, <1>7, PrefixGrows DEF n
  <1>9. QED
    BY <1>4, <1>8

\* ... and ring_consumer_task echoes them.
LEMMA EchoFlows ==
  ASSUME RingUsers, AnyTiming, SettledIInv, IInv', Apart', InTurn,
         EchoGet \/ EchoNothing \/ EchoByte \/ AskKey \/ Halt \/ Echo \/ InRing("echo")
  PROVE  SettledIInv'
  <1>0. /\ "uart_rx" \in Producers /\ "echo" \in Consumers /\ "uart_rx" \in Process /\ "echo" \in Process
        /\ "echo" \in Process \cup {"core3"} /\ Places
        /\ at["uart_rx"] = "loop" /\ Apart /\ IInv /\ turn = "echo"
        /\ TypeOK /\ pc["uart_rx"] = "idle"
    BY Members, TasksAct DEF AnyTiming, ClientsTypeOK, Places, SettledIInv, Apart, IInv
  <1> DEFINE left == Holds("echo") \o (Queue \o (Holds("uart_rx") \o rx))
             next == Holds("echo")' \o (Queue' \o (Holds("uart_rx")' \o rx))
  <1>1. UNCHANGED <<got, typed, rx>> /\ turn' \in {"uart_rx", "echo"}
    BY <1>0 DEF EchoGet, EchoNothing, EchoByte, AskKey, Halt, Echo, InRing, clients, Yield
  <1>2. /\ IsPrefix(out, Events(typed)) /\ left = After(typed, Len(out)) /\ rx \in Seq(Byte) /\ got = Test
        /\ typed \in Seq(Byte) /\ out \in Seq(KeyEvents) /\ Queue \in Seq(Byte)
        /\ Holds("uart_rx") \in Seq(Byte)
    BY <1>0, FlowTypes DEF SettledIInv, KeysFlow, TestFlows, OnTheWay
  <1>3. ASSUME NEW a, NEW b, Move("echo", a, b)
        PROVE  at["echo"] = a /\ at'["echo"] = b /\ at'["uart_rx"] = at["uart_rx"]
    BY <1>0, <1>3, Moved
  <1>4. /\ Len(Queue) <= 1
        /\ InCall["echo"].op \in {"got", "failed"} \/ at["echo"] \in {"ask", "key"} => Queue = <<>>
    BY <1>0 DEF SettledIInv, AtMostOne
  \* What the step does to the keys on their way, and to the ring.
  <1> DEFINE
        Kept == next = left /\ out' = out
        Shown == /\ out' = Append(out, KeyEvent(byte["echo"])) /\ IsPrefix(out', Events(typed))
                 /\ out' \in Seq(KeyEvents) /\ next = After(typed, Len(out'))
        Ring == /\ Len(Queue') <= 1
                /\ turn' = "uart_rx" => Queue' = <<>>
                /\ InCall'["echo"].op \in {"got", "failed"} \/ at'["echo"] \in {"ask", "key"} => Queue' = <<>>
  <1>5. Ring /\ (Kept \/ Shown)
    <2>1. CASE EchoGet
      <3>1. GetCall("echo") /\ out' = out /\ Move("echo", "loop", "got") /\ turn' = "echo"
        BY <1>0, <2>1 DEF EchoGet
      <3>2. at["echo"] \notin Asks /\ at'["echo"] = "got" /\ at'["echo"] \notin Asks /\ at'["uart_rx"] = at["uart_rx"]
        BY <1>3, <3>1 DEF Asks
      <3>3. /\ Queue' = Queue /\ Holds("echo")' = Holds("echo") /\ Holds("uart_rx")' = Holds("uart_rx")
            /\ InCall'["echo"] = F!Get
        BY <1>0, <3>1, <3>2, GetBeginsFlow
      <3>4. InCall'["echo"].op \notin {"got", "failed"}
        BY <3>3 DEF F!Get
      <3>5. QED
        BY <1>4, <3>1, <3>2, <3>3, <3>4
    <2>2. CASE EchoNothing
      <3>1. Return("echo") /\ out' = out /\ Move("echo", "got", "loop") /\ code["echo"] = -1
        BY <2>2 DEF EchoNothing
      <3>2. /\ at["echo"] \notin Asks /\ at'["echo"] = "loop" /\ at'["echo"] \notin Asks
            /\ at'["uart_rx"] = at["uart_rx"]
        BY <1>3, <3>1 DEF Asks
      <3>3. /\ Queue' = Queue /\ Holds("echo")' = Holds("echo") /\ Holds("uart_rx")' = Holds("uart_rx")
            /\ InCall["echo"].op = "failed"
        BY <1>0, <3>1, <3>2, ReturnFlow
      <3>4. QED
        BY <1>4, <3>1, <3>2, <3>3
    <2>3. CASE EchoByte
      <3>1. Return("echo") /\ out' = out /\ Move("echo", "got", "ask") /\ code["echo"] = 0
        BY <2>3 DEF EchoByte
      <3>2. at'["echo"] = "ask" /\ at'["uart_rx"] = at["uart_rx"]
        BY <1>3, <3>1
      <3>3. /\ Queue' = Queue /\ Holds("echo")' = Holds("echo") /\ Holds("uart_rx")' = Holds("uart_rx")
            /\ InCall["echo"].op = "got"
        BY <1>0, <3>1, <3>2, ReturnFlow
      <3>4. QED
        BY <1>4, <3>1, <3>2, <3>3
    <2>4. CASE AskKey
      <3>1. UNCHANGED ring /\ out' = out /\ Move("echo", "ask", "key")
        BY <2>4 DEF AskKey, Acquire
      <3>2. /\ at["echo"] = "ask" /\ at'["uart_rx"] = at["uart_rx"]
            /\ (at["echo"] \in Asks <=> at'["echo"] \in Asks)
        BY <1>3, <3>1 DEF Asks
      <3>3. /\ Queue' = Queue /\ Holds("echo")' = Holds("echo") /\ Holds("uart_rx")' = Holds("uart_rx")
        BY <1>0, <3>1, <3>2, HoldsKept
      <3>4. QED
        BY <1>4, <3>1, <3>2, <3>3
    <2>5. CASE Halt \/ Echo
      <3> DEFINE b == byte["echo"]
                 w == Queue \o (Holds("uart_rx") \o rx)
      <3>1. /\ UNCHANGED ring /\ out' = Append(out, KeyEvent(b))
            /\ Move("echo", "key", "halted") \/ Move("echo", "key", "loop")
        BY <2>5 DEF Halt, Echo
      <3>2. /\ at["echo"] = "key" /\ at'["echo"] \in {"halted", "loop"} /\ at'["echo"] \notin Asks
            /\ at'["uart_rx"] = at["uart_rx"]
        BY <1>3, <3>1 DEF Asks
      <3>3. pc["echo"] = "idle"
        BY <1>0, <3>2 DEF Apart
      <3>4. Holds("echo") = <<b>> /\ b \in Byte /\ Holds("echo")' = <<>>
        BY <1>0, <3>1, <3>2, <3>3, PrintsWhatItHolds DEF Asks
      <3>5. Queue' = Queue /\ Holds("uart_rx")' = Holds("uart_rx") /\ InCall' = InCall
        BY <1>0, <3>1, <3>2, HoldsKept
      <3>6. InCall'["echo"].op \notin {"got", "failed"} /\ Queue = <<>>
        <4>1. InCall["echo"] = F!Idle
          BY <1>0, <3>3, CallIs DEF CallOK
        <4>2. QED
          BY <1>4, <3>2, <3>5, <4>1 DEF F!Idle
      <3>7. w \in Seq(Byte)
        BY <1>2, WayLength
      <3>8. <<b>> \o w = After(typed, Len(out)) /\ next = <<>> \o w
        BY <1>2, <3>4, <3>5
      <3> HIDE DEF w, b
      <3>9. /\ IsPrefix(Append(out, KeyEvent(b)), Events(typed))
            /\ Append(out, KeyEvent(b)) \in Seq(KeyEvents)
            /\ <<>> \o w = After(typed, Len(Append(out, KeyEvent(b))))
        <4>1. /\ typed \in Seq(Byte) /\ out \in Seq(KeyEvents) /\ b \in Byte
              /\ IsPrefix(out, Events(typed))
          BY <1>2, <3>4
        <4>2. w \in Seq(Byte) /\ <<b>> \o w = After(typed, Len(out))
          BY <3>7, <3>8
        <4>3. QED
          BY <4>1, <4>2, EchoesNext
      <3>14. Shown
        BY <3>1, <3>8, <3>9 DEF b
      <3>15. Ring
        BY <1>4, <3>2, <3>5, <3>6
      <3>16. QED
        BY <3>14, <3>15
    <2>6. CASE InRing("echo")
      <3>1. GetStep("echo") /\ at' = at /\ out' = out /\ turn' = "echo"
        BY <1>0, <2>6, Sides DEF InRing, clients
      <3>2. at["echo"] = "got" /\ at["echo"] \notin Asks
        BY <1>0, <2>6, StepsInCall DEF InRing, Apart, Asks
      <3>3. /\ next = left
            /\ \/ Queue' = Queue /\ InCall'["echo"] = InCall["echo"]
               \/ Queue = <<>> /\ Queue' = <<>> /\ InCall'["echo"] = F!Failed
               \/ Queue # <<>> /\ Queue' = Tail(Queue)
        BY <1>0, <1>2, <3>1, <3>2, GetFlow
      <3>4. Queue # <<>> => Tail(Queue) = <<>>
        <4>1. ASSUME Queue # <<>> PROVE Tail(Queue) \in Seq(Byte) /\ Len(Tail(Queue)) = Len(Queue) - 1
          BY <1>2, <4>1, HeadTailProperties
        <4>2. ASSUME NEW s \in Seq(Byte), Len(s) <= 0 PROVE s = <<>>
          BY <4>2, LenProperties
        <4>3. Len(Queue) \in Nat
          BY <1>2, LenProperties
        <4>4. QED
          BY <1>4, <4>1, <4>2, <4>3
      <3>5. Len(<<>>) = 0 /\ at'["echo"] = "got"
        BY <3>1, <3>2
      <3>6. CASE Queue' = Queue /\ InCall'["echo"] = InCall["echo"]
        BY <1>4, <3>1, <3>3, <3>5, <3>6
      <3>7. CASE Queue' = <<>>
        <4>1. Ring
          BY <3>5, <3>7
        <4>2. Kept
          BY <3>1, <3>3
        <4>3. QED
          BY <4>1, <4>2
      <3>8. (Queue' = Queue /\ InCall'["echo"] = InCall["echo"]) \/ Queue' = <<>>
        BY <3>3, <3>4
      <3>9. QED
        BY <3>6, <3>7, <3>8, Zenon
    <2>7. QED
      BY <2>1, <2>2, <2>3, <2>4, <2>5, <2>6
  <1>6. next = OnTheWay("echo", "uart_rx", rx)'
    BY <1>1 DEF OnTheWay
  <1> HIDE DEF left, next
  <1>7. TestFlows' /\ KeysFlow' /\ Outputs'
    BY <1>0, <1>1, <1>2, <1>5, <1>6 DEF TestFlows, KeysFlow, Outputs, SettledIInv
  <1>8. AtMostOne'
    BY <1>5 DEF AtMostOne
  <1>9. QED
    BY <1>7, <1>8 DEF SettledIInv

\* What is on its way when nobody holds or has put anything.
LEMMA NothingOnTheWay ==
  ASSUME NEW S, NEW r \in Seq(S)
  PROVE  <<>> \o (<<>> \o (<<>> \o r)) = r
  BY ConcatEmptySeq

\* Nothing is a prefix of anything.
LEMMA EmptyPrefix ==
  ASSUME NEW t, Len(t) \in Nat
  PROVE  IsPrefix(<<>>, t)
  <1>1. Len(<<>>) = 0
    OBVIOUS
  <1>2. QED
    BY <1>1 DEF IsPrefix

\* sched_run finds the ring empty: Core 2 has got all that Core 1 put.
LEMMA StartFlows ==
  ASSUME RingUsers, AnyTiming, SettledIInv, Settled, IInv', Apart', StartTasks
  PROVE  SettledIInv'
  <1>0. /\ "core1" \in Process /\ "core2" \in Process /\ "uart_rx" \in Process /\ "echo" \in Process
        /\ Apart /\ IInv /\ turn = "none" /\ turn' = "uart_rx"
        /\ UNCHANGED <<ring, at, got, out, rx, typed, sent>>
    BY Members DEF StartTasks, SettledIInv
  <1>1. Received
    <2>1. <<2, 0>> \in held
      BY DEF Settled, AllPairs
    <2>2. QED
      BY <2>1 DEF StartTasks
  <1>2. IsPrefix(got, Test) /\ OnTheWay("core2", "core1", After(Test, sent)) = After(Test, Len(got))
    BY <1>0 DEF SettledIInv, TestFlows
  <1>3. got = Test
    <2>1. got \in Seq(Byte) /\ Test \in Seq(Byte) /\ Len(got) = Len(Test)
      BY <1>1, FlowTypes DEF Received
    <2>2. \A i \in 1 .. Len(got) : got[i] = Test[i]
      BY <1>2 DEF IsPrefix
    <2>3. QED
      BY <2>1, <2>2, SeqEqual
  <1>4. Queue = <<>>
    <2> DEFINE r == After(Test, sent)
               h == Holds("core2")
               g == Holds("core1")
    <2>1. After(Test, Len(got)) = <<>>
      BY <1>3, Members, AfterAll
    <2>2. h \o (Queue \o (g \o r)) = <<>>
      BY <1>2, <2>1 DEF OnTheWay
    <2>3. h \in Seq(Byte) /\ Queue \in Seq(Byte) /\ g \in Seq(Byte) /\ r \in Seq(Byte)
      BY <1>0, FlowTypes
    <2> HIDE DEF h, g, r
    <2>4. /\ Len(h \o (Queue \o (g \o r))) = Len(h) + (Len(Queue) + (Len(g) + Len(r)))
          /\ Len(h) \in Nat /\ Len(Queue) \in Nat /\ Len(g) \in Nat /\ Len(r) \in Nat
      BY <2>3, WayLength
    <2>5. Len(h \o (Queue \o (g \o r))) = 0
      BY <2>2
    <2>6. Len(Queue) = 0
      BY <2>4, <2>5
    <2>7. QED
      BY <2>3, <2>6, EmptySeq
  <1>5. Holds("echo") = <<>> /\ Holds("uart_rx") = <<>>
    <2>1. /\ at["echo"] = "loop" /\ at["uart_rx"] = "loop"
          /\ pc["echo"] = "idle" /\ pc["uart_rx"] = "idle"
      BY <1>0 DEF Apart
    <2>2. InCall["echo"] = F!Idle /\ InCall["uart_rx"] = F!Idle
      BY <1>0, <2>1, CallIs DEF CallOK
    <2>3. QED
      BY <1>0, <2>1, <2>2, HoldsBy DEF HoldsOK
  <1>6. Queue' = <<>> /\ Holds("echo")' = <<>> /\ Holds("uart_rx")' = <<>>
    BY <1>0, <1>4, <1>5, HoldsKept
  <1>7. rx \in Seq(Byte) /\ rx = typed /\ out = <<>>
    BY <1>0, FlowTypes DEF SettledIInv, KeysFlow
  <1>8. KeysFlow'
    <2>1. OnTheWay("echo", "uart_rx", rx)' = rx
      BY <1>0, <1>6, <1>7, NothingOnTheWay DEF OnTheWay
    <2>2. Len(out) = 0
      BY <1>7
    <2>3. After(typed, Len(out)) = rx
      BY <1>7, <2>2, AfterNone
    <2>4. Len(Events(typed)) \in Nat
      BY <1>7, EventsOf
    <2>5. IsPrefix(out, Events(typed))
      BY <1>7, <2>4, EmptyPrefix
    <2>6. QED
      BY <1>0, <2>1, <2>3, <2>5 DEF KeysFlow
  <1>9. AtMostOne'
    <2>1. Len(<<>>) = 0
      OBVIOUS
    <2>2. QED
      BY <1>6, <2>1 DEF AtMostOne
  <1>10. TestFlows' /\ Outputs'
    BY <1>0, <1>3 DEF TestFlows, Outputs, SettledIInv
  <1>11. QED
    BY <1>8, <1>9, <1>10 DEF SettledIInv

\* A step that leaves the ring, what is printed and typed, and the places of its users
\* alone leaves the flows alone.
LEMMA SameFlows ==
  ASSUME RingUsers, SettledIInv, IInv', Apart', UNCHANGED <<ring, turn, sent, rx, typed, got, out>>,
         \A p \in Process : at'[p] = at[p]
  PROVE  SettledIInv'
  <1>1. /\ "core1" \in Process /\ "core2" \in Process /\ "uart_rx" \in Process /\ "echo" \in Process
    BY Members
  <1>2. /\ Queue' = Queue /\ InCall' = InCall
        /\ Holds("core1")' = Holds("core1") /\ Holds("core2")' = Holds("core2")
        /\ Holds("uart_rx")' = Holds("uart_rx") /\ Holds("echo")' = Holds("echo")
    BY <1>1, HoldsKept
  <1>3. TestFlows' /\ KeysFlow' /\ Outputs'
    BY <1>2 DEF SettledIInv, TestFlows, KeysFlow, Outputs, OnTheWay
  <1>4. AtMostOne'
    BY <1>1, <1>2 DEF SettledIInv, AtMostOne
  <1>5. QED
    BY <1>3, <1>4 DEF SettledIInv

\* A key that is typed is the last on its way.
LEMMA TypeFlows ==
  ASSUME RingUsers, AnyTiming, SettledIInv, IInv', Apart', NEW b \in Byte, Type(b)
  PROVE  SettledIInv'
  <1>1. /\ "core1" \in Process /\ "core2" \in Process /\ "uart_rx" \in Process /\ "echo" \in Process
    BY Members
  <1>2. /\ rx' = Append(rx, b) /\ typed' = Append(typed, b)
        /\ UNCHANGED <<ring, at, turn, sent, got, out>>
    BY DEF Type
  <1>3. /\ Queue' = Queue /\ InCall' = InCall
        /\ Holds("core1")' = Holds("core1") /\ Holds("core2")' = Holds("core2")
        /\ Holds("uart_rx")' = Holds("uart_rx") /\ Holds("echo")' = Holds("echo")
    BY <1>1, <1>2, HoldsKept
  <1>4. TestFlows' /\ Outputs'
    BY <1>2, <1>3 DEF SettledIInv, TestFlows, Outputs, OnTheWay
  <1>5. AtMostOne'
    BY <1>2, <1>3 DEF SettledIInv, AtMostOne
  <1>6. KeysFlow'
    <2>1. CASE turn = "none"
      BY <1>2, <2>1 DEF SettledIInv, KeysFlow
    <2>2. CASE turn # "none"
      <3> DEFINE h == Holds("echo")
                 g == Holds("uart_rx")
                 n == Len(out)
      <3>1. /\ h \in Seq(Byte) /\ Queue \in Seq(Byte) /\ g \in Seq(Byte) /\ rx \in Seq(Byte)
            /\ typed \in Seq(Byte) /\ n \in Nat
        BY <1>1, FlowTypes
      <3>2. IsPrefix(out, Events(typed)) /\ h \o (Queue \o (g \o rx)) = After(typed, n)
        BY <2>2 DEF SettledIInv, KeysFlow, OnTheWay
      <3>3. OnTheWay("echo", "uart_rx", rx)' = h \o (Queue \o (g \o Append(rx, b)))
        BY <1>2, <1>3 DEF OnTheWay
      <3> HIDE DEF h, g
      <3>4. h \o (Queue \o (g \o Append(rx, b))) = Append(h \o (Queue \o (g \o rx)), b)
        <4>1. g \o Append(rx, b) = Append(g \o rx, b) /\ g \o rx \in Seq(Byte)
          BY <3>1, AppendsOn, ConcatProperties
        <4>2. Queue \o Append(g \o rx, b) = Append(Queue \o (g \o rx), b) /\ Queue \o (g \o rx) \in Seq(Byte)
          BY <3>1, <4>1, AppendsOn, ConcatProperties
        <4>3. h \o Append(Queue \o (g \o rx), b) = Append(h \o (Queue \o (g \o rx)), b)
          BY <3>1, <4>2, AppendsOn
        <4>4. QED
          BY <4>1, <4>2, <4>3
      <3>5. Len(Events(typed)) = Len(typed) /\ Len(typed) \in Nat
            /\ \A i \in 1 .. Len(typed) : Events(typed)[i] = KeyEvent(typed[i])
        BY <3>1, EventsOf
      <3>6. n <= Len(typed) /\ \A i \in 1 .. n : out[i] = Events(typed)[i]
        BY <3>2, <3>5 DEF IsPrefix
      <3>7. After(Append(typed, b), n) = Append(After(typed, n), b)
        <4>1. n \in 0 .. Len(typed)
          BY <3>1, <3>5, <3>6
        <4>2. QED
          BY <3>1, <4>1, AfterAppend
      <3>8. IsPrefix(out, Events(Append(typed, b)))
        <4> DEFINE t == Append(typed, b)
        <4>1. t \in Seq(Byte) /\ Len(t) = Len(typed) + 1 /\ \A i \in 1 .. Len(typed) : t[i] = typed[i]
          BY <3>1, AppendProperties
        <4> HIDE DEF t
        <4>2. Len(Events(t)) = Len(t) /\ \A i \in 1 .. Len(t) : Events(t)[i] = KeyEvent(t[i])
          BY <4>1, EventsOf
        <4>3. ASSUME NEW i \in 1 .. n PROVE out[i] = Events(t)[i]
          <5>1. i \in 1 .. Len(typed) /\ i \in 1 .. Len(t)
            BY <3>1, <3>5, <3>6, <4>1
          <5>2. QED
            BY <3>5, <3>6, <4>1, <4>2, <5>1
        <4>4. n <= Len(Events(t))
          BY <3>1, <3>5, <3>6, <4>1, <4>2
        <4>5. QED
          BY <4>3, <4>4 DEF t, IsPrefix
      <3> HIDE DEF n
      <3>9. OnTheWay("echo", "uart_rx", rx)' = After(typed', n)
        BY <1>2, <3>2, <3>3, <3>4, <3>7
      <3>10. QED
        BY <1>2, <2>2, <3>8, <3>9 DEF KeysFlow, n
    <2>3. QED
      BY <2>1, <2>2
  <1>7. QED
    BY <1>4, <1>5, <1>6 DEF SettledIInv

\* The cores start apart, with the ring empty and nothing printed.
LEMMA InitSettled == RingUsers /\ ClientsInit => SettledIInv
  <1> SUFFICES ASSUME RingUsers, ClientsInit PROVE SettledIInv
    OBVIOUS
  <1>0. /\ Process = {"core1", "uart_rx", "core2", "echo"} /\ Test \in Seq(Byte) /\ Len(Test) > 0
        /\ Len(Test) \in Nat
    BY Members
  <1>1. Init /\ at["core1"] = "push" /\ at["core2"] = "delay" /\ at["uart_rx"] = "loop" /\ at["echo"] = "loop"
    BY <1>0 DEF ClientsInit
  <1>2. IInv /\ pc = [p \in Process |-> "idle"] /\ Queue = <<>>
    BY <1>1, InitIInv, InitImplements DEF Init, F!Init
  <1>3. turn = "none" /\ sent = 0 /\ rx = <<>> /\ typed = <<>> /\ got = <<>> /\ out = <<>>
    BY DEF ClientsInit
  <1>4. Apart
    BY <1>0, <1>1, <1>2, <1>3 DEF Apart
  <1>5. Holds("core1") = <<>> /\ Holds("core2") = <<>>
    <2>1. InCall["core1"] = F!Idle /\ InCall["core2"] = F!Idle
      BY <1>0, <1>2, CallIs DEF CallOK
    <2>2. QED
      BY <1>0, <1>1, <2>1, HoldsBy DEF HoldsOK
  <1>6. TestFlows
    <2>1. Len(<<>>) = 0 /\ After(Test, 0) = Test
      BY <1>0, AfterNone
    <2>2. OnTheWay("core2", "core1", After(Test, sent)) = Test
      BY <1>0, <1>2, <1>3, <1>5, <2>1, NothingOnTheWay DEF OnTheWay
    <2>3. IsPrefix(got, Test)
      BY <1>0, <1>3, EmptyPrefix
    <2>4. QED
      BY <1>3, <2>1, <2>2, <2>3 DEF TestFlows
  <1>7. KeysFlow /\ AtMostOne
    BY <1>3 DEF KeysFlow, AtMostOne
  <1>8. Outputs
    BY <1>3, EmptySeq DEF Outputs
  <1>9. QED
    BY <1>2, <1>4, <1>6, <1>7, <1>8 DEF SettledIInv

\* Every step of the cores keeps what is on its way on its way.
LEMMA NextSettled ==
  ASSUME RingUsers, AnyTiming, Settled, SettledIInv, [ClientsNext]_allVars
  PROVE  SettledIInv'
  <1>1. IInv /\ Apart
    BY DEF SettledIInv
  <1>2. InTurn /\ IInv' /\ Apart'
    BY <1>1, RingKept, NextApart
  <1>3. ASSUME Core0 PROVE SettledIInv'
    <2>1. CASE StartTasks
      BY <1>2, <2>1, StartFlows
    <2>2. CASE RxNothing \/ RxByte \/ RxStored \/ InRing("uart_rx")
      BY <1>2, <2>2, RxFlows
    <2>3. CASE EchoGet \/ EchoNothing \/ EchoByte \/ AskKey \/ Halt \/ Echo \/ InRing("echo")
      BY <1>2, <2>3, EchoFlows
    <2>4. QED
      BY <1>3, <2>1, <2>2, <2>3 DEF Core0
  <1>4. ASSUME Core3 PROVE SettledIInv'
    <2>1. UNCHANGED <<ring, turn, sent, rx, typed, got, out>>
      BY <1>4 DEF Core3, Poll, PollMessage, AskReport, Report
    <2>2. at' = at \/ \E a, b : Move("core3", a, b)
      BY <1>4 DEF Core3, Poll, PollMessage, AskReport, Report, Acquire
    <2>3. \A p \in Process : at'[p] = at[p]
      BY <2>2, Moved, Members DEF AnyTiming, ClientsTypeOK
    <2>4. QED
      BY <1>2, <2>1, <2>3, SameFlows
  <1>5. CASE UNCHANGED allVars
    <2>1. UNCHANGED <<ring, turn, sent, rx, typed, got, out>> /\ at' = at
      BY <1>5 DEF allVars, clients
    <2>2. QED
      BY <1>2, <2>1, SameFlows
  <1>6. QED
    BY <1>2, <1>3, <1>4, <1>5, Core1Flows, Core2Flows, TypeFlows DEF ClientsNext

\* The inductive invariant of all the users of the ring, for any timing.
THEOREM ClientsInvariance ==
  ASSUME RingUsers
  PROVE  SafeSpec => []ClientsIInv
  <1>1. ClientsInit => ClientsIInv
    BY InitAnyTiming, InitSettled DEF ClientsIInv, AnyTiming
  <1>2. ClientsIInv /\ [ClientsNext]_allVars => ClientsIInv'
    <2> SUFFICES ASSUME ClientsIInv, [ClientsNext]_allVars PROVE ClientsIInv'
      OBVIOUS
    <2>1. AnyTiming /\ (Settled => SettledIInv)
      BY DEF ClientsIInv, AnyTiming
    <2>2. AnyTiming'
      BY <2>1, NextAnyTiming
    <2>3. Settled' = Settled
      BY DEF ClientsNext, allVars, Settled
    <2>4. Settled => SettledIInv'
      BY <2>1, NextSettled
    <2>5. QED
      BY <2>2, <2>3, <2>4 DEF ClientsIInv, AnyTiming
  <1>3. QED
    BY <1>1, <1>2, PTL DEF SafeSpec

\* When the delays hold, what Core 1 puts and what is typed is printed in order, although
\* nobody looks at the result of ring_buffer_put.
THEOREM EchoesInOrder ==
  ASSUME RingUsers
  PROVE  SafeSpec => []EchoInOrder
  <1>1. ClientsIInv => EchoInOrder
    <2> SUFFICES ASSUME ClientsIInv, Settled PROVE IsPrefix(got, Test) /\ IsPrefix(out, Events(typed))
      BY DEF EchoInOrder
    <2>1. SettledIInv /\ typed \in Seq(Byte)
      BY DEF ClientsIInv, ClientsTypeOK
    <2>2. IsPrefix(got, Test)
      BY <2>1, Members DEF SettledIInv, TestFlows, IsPrefix
    <2>3. Len(Events(typed)) \in Nat
      BY <2>1, EventsOf
    <2>4. IsPrefix(out, Events(typed))
      BY <2>1, <2>3, EmptyPrefix DEF SettledIInv, KeysFlow
    <2>5. QED
      BY <2>2, <2>4
  <1>2. QED
    BY ClientsInvariance, <1>1, PTL

\* When they hold, the two producers and the two consumers are those of one queue: their
\* calls act on it at one instant each, and fail only when it is full or empty.
THEOREM ClientsImplement ==
  ASSUME RingUsers
  PROVE  SafeSpec => ClientsImplementFifo
  <1>1. ClientsInit => Together!Init
    <2> SUFFICES ASSUME ClientsInit PROVE Together!Init
      OBVIOUS
    <2>1. Init
      BY DEF ClientsInit
    <2>2. Queue = <<>> /\ InCall = [p \in Process |-> F!Idle]
      BY <2>1, InitImplements DEF F!Init, Process
    <2>3. QED
      BY <2>2 DEF Together!Init, Together!Idle, F!Idle, Process
  <1>2. ClientsIInv /\ ClientsIInv' /\ [ClientsNext]_allVars => [Together!Next]_(Together!vars)
    <2> SUFFICES ASSUME ClientsIInv, ClientsIInv', [ClientsNext]_allVars
                 PROVE  [Together!Next]_(Together!vars)
      OBVIOUS
    <2>1. Settled' = Settled
      BY DEF ClientsNext, allVars, Settled
    <2>2. CASE ~Settled
      BY <2>1, <2>2 DEF Together!vars
    <2>3. CASE Settled
      <3>1. AnyTiming /\ SettledIInv /\ IInv'
        BY <2>1, <2>3 DEF ClientsIInv, AnyTiming, SettledIInv
      <3>2. InTurn /\ IInv /\ [Next]_vars
        BY <3>1, RingKept DEF SettledIInv
      <3>3. [F!Next]_(F!vars)
        BY <3>1, <3>2, NextImplements
      <3>4. CASE UNCHANGED F!vars
        BY <2>1, <2>3, <3>4 DEF F!vars, Together!vars
      <3>5. ASSUME NEW p \in Process, NEW a, NEW b, F!Become(p, a, b) PROVE Together!Become(p, a, b)
        BY <2>1, <2>3, <3>5 DEF F!Become, Together!Become
      <3>6. ASSUME NEW p \in Process, F!Start(p) PROVE Together!Start(p)
        BY <2>1, <2>3, <3>5, <3>6 DEF F!Start, F!Idle, F!Put, F!Get, Together!Start, Together!Idle,
           Together!Put, Together!Get
      <3>7. ASSUME NEW p \in Process, F!Store(p) PROVE Together!Store(p)
        BY <2>1, <2>3, <3>5, <3>7 DEF F!Store, F!Put, F!Put0, Together!Store, Together!Put, Together!Put0
      <3>8. ASSUME NEW p \in Process, F!Full(p) PROVE Together!Full(p)
        BY <2>1, <2>3, <3>5, <3>8 DEF F!Full, F!Put, F!Failed, Together!Full, Together!Put, Together!Failed
      <3>9. ASSUME NEW p \in Process, F!Take(p) PROVE Together!Take(p)
        BY <2>1, <2>3, <3>5, <3>9 DEF F!Take, F!Get, F!Get0, Together!Take, Together!Get, Together!Get0
      <3>10. ASSUME NEW p \in Process, F!Empty(p) PROVE Together!Empty(p)
        BY <2>1, <2>3, <3>5, <3>10 DEF F!Empty, F!Get, F!Failed, Together!Empty, Together!Get,
           Together!Failed
      <3>11. ASSUME NEW p \in Process, F!Return(p) PROVE Together!Return(p)
        BY <2>1, <2>3, <3>11 DEF F!Return, F!Idle, Together!Return, Together!Idle
      <3>12. QED
        BY <3>3, <3>4, <3>6, <3>7, <3>8, <3>9, <3>10, <3>11 DEF F!Next, Together!Next, Process
    <2>4. QED
      BY <2>2, <2>3
  <1>3. QED
    BY ClientsInvariance, <1>1, <1>2, PTL DEF SafeSpec, ClientsImplementFifo, Together!Spec
=============================================================================
