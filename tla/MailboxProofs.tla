---------------------------- MODULE MailboxProofs ----------------------------
(***************************************************************************)
(* Proofs about Mailbox.tla, for any cores, routes, message types,         *)
(* payloads, counter width and number of damaged messages: the inductive   *)
(* invariant, the exclusion of the mailbox locks, and that an undamaged    *)
(* ready message always verifies.                                          *)
(***************************************************************************)
EXTENDS Mailbox, TLAPS

\* A call works on a mailbox of one of the cores.
LEMMA BoxIsCore ==
  ASSUME TypeOK, NEW c \in Cores
  PROVE  Box(c) \in Cores /\ arg[c].op \in {"send", "receive", "clear"}
  BY DEF TypeOK, Requests, Send, Receive, Clear, Box

\* The arguments of a send are a core, a type and a payload.
LEMMA SendArguments ==
  ASSUME TypeOK, NEW c \in Cores, arg[c].op = "send"
  PROVE  arg[c].to \in Cores /\ arg[c].type \in Types /\ arg[c].data \in Data
  BY DEF TypeOK, Requests, Send, Receive, Clear

\* What a core may ask for is a request.
LEMMA RequestsAllowed ==
  ASSUME NEW c \in Cores, NEW r \in RequestsOf(c)
  PROVE  r \in Requests
  BY DEF RequestsOf, Requests

\* The counter wraps into its range.
LEMMA CounterWraps ==
  ASSUME NEW n \in 0 .. CounterMod - 1
  PROVE  (n + 1) % CounterMod \in 0 .. CounterMod - 1
  BY MailboxAssumption

\* The initial state satisfies the inductive invariant.
LEMMA InitIInv == Init => IInv
  <1> SUFFICES ASSUME Init PROVE IInv
    OBVIOUS
  <1>1. TypeOK
    BY MailboxAssumption DEF Init, TypeOK, Requests, Clear, Result
  <1>2. MailboxLocked /\ InItsFunction /\ AsLeft /\ ReadyTagged /\ ReadyVerifies
    BY DEF Init, MailboxLocked, Holds, InItsFunction, AsLeft, AsLeftBy, ReadyTagged, ReadyVerifies
  <1>3. QED
    BY <1>1, <1>2 DEF IInv

-----------------------------------------------------------------------------
\* Types are preserved by every step.
LEMMA TypePreserved == IInv /\ [Next]_vars => TypeOK'
  <1> SUFFICES ASSUME IInv, [Next]_vars PROVE TypeOK'
    OBVIOUS
  <1> USE DEF IInv, TypeOK
  <1>1. ASSUME NEW c \in Cores, NEW r \in RequestsOf(c), Call(c, r) PROVE TypeOK'
    <2>1. r \in Requests
      BY RequestsAllowed
    <2>2. QED
      BY <1>1, <2>1 DEF Call, Goto, mailboxes
  <1>2. ASSUME NEW c \in Cores, Step(c) PROVE TypeOK'
    <2>1. Box(c) \in Cores /\ arg[c].op \in {"send", "receive", "clear"}
      BY BoxIsCore
    <2>2. CASE Lock(c)
      BY <2>1, <2>2 DEF Lock, Goto
    <2>3. CASE Unlock(c)
      BY <2>1, <2>3 DEF Unlock, Goto
    <2>4. CASE SendFull(c)
      BY <2>4 DEF SendFull, Goto, Result, mailboxes
    <2>5. CASE SendWrite(c)
      <3>1. arg[c].op = "send"
        BY <2>5 DEF SendWrite, Goto, InItsFunction
      <3>2. (fields[Box(c)].counter + 1) % CounterMod \in 0 .. CounterMod - 1
        BY <2>1, CounterWraps
      <3>3. QED
        BY <2>1, <2>5, <3>1, <3>2, SendArguments DEF SendWrite, Goto
    <2>6. CASE SendTag(c)
      <3>1. pc[c] = "tag" /\ arg[c].op = "send"
        BY <2>6 DEF SendTag, Goto, InItsFunction
      <3>2. fields[Box(c)] \in Fields
        <4>1. fields[Box(c)] = [sender |-> c, type |-> arg[c].type, data |-> arg[c].data,
                                counter |-> fields[Box(c)].counter]
          BY <3>1 DEF AsLeft, AsLeftBy
        <4>2. fields[Box(c)].counter \in 0 .. CounterMod - 1
          BY <2>1
        <4>3. QED
          BY <3>1, <4>1, <4>2, SendArguments DEF Fields
      <3>3. QED
        BY <2>1, <2>6, <3>2 DEF SendTag, Goto, Hmac, Tags
    <2>7. CASE SendReady(c)
      BY <2>1, <2>7 DEF SendReady, Goto, Result
    <2>8. CASE ReceiveNothing(c)
      BY <2>8 DEF ReceiveNothing, Goto, Result, mailboxes
    <2>9. CASE ReceiveVerify(c)
      BY <2>9 DEF ReceiveVerify, Goto, mailboxes
    <2>10. CASE ReceiveTake(c)
      <3>1. pc[c] = "take" /\ Box(c) = c
        BY <2>10 DEF ReceiveTake, Goto, InItsFunction, Box
      <3>2. fields[c] \in Fields
        <4>1. status[c] = 1 /\ tag[c] = [over |-> fields[c]]
          BY <3>1 DEF AsLeft, AsLeftBy, Verifies, Hmac
        <4>2. tag[c] \in Tags
          BY <4>1 DEF ReadyTagged
        <4>3. QED
          BY <4>1, <4>2 DEF Tags
      <3>3. QED
        BY <2>10, <3>2 DEF ReceiveTake, Goto, Result, Msg, Fields
    <2>11. CASE ReceiveReject(c)
      BY <2>11 DEF ReceiveReject, Goto, Result
    <2>12. CASE ClearStatus(c)
      BY <2>12 DEF ClearStatus, Goto, Result
    <2>13. CASE ClearType(c)
      BY <2>13 DEF ClearType, Goto
    <2>14. QED
      BY <1>2, <2>2, <2>3, <2>4, <2>5, <2>6, <2>7, <2>8, <2>9, <2>10, <2>11,
         <2>12, <2>13 DEF Step
  <1>3. ASSUME NEW c \in Cores, Damage(c) PROVE TypeOK'
    <2>1. PICK x \in Data : fields' = [fields EXCEPT ![c].data = x]
      BY <1>3 DEF Damage
    <2>2. fields' \in [Cores -> [sender : Cores \cup {None}, type : Types \cup {None},
                                 data : Data \cup {None}, counter : 0 .. CounterMod - 1]]
      <3>1. fields' = [fields EXCEPT ![c] = [fields[c] EXCEPT !.data = x]]
        BY <2>1
      <3>2. [fields[c] EXCEPT !.data = x] \in
              [sender : Cores \cup {None}, type : Types \cup {None},
               data : Data \cup {None}, counter : 0 .. CounterMod - 1]
        OBVIOUS
      <3>3. QED
        BY <3>1, <3>2
    <2>3. QED
      BY <1>3, <2>2, MailboxAssumption DEF Damage
  <1>4. CASE UNCHANGED vars
    BY <1>4 DEF vars, mailboxes
  <1>5. QED
    BY <1>1, <1>2, <1>3, <1>4 DEF Next

-----------------------------------------------------------------------------
\* No step lets a second core into a locked mailbox.
LEMMA LockedPreserved == IInv /\ [Next]_vars => MailboxLocked'
  <1> SUFFICES ASSUME IInv, [Next]_vars PROVE MailboxLocked'
    OBVIOUS
  <1> USE DEF IInv, TypeOK, MailboxLocked, Holds, Box
  <1>1. ASSUME NEW c \in Cores, NEW r \in RequestsOf(c), Call(c, r) PROVE MailboxLocked'
    <2>1. lock' = lock /\ pc[c] = "idle" /\ pc'[c] = "lock"
      BY <1>1 DEF Call, Goto, mailboxes
    <2>2. \A b \in Cores \ {c} : pc'[b] = pc[b] /\ arg'[b] = arg[b]
      BY <1>1 DEF Call, Goto
    <2>3. \A b, d \in Cores : Holds(b, d)' <=> Holds(b, d)
      BY <2>1, <2>2
    <2>4. QED
      BY <2>1, <2>3
  <1>2. ASSUME NEW c \in Cores, Step(c) PROVE MailboxLocked'
    <2>1. arg' = arg /\ Box(c) \in Cores /\ arg[c].op \in {"send", "receive", "clear"}
      BY <1>2, BoxIsCore DEF Step, Lock, Unlock, SendFull, SendWrite, SendTag, SendReady,
         ReceiveNothing, ReceiveVerify, ReceiveTake, ReceiveReject, ClearStatus, ClearType
    <2>2. CASE Lock(c)
      BY <2>1, <2>2 DEF Lock, Goto
    <2>3. CASE Unlock(c)
      BY <2>1, <2>3 DEF Unlock, Goto
    <2>4. CASE ~(Lock(c) \/ Unlock(c))
      <3>1. /\ lock' = lock
            /\ pc[c] \notin {"idle", "lock"}
            /\ \E to \in {"tag", "ready", "take", "type", "unlock"} :
                 pc' = [pc EXCEPT ![c] = to]
        BY <1>2, <2>4 DEF Step, Goto, mailboxes, SendFull, SendWrite, SendTag, SendReady,
           ReceiveNothing, ReceiveVerify, ReceiveTake, ReceiveReject, ClearStatus, ClearType
      <3>2. QED
        BY <2>1, <3>1
    <2>5. QED
      BY <2>2, <2>3, <2>4
  <1>3. ASSUME NEW c \in Cores, Damage(c) PROVE MailboxLocked'
    BY <1>3 DEF Damage
  <1>4. CASE UNCHANGED vars
    BY <1>4 DEF vars, mailboxes
  <1>5. QED
    BY <1>1, <1>2, <1>3, <1>4 DEF Next

\* No step leaves a core in a function it has not called.
LEMMA FunctionPreserved == IInv /\ [Next]_vars => InItsFunction'
  <1> SUFFICES ASSUME IInv, [Next]_vars PROVE InItsFunction'
    OBVIOUS
  <1> USE DEF IInv, TypeOK, InItsFunction
  <1>1. ASSUME NEW c \in Cores, NEW r \in RequestsOf(c), Call(c, r) PROVE InItsFunction'
    BY <1>1 DEF Call, Goto
  <1>2. ASSUME NEW c \in Cores, Step(c) PROVE InItsFunction'
    <2>1. CASE Lock(c)
      BY <2>1, BoxIsCore DEF Lock, Goto
    <2>2. CASE ~Lock(c)
      BY <1>2, <2>2 DEF Step, Goto, Unlock, SendFull, SendWrite, SendTag, SendReady,
         ReceiveNothing, ReceiveVerify, ReceiveTake, ReceiveReject, ClearStatus, ClearType
    <2>3. QED
      BY <2>1, <2>2
  <1>3. ASSUME NEW c \in Cores, Damage(c) PROVE InItsFunction'
    BY <1>3 DEF Damage
  <1>4. CASE UNCHANGED vars
    BY <1>4 DEF vars
  <1>5. QED
    BY <1>1, <1>2, <1>3, <1>4 DEF Next

-----------------------------------------------------------------------------
\* Two cores inside their functions work on different mailboxes.
LEMMA Apart ==
  ASSUME IInv, NEW b \in Cores, NEW c \in Cores, b # c,
         pc[b] \notin {"idle", "lock"}, pc[c] \notin {"idle", "lock"}
  PROVE  Box(b) # Box(c)
  BY BoxIsCore DEF IInv, MailboxLocked, Holds

\* A step of core c writes no other mailbox than its own call's, and that one
\* only while it holds the lock.
LEMMA StepWritesItsBox ==
  ASSUME IInv, NEW c \in Cores, Step(c)
  PROVE  /\ arg' = arg /\ faults' = faults
         /\ \A b \in Cores \ {c} : pc'[b] = pc[b]
         /\ \A d \in Cores : d # Box(c) =>
              status'[d] = status[d] /\ fields'[d] = fields[d] /\ tag'[d] = tag[d]
         /\ pc[c] \in {"idle", "lock"} => UNCHANGED <<status, fields, tag>>
  <1> USE DEF IInv, TypeOK, InItsFunction, Box, Goto, mailboxes
  <1>1. CASE Lock(c) \/ Unlock(c) \/ SendFull(c) \/ ReceiveNothing(c) \/ ReceiveVerify(c)
    BY <1>1 DEF Lock, Unlock, SendFull, ReceiveNothing, ReceiveVerify
  <1>2. CASE SendWrite(c) \/ SendTag(c) \/ SendReady(c)
    BY <1>2 DEF SendWrite, SendTag, SendReady
  <1>3. CASE ReceiveTake(c) \/ ReceiveReject(c) \/ ClearStatus(c) \/ ClearType(c)
    BY <1>3 DEF ReceiveTake, ReceiveReject, ClearStatus, ClearType
  <1>4. QED
    BY <1>1, <1>2, <1>3 DEF Step

\* What the other cores left in their mailboxes, a step of core c leaves there.
LEMMA OthersAsLeft ==
  ASSUME IInv, NEW c \in Cores, Step(c), NEW b \in Cores, b # c
  PROVE  AsLeftBy(b)'
  <1>1. AsLeftBy(b) /\ Box(b) \in Cores
    BY BoxIsCore DEF IInv, AsLeft
  <1>2. pc'[b] = pc[b] /\ arg'[b] = arg[b] /\ Box(b)' = Box(b)
    BY StepWritesItsBox DEF Box
  <1>3. CASE pc[b] \in {"idle", "lock"}
    BY <1>2, <1>3 DEF AsLeftBy
  <1>4. CASE pc[b] \notin {"idle", "lock"}
    <2>1. /\ status'[Box(b)] = status[Box(b)]
          /\ fields'[Box(b)] = fields[Box(b)]
          /\ tag'[Box(b)] = tag[Box(b)]
      BY <1>1, <1>4, Apart, StepWritesItsBox
    <2>2. QED
      BY <1>1, <1>2, <2>1 DEF AsLeftBy, Verifies, Hmac
  <1>5. QED
    BY <1>3, <1>4

\* Core c leaves its own mailbox as the rest of its function expects it.
LEMMA SelfAsLeft ==
  ASSUME IInv, NEW c \in Cores, Step(c)
  PROVE  AsLeftBy(c)'
  <1> USE DEF IInv, TypeOK, AsLeftBy, Goto
  <1>1. Box(c)' = Box(c) /\ Box(c) \in Cores /\ AsLeftBy(c) /\ arg' = arg
    BY StepWritesItsBox, BoxIsCore DEF Box, AsLeft
  <1>2. CASE Lock(c)
    BY <1>1, <1>2, BoxIsCore DEF Lock
  <1>3. CASE Unlock(c) \/ SendFull(c) \/ ReceiveNothing(c) \/ ReceiveTake(c)
             \/ ReceiveReject(c) \/ ClearType(c) \/ SendReady(c)
    BY <1>1, <1>3 DEF Unlock, SendFull, ReceiveNothing, ReceiveTake, ReceiveReject,
       ClearType, SendReady
  <1>4. CASE SendWrite(c)
    BY <1>1, <1>4 DEF SendWrite
  <1>5. CASE SendTag(c)
    BY <1>1, <1>5 DEF SendTag, Verifies, Hmac
  <1>6. CASE ReceiveVerify(c)
    <2>1. Box(c) = c
      BY <1>6 DEF ReceiveVerify, InItsFunction, Box
    <2>2. QED
      BY <1>1, <1>6, <2>1 DEF ReceiveVerify, Verifies, Hmac, mailboxes
  <1>7. CASE ClearStatus(c)
    <2>1. Box(c) = c
      BY <1>7 DEF ClearStatus, InItsFunction, Box
    <2>2. QED
      BY <1>1, <1>7, <2>1 DEF ClearStatus
  <1>8. QED
    BY <1>2, <1>3, <1>4, <1>5, <1>6, <1>7 DEF Step

\* What every core left in its mailbox stays there.
LEMMA AsLeftPreserved == IInv /\ [Next]_vars => AsLeft'
  <1> SUFFICES ASSUME IInv, [Next]_vars PROVE AsLeft'
    OBVIOUS
  <1>1. ASSUME NEW c \in Cores, NEW r \in RequestsOf(c), Call(c, r),
               NEW b \in Cores PROVE AsLeftBy(b)'
    <2>1. AsLeftBy(b)
      BY DEF IInv, AsLeft
    <2>2. CASE b = c
      BY <1>1, <2>2 DEF Call, Goto, AsLeftBy, IInv, TypeOK
    <2>3. CASE b # c
      <3>1. pc'[b] = pc[b] /\ arg'[b] = arg[b] /\ UNCHANGED <<status, fields, tag>>
        BY <1>1, <2>3 DEF Call, Goto, IInv, TypeOK, mailboxes
      <3>2. QED
        BY <2>1, <3>1 DEF AsLeftBy, Box, Verifies, Hmac
    <2>4. QED
      BY <2>2, <2>3
  <1>2. ASSUME NEW c \in Cores, Step(c), NEW b \in Cores PROVE AsLeftBy(b)'
    BY <1>2, OthersAsLeft, SelfAsLeft
  <1>3. ASSUME NEW d \in Cores, Damage(d), NEW b \in Cores PROVE AsLeftBy(b)'
    <2>1. AsLeftBy(b) /\ Box(b)' = Box(b) /\ Box(b) \in Cores
      BY <1>3, BoxIsCore DEF Damage, Box, IInv, AsLeft
    <2>2. CASE pc[b] \in {"idle", "lock"}
      BY <1>3, <2>2 DEF Damage, AsLeftBy
    <2>3. CASE pc[b] \notin {"idle", "lock"}
      <3>1. Box(b) # d
        BY <1>3, <2>1, <2>3 DEF Damage, IInv, MailboxLocked, Holds
      <3>2. fields'[Box(b)] = fields[Box(b)]
        BY <1>3, <2>1, <3>1 DEF Damage, IInv, TypeOK
      <3>3. QED
        BY <1>3, <2>1, <3>2 DEF Damage, AsLeftBy, Verifies, Hmac
    <2>4. QED
      BY <2>2, <2>3
  <1>4. CASE UNCHANGED vars
    BY <1>4 DEF vars, mailboxes, IInv, AsLeft, AsLeftBy, Box, Verifies, Hmac
  <1>5. QED
    BY <1>1, <1>2, <1>3, <1>4 DEF Next, AsLeft

-----------------------------------------------------------------------------
\* A message becomes ready with a tag computed over it, and neither the tag nor
\* the fields of a ready message change but by damage.
LEMMA ReadyPreserved == IInv /\ [Next]_vars => ReadyTagged' /\ ReadyVerifies'
  <1> SUFFICES ASSUME IInv, [Next]_vars PROVE ReadyTagged' /\ ReadyVerifies'
    OBVIOUS
  <1> USE DEF ReadyTagged, ReadyVerifies, Verifies, Hmac
  <1>1. ASSUME NEW c \in Cores, NEW r \in RequestsOf(c), Call(c, r)
        PROVE ReadyTagged' /\ ReadyVerifies'
    BY <1>1 DEF Call, mailboxes, IInv
  <1>2. ASSUME NEW c \in Cores, Step(c) PROVE ReadyTagged' /\ ReadyVerifies'
    <2>1. Box(c) \in Cores
      BY BoxIsCore DEF IInv
    <2>2. \A d \in Cores : d # Box(c) /\ status'[d] = 1 =>
            status[d] = 1 /\ tag'[d] = tag[d] /\ fields'[d] = fields[d]
      BY <1>2, StepWritesItsBox
    <2>3. ASSUME status'[Box(c)] = 1
          PROVE tag'[Box(c)] \in Tags /\ (faults' = 0 => tag'[Box(c)] = [over |-> fields'[Box(c)]])
      <3> USE DEF IInv, TypeOK, Goto
      <3>1. CASE SendReady(c)
        <4>1. /\ pc[c] = "ready" /\ arg[c].op = "send"
              /\ tag' = tag /\ fields' = fields
          BY <3>1 DEF SendReady, InItsFunction
        <4>2. /\ fields[Box(c)] = [sender |-> c, type |-> arg[c].type, data |-> arg[c].data,
                                   counter |-> fields[Box(c)].counter]
              /\ tag[Box(c)] = [over |-> fields[Box(c)]]
          BY <4>1 DEF AsLeft, AsLeftBy
        <4>3. fields[Box(c)].counter \in 0 .. CounterMod - 1
          BY <2>1
        <4>4. fields[Box(c)] \in Fields
          BY <4>1, <4>2, <4>3, SendArguments DEF Fields
        <4>5. QED
          BY <4>1, <4>2, <4>4 DEF Tags
      <3>2. CASE Lock(c) \/ Unlock(c) \/ SendFull(c) \/ ReceiveNothing(c) \/ ReceiveVerify(c)
        BY <2>1, <2>3, <3>2 DEF Lock, Unlock, SendFull, ReceiveNothing, ReceiveVerify, mailboxes
      <3>3. CASE SendWrite(c)
        BY <2>3, <3>3 DEF SendWrite
      <3>4. CASE SendTag(c)
        BY <2>3, <3>4 DEF SendTag, AsLeft, AsLeftBy
      <3>5. CASE ReceiveTake(c) \/ ReceiveReject(c) \/ ClearStatus(c)
        BY <2>3, <3>5 DEF ReceiveTake, ReceiveReject, ClearStatus, InItsFunction, Box
      <3>6. CASE ClearType(c)
        BY <2>3, <3>6 DEF ClearType, AsLeft, AsLeftBy
      <3>7. QED
        BY <1>2, <3>1, <3>2, <3>3, <3>4, <3>5, <3>6 DEF Step
    <2>4. faults' = faults
      BY <1>2, StepWritesItsBox
    <2>5. QED
      BY <2>1, <2>2, <2>3, <2>4 DEF IInv
  <1>3. ASSUME NEW d \in Cores, Damage(d) PROVE ReadyTagged' /\ ReadyVerifies'
    BY <1>3 DEF Damage, IInv, TypeOK
  <1>4. CASE UNCHANGED vars
    BY <1>4 DEF vars, mailboxes, IInv
  <1>5. QED
    BY <1>1, <1>2, <1>3, <1>4 DEF Next

-----------------------------------------------------------------------------
\* The inductive invariant holds in every reachable state.
THEOREM Invariance == Spec => []IInv
  <1>1. IInv /\ [Next]_vars => IInv'
    BY TypePreserved, LockedPreserved, FunctionPreserved, AsLeftPreserved, ReadyPreserved
       DEF IInv
  <1>2. QED
    BY InitIInv, <1>1, PTL DEF Spec

\* Every variable keeps its type; the counter stays in its range.
THEOREM TypeCorrect == Spec => []TypeOK
  <1>1. IInv => TypeOK
    BY DEF IInv
  <1>2. QED
    BY Invariance, <1>1, PTL

\* At most one core works on a mailbox, and its lock word says so.
THEOREM LockExclusion == Spec => []MailboxLocked
  <1>1. IInv => MailboxLocked
    BY DEF IInv
  <1>2. QED
    BY Invariance, <1>1, PTL

\* No undamaged message is ever rejected by mailbox_receive.
THEOREM HonestMessagesVerify == Spec => []ReadyVerifies
  <1>1. IInv => ReadyVerifies
    BY DEF IInv
  <1>2. QED
    BY Invariance, <1>1, PTL

-----------------------------------------------------------------------------
\* A ready mailbox maps to a slot with a message, any other to an empty one.
LEMMA SlotFilled ==
  ASSUME IInv, NEW d \in Cores
  PROVE  /\ status[d] = 1 => Slot[d] \in Msg /\ Slot[d] # None
         /\ status[d] # 1 => Slot[d] = None
  <1>1. CASE status[d] = 1
    <2>1. tag[d] \in Tags
      BY <1>1 DEF IInv, ReadyTagged
    <2>2. Slot[d] = [sender |-> tag[d].over.sender, type |-> tag[d].over.type,
                     data |-> tag[d].over.data]
      BY <1>1 DEF Slot
    <2>3. Slot[d] \in Msg
      BY <2>1, <2>2 DEF Tags, Fields, Msg
    <2>4. QED
      BY <1>1, <2>3, MailboxAssumption
  <1>2. CASE status[d] # 1
    BY <1>2 DEF Slot
  <1>3. QED
    BY <1>1, <1>2

\* The initial state maps to empty slots and no call.
LEMMA InitRefines == Init => S!Init
  BY DEF Init, S!Init, S!Idle, Slot, InCall

\* Starting a call maps to starting the abstract one.
LEMMA CallRefines ==
  ASSUME IInv, NEW c \in Cores, NEW r \in RequestsOf(c), Call(c, r)
  PROVE  S!Start(c)
  <1>1. r \in S!Requests
    BY RequestsAllowed DEF Requests, S!Requests, Receive, Clear, S!Receive, S!Clear
  <1>2. Slot' = Slot
    BY DEF Call, mailboxes, Slot
  <1>3. InCall[c] = S!Idle /\ InCall' = [InCall EXCEPT ![c] = r]
    BY DEF Call, Goto, InCall, S!Idle, IInv, TypeOK
  <1>4. QED
    BY <1>1, <1>2, <1>3 DEF S!Start, S!Become

\* A step that decides the result of its call maps to the abstract effect.
LEMMA Decides ==
  ASSUME IInv, NEW c \in Cores, Step(c), NEW k \in {-1, 0, 1}, NEW m \in Msg \cup {None},
         pc[c] \notin {"idle", "type", "unlock"}, pc'[c] \in {"type", "unlock"},
         ret' = [ret EXCEPT ![c] = Result(k, m)]
  PROVE  InCall[c] = arg[c] /\ InCall' = [InCall EXCEPT ![c] = S!Returns(k, m)]
  <1>1. arg' = arg /\ \A b \in Cores \ {c} : pc'[b] = pc[b]
    BY StepWritesItsBox
  <1>2. \A b \in Cores \ {c} : ret'[b] = ret[b]
    BY DEF IInv, TypeOK
  <1>3. ret'[c].code = k /\ ret'[c].msg = m
    BY DEF IInv, TypeOK, Result
  <1>4. \A b \in Cores \ {c} : InCall'[b] = InCall[b]
    BY <1>1, <1>2 DEF InCall
  <1>5. InCall'[c] = S!Returns(k, m)
    BY <1>3 DEF InCall, S!Returns
  <1>6. QED
    BY <1>4, <1>5 DEF InCall

\* The steps that take effect map to the abstract operation, the others to none.
LEMMA SendRefines ==
  ASSUME IInv, NEW c \in Cores, SendFull(c) \/ SendWrite(c) \/ SendTag(c) \/ SendReady(c)
  PROVE  S!SendFull(c) \/ S!SendOk(c) \/ UNCHANGED <<Slot, InCall>>
  <1> USE DEF IInv, TypeOK, Goto
  <1>0. /\ Step(c) /\ Box(c) = arg[c].to /\ arg[c].op = "send" /\ Box(c) \in Cores
        /\ arg[c].type \in Types /\ arg[c].data \in Data
        /\ arg[c] = S!Send(arg[c].to, arg[c].type, arg[c].data)
    <2>1. Step(c) /\ arg[c].op = "send"
      BY DEF Step, SendFull, SendWrite, SendTag, SendReady, InItsFunction
    <2>2. arg[c] \in [op : {"send"}, to : Cores, type : Types, data : Data]
      BY <2>1 DEF Requests, Receive, Clear
    <2>3. QED
      BY <2>1, <2>2 DEF Box, S!Send
  <1>1. CASE SendFull(c)
    <2>1. Slot' = Slot /\ Slot[Box(c)] # None
      BY <1>0, <1>1, SlotFilled DEF SendFull, mailboxes, Slot
    <2>2. InCall[c] = arg[c] /\ InCall' = [InCall EXCEPT ![c] = S!Returns(-1, None)]
      BY <1>0, <1>1, Decides DEF SendFull
    <2>3. QED
      BY <1>0, <2>1, <2>2 DEF S!SendFull, S!Become
  <1>2. CASE SendWrite(c) \/ SendTag(c)
    <2>1. Slot' = Slot
      BY <1>0, <1>2 DEF SendWrite, SendTag, Slot, AsLeft, AsLeftBy
    <2>2. InCall' = InCall
      BY <1>0, <1>2 DEF SendWrite, SendTag, InCall
    <2>3. QED
      BY <2>1, <2>2
  <1>3. CASE SendReady(c)
    <2>1. /\ status[Box(c)] # 1
          /\ tag[Box(c)] = [over |-> [sender |-> c, type |-> arg[c].type,
                                      data |-> arg[c].data, counter |-> fields[Box(c)].counter]]
      BY <1>0, <1>3 DEF SendReady, AsLeft, AsLeftBy, Verifies, Hmac
    <2>2. /\ Slot[Box(c)] = None
          /\ Slot' = [Slot EXCEPT ![Box(c)] = [sender |-> c, type |-> arg[c].type,
                                               data |-> arg[c].data]]
      <3>1. tag' = tag /\ status' = [status EXCEPT ![Box(c)] = 1]
        BY <1>3 DEF SendReady
      <3>2. \A d \in Cores \ {Box(c)} : Slot'[d] = Slot[d]
        BY <3>1 DEF Slot
      <3>3. Slot'[Box(c)] = [sender |-> c, type |-> arg[c].type, data |-> arg[c].data]
        BY <1>0, <2>1, <3>1 DEF Slot
      <3>4. QED
        <4>1. Slot[Box(c)] = None
          BY <1>0, <2>1, SlotFilled
        <4>2. QED
          BY <1>0, <4>1, <3>2, <3>3 DEF Slot
    <2>3. InCall[c] = arg[c] /\ InCall' = [InCall EXCEPT ![c] = S!Returns(0, None)]
      BY <1>0, <1>3, Decides DEF SendReady
    <2>4. QED
      BY <1>0, <2>2, <2>3 DEF S!SendOk, S!Become
  <1>4. QED
    BY <1>1, <1>2, <1>3

\* An owner's slot after its status is set to something else than ready.
LEMMA SlotEmptied ==
  ASSUME IInv, NEW c \in Cores, NEW v \in {0, 2},
         status' = [status EXCEPT ![c] = v], tag' = tag
  PROVE  Slot' = [Slot EXCEPT ![c] = None]
  <1>1. \A d \in Cores \ {c} : Slot'[d] = Slot[d]
    BY DEF Slot, IInv, TypeOK
  <1>2. Slot'[c] = None
    BY DEF Slot, IInv, TypeOK
  <1>3. QED
    BY <1>1, <1>2 DEF Slot

LEMMA ReceiveRefines ==
  ASSUME IInv, NEW c \in Cores,
         ReceiveNothing(c) \/ ReceiveVerify(c) \/ ReceiveTake(c) \/ ReceiveReject(c)
  PROVE  S!Nothing(c) \/ S!Take(c) \/ S!Reject(c) \/ UNCHANGED <<Slot, InCall>>
  <1> USE DEF IInv, TypeOK, Goto
  <1>0. Step(c) /\ arg[c] = S!Receive /\ Box(c) = c
    <2>1. Step(c) /\ arg[c].op = "receive"
      BY DEF Step, ReceiveNothing, ReceiveVerify, ReceiveTake, ReceiveReject, InItsFunction
    <2>2. QED
      BY <2>1 DEF Requests, Receive, Clear, S!Receive, Box
  <1>1. CASE ReceiveNothing(c)
    <2>1. Slot' = Slot /\ Slot[c] = None
      BY <1>1, SlotFilled DEF ReceiveNothing, mailboxes, Slot
    <2>2. InCall[c] = arg[c] /\ InCall' = [InCall EXCEPT ![c] = S!Returns(0, None)]
      BY <1>0, <1>1, Decides DEF ReceiveNothing
    <2>3. QED
      BY <1>0, <2>1, <2>2 DEF S!Nothing, S!Become
  <1>2. CASE ReceiveVerify(c)
    BY <1>0, <1>2 DEF ReceiveVerify, mailboxes, Slot, InCall
  <1>3. CASE ReceiveTake(c)
    <2>1. status[c] = 1 /\ tag[c] = [over |-> fields[c]]
      BY <1>0, <1>3 DEF ReceiveTake, AsLeft, AsLeftBy, Verifies, Hmac
    <2>2. Slot[c] = [sender |-> fields[c].sender, type |-> fields[c].type,
                     data |-> fields[c].data] /\ Slot[c] # None
      BY <2>1, SlotFilled DEF Slot
    <2>3. Slot' = [Slot EXCEPT ![c] = None]
      BY <1>3, SlotEmptied DEF ReceiveTake
    <2>4. InCall[c] = arg[c] /\ InCall' = [InCall EXCEPT ![c] = S!Returns(1, Slot[c])]
      <3>1. ret' = [ret EXCEPT ![c] = Result(1, Slot[c])]
        BY <1>3, <2>2 DEF ReceiveTake
      <3>2. Slot[c] \in Msg
        BY <2>1, SlotFilled
      <3>3. QED
        BY <1>0, <1>3, <3>1, <3>2, Decides DEF ReceiveTake
    <2>5. QED
      BY <1>0, <2>2, <2>3, <2>4 DEF S!Take, S!Become
  <1>4. CASE ReceiveReject(c)
    <2>1. MaxFaults > 0
      BY <1>4, MailboxAssumption DEF ReceiveReject, ReadyVerifies
    <2>2. Slot[c] # None /\ Slot' = [Slot EXCEPT ![c] = None]
      BY <1>4, SlotFilled, SlotEmptied DEF ReceiveReject
    <2>3. InCall[c] = arg[c] /\ InCall' = [InCall EXCEPT ![c] = S!Returns(0, None)]
      BY <1>0, <1>4, Decides DEF ReceiveReject
    <2>4. QED
      BY <1>0, <2>1, <2>2, <2>3 DEF S!Reject, S!Become
  <1>5. QED
    BY <1>1, <1>2, <1>3, <1>4

LEMMA ClearRefines ==
  ASSUME IInv, NEW c \in Cores, ClearStatus(c) \/ ClearType(c)
  PROVE  S!Wipe(c) \/ UNCHANGED <<Slot, InCall>>
  <1> USE DEF IInv, TypeOK, Goto
  <1>0. Step(c) /\ arg[c] = S!Clear
    <2>1. Step(c) /\ arg[c].op = "clear"
      BY DEF Step, ClearStatus, ClearType, InItsFunction
    <2>2. QED
      BY <2>1 DEF Requests, Receive, Clear, S!Clear
  <1>1. CASE ClearStatus(c)
    <2>1. Slot' = [Slot EXCEPT ![c] = None]
      BY <1>1, SlotEmptied DEF ClearStatus
    <2>2. InCall[c] = arg[c] /\ InCall' = [InCall EXCEPT ![c] = S!Returns(0, None)]
      BY <1>0, <1>1, Decides DEF ClearStatus
    <2>3. QED
      BY <1>0, <2>1, <2>2 DEF S!Wipe, S!Become
  <1>2. CASE ClearType(c)
    BY <1>2 DEF ClearType, Slot, InCall
  <1>3. QED
    BY <1>1, <1>2

LEMMA LockRefines ==
  ASSUME IInv, NEW c \in Cores, Lock(c) \/ Unlock(c)
  PROVE  S!Return(c) \/ UNCHANGED <<Slot, InCall>>
  <1> USE DEF IInv, TypeOK, Goto
  <1>1. Slot' = Slot
    BY DEF Lock, Unlock, Slot
  <1>2. CASE Lock(c)
    BY <1>1, <1>2, BoxIsCore DEF Lock, InCall
  <1>3. CASE Unlock(c)
    <2>1. InCall[c].op = "return" /\ InCall' = [InCall EXCEPT ![c] = S!Idle]
      BY <1>3 DEF Unlock, InCall, S!Idle
    <2>2. QED
      BY <1>1, <2>1 DEF S!Return
  <1>4. QED
    BY <1>2, <1>3

\* Every step maps to a step of the abstract slots or leaves them unchanged.
LEMMA StepRefines == IInv /\ [Next]_vars => [S!Next]_(S!vars)
  <1> SUFFICES ASSUME IInv, [Next]_vars PROVE [S!Next]_(S!vars)
    OBVIOUS
  <1>1. ASSUME NEW c \in Cores, NEW r \in RequestsOf(c), Call(c, r) PROVE S!Next
    BY <1>1, CallRefines DEF S!Next
  <1>2. ASSUME NEW c \in Cores, Step(c) PROVE S!Next \/ UNCHANGED S!vars
    BY <1>2, SendRefines, ReceiveRefines, ClearRefines, LockRefines
       DEF Step, S!Next, S!vars
  <1>3. ASSUME NEW d \in Cores, Damage(d) PROVE UNCHANGED S!vars
    BY <1>3 DEF Damage, S!vars, Slot, InCall
  <1>4. CASE UNCHANGED vars
    BY <1>4 DEF vars, mailboxes, S!vars, Slot, InCall
  <1>5. QED
    BY <1>1, <1>2, <1>3, <1>4 DEF Next

\* The mailboxes implement the abstract slots: every accepted message is received
\* at most once and as it was sent, a damaged one is never returned, and each
\* call acts at one instant, for any number of cores that call at any time.
THEOREM MailboxesImplementSlots == Spec => ImplementsSlots
  <1>1. Spec => S!Spec
    BY Invariance, InitRefines, StepRefines, PTL DEF Spec, S!Spec
  <1>2. QED
    BY <1>1 DEF ImplementsSlots
=============================================================================
