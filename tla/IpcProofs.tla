----------------------------- MODULE IpcProofs -----------------------------
(***************************************************************************)
(* Proofs about IpcTests.tla for any number of poll rounds and any set of  *)
(* timings: the mailboxes of the two clients are those of Mailbox.tla, so  *)
(* that its theorems hold of them, and where the messages of the two tests *)
(* can be at any instant.                                                  *)
(***************************************************************************)
EXTENDS IpcTests, MailboxProofs, SequenceTheorems

\* The requests of the two clients are among those of the mailboxes' callers.
LEMMA RequestsMade ==
  /\ \A d \in 1 .. 3 : /\ Send(d, "PING", PingData(d)) \in RequestsOf(0)
                       /\ Send(d, "DATA", TestData(d)) \in RequestsOf(0)
  /\ \A m \in {PingMsg, DataMsg} : AckOf(m) \in RequestsOf(3)
  /\ \A c \in {0, 3} : Receive \in RequestsOf(c) /\ Clear \in RequestsOf(c)
  <1> USE IpcTestsAssumption
  <1>1. AckStep \in Nat /\ AckStep > 7 /\ Data = 0 .. 4 * AckStep
    OBVIOUS
  <1>2. \A x \in {1, 2, 3, 5, 6, 7} : x \in 0 .. 4 * AckStep
    BY <1>1
  <1>3. \A x \in {3, 7} : x + 3 * AckStep \in 0 .. 4 * AckStep
    BY <1>1
  <1>4. ASSUME NEW d \in 1 .. 3
        PROVE /\ Send(d, "PING", PingData(d)) \in RequestsOf(0)
              /\ Send(d, "DATA", TestData(d)) \in RequestsOf(0)
    <2>1. PingData(d) \in Data /\ TestData(d) \in Data
      <3>1. d \in {1, 2, 3} /\ PingData(d) = d /\ TestData(d) \in {5, 6, 7}
        BY DEF PingData, TestData
      <3>2. QED
        BY <1>1, <1>2, <3>1
    <2>2. d \in Cores /\ <<0, d>> \in Routes
      OBVIOUS
    <2>3. QED
      BY <2>1, <2>2 DEF RequestsOf, Send
  <1>5. ASSUME NEW m \in {PingMsg, DataMsg} PROVE AckOf(m) \in RequestsOf(3)
    <2>1. AckData(m.data) \in Data
      <3>1. m.data \in {3, 7}
        BY DEF PingMsg, DataMsg, PingData, TestData
      <3>2. QED
        BY <1>1, <1>3, <3>1 DEF AckData
    <2>2. 0 \in Cores /\ <<3, 0>> \in Routes
      OBVIOUS
    <2>3. QED
      BY <2>1, <2>2 DEF AckOf, RequestsOf, Send
  <1>6. QED
    BY <1>4, <1>5 DEF RequestsOf

\* The messages of the two tests and their answers are told apart.
LEMMA Messages ==
  /\ PingMsg \in Msg /\ DataMsg \in Msg /\ PingMsg # DataMsg
  /\ AckMsg(PingAck) \in Msg /\ AckMsg(TestAck) \in Msg /\ AckMsg(PingAck) # AckMsg(TestAck)
  /\ None \notin Msg
  /\ AckOf(PingMsg) # AckOf(DataMsg)
  /\ AckOf(PingMsg) = Send(0, "ACK", PingAck) /\ AckOf(DataMsg) = Send(0, "ACK", TestAck)
  /\ PingAck # TestAck /\ PingAck \in Data /\ TestAck \in Data
  <1>0. AckStep \in Nat /\ AckStep > 7 /\ Data = 0 .. 4 * AckStep /\ {0, 3} \subseteq Cores
        /\ Types = {"PING", "DATA", "ACK"} /\ None \notin Msg
    BY IpcTestsAssumption, MailboxAssumption
  <1>1. /\ PingAck = 3 + 3 * AckStep /\ TestAck = 7 + 3 * AckStep
        /\ PingMsg = [sender |-> 0, type |-> "PING", data |-> 3]
        /\ DataMsg = [sender |-> 0, type |-> "DATA", data |-> 7]
    BY DEF PingAck, TestAck, PingData, TestData, PingMsg, DataMsg
  <1>2. /\ PingAck # TestAck /\ PingAck \in Data /\ TestAck \in Data
        /\ 3 \in Data /\ 7 \in Data
    BY <1>0, <1>1
  <1>3. AckOf(PingMsg) = Send(0, "ACK", PingAck) /\ AckOf(DataMsg) = Send(0, "ACK", TestAck)
    BY <1>1 DEF AckOf, AckData
  <1>4. Send(0, "ACK", PingAck) # Send(0, "ACK", TestAck) /\ AckMsg(PingAck) # AckMsg(TestAck)
    BY <1>2 DEF Send, AckMsg
  <1>5. PingMsg \in Msg /\ DataMsg \in Msg /\ PingMsg # DataMsg
    BY <1>0, <1>1, <1>2 DEF Msg
  <1>6. AckMsg(PingAck) \in Msg /\ AckMsg(TestAck) \in Msg
    BY <1>0, <1>2 DEF AckMsg, Msg
  <1>7. QED
    BY <1>0, <1>2, <1>3, <1>4, <1>5, <1>6

-----------------------------------------------------------------------------
\* A step of the clients is a step of the mailboxes, or leaves them alone.
LEMMA ClientsCall == TestIInv /\ [TestNext]_allVars => [Next]_vars
  <1> SUFFICES ASSUME TestIInv, [TestNext]_allVars PROVE [Next]_vars
    OBVIOUS
  <1>0. 0 \in Cores /\ 3 \in Cores
    BY IpcTestsAssumption
  <1>1. ASSUME NEW c \in {0, 3}, NEW r \in RequestsOf(c), Call(c, r) PROVE Next
    BY <1>0, <1>1 DEF Next
  <1>2. CASE Ping \/ SendData
    <2>1. test.i \in 1 .. 3
      BY <1>2 DEF Ping, SendData, At, TestIInv, Clients, SuiteCalls
    <2>2. QED
      BY <1>1, <1>2, <2>1, RequestsMade DEF Ping, SendData
  <1>3. CASE Poll \/ PollAck \/ DispReceive \/ DispClear
    BY <1>1, <1>3, RequestsMade DEF Poll, PollAck, DispReceive, DispClear
  <1>4. CASE DispAck
    <2>1. ret[3].msg \in {PingMsg, DataMsg}
      BY <1>4 DEF DispAck, From, TestIInv, Clients, Contents
    <2>2. ret[3].msg.sender = 0
      BY <2>1 DEF PingMsg, DataMsg
    <2>3. Send(ret[3].msg.sender, "ACK", AckData(ret[3].msg.data)) \in RequestsOf(3)
      BY <2>1, <2>2, RequestsMade DEF AckOf
    <2>4. QED
      BY <1>1, <1>4, <2>3 DEF DispAck
  <1>5. CASE Inside(0) \/ Inside(3)
    BY <1>0, <1>5 DEF Inside, Next
  <1>6. CASE PingResult \/ SendDataReturns \/ PollEmpty \/ PollCleared \/ Verdict
             \/ DispNothing \/ DispLoop
    BY <1>6 DEF PingResult, SendDataReturns, PollEmpty, PollCleared, Verdict, DispNothing,
       DispLoop
  <1>7. CASE UNCHANGED allVars
    BY <1>7 DEF allVars
  <1>8. QED
    BY <1>2, <1>3, <1>4, <1>5, <1>6, <1>7 DEF TestNext, Suite, Dispatcher

\* Hence the invariant of the mailboxes is one of theirs, and nothing is damaged.
LEMMA MachineKept == TestIInv /\ [TestNext]_allVars => IInv' /\ faults' = 0
  <1> SUFFICES ASSUME TestIInv, [TestNext]_allVars PROVE IInv' /\ faults' = 0
    OBVIOUS
  <1>1. IInv /\ [Next]_vars
    BY ClientsCall DEF TestIInv
  <1>2. IInv'
    BY <1>1, TypePreserved, LockedPreserved, FunctionPreserved, AsLeftPreserved, ReadyPreserved
       DEF IInv
  <1>3. ASSUME NEW c \in Cores, Step(c) PROVE faults' = faults
    BY <1>1, <1>3, StepWritesItsBox
  <1>4. faults' = faults
    <2>1. 0 \in Cores /\ 3 \in Cores
      BY IpcTestsAssumption
    <2>2. CASE UNCHANGED vars
      BY <2>2 DEF vars
    <2>3. CASE Inside(0) \/ Inside(3)
      BY <1>3, <2>1, <2>3 DEF Inside
    <2>4. ASSUME NEW c, NEW r, Call(c, r) PROVE faults' = faults
      BY <2>4 DEF Call
    <2>5. CASE Suite
      BY <2>2, <2>4, <2>5 DEF Suite, Ping, PingResult, SendData, SendDataReturns, Poll, PollEmpty,
                       PollAck, PollCleared, Verdict
    <2>6. CASE Dispatcher
      BY <2>2, <2>4, <2>6 DEF Dispatcher, DispReceive, DispNothing, DispAck, DispClear, DispLoop
    <2>7. QED
      BY <2>2, <2>3, <2>5, <2>6 DEF TestNext, allVars
  <1>5. QED
    BY <1>2, <1>4 DEF TestIInv

-----------------------------------------------------------------------------
\* What a step of core c inside a mailbox function leaves alone.
Elsewhere(c) == arg' = arg /\ \A b \in Cores \ {c} : pc'[b] = pc[b] /\ ret'[b] = ret[b]

\* It is on the way to the effect of the call, or back from it, ...
OnItsWay(c) == Slot' = Slot /\ ret' = ret /\ (Decided(c)' <=> Decided(c))

\* ... or it decides the call, with result k and message m.
DecidesWith(c, k, m) == ~Decided(c) /\ Decided(c)' /\ ret'[c].code = k /\ ret'[c].msg = m

\* Mailbox d gets the contents m, and the others keep theirs.
Becomes(d, m) == Slot'[d] = m /\ \A e \in Cores \ {d} : Slot'[e] = Slot[e]

\* The outcomes of the three calls.
SendOutcome(c) ==
  /\ arg[c].op = "send"
  /\ \/ Slot[arg[c].to] # None /\ Slot' = Slot /\ DecidesWith(c, -1, None)
     \/ /\ Slot[arg[c].to] = None
        /\ Becomes(arg[c].to, [sender |-> c, type |-> arg[c].type, data |-> arg[c].data])
        /\ DecidesWith(c, 0, None)

ReceiveOutcome(c) ==
  /\ arg[c].op = "receive"
  /\ \/ Slot[c] = None /\ Slot' = Slot /\ DecidesWith(c, 0, None)
     \/ Slot[c] # None /\ Becomes(c, None) /\ DecidesWith(c, 1, Slot[c])

ClearOutcome(c) == arg[c].op = "clear" /\ Becomes(c, None) /\ DecidesWith(c, 0, None)

\* A step inside a call, without damaged messages, takes effect in one of these ways.
LEMMA StepEffect ==
  ASSUME IInv, faults = 0, NEW c \in Cores, Step(c)
  PROVE  /\ Elsewhere(c) /\ pc[c] # "idle"
         /\ OnItsWay(c) \/ SendOutcome(c) \/ ReceiveOutcome(c) \/ ClearOutcome(c)
  <1> USE DEF IInv, TypeOK, Goto
  <1>1. Elsewhere(c)
    <2>1. arg' = arg /\ \A b \in Cores \ {c} : pc'[b] = pc[b]
      BY StepWritesItsBox
    <2>2. \A b \in Cores \ {c} : ret'[b] = ret[b]
      BY DEF Step, Lock, Unlock, SendFull, SendWrite, SendTag, SendReady, ReceiveNothing,
             ReceiveVerify, ReceiveTake, ReceiveReject, ClearStatus, ClearType
    <2>3. QED
      BY <2>1, <2>2 DEF Elsewhere
  <1>2. pc[c] # "idle" /\ Box(c) \in Cores
    BY BoxIsCore DEF Step, Lock, Unlock, SendFull, SendWrite, SendTag, SendReady, ReceiveNothing,
           ReceiveVerify, ReceiveTake, ReceiveReject, ClearStatus, ClearType
  <1>3. CASE Lock(c) \/ Unlock(c) \/ ReceiveVerify(c) \/ ClearType(c)
    <2>1. Slot' = Slot
      BY <1>3 DEF Slot, Lock, Unlock, ReceiveVerify, ClearType, mailboxes
    <2>2. ret' = ret /\ (Decided(c)' <=> Decided(c))
      BY <1>3, BoxIsCore DEF Decided, Lock, Unlock, ReceiveVerify, ClearType, mailboxes
    <2>3. QED
      BY <1>1, <1>2, <2>1, <2>2 DEF OnItsWay
  <1>4. CASE SendWrite(c) \/ SendTag(c)
    <2>1. Slot' = Slot
      BY <1>4, <1>2 DEF SendWrite, SendTag, Slot, AsLeft, AsLeftBy
    <2>2. ret' = ret /\ (Decided(c)' <=> Decided(c))
      BY <1>4 DEF Decided, SendWrite, SendTag
    <2>3. QED
      BY <1>1, <1>2, <2>1, <2>2 DEF OnItsWay
  <1>5. CASE SendFull(c)
    <2>1. arg[c].op = "send" /\ Box(c) = arg[c].to
      BY <1>5 DEF SendFull, InItsFunction, Box
    <2>2. Slot' = Slot /\ Slot[Box(c)] # None
      BY <1>2, <1>5, SlotFilled DEF SendFull, mailboxes, Slot
    <2>3. DecidesWith(c, -1, None)
      BY <1>5 DEF SendFull, DecidesWith, Decided, Result
    <2>4. QED
      BY <1>1, <1>2, <2>1, <2>2, <2>3 DEF SendOutcome
  <1>6. CASE SendReady(c)
    <2>1. arg[c].op = "send" /\ Box(c) = arg[c].to
      BY <1>6 DEF SendReady, InItsFunction, Box
    <2>2. /\ status[Box(c)] # 1
          /\ tag[Box(c)] = [over |-> [sender |-> c, type |-> arg[c].type,
                                      data |-> arg[c].data, counter |-> fields[Box(c)].counter]]
      BY <1>2, <1>6 DEF SendReady, AsLeft, AsLeftBy, Verifies, Hmac
    <2>3. tag' = tag /\ status' = [status EXCEPT ![Box(c)] = 1]
      BY <1>6 DEF SendReady
    <2>4. \A d \in Cores \ {Box(c)} : Slot'[d] = Slot[d]
      BY <2>3 DEF Slot
    <2>5. Slot'[Box(c)] = [sender |-> c, type |-> arg[c].type, data |-> arg[c].data]
      BY <1>2, <2>2, <2>3 DEF Slot
    <2>6. Slot[Box(c)] = None
      BY <1>2, <2>2, SlotFilled
    <2>7. DecidesWith(c, 0, None)
      BY <1>6 DEF SendReady, DecidesWith, Decided, Result
    <2>8. QED
      BY <1>1, <1>2, <2>1, <2>4, <2>5, <2>6, <2>7 DEF SendOutcome, Becomes
  <1>7. CASE ReceiveNothing(c)
    <2>1. Slot' = Slot /\ Slot[c] = None /\ arg[c].op = "receive"
      BY <1>7, SlotFilled DEF ReceiveNothing, mailboxes, Slot, InItsFunction
    <2>2. DecidesWith(c, 0, None)
      BY <1>7 DEF ReceiveNothing, DecidesWith, Decided, Result
    <2>3. QED
      BY <1>1, <1>2, <2>1, <2>2 DEF ReceiveOutcome
  <1>8. CASE ReceiveTake(c)
    <2>1. arg[c].op = "receive" /\ Box(c) = c
      BY <1>8 DEF ReceiveTake, InItsFunction, Box
    <2>2. status[c] = 1 /\ tag[c] = [over |-> fields[c]]
      BY <2>1, <1>8 DEF ReceiveTake, AsLeft, AsLeftBy, Verifies, Hmac
    <2>3. Slot[c] = [sender |-> fields[c].sender, type |-> fields[c].type,
                     data |-> fields[c].data] /\ Slot[c] # None
      BY <2>2, SlotFilled DEF Slot
    <2>4. Slot' = [Slot EXCEPT ![c] = None]
      BY <1>8, SlotEmptied DEF ReceiveTake
    <2>5. Becomes(c, None)
      BY <2>4 DEF Becomes, Slot
    <2>6. DecidesWith(c, 1, Slot[c])
      BY <1>8, <2>3 DEF ReceiveTake, DecidesWith, Decided, Result
    <2>7. QED
      BY <1>1, <1>2, <2>1, <2>3, <2>5, <2>6 DEF ReceiveOutcome
  <1>9. CASE ReceiveReject(c)
    BY <1>9 DEF ReceiveReject, ReadyVerifies
  <1>10. CASE ClearStatus(c)
    <2>1. arg[c].op = "clear"
      BY <1>10 DEF ClearStatus, InItsFunction
    <2>2. Slot' = [Slot EXCEPT ![c] = None]
      BY <1>10, SlotEmptied DEF ClearStatus
    <2>3. Becomes(c, None)
      BY <2>2 DEF Becomes, Slot
    <2>4. DecidesWith(c, 0, None)
      BY <1>10 DEF ClearStatus, DecidesWith, Decided, Result
    <2>5. QED
      BY <1>1, <1>2, <2>1, <2>3, <2>4 DEF ClearOutcome
  <1>11. QED
    BY <1>3, <1>4, <1>5, <1>6, <1>7, <1>8, <1>9, <1>10 DEF Step

-----------------------------------------------------------------------------
\* Quiet in terms of the abstract slots.
LEMMA QuietIs == IInv => (Quiet <=> Slot[3] = None /\ Waiting)
  <1> SUFFICES ASSUME IInv PROVE Quiet <=> Slot[3] = None /\ Waiting
    OBVIOUS
  <1>1. (status[3] # 1) <=> Slot[3] = None
    BY IpcTestsAssumption, SlotFilled
  <1>2. QED
    BY <1>1 DEF Quiet, Waiting

\* The same in the next state.
LEMMA QuietNext == IInv' => (Quiet <=> Slot[3] = None /\ Waiting)'
  BY QuietIs, PTL

\* The clients' variables keep their types.
LEMMA ClientTypes == TestIInv /\ [TestNext]_allVars => TestTypeOK'
  <1> SUFFICES ASSUME TestIInv, [TestNext]_allVars PROVE TestTypeOK'
    OBVIOUS
  <1> DEFINE TestType == [at : {"ping", "pinged", "data", "sent", "poll", "polled", "cleared",
                               "passed", "failed"}, i : 1 .. PollRounds + 1, result : {-1, 0}]
             DispType == {"receive", "received", "acked", "cleared"}
  <1>0. PollRounds \in Nat /\ PollRounds >= 2 /\ {1, 2, 3} \subseteq Cores
    BY IpcTestsAssumption
  <1>1. /\ test \in TestType /\ test.i \in Nat /\ acks \in Seq(Data)
        /\ refused \subseteq Cores /\ disp \in DispType /\ settled \in BOOLEAN
    BY <1>0 DEF TestIInv, TestTypeOK
  <1>2. /\ test.at \in {"ping", "pinged", "data", "sent"} => test.i \in 1 .. 3
        /\ test.at = "polled" /\ pc[0] = "idle" /\ ret[0].code = 1 => ret[0].msg.data \in Data
    <2>1. AckMsg(PingAck).data = PingAck /\ AckMsg(TestAck).data = TestAck
      BY DEF AckMsg
    <2>2. QED
      BY <2>1, Messages DEF TestIInv, Clients, SuiteCalls, Contents, Decided
  <1> HIDE DEF TestType, DispType
  <1>3. test' \in TestType
    <2> USE DEF TestType
    <2>1. CASE Ping \/ PingResult \/ SendData \/ SendDataReturns
      <3>1. test.i \in 1 .. 3 /\ 1 \in 1 .. PollRounds + 1
        BY <1>0, <1>2, <2>1 DEF Ping, PingResult, SendData, SendDataReturns, At
      <3>2. test.i < 3 => test.i + 1 \in 1 .. PollRounds + 1
        BY <1>0, <3>1
      <3>3. ASSUME NEW a \in {"ping", "pinged", "data", "sent", "poll"},
                   NEW n \in 1 .. PollRounds + 1, Move(a, n)
            PROVE test' \in TestType
        BY <1>1, <3>3 DEF Move
      <3>4. CASE Ping \/ SendData
        BY <1>1, <3>3, <3>4 DEF Ping, SendData, TestType
      <3>5. CASE SendDataReturns \/ (PingResult /\ ret[0].code = 0)
        BY <3>1, <3>2, <3>3, <3>5 DEF SendDataReturns, PingResult, NextDest
      <3>6. CASE PingResult /\ ret[0].code # 0
        BY <1>1, <3>1, <3>2, <3>6 DEF PingResult
      <3>7. QED
        BY <2>1, <3>4, <3>5, <3>6
    <2>2. ASSUME test' = [test EXCEPT !.at = "poll", !.i = test.i + 1], test.i <= PollRounds
          PROVE test' \in TestType
      <3>1. test.i + 1 \in 1 .. PollRounds + 1
        BY <1>0, <1>1, <2>2
      <3>2. QED
        BY <1>1, <2>2, <3>1
    <2>3. ASSUME NEW a \in {"polled", "cleared", "passed", "failed"},
                 test' = [test EXCEPT !.at = a, !.i = test.i]
          PROVE test' \in TestType
      BY <1>1, <2>3
    <2>4. CASE Poll \/ PollAck \/ Verdict
      BY <2>3, <2>4 DEF Poll, PollAck, Verdict, Move
    <2>5. CASE PollEmpty \/ PollCleared
      <3>1. test' = [test EXCEPT !.at = "poll", !.i = test.i + 1]
        BY <2>5 DEF PollEmpty, PollCleared, Move
      <3>2. test.i <= PollRounds
        BY <2>5 DEF PollEmpty, PollCleared, At, TestIInv, Clients, SuiteCalls
      <3>3. QED
        BY <2>2, <3>1, <3>2
    <2>6. CASE Dispatcher \/ Inside(0) \/ Inside(3)
      BY <1>1, <2>6 DEF Dispatcher, DispReceive, DispNothing, DispAck, DispClear, DispLoop, From,
                        suite, Inside
    <2>7. CASE UNCHANGED allVars
      BY <1>1, <2>7 DEF allVars, suite
    <2>8. QED
      BY <2>1, <2>4, <2>5, <2>6, <2>7 DEF TestNext, Suite
  <1>4. acks' \in Seq(Data)
    <2>1. CASE PollAck
      <3>1. acks' = Append(acks, ret[0].msg.data) /\ ret[0].msg.data \in Data
        BY <1>2, <2>1 DEF PollAck, At
      <3>2. QED
        BY <1>1, <3>1
    <2>2. CASE Suite /\ ~PollAck
      BY <1>1, <2>2 DEF Suite, Ping, PingResult, SendData, SendDataReturns, Poll, PollEmpty,
                        PollCleared, Verdict
    <2>3. CASE Dispatcher \/ Inside(0) \/ Inside(3)
      BY <1>1, <2>3 DEF Dispatcher, DispReceive, DispNothing, DispAck, DispClear, DispLoop, From,
                        suite, Inside
    <2>4. QED
      BY <1>1, <2>1, <2>2, <2>3 DEF TestNext, allVars, suite
  <1>5. refused' \subseteq Cores /\ disp' \in DispType /\ settled' \in BOOLEAN
    <2>1. CASE SendDataReturns
      <3>1. test.i \in Cores
        BY <1>0, <1>2, <2>1 DEF SendDataReturns, At
      <3>2. QED
        BY <1>1, <2>1, <3>1 DEF SendDataReturns, At, TestNext, allVars
    <2>2. CASE Suite /\ ~SendDataReturns
      BY <1>1, <2>2 DEF Suite, Ping, PingResult, SendData, Poll, PollEmpty, PollAck,
                        PollCleared, Verdict, At, TestNext, allVars
    <2>3. CASE Dispatcher \/ Inside(0) \/ Inside(3)
      BY <1>1, <2>3 DEF Dispatcher, DispReceive, DispNothing, DispAck, DispClear, DispLoop, From,
                        suite, Inside, TestNext, allVars, DispType
    <2>4. QED
      BY <1>1, <2>1, <2>2, <2>3 DEF TestNext, allVars, suite
  <1>6. TypeOK'
    BY MachineKept DEF IInv
  <1>7. QED
    BY <1>3, <1>4, <1>5, <1>6 DEF TestTypeOK, TestType, DispType

-----------------------------------------------------------------------------
\* What an action of Core 0's suite leaves alone.
LEMMA SuiteLeaves ==
  ASSUME TestIInv, Suite
  PROVE  /\ Slot' = Slot /\ ret' = ret /\ disp' = disp
         /\ \A c \in 1 .. 3 : pc'[c] = pc[c] /\ arg'[c] = arg[c]
         /\ (Decided(3)' <=> Decided(3)) /\ pc[0] = "idle"
  <1>1. ASSUME NEW r, Call(0, r)
        PROVE  /\ Slot' = Slot /\ ret' = ret /\ \A c \in 1 .. 3 : pc'[c] = pc[c] /\ arg'[c] = arg[c]
    BY <1>1, IpcTestsAssumption DEF Call, Goto, mailboxes, Slot, TestIInv, IInv, TypeOK
  <1>2. ASSUME UNCHANGED vars
        PROVE  /\ Slot' = Slot /\ ret' = ret /\ \A c \in 1 .. 3 : pc'[c] = pc[c] /\ arg'[c] = arg[c]
    BY <1>2 DEF vars, mailboxes, Slot
  <1>3. /\ Slot' = Slot /\ ret' = ret
        /\ \A c \in 1 .. 3 : pc'[c] = pc[c] /\ arg'[c] = arg[c]
    BY <1>1, <1>2 DEF Suite, Ping, PingResult, SendData, SendDataReturns, Poll, PollEmpty,
       PollAck, PollCleared, Verdict
  <1>4. disp' = disp /\ pc[0] = "idle"
    BY DEF Suite, Ping, PingResult, SendData, SendDataReturns, Poll, PollEmpty, PollAck,
           PollCleared, Verdict, At
  <1>5. Decided(3)' <=> Decided(3)
    <2>1. pc'[3] = pc[3]
      BY <1>3
    <2>2. QED
      BY <2>1 DEF Decided
  <1>6. QED
    BY <1>3, <1>4, <1>5

\* What an action of the dispatcher leaves alone.
LEMMA DispatcherLeaves ==
  ASSUME TestIInv, Dispatcher
  PROVE  /\ Slot' = Slot /\ ret' = ret /\ test' = test /\ acks' = acks
         /\ \A c \in 0 .. 2 : pc'[c] = pc[c] /\ arg'[c] = arg[c]
         /\ (Decided(0)' <=> Decided(0)) /\ pc[3] = "idle"
  <1>1. ASSUME NEW r, Call(3, r)
        PROVE  /\ Slot' = Slot /\ ret' = ret /\ \A c \in 0 .. 2 : pc'[c] = pc[c] /\ arg'[c] = arg[c]
    BY <1>1, IpcTestsAssumption DEF Call, Goto, mailboxes, Slot, TestIInv, IInv, TypeOK
  <1>2. ASSUME UNCHANGED vars
        PROVE  /\ Slot' = Slot /\ ret' = ret /\ \A c \in 0 .. 2 : pc'[c] = pc[c] /\ arg'[c] = arg[c]
    BY <1>2 DEF vars, mailboxes, Slot
  <1>3. /\ Slot' = Slot /\ ret' = ret
        /\ \A c \in 0 .. 2 : pc'[c] = pc[c] /\ arg'[c] = arg[c]
    BY <1>1, <1>2 DEF Dispatcher, DispReceive, DispNothing, DispAck, DispClear, DispLoop
  <1>4. test' = test /\ acks' = acks /\ pc[3] = "idle"
    BY DEF Dispatcher, DispReceive, DispNothing, DispAck, DispClear, DispLoop, From, suite
  <1>5. Decided(0)' <=> Decided(0)
    <2>1. pc'[0] = pc[0]
      BY <1>3
    <2>2. QED
      BY <2>1 DEF Decided
  <1>6. QED
    BY <1>3, <1>4, <1>5

\* The call of a client begins, undecided.
LEMMA Begins ==
  ASSUME TestIInv, NEW c \in {0, 3}, NEW r, Call(c, r)
  PROVE  arg'[c] = r /\ pc'[c] = "lock" /\ ~Decided(c)'
  BY IpcTestsAssumption DEF Call, Goto, TestIInv, IInv, TypeOK, Decided

-----------------------------------------------------------------------------
\* The step leaves both messages where they are.
SamePlaces ==
  /\ Slot'[0] = Slot[0] /\ Slot'[3] = Slot[3] /\ acks' = acks
  /\ (PingSent' <=> PingSent) /\ (DataSent' <=> DataSent)
  /\ (Answering(PingMsg)' <=> Answering(PingMsg)) /\ (Answering(DataMsg)' <=> Answering(DataMsg))
  /\ (Held(PingAck)' <=> Held(PingAck)) /\ (Held(TestAck)' <=> Held(TestAck))
  /\ (disp = "cleared" \/ (disp = "acked" /\ Decided(3)))'
       => (disp = "cleared" \/ (disp = "acked" /\ Decided(3)))

\* Then only the timing has to be looked at.
LEMMA StayOnTheWay ==
  ASSUME OnTheWay, SamePlaces, settled' = settled,
         \A p \in 0 .. 5, q \in 0 .. 6 :
           settled' /\ Journey(p, q) /\ SettledJourney(p, q) => SettledJourney(p, q)'
  PROVE  OnTheWay'
  <1>1. PICK p \in 0 .. 5, q \in 0 .. 6 : Journey(p, q) /\ (settled => SettledJourney(p, q))
    BY DEF OnTheWay
  <1>2. PingAt(p)' /\ DataAt(q)' /\ Behind(p, q)'
    BY <1>1 DEF SamePlaces, Journey, PingAt, DataAt, Behind
  <1>3. Journey(p, q)' /\ (settled' => SettledJourney(p, q)')
    BY <1>1, <1>2 DEF Journey
  <1>4. QED
    BY <1>3 DEF OnTheWay

\* Test 1 sends a PING into an empty mailbox.
LEMMA PingKeeps == ASSUME TestIInv, IInv', Ping, settled' = settled PROVE Clients'
  <1>0. /\ Slot' = Slot /\ ret' = ret /\ disp' = disp /\ acks' = acks
        /\ test.at = "ping" /\ test.i \in 1 .. 3
        /\ test'.at = "pinged" /\ test'.i = test.i /\ test'.result = test.result
        /\ pc'[3] = pc[3] /\ arg'[3] = arg[3] /\ (Decided(3)' <=> Decided(3))
        /\ arg'[0] = Send(test.i, "PING", PingData(test.i)) /\ ~Decided(0)'
    BY SuiteLeaves, Begins DEF Suite, Ping, At, Move, TestIInv, TestTypeOK, Clients, SuiteCalls
  <1>1. /\ SuiteCalls' /\ DispatcherCalls' /\ Contents' /\ FreeAhead'
        /\ Test1Passes' /\ AcksInOrder'
    BY <1>0 DEF TestIInv, Clients, SuiteCalls, DispatcherCalls, Contents, FreeAhead, Test1Passes,
                AcksInOrder
  <1>2. SamePlaces
    BY <1>0, Messages DEF SamePlaces, PingSent, DataSent, Answering, Held
  <1>3. ASSUME NEW p \in 0 .. 5, NEW q \in 0 .. 6, settled', Journey(p, q), SettledJourney(p, q)
        PROVE  SettledJourney(p, q)'
    <2>1. (Quiet <=> Slot[3] = None /\ Waiting) /\ (Quiet <=> Slot[3] = None /\ Waiting)'
      BY QuietIs, QuietNext DEF TestIInv
    <2>2. QED
      BY <1>0, <1>3, <2>1, Messages DEF SettledJourney, Waiting, Journey, PingAt, DataAt,
         PingSent, DataSent, Answering, Held
  <1>4. QED
    BY <1>0, <1>1, <1>2, <1>3, StayOnTheWay DEF TestIInv, Clients

\* Moving on changes the place and the loop variable only.
LEMMA Moves ==
  ASSUME TestTypeOK, NEW a, NEW n, Move(a, n)
  PROVE  test'.at = a /\ test'.i = n /\ test'.result = test.result
  BY DEF Move, TestTypeOK

\* The loop goes to the next core, or on after the last one.
LEMMA Advances ==
  ASSUME TestTypeOK, test.i \in 1 .. 3, NEW a, NEW b, NextDest(a, b)
  PROVE  /\ test'.result = test.result
         /\ \/ test.i < 3 /\ test'.at = a /\ test'.i = test.i + 1
            \/ test.i = 3 /\ test'.at = b /\ test'.i = 1
  BY Moves DEF NextDest

\* Its PING accepted, Test 1 goes to the next core or is over.
LEMMA PingResultKeeps == ASSUME TestIInv, IInv', PingResult, settled' = settled PROVE Clients'
  <1>0. /\ Slot' = Slot /\ ret' = ret /\ disp' = disp /\ acks' = acks
        /\ pc'[3] = pc[3] /\ arg'[3] = arg[3] /\ (Decided(3)' <=> Decided(3))
        /\ pc[0] = "idle" /\ test'.result = test.result /\ settled' = settled
        /\ test.i \in Nat \ {0}
        /\ pc' = pc /\ arg' = arg /\ (Decided(0)' <=> Decided(0)) /\ Decided(0) /\ (settled => Quiet)
        /\ test.at = "pinged" /\ test.i \in 1 .. 3 /\ ret[0].code = 0
        /\ \/ test.i < 3 /\ test'.at = "ping" /\ test'.i = test.i + 1
           \/ test.i = 3 /\ test'.at = "data" /\ test'.i = 1
    BY SuiteLeaves, Advances DEF Suite, PingResult, At, Delay, vars, Decided, FreeAhead,
       TestIInv, TestTypeOK, Clients, SuiteCalls, DispatcherCalls
  <1>1. /\ SuiteCalls' /\ DispatcherCalls' /\ Contents' /\ FreeAhead'
        /\ Test1Passes' /\ AcksInOrder'
    BY <1>0 DEF TestIInv, Clients, SuiteCalls, DispatcherCalls, Contents, FreeAhead, Test1Passes,
                AcksInOrder
  <1>2. SamePlaces
    BY <1>0, Messages DEF SamePlaces, PingSent, DataSent, Answering, Held
  <1>3. ASSUME NEW p \in 0 .. 5, NEW q \in 0 .. 6, settled', Journey(p, q), SettledJourney(p, q)
        PROVE  SettledJourney(p, q)'
    <2>1. (Quiet <=> Slot[3] = None /\ Waiting) /\ (Quiet <=> Slot[3] = None /\ Waiting)'
      BY QuietIs, QuietNext DEF TestIInv
    <2>2. QED
      BY <1>0, <1>3, <2>1, Messages DEF SettledJourney, Waiting, Journey, PingAt, DataAt,
         PingSent, DataSent, Answering, Held
  <1>4. QED
    BY <1>0, <1>1, <1>2, <1>3, StayOnTheWay DEF TestIInv, Clients

\* Test 2 sends a DATA message.
LEMMA SendDataKeeps == ASSUME TestIInv, IInv', SendData, settled' = settled PROVE Clients'
  <1>0. /\ Slot' = Slot /\ ret' = ret /\ disp' = disp /\ acks' = acks
        /\ pc'[3] = pc[3] /\ arg'[3] = arg[3] /\ (Decided(3)' <=> Decided(3))
        /\ pc[0] = "idle" /\ test'.result = test.result /\ settled' = settled
        /\ test.i \in Nat \ {0}
        /\ test.at = "data" /\ test.i \in 1 .. 3 /\ test'.at = "sent" /\ test'.i = test.i
        /\ arg'[0] = Send(test.i, "DATA", TestData(test.i)) /\ ~Decided(0)'
    BY SuiteLeaves, Begins DEF Suite, SendData, At, Move, vars, Decided, TestIInv, TestTypeOK,
       Clients, SuiteCalls, DispatcherCalls
  <1>1. /\ SuiteCalls' /\ DispatcherCalls' /\ Contents' /\ FreeAhead'
        /\ Test1Passes' /\ AcksInOrder'
    BY <1>0 DEF TestIInv, Clients, SuiteCalls, DispatcherCalls, Contents, FreeAhead, Test1Passes,
                AcksInOrder
  <1>2. SamePlaces
    BY <1>0, Messages DEF SamePlaces, PingSent, DataSent, Answering, Held
  <1>3. ASSUME NEW p \in 0 .. 5, NEW q \in 0 .. 6, settled', Journey(p, q), SettledJourney(p, q)
        PROVE  SettledJourney(p, q)'
    <2>1. (Quiet <=> Slot[3] = None /\ Waiting) /\ (Quiet <=> Slot[3] = None /\ Waiting)'
      BY QuietIs, QuietNext DEF TestIInv
    <2>2. QED
      BY <1>0, <1>3, <2>1, Messages DEF SettledJourney, Waiting, Journey, PingAt, DataAt,
         PingSent, DataSent, Answering, Held
  <1>4. QED
    BY <1>0, <1>1, <1>2, <1>3, StayOnTheWay DEF TestIInv, Clients

\* Test 2 goes to the next core or starts to poll.
LEMMA SendDataReturnsKeeps ==
  ASSUME TestIInv, IInv', SendDataReturns, settled' = settled
  PROVE Clients'
  <1>0. /\ Slot' = Slot /\ ret' = ret /\ disp' = disp /\ acks' = acks
        /\ pc'[3] = pc[3] /\ arg'[3] = arg[3] /\ (Decided(3)' <=> Decided(3))
        /\ pc[0] = "idle" /\ test'.result = test.result /\ settled' = settled
        /\ test.i \in Nat \ {0}
        /\ pc' = pc /\ arg' = arg /\ (Decided(0)' <=> Decided(0)) /\ Decided(0) /\ (settled => Quiet)
        /\ test.at = "sent" /\ test.i \in 1 .. 3
        /\ \/ test.i < 3 /\ test'.at = "data" /\ test'.i = test.i + 1
           \/ test.i = 3 /\ test'.at = "poll" /\ test'.i = 1
    BY SuiteLeaves, Advances DEF Suite, SendDataReturns, At, Delay, vars, Decided, TestIInv,
       TestTypeOK, Clients, SuiteCalls, DispatcherCalls
  <1>1. /\ SuiteCalls' /\ DispatcherCalls' /\ Contents' /\ FreeAhead'
        /\ Test1Passes' /\ AcksInOrder'
    BY <1>0 DEF TestIInv, Clients, SuiteCalls, DispatcherCalls, Contents, FreeAhead, Test1Passes,
                AcksInOrder
  <1>2. SamePlaces
    BY <1>0, Messages DEF SamePlaces, PingSent, DataSent, Answering, Held
  <1>3. ASSUME NEW p \in 0 .. 5, NEW q \in 0 .. 6, settled', Journey(p, q), SettledJourney(p, q)
        PROVE  SettledJourney(p, q)'
    <2>1. (Quiet <=> Slot[3] = None /\ Waiting) /\ (Quiet <=> Slot[3] = None /\ Waiting)'
      BY QuietIs, QuietNext DEF TestIInv
    <2>2. QED
      BY <1>0, <1>3, <2>1, Messages DEF SettledJourney, Waiting, Journey, PingAt, DataAt,
         PingSent, DataSent, Answering, Held
  <1>4. QED
    BY <1>0, <1>1, <1>2, <1>3, StayOnTheWay DEF TestIInv, Clients

\* Test 2 looks into its mailbox.
LEMMA PollKeeps == ASSUME TestIInv, IInv', Poll, settled' = settled PROVE Clients'
  <1>0. /\ Slot' = Slot /\ ret' = ret /\ disp' = disp /\ acks' = acks
        /\ pc'[3] = pc[3] /\ arg'[3] = arg[3] /\ (Decided(3)' <=> Decided(3))
        /\ pc[0] = "idle" /\ test'.result = test.result /\ settled' = settled
        /\ test.i \in Nat \ {0}
        /\ test.at = "poll" /\ test.i <= PollRounds /\ test'.at = "polled" /\ test'.i = test.i
        /\ arg'[0] = Receive /\ ~Decided(0)'
    BY SuiteLeaves, Begins DEF Suite, Poll, At, Move, vars, Decided, TestIInv, TestTypeOK,
       Clients, SuiteCalls, DispatcherCalls
  <1>1. /\ SuiteCalls' /\ DispatcherCalls' /\ Contents' /\ FreeAhead'
        /\ Test1Passes' /\ AcksInOrder'
    BY <1>0 DEF TestIInv, Clients, SuiteCalls, DispatcherCalls, Contents, FreeAhead, Test1Passes,
                AcksInOrder
  <1>2. SamePlaces
    BY <1>0, Messages DEF SamePlaces, PingSent, DataSent, Answering, Held
  <1>3. ASSUME NEW p \in 0 .. 5, NEW q \in 0 .. 6, settled', Journey(p, q), SettledJourney(p, q)
        PROVE  SettledJourney(p, q)'
    <2>1. (Quiet <=> Slot[3] = None /\ Waiting) /\ (Quiet <=> Slot[3] = None /\ Waiting)'
      BY QuietIs, QuietNext DEF TestIInv
    <2>2. QED
      BY <1>0, <1>3, <2>1, Messages DEF SettledJourney, Waiting, Journey, PingAt, DataAt,
         PingSent, DataSent, Answering, Held
  <1>4. QED
    BY <1>0, <1>1, <1>2, <1>3, StayOnTheWay DEF TestIInv, Clients

\* It was empty.
LEMMA PollEmptyKeeps == ASSUME TestIInv, IInv', PollEmpty, settled' = settled PROVE Clients'
  <1>0. /\ Slot' = Slot /\ ret' = ret /\ disp' = disp /\ acks' = acks
        /\ pc'[3] = pc[3] /\ arg'[3] = arg[3] /\ (Decided(3)' <=> Decided(3))
        /\ pc[0] = "idle" /\ test'.result = test.result /\ settled' = settled
        /\ test.i \in Nat \ {0}
        /\ pc' = pc /\ arg' = arg /\ (Decided(0)' <=> Decided(0)) /\ Decided(0) /\ (settled => Quiet)
        /\ test.at = "polled" /\ ret[0].code # 1 /\ test'.at = "poll" /\ test'.i = test.i + 1
    BY SuiteLeaves, Begins DEF Suite, PollEmpty, At, Move, Delay, vars, Decided, TestIInv,
       TestTypeOK, Clients, SuiteCalls, DispatcherCalls
  <1>1. /\ SuiteCalls' /\ DispatcherCalls' /\ Contents' /\ FreeAhead'
        /\ Test1Passes' /\ AcksInOrder'
    BY <1>0 DEF TestIInv, Clients, SuiteCalls, DispatcherCalls, Contents, FreeAhead, Test1Passes,
                AcksInOrder
  <1>2. SamePlaces
    BY <1>0, Messages DEF SamePlaces, PingSent, DataSent, Answering, Held
  <1>3. ASSUME NEW p \in 0 .. 5, NEW q \in 0 .. 6, settled', Journey(p, q), SettledJourney(p, q)
        PROVE  SettledJourney(p, q)'
    <2>1. (Quiet <=> Slot[3] = None /\ Waiting) /\ (Quiet <=> Slot[3] = None /\ Waiting)'
      BY QuietIs, QuietNext DEF TestIInv
    <2>2. QED
      BY <1>0, <1>3, <2>1, Messages DEF SettledJourney, Waiting, Journey, PingAt, DataAt,
         PingSent, DataSent, Answering, Held
  <1>4. QED
    BY <1>0, <1>1, <1>2, <1>3, StayOnTheWay DEF TestIInv, Clients

\* Its mailbox is cleared.
LEMMA PollClearedKeeps == ASSUME TestIInv, IInv', PollCleared, settled' = settled PROVE Clients'
  <1>0. /\ Slot' = Slot /\ ret' = ret /\ disp' = disp /\ acks' = acks
        /\ pc'[3] = pc[3] /\ arg'[3] = arg[3] /\ (Decided(3)' <=> Decided(3))
        /\ pc[0] = "idle" /\ test'.result = test.result /\ settled' = settled
        /\ test.i \in Nat \ {0}
        /\ pc' = pc /\ arg' = arg /\ (Decided(0)' <=> Decided(0)) /\ Decided(0) /\ (settled => Quiet)
        /\ test.at = "cleared" /\ test'.at = "poll" /\ test'.i = test.i + 1
    BY SuiteLeaves, Begins DEF Suite, PollCleared, At, Move, Delay, vars, Decided, TestIInv,
       TestTypeOK, Clients, SuiteCalls, DispatcherCalls
  <1>1. /\ SuiteCalls' /\ DispatcherCalls' /\ Contents' /\ FreeAhead'
        /\ Test1Passes' /\ AcksInOrder'
    BY <1>0 DEF TestIInv, Clients, SuiteCalls, DispatcherCalls, Contents, FreeAhead, Test1Passes,
                AcksInOrder
  <1>2. SamePlaces
    BY <1>0, Messages DEF SamePlaces, PingSent, DataSent, Answering, Held
  <1>3. ASSUME NEW p \in 0 .. 5, NEW q \in 0 .. 6, settled', Journey(p, q), SettledJourney(p, q)
        PROVE  SettledJourney(p, q)'
    <2>1. (Quiet <=> Slot[3] = None /\ Waiting) /\ (Quiet <=> Slot[3] = None /\ Waiting)'
      BY QuietIs, QuietNext DEF TestIInv
    <2>2. QED
      BY <1>0, <1>3, <2>1, Messages DEF SettledJourney, Waiting, Journey, PingAt, DataAt,
         PingSent, DataSent, Answering, Held
  <1>4. QED
    BY <1>0, <1>1, <1>2, <1>3, StayOnTheWay DEF TestIInv, Clients

\* Its last round is over.
LEMMA VerdictKeeps == ASSUME TestIInv, IInv', Verdict, settled' = settled PROVE Clients'
  <1>0. /\ Slot' = Slot /\ ret' = ret /\ disp' = disp /\ acks' = acks
        /\ pc'[3] = pc[3] /\ arg'[3] = arg[3] /\ (Decided(3)' <=> Decided(3))
        /\ pc[0] = "idle" /\ test'.result = test.result /\ settled' = settled
        /\ test.i \in Nat \ {0}
        /\ pc' = pc /\ arg' = arg /\ (Decided(0)' <=> Decided(0)) /\ Decided(0)
        /\ test.at = "poll" /\ test.i > PollRounds /\ PollRounds \in Nat /\ PollRounds >= 2
        /\ test'.at = (IF acks # <<>> THEN "passed" ELSE "failed") /\ test'.i = test.i
    BY SuiteLeaves, Moves, IpcTestsAssumption DEF Suite, Verdict, At, vars, Decided, TestIInv,
       TestTypeOK, Clients, SuiteCalls, DispatcherCalls
  <1>1. /\ SuiteCalls' /\ DispatcherCalls' /\ Contents' /\ FreeAhead'
        /\ Test1Passes' /\ AcksInOrder'
    BY <1>0 DEF TestIInv, Clients, SuiteCalls, DispatcherCalls, Contents, FreeAhead, Test1Passes,
                AcksInOrder
  <1>2. SamePlaces
    BY <1>0, Messages DEF SamePlaces, PingSent, DataSent, Answering, Held
  <1>3. ASSUME NEW p \in 0 .. 5, NEW q \in 0 .. 6, settled', Journey(p, q), SettledJourney(p, q)
        PROVE  SettledJourney(p, q)'
    <2>1. (Quiet <=> Slot[3] = None /\ Waiting) /\ (Quiet <=> Slot[3] = None /\ Waiting)'
      BY QuietIs, QuietNext DEF TestIInv
    <2>2. QED
      BY <1>0, <1>3, <2>1, Messages DEF SettledJourney, Waiting, Journey, PingAt, DataAt,
         PingSent, DataSent, Answering, Held
  <1>4. QED
    BY <1>0, <1>1, <1>2, <1>3, StayOnTheWay DEF TestIInv, Clients

\* Test 2 counts the message it received: the answer to the PING first.
LEMMA PollAckKeeps == ASSUME TestIInv, IInv', PollAck, settled' = settled PROVE Clients'
  <1>0. /\ Slot' = Slot /\ ret' = ret /\ disp' = disp /\ acks' = Append(acks, ret[0].msg.data)
        /\ pc'[3] = pc[3] /\ arg'[3] = arg[3] /\ (Decided(3)' <=> Decided(3))
        /\ pc[0] = "idle" /\ Decided(0) /\ test'.result = test.result /\ settled' = settled
        /\ test.i \in 1 .. PollRounds
        /\ test.at = "polled" /\ ret[0].code = 1
        /\ test'.at = "cleared" /\ test'.i = test.i
        /\ arg'[0] = Clear /\ ~Decided(0)'
    BY SuiteLeaves, Begins, Moves DEF Suite, PollAck, At, Decided, TestIInv, TestTypeOK, Clients,
       SuiteCalls
  <1>1. PICK p \in 0 .. 5, q \in 0 .. 6 : Journey(p, q) /\ (settled => SettledJourney(p, q))
    BY DEF TestIInv, Clients, OnTheWay
  <1>2. /\ <<>> # <<PingAck>> /\ <<>> # <<PingAck, TestAck>> /\ <<PingAck>> # <<PingAck, TestAck>>
        /\ Append(<<>>, PingAck) = <<PingAck>>
        /\ Append(<<PingAck>>, TestAck) = <<PingAck, TestAck>>
    <2>1. Len(<<>>) = 0 /\ Len(<<PingAck>>) = 1 /\ Len(<<PingAck, TestAck>>) = 2
      OBVIOUS
    <2>2. Append(<<>>, PingAck) = <<PingAck>>
      OBVIOUS
    <2>3. Append(<<PingAck>>, TestAck) = <<PingAck, TestAck>>
      <3> DEFINE one == <<PingAck>>
                 two == <<PingAck, TestAck>>
      <3>1. one \in Seq(Data) /\ two \in Seq(Data)
        BY Messages
      <3>2. Len(one) = 1 /\ one[1] = PingAck /\ Len(two) = 2 /\ two[1] = PingAck /\ two[2] = TestAck
        OBVIOUS
      <3> HIDE DEF one, two
      <3>3. /\ Append(one, TestAck) \in Seq(Data)
            /\ Len(Append(one, TestAck)) = 2
            /\ Append(one, TestAck)[1] = PingAck
            /\ Append(one, TestAck)[2] = TestAck
        <4>1. TestAck \in Data
          BY Messages
        <4>2. /\ Append(one, TestAck) \in Seq(Data)
              /\ Len(Append(one, TestAck)) = Len(one) + 1
              /\ \A i \in 1 .. Len(one) : Append(one, TestAck)[i] = one[i]
              /\ Append(one, TestAck)[Len(one) + 1] = TestAck
          BY <3>1, <4>1, AppendProperties
        <4>3. QED
          BY <3>2, <4>2
      <3>4. \A i \in 1 .. Len(Append(one, TestAck)) : Append(one, TestAck)[i] = two[i]
        BY <3>2, <3>3
      <3>5. Append(one, TestAck) = two
        BY <3>1, <3>2, <3>3, <3>4, SeqEqual
      <3>6. QED
        BY <3>5 DEF one, two
    <2>4. QED
      BY <2>1, <2>2, <2>3
  <1>3. ret[0].msg \in {AckMsg(PingAck), AckMsg(TestAck)}
    BY <1>0 DEF TestIInv, Clients, Contents
  <1>4. \A x : AckMsg(x).data = x
    BY DEF AckMsg
  <1>5. PICK pp \in 0 .. 5, qq \in 0 .. 6 :
          \/ /\ p = 4 /\ pp = 5 /\ qq = q /\ q \notin {4, 5}
             /\ acks = <<>> /\ acks' = <<PingAck>>
          \/ /\ q = 4 /\ qq = 5 /\ pp = p /\ p = 5
             /\ acks = <<PingAck>> /\ acks' = <<PingAck, TestAck>>
    <2>1. CASE ret[0].msg = AckMsg(PingAck)
      <3>1. p = 4
        BY <1>0, <1>1, <2>1 DEF Journey, PingAt, Held
      <3>2. acks = <<>> /\ q \notin {4, 5}
        BY <1>1, <3>1 DEF Journey, PingAt, Behind
      <3>3. QED
        BY <1>0, <1>2, <1>4, <2>1, <3>1, <3>2
    <2>2. CASE ret[0].msg = AckMsg(TestAck)
      <3>1. ret[0].msg # AckMsg(PingAck)
        BY <2>2, Messages
      <3>2. q = 4
        BY <1>0, <1>1, <2>2 DEF Journey, DataAt, Held
      <3>3. p = 5 /\ acks # <<>> /\ acks # <<PingAck, TestAck>>
        BY <1>1, <3>2 DEF Journey, PingAt, DataAt, Behind
      <3>4. acks = <<PingAck>>
        BY <3>3 DEF TestIInv, Clients, AcksInOrder
      <3>5. QED
        BY <1>0, <1>2, <1>4, <2>2, <3>1, <3>2, <3>3, <3>4
    <2>3. QED
      BY <1>3, <2>1, <2>2
  <1>6. /\ SuiteCalls' /\ DispatcherCalls' /\ Contents' /\ FreeAhead'
        /\ Test1Passes' /\ AcksInOrder'
    <2> USE DEF TestIInv, Clients
    <2>1. SuiteCalls'
      BY <1>0, <1>2, <1>5 DEF SuiteCalls
    <2>2. DispatcherCalls'
      BY <1>0 DEF DispatcherCalls
    <2>3. Contents' /\ FreeAhead'
      BY <1>0 DEF Contents, FreeAhead
    <2>4. Test1Passes' /\ AcksInOrder'
      BY <1>0, <1>5 DEF Test1Passes, AcksInOrder
    <2>5. QED
      BY <2>1, <2>2, <2>3, <2>4
  <1>7. Journey(pp, qq)'
    <2> USE DEF Journey
    <2>1. PingAt(pp)'
      BY <1>0, <1>1, <1>2, <1>5, Messages DEF PingAt, PingSent, Answering, Held
    <2>2. DataAt(qq)'
      BY <1>0, <1>1, <1>2, <1>5, Messages DEF DataAt, DataSent, Answering, Held
    <2>3. Behind(pp, qq)'
      BY <1>0, <1>1, <1>5 DEF Behind
    <2>4. QED
      BY <2>1, <2>2, <2>3
  <1>8. ASSUME settled' PROVE SettledJourney(pp, qq)'
    <2>1. SettledJourney(p, q) /\ Journey(p, q)
      BY <1>0, <1>1, <1>8
    <2>2. (Quiet <=> Slot[3] = None /\ Waiting) /\ (Quiet <=> Slot[3] = None /\ Waiting)'
      BY QuietIs, QuietNext DEF TestIInv
    <2>3. QED
      BY <1>0, <1>5, <2>1, <2>2 DEF SettledJourney, Waiting
  <1>9. QED
    BY <1>6, <1>7, <1>8 DEF Clients, OnTheWay

-----------------------------------------------------------------------------
\* The dispatcher looks into its mailbox.
LEMMA DispReceiveKeeps == ASSUME TestIInv, IInv', DispReceive, settled' = settled PROVE Clients'
  <1>0. /\ Slot' = Slot /\ ret' = ret /\ test' = test /\ acks' = acks /\ settled' = settled
        /\ pc'[0] = pc[0] /\ arg'[0] = arg[0] /\ (Decided(0)' <=> Decided(0)) /\ Decided(3)
        /\ disp = "receive" /\ disp' = "received" /\ ret[3].code # 1
        /\ arg'[3] = Receive /\ ~Decided(3)'
    BY DispatcherLeaves, Begins DEF Dispatcher, DispReceive, From, vars, Decided, TestIInv,
       TestTypeOK, Clients, DispatcherCalls
  <1>1. /\ SuiteCalls' /\ DispatcherCalls' /\ Contents' /\ FreeAhead'
        /\ Test1Passes' /\ AcksInOrder'
    BY <1>0 DEF TestIInv, Clients, SuiteCalls, DispatcherCalls, Contents, FreeAhead, Test1Passes,
                AcksInOrder
  <1>2. SamePlaces
    BY <1>0, Messages DEF SamePlaces, PingSent, DataSent, Answering, Held
  <1>3. ASSUME NEW p \in 0 .. 5, NEW q \in 0 .. 6, settled', Journey(p, q), SettledJourney(p, q)
        PROVE  SettledJourney(p, q)'
    <2>1. (Quiet <=> Slot[3] = None /\ Waiting) /\ (Quiet <=> Slot[3] = None /\ Waiting)'
      BY QuietIs, QuietNext DEF TestIInv
    <2>2. QED
      BY <1>0, <1>3, <2>1, Messages DEF SettledJourney, Waiting, Journey, PingAt, DataAt,
         PingSent, DataSent, Answering, Held
  <1>4. QED
    BY <1>0, <1>1, <1>2, <1>3, StayOnTheWay DEF TestIInv, Clients

\* It found nothing.
LEMMA DispNothingKeeps == ASSUME TestIInv, IInv', DispNothing, settled' = settled PROVE Clients'
  <1>0. /\ Slot' = Slot /\ ret' = ret /\ test' = test /\ acks' = acks /\ settled' = settled
        /\ pc'[0] = pc[0] /\ arg'[0] = arg[0] /\ (Decided(0)' <=> Decided(0)) /\ Decided(3)
        /\ disp = "received" /\ disp' = "receive" /\ ret[3].code # 1
        /\ pc'[3] = "idle" /\ Decided(3)'
    BY DispatcherLeaves DEF Dispatcher, DispNothing, From, vars, Decided, TestIInv, TestTypeOK,
       Clients, DispatcherCalls
  <1>1. /\ SuiteCalls' /\ DispatcherCalls' /\ Contents' /\ FreeAhead'
        /\ Test1Passes' /\ AcksInOrder'
    BY <1>0 DEF TestIInv, Clients, SuiteCalls, DispatcherCalls, Contents, FreeAhead, Test1Passes,
                AcksInOrder
  <1>2. SamePlaces
    BY <1>0, Messages DEF SamePlaces, PingSent, DataSent, Answering, Held
  <1>3. ASSUME NEW p \in 0 .. 5, NEW q \in 0 .. 6, settled', Journey(p, q), SettledJourney(p, q)
        PROVE  SettledJourney(p, q)'
    <2>1. (Quiet <=> Slot[3] = None /\ Waiting) /\ (Quiet <=> Slot[3] = None /\ Waiting)'
      BY QuietIs, QuietNext DEF TestIInv
    <2>2. QED
      BY <1>0, <1>3, <2>1, Messages DEF SettledJourney, Waiting, Journey, PingAt, DataAt,
         PingSent, DataSent, Answering, Held
  <1>4. QED
    BY <1>0, <1>1, <1>2, <1>3, StayOnTheWay DEF TestIInv, Clients

\* It answers the message it received.
LEMMA DispAckKeeps == ASSUME TestIInv, IInv', DispAck, settled' = settled PROVE Clients'
  <1>0. /\ Slot' = Slot /\ ret' = ret /\ test' = test /\ acks' = acks /\ settled' = settled
        /\ pc'[0] = pc[0] /\ arg'[0] = arg[0] /\ (Decided(0)' <=> Decided(0)) /\ Decided(3)
        /\ disp = "received" /\ disp' = "acked" /\ ret[3].code = 1
        /\ ret[3].msg \in {PingMsg, DataMsg}
        /\ arg'[3] = AckOf(ret[3].msg) /\ ~Decided(3)'
    BY DispatcherLeaves, Begins DEF Dispatcher, DispAck, From, vars, Decided, TestIInv,
       TestTypeOK, Clients, DispatcherCalls, Contents, AckOf, PingMsg, DataMsg
  <1>1. /\ SuiteCalls' /\ DispatcherCalls' /\ Contents' /\ FreeAhead'
        /\ Test1Passes' /\ AcksInOrder'
    BY <1>0 DEF TestIInv, Clients, SuiteCalls, DispatcherCalls, Contents, FreeAhead, Test1Passes,
                AcksInOrder
  <1>2. SamePlaces
    BY <1>0, Messages DEF SamePlaces, PingSent, DataSent, Answering, Held
  <1>3. ASSUME NEW p \in 0 .. 5, NEW q \in 0 .. 6, settled', Journey(p, q), SettledJourney(p, q)
        PROVE  SettledJourney(p, q)'
    <2>1. (Quiet <=> Slot[3] = None /\ Waiting) /\ (Quiet <=> Slot[3] = None /\ Waiting)'
      BY QuietIs, QuietNext DEF TestIInv
    <2>2. QED
      BY <1>0, <1>3, <2>1, Messages DEF SettledJourney, Waiting, Journey, PingAt, DataAt,
         PingSent, DataSent, Answering, Held
  <1>4. QED
    BY <1>0, <1>1, <1>2, <1>3, StayOnTheWay DEF TestIInv, Clients

\* It clears its mailbox, answered or not.
LEMMA DispClearKeeps == ASSUME TestIInv, IInv', DispClear, settled' = settled PROVE Clients'
  <1>0. /\ Slot' = Slot /\ ret' = ret /\ test' = test /\ acks' = acks /\ settled' = settled
        /\ pc'[0] = pc[0] /\ arg'[0] = arg[0] /\ (Decided(0)' <=> Decided(0)) /\ Decided(3)
        /\ disp = "acked" /\ disp' = "cleared" /\ ret[3].code # 1
        /\ arg'[3] = Clear /\ ~Decided(3)'
    BY DispatcherLeaves, Begins DEF Dispatcher, DispClear, From, vars, Decided, TestIInv,
       TestTypeOK, Clients, DispatcherCalls
  <1>1. /\ SuiteCalls' /\ DispatcherCalls' /\ Contents' /\ FreeAhead'
        /\ Test1Passes' /\ AcksInOrder'
    BY <1>0 DEF TestIInv, Clients, SuiteCalls, DispatcherCalls, Contents, FreeAhead, Test1Passes,
                AcksInOrder
  <1>2. SamePlaces
    BY <1>0, Messages DEF SamePlaces, PingSent, DataSent, Answering, Held
  <1>3. ASSUME NEW p \in 0 .. 5, NEW q \in 0 .. 6, settled', Journey(p, q), SettledJourney(p, q)
        PROVE  SettledJourney(p, q)'
    <2>1. (Quiet <=> Slot[3] = None /\ Waiting) /\ (Quiet <=> Slot[3] = None /\ Waiting)'
      BY QuietIs, QuietNext DEF TestIInv
    <2>2. QED
      BY <1>0, <1>3, <2>1, Messages DEF SettledJourney, Waiting, Journey, PingAt, DataAt,
         PingSent, DataSent, Answering, Held
  <1>4. QED
    BY <1>0, <1>1, <1>2, <1>3, StayOnTheWay DEF TestIInv, Clients

\* It starts over.
LEMMA DispLoopKeeps == ASSUME TestIInv, IInv', DispLoop, settled' = settled PROVE Clients'
  <1>0. /\ Slot' = Slot /\ ret' = ret /\ test' = test /\ acks' = acks /\ settled' = settled
        /\ pc'[0] = pc[0] /\ arg'[0] = arg[0] /\ (Decided(0)' <=> Decided(0)) /\ Decided(3)
        /\ disp = "cleared" /\ disp' = "receive" /\ ret[3].code # 1
        /\ pc'[3] = "idle" /\ Decided(3)'
    BY DispatcherLeaves DEF Dispatcher, DispLoop, From, vars, Decided, TestIInv, TestTypeOK,
       Clients, DispatcherCalls
  <1>1. /\ SuiteCalls' /\ DispatcherCalls' /\ Contents' /\ FreeAhead'
        /\ Test1Passes' /\ AcksInOrder'
    BY <1>0 DEF TestIInv, Clients, SuiteCalls, DispatcherCalls, Contents, FreeAhead, Test1Passes,
                AcksInOrder
  <1>2. SamePlaces
    BY <1>0, Messages DEF SamePlaces, PingSent, DataSent, Answering, Held
  <1>3. ASSUME NEW p \in 0 .. 5, NEW q \in 0 .. 6, settled', Journey(p, q), SettledJourney(p, q)
        PROVE  SettledJourney(p, q)'
    <2>1. (Quiet <=> Slot[3] = None /\ Waiting) /\ (Quiet <=> Slot[3] = None /\ Waiting)'
      BY QuietIs, QuietNext DEF TestIInv
    <2>2. QED
      BY <1>0, <1>3, <2>1, Messages DEF SettledJourney, Waiting, Journey, PingAt, DataAt,
         PingSent, DataSent, Answering, Held
  <1>4. QED
    BY <1>0, <1>1, <1>2, <1>3, StayOnTheWay DEF TestIInv, Clients

-----------------------------------------------------------------------------
\* What a step inside a call of Core 0 is about, and what it leaves alone.
LEMMA InsideSuite ==
  ASSUME TestIInv, Inside(0), settled' = settled
  PROVE  /\ test' = test /\ acks' = acks /\ disp' = disp /\ arg' = arg /\ settled' = settled
         /\ pc'[3] = pc[3] /\ ret'[3] = ret[3] /\ (Decided(3)' <=> Decided(3))
         /\ pc[0] # "idle" /\ test.at \in {"pinged", "sent", "polled", "cleared"}
         /\ test.i \in 1 .. PollRounds + 1
         /\ OnItsWay(0) \/ SendOutcome(0) \/ ReceiveOutcome(0) \/ ClearOutcome(0)
  <1>1. {0, 3} \subseteq Cores /\ IInv /\ faults = 0 /\ Step(0)
    BY IpcTestsAssumption DEF Inside, TestIInv
  <1>2. Elsewhere(0) /\ pc[0] # "idle"
    BY <1>1, StepEffect
  <1>3. pc'[3] = pc[3] /\ ret'[3] = ret[3] /\ arg' = arg
    BY <1>1, <1>2 DEF Elsewhere
  <1>4. test.at \in {"pinged", "sent", "polled", "cleared"} /\ test.i \in 1 .. PollRounds + 1
    BY <1>2 DEF TestIInv, TestTypeOK, Clients, SuiteCalls
  <1>5. Decided(3)' <=> Decided(3)
    BY <1>3 DEF Decided
  <1>6. QED
    BY <1>1, <1>2, <1>3, <1>4, <1>5, StepEffect DEF Inside, suite

\* What a step inside a call of Core 3 is about, and what it leaves alone.
LEMMA InsideDispatcher ==
  ASSUME TestIInv, Inside(3), settled' = settled
  PROVE  /\ test' = test /\ acks' = acks /\ disp' = disp /\ arg' = arg /\ settled' = settled
         /\ pc'[0] = pc[0] /\ ret'[0] = ret[0] /\ (Decided(0)' <=> Decided(0))
         /\ pc[3] # "idle" /\ disp \in {"received", "acked", "cleared"}
         /\ OnItsWay(3) \/ SendOutcome(3) \/ ReceiveOutcome(3) \/ ClearOutcome(3)
  <1>1. {0, 3} \subseteq Cores /\ IInv /\ faults = 0 /\ Step(3)
    BY IpcTestsAssumption DEF Inside, TestIInv
  <1>2. Elsewhere(3) /\ pc[3] # "idle"
    BY <1>1, StepEffect
  <1>3. pc'[0] = pc[0] /\ ret'[0] = ret[0] /\ arg' = arg
    BY <1>1, <1>2 DEF Elsewhere
  <1>4. disp \in {"received", "acked", "cleared"}
    BY <1>2 DEF TestIInv, TestTypeOK, Clients, DispatcherCalls
  <1>5. Decided(0)' <=> Decided(0)
    BY <1>3 DEF Decided
  <1>6. QED
    BY <1>1, <1>2, <1>3, <1>4, <1>5, StepEffect DEF Inside, suite

\* Core 0 is on the way to the effect of its call, or back.
LEMMA SuiteOnItsWay ==
  ASSUME TestIInv, IInv', Inside(0), OnItsWay(0), settled' = settled
  PROVE Clients'
  <1>0. /\ test' = test /\ acks' = acks /\ disp' = disp /\ arg' = arg /\ settled' = settled
        /\ pc'[3] = pc[3] /\ ret'[3] = ret[3] /\ (Decided(3)' <=> Decided(3)) /\ pc[0] # "idle"
        /\ Slot' = Slot /\ ret' = ret /\ (Decided(0)' <=> Decided(0))
        /\ test.at \in {"pinged", "sent", "polled", "cleared"}
    BY InsideSuite, Messages, IpcTestsAssumption DEF OnItsWay, DecidesWith, Becomes, TestIInv,
       Clients, SuiteCalls, DispatcherCalls, Contents, Send, Receive, Clear
  <1>1. /\ SuiteCalls' /\ DispatcherCalls' /\ Contents' /\ FreeAhead'
        /\ Test1Passes' /\ AcksInOrder'
    BY <1>0 DEF TestIInv, Clients, SuiteCalls, DispatcherCalls, Contents, FreeAhead, Test1Passes,
                AcksInOrder
  <1>2. SamePlaces
    BY <1>0, Messages DEF SamePlaces, PingSent, DataSent, Answering, Held
  <1>3. ASSUME NEW p \in 0 .. 5, NEW q \in 0 .. 6, settled', Journey(p, q), SettledJourney(p, q)
        PROVE  SettledJourney(p, q)'
    <2>1. (Quiet <=> Slot[3] = None /\ Waiting) /\ (Quiet <=> Slot[3] = None /\ Waiting)'
      BY QuietIs, QuietNext DEF TestIInv
    <2>2. QED
      BY <1>0, <1>3, <2>1, Messages DEF SettledJourney, Waiting, Journey, PingAt, DataAt,
         PingSent, DataSent, Answering, Held
  <1>4. QED
    BY <1>0, <1>1, <1>2, <1>3, StayOnTheWay DEF TestIInv, Clients

\* A PING is accepted; a DATA message is accepted or refused.
LEMMA SuiteSends ==
  ASSUME TestIInv, IInv', Inside(0), SendOutcome(0), settled' = settled
  PROVE Clients'
  <1>0. /\ test' = test /\ acks' = acks /\ disp' = disp /\ arg' = arg /\ settled' = settled
        /\ pc'[3] = pc[3] /\ ret'[3] = ret[3] /\ (Decided(3)' <=> Decided(3)) /\ pc[0] # "idle"
        /\ test.at \in {"pinged", "sent"} /\ test.i \in 1 .. 3 /\ Slot'[0] = Slot[0]
        /\ ~Decided(0) /\ Decided(0)'
        /\ \/ /\ test.at = "pinged" /\ ret'[0].code = 0 /\ Slot[test.i] = None
              /\ Slot'[3] = IF test.i = 3 THEN PingMsg ELSE Slot[3]
              /\ \A d \in 1 .. 3 : d > test.i => Slot'[d] = Slot[d]
           \/ test.at = "sent" /\ Slot'[3] = Slot[3]
           \/ test.at = "sent" /\ test.i = 3 /\ Slot[3] = None /\ Slot'[3] = DataMsg
    BY InsideSuite, Messages, IpcTestsAssumption DEF SendOutcome, DecidesWith, Becomes,
       TestIInv, Clients, SuiteCalls, DispatcherCalls, Contents, Send, Receive, Clear,
       FreeAhead, PingMsg, DataMsg
  <1>1. PICK p \in 0 .. 5, q \in 0 .. 6 : Journey(p, q) /\ (settled => SettledJourney(p, q))
    BY DEF TestIInv, Clients, OnTheWay
  <1>2. PICK pp \in 0 .. 5, qq \in 0 .. 6 :
          /\ pp = IF Slot'[3] = PingMsg /\ Slot[3] # PingMsg THEN 1 ELSE p
          /\ qq = IF test.at = "sent" /\ test.i = 3 THEN IF Slot'[3] = DataMsg THEN 1 ELSE 6 ELSE q
    OBVIOUS
  <1>3. /\ SuiteCalls' /\ DispatcherCalls' /\ Contents' /\ FreeAhead'
        /\ Test1Passes' /\ AcksInOrder'
    BY <1>0 DEF TestIInv, Clients, SuiteCalls, DispatcherCalls, Contents, FreeAhead, Test1Passes,
                AcksInOrder
  <1>4. Journey(pp, qq)'
    <2> USE DEF Journey
    <2>1. PingAt(pp)'
      BY <1>0, <1>1, <1>2, Messages DEF PingAt, PingSent, Answering, Held
    <2>2. DataAt(qq)'
      BY <1>0, <1>1, <1>2, Messages DEF DataAt, DataSent, Answering, Held
    <2>3. Behind(pp, qq)'
      BY <1>0, <1>1, <1>2, Messages DEF Behind, PingAt, DataAt, Answering, Held, PingSent,
         DataSent
    <2>4. QED
      BY <2>1, <2>2, <2>3
  <1>5. ASSUME settled' PROVE SettledJourney(pp, qq)'
    <2>1. SettledJourney(p, q) /\ Journey(p, q)
      BY <1>0, <1>1, <1>5
    <2>2. (Quiet <=> Slot[3] = None /\ Waiting) /\ (Quiet <=> Slot[3] = None /\ Waiting)'
      BY QuietIs, QuietNext DEF TestIInv
    <2>3. QED
      BY <1>0, <1>2, <2>1, <2>2, Messages DEF SettledJourney, Waiting, Journey, Behind, PingAt,
         DataAt, Answering, Held, PingSent, DataSent
  <1>6. QED
    BY <1>2, <1>3, <1>4, <1>5 DEF Clients, OnTheWay

\* Test 2 receives nothing, or an answer.
LEMMA SuiteReceives ==
  ASSUME TestIInv, IInv', Inside(0), ReceiveOutcome(0), settled' = settled
  PROVE Clients'
  <1>0. /\ test' = test /\ acks' = acks /\ disp' = disp /\ arg' = arg /\ settled' = settled
        /\ pc'[3] = pc[3] /\ ret'[3] = ret[3] /\ (Decided(3)' <=> Decided(3)) /\ pc[0] # "idle"
        /\ Slot[0] \in {None, AckMsg(PingAck), AckMsg(TestAck)}
        /\ test.at = "polled" /\ test.i \in Nat \ {0} /\ \A d \in 1 .. 3 : Slot'[d] = Slot[d]
        /\ ~Decided(0) /\ Decided(0)'
        /\ \/ Slot[0] = None /\ Slot'[0] = None /\ ret'[0].code = 0
           \/ /\ Slot[0] # None /\ Slot'[0] = None
              /\ ret'[0].code = 1 /\ ret'[0].msg = Slot[0]
    BY InsideSuite, Messages, IpcTestsAssumption DEF ReceiveOutcome, DecidesWith, Becomes,
       TestIInv, Clients, SuiteCalls, DispatcherCalls, Contents, Send, Receive, Clear
  <1>1. PICK p \in 0 .. 5, q \in 0 .. 6 : Journey(p, q) /\ (settled => SettledJourney(p, q))
    BY DEF TestIInv, Clients, OnTheWay
  <1>2. PICK pp \in 0 .. 5, qq \in 0 .. 6 :
          /\ pp = IF p = 3 THEN 4 ELSE p
          /\ qq = IF q = 3 THEN 4 ELSE q
    OBVIOUS
  <1>3. /\ SuiteCalls' /\ DispatcherCalls' /\ Contents' /\ FreeAhead'
        /\ Test1Passes' /\ AcksInOrder'
    BY <1>0 DEF TestIInv, Clients, SuiteCalls, DispatcherCalls, Contents, FreeAhead, Test1Passes,
                AcksInOrder
  <1>4. Journey(pp, qq)'
    <2> USE DEF Journey
    <2>1. PingAt(pp)'
      BY <1>0, <1>1, <1>2, Messages DEF PingAt, PingSent, Answering, Held
    <2>2. DataAt(qq)'
      BY <1>0, <1>1, <1>2, Messages DEF DataAt, DataSent, Answering, Held
    <2>3. Behind(pp, qq)'
      BY <1>0, <1>1, <1>2, Messages DEF Behind, PingAt, DataAt, Answering, Held, PingSent,
         DataSent
    <2>4. QED
      BY <2>1, <2>2, <2>3
  <1>5. ASSUME settled' PROVE SettledJourney(pp, qq)'
    <2>1. SettledJourney(p, q) /\ Journey(p, q)
      BY <1>0, <1>1, <1>5
    <2>2. (Quiet <=> Slot[3] = None /\ Waiting) /\ (Quiet <=> Slot[3] = None /\ Waiting)'
      BY QuietIs, QuietNext DEF TestIInv
    <2>3. QED
      BY <1>0, <1>2, <2>1, <2>2, Messages DEF SettledJourney, Waiting, Journey, Behind, PingAt,
         DataAt, Answering, Held, PingSent, DataSent
  <1>6. QED
    BY <1>2, <1>3, <1>4, <1>5 DEF Clients, OnTheWay

\* Test 2 clears its mailbox, and with it the answer to the DATA message if it is there by now.
LEMMA SuiteClears ==
  ASSUME TestIInv, IInv', Inside(0), ClearOutcome(0), settled' = settled
  PROVE Clients'
  <1>0. /\ test' = test /\ acks' = acks /\ disp' = disp /\ arg' = arg /\ settled' = settled
        /\ pc'[3] = pc[3] /\ ret'[3] = ret[3] /\ (Decided(3)' <=> Decided(3)) /\ pc[0] # "idle"
        /\ test.at = "cleared" /\ acks # <<>> /\ \A d \in 1 .. 3 : Slot'[d] = Slot[d]
        /\ Slot'[0] = None /\ ~Decided(0) /\ Decided(0)'
    BY InsideSuite, Messages, IpcTestsAssumption DEF ClearOutcome, DecidesWith, Becomes,
       TestIInv, Clients, SuiteCalls, DispatcherCalls, Contents, Send, Receive, Clear
  <1>1. PICK p \in 0 .. 5, q \in 0 .. 6 : Journey(p, q) /\ (settled => SettledJourney(p, q))
    BY DEF TestIInv, Clients, OnTheWay
  <1>2. PICK pp \in 0 .. 5, qq \in 0 .. 6 :
          pp = p /\ p = 5 /\ qq = IF q = 3 THEN 6 ELSE q
    BY <1>0, <1>1, Messages DEF Journey, PingAt, DataAt, Answering, Held, PingSent, DataSent
  <1>3. /\ SuiteCalls' /\ DispatcherCalls' /\ Contents' /\ FreeAhead'
        /\ Test1Passes' /\ AcksInOrder'
    BY <1>0 DEF TestIInv, Clients, SuiteCalls, DispatcherCalls, Contents, FreeAhead, Test1Passes,
                AcksInOrder
  <1>4. Journey(pp, qq)'
    <2> USE DEF Journey
    <2>1. PingAt(pp)'
      BY <1>0, <1>1, <1>2, Messages DEF PingAt, PingSent, Answering, Held
    <2>2. DataAt(qq)'
      BY <1>0, <1>1, <1>2, Messages DEF DataAt, DataSent, Answering, Held
    <2>3. Behind(pp, qq)'
      BY <1>0, <1>1, <1>2, Messages DEF Behind, PingAt, DataAt, Answering, Held, PingSent,
         DataSent
    <2>4. QED
      BY <2>1, <2>2, <2>3
  <1>5. ASSUME settled' PROVE SettledJourney(pp, qq)'
    <2>1. SettledJourney(p, q) /\ Journey(p, q)
      BY <1>0, <1>1, <1>5
    <2>2. (Quiet <=> Slot[3] = None /\ Waiting) /\ (Quiet <=> Slot[3] = None /\ Waiting)'
      BY QuietIs, QuietNext DEF TestIInv
    <2>3. QED
      BY <1>0, <1>2, <2>1, <2>2, Messages DEF SettledJourney, Waiting, Journey, Behind, PingAt,
         DataAt, Answering, Held, PingSent, DataSent
  <1>6. QED
    BY <1>2, <1>3, <1>4, <1>5 DEF Clients, OnTheWay

\* Core 3 is on the way to the effect of its call, or back.
LEMMA DispatcherOnItsWay ==
  ASSUME TestIInv, IInv', Inside(3), OnItsWay(3), settled' = settled
  PROVE Clients'
  <1>0. /\ test' = test /\ acks' = acks /\ disp' = disp /\ arg' = arg /\ settled' = settled
        /\ pc'[0] = pc[0] /\ ret'[0] = ret[0] /\ (Decided(0)' <=> Decided(0)) /\ pc[3] # "idle"
        /\ Slot' = Slot /\ ret' = ret /\ (Decided(3)' <=> Decided(3))
        /\ disp \in {"received", "acked", "cleared"}
    BY InsideDispatcher, Messages, IpcTestsAssumption DEF OnItsWay, DecidesWith, Becomes,
       TestIInv, Clients, SuiteCalls, DispatcherCalls, Contents, Send, Receive, Clear
  <1>1. /\ SuiteCalls' /\ DispatcherCalls' /\ Contents' /\ FreeAhead'
        /\ Test1Passes' /\ AcksInOrder'
    BY <1>0 DEF TestIInv, Clients, SuiteCalls, DispatcherCalls, Contents, FreeAhead, Test1Passes,
                AcksInOrder
  <1>2. SamePlaces
    BY <1>0, Messages DEF SamePlaces, PingSent, DataSent, Answering, Held
  <1>3. ASSUME NEW p \in 0 .. 5, NEW q \in 0 .. 6, settled', Journey(p, q), SettledJourney(p, q)
        PROVE  SettledJourney(p, q)'
    <2>1. (Quiet <=> Slot[3] = None /\ Waiting) /\ (Quiet <=> Slot[3] = None /\ Waiting)'
      BY QuietIs, QuietNext DEF TestIInv
    <2>2. QED
      BY <1>0, <1>3, <2>1, Messages DEF SettledJourney, Waiting, Journey, PingAt, DataAt,
         PingSent, DataSent, Answering, Held
  <1>4. QED
    BY <1>0, <1>1, <1>2, <1>3, StayOnTheWay DEF TestIInv, Clients

\* An answer is accepted; that to the DATA message may be refused.
LEMMA DispatcherSends ==
  ASSUME TestIInv, IInv', Inside(3), SendOutcome(3), settled' = settled
  PROVE Clients'
  <1>0. /\ test' = test /\ acks' = acks /\ disp' = disp /\ arg' = arg /\ settled' = settled
        /\ pc'[0] = pc[0] /\ ret'[0] = ret[0] /\ (Decided(0)' <=> Decided(0)) /\ pc[3] # "idle"
        /\ disp = "acked" /\ \A d \in 1 .. 3 : Slot'[d] = Slot[d]
        /\ ~Decided(3) /\ Decided(3)' /\ ret'[3].code # 1
        /\ arg[3] \in {AckOf(PingMsg), AckOf(DataMsg)}
        /\ \/ Slot[0] # None /\ Slot'[0] = Slot[0]
           \/ Slot[0] = None /\ arg[3] = AckOf(PingMsg) /\ Slot'[0] = AckMsg(PingAck)
           \/ Slot[0] = None /\ arg[3] = AckOf(DataMsg) /\ Slot'[0] = AckMsg(TestAck)
    BY InsideDispatcher, Messages, IpcTestsAssumption DEF SendOutcome, DecidesWith, Becomes,
       TestIInv, Clients, SuiteCalls, DispatcherCalls, Contents, Send, Receive, Clear, AckMsg
  <1>1. PICK p \in 0 .. 5, q \in 0 .. 6 : Journey(p, q) /\ (settled => SettledJourney(p, q))
    BY DEF TestIInv, Clients, OnTheWay
  <1>2. PICK pp \in 0 .. 5, qq \in 0 .. 6 :
          /\ pp = IF p = 2 THEN 3 ELSE p
          /\ qq = IF q = 2 THEN IF Slot[0] = None THEN 3 ELSE 6 ELSE q
          /\ p = 2 => Slot[0] = None
    BY <1>0, <1>1 DEF TestIInv, Clients, Contents, Journey, Behind, PingAt, DataAt
  <1>3. /\ SuiteCalls' /\ DispatcherCalls' /\ Contents' /\ FreeAhead'
        /\ Test1Passes' /\ AcksInOrder'
    BY <1>0 DEF TestIInv, Clients, SuiteCalls, DispatcherCalls, Contents, FreeAhead, Test1Passes,
                AcksInOrder
  <1>4. Journey(pp, qq)'
    <2> USE DEF Journey
    <2>1. PingAt(pp)'
      BY <1>0, <1>1, <1>2, Messages DEF PingAt, PingSent, Answering, Held
    <2>2. DataAt(qq)'
      BY <1>0, <1>1, <1>2, Messages DEF DataAt, DataSent, Answering, Held
    <2>3. Behind(pp, qq)'
      BY <1>0, <1>1, <1>2, Messages DEF Behind, PingAt, DataAt, Answering, Held, PingSent,
         DataSent
    <2>4. QED
      BY <2>1, <2>2, <2>3
  <1>5. ASSUME settled' PROVE SettledJourney(pp, qq)'
    <2>1. SettledJourney(p, q) /\ Journey(p, q)
      BY <1>0, <1>1, <1>5
    <2>2. (Quiet <=> Slot[3] = None /\ Waiting) /\ (Quiet <=> Slot[3] = None /\ Waiting)'
      BY QuietIs, QuietNext DEF TestIInv
    <2>3. QED
      BY <1>0, <1>2, <2>1, <2>2, Messages DEF SettledJourney, Waiting, Journey, Behind, PingAt,
         DataAt, Answering, Held, PingSent, DataSent
  <1>6. QED
    BY <1>2, <1>3, <1>4, <1>5 DEF Clients, OnTheWay

\* The dispatcher receives nothing, or one of the two messages.
LEMMA DispatcherReceives ==
  ASSUME TestIInv, IInv', Inside(3), ReceiveOutcome(3), settled' = settled
  PROVE Clients'
  <1>0. /\ test' = test /\ acks' = acks /\ disp' = disp /\ arg' = arg /\ settled' = settled
        /\ pc'[0] = pc[0] /\ ret'[0] = ret[0] /\ (Decided(0)' <=> Decided(0)) /\ pc[3] # "idle"
        /\ Slot[3] \in {None, PingMsg, DataMsg}
        /\ disp = "received" /\ Slot'[0] = Slot[0]
        /\ \A d \in 1 .. 3 : Slot[d] = None => Slot'[d] = None
        /\ ~Decided(3) /\ Decided(3)' /\ ret[3].code # 1
        /\ \/ Slot[3] = None /\ Slot'[3] = None /\ ret'[3].code = 0
           \/ /\ Slot[3] # None /\ Slot'[3] = None
              /\ ret'[3].code = 1 /\ ret'[3].msg = Slot[3]
    BY InsideDispatcher, Messages, IpcTestsAssumption DEF ReceiveOutcome, DecidesWith, Becomes,
       TestIInv, Clients, SuiteCalls, DispatcherCalls, Contents, Send, Receive, Clear
  <1>1. PICK p \in 0 .. 5, q \in 0 .. 6 : Journey(p, q) /\ (settled => SettledJourney(p, q))
    BY DEF TestIInv, Clients, OnTheWay
  <1>2. PICK pp \in 0 .. 5, qq \in 0 .. 6 :
          /\ pp = IF p = 1 THEN 2 ELSE p
          /\ qq = IF q = 1 THEN 2 ELSE q
    OBVIOUS
  <1>3. /\ SuiteCalls' /\ DispatcherCalls' /\ Contents' /\ FreeAhead'
        /\ Test1Passes' /\ AcksInOrder'
    BY <1>0 DEF TestIInv, Clients, SuiteCalls, DispatcherCalls, Contents, FreeAhead, Test1Passes,
                AcksInOrder
  <1>4. Journey(pp, qq)'
    <2> USE DEF Journey
    <2>1. PingAt(pp)'
      BY <1>0, <1>1, <1>2, Messages DEF PingAt, PingSent, Answering, Held
    <2>2. DataAt(qq)'
      BY <1>0, <1>1, <1>2, Messages DEF DataAt, DataSent, Answering, Held
    <2>3. Behind(pp, qq)'
      BY <1>0, <1>1, <1>2, Messages DEF Behind, PingAt, DataAt, Answering, Held, PingSent,
         DataSent
    <2>4. QED
      BY <2>1, <2>2, <2>3
  <1>5. ASSUME settled' PROVE SettledJourney(pp, qq)'
    <2>1. SettledJourney(p, q) /\ Journey(p, q)
      BY <1>0, <1>1, <1>5
    <2>2. (Quiet <=> Slot[3] = None /\ Waiting) /\ (Quiet <=> Slot[3] = None /\ Waiting)'
      BY QuietIs, QuietNext DEF TestIInv
    <2>3. CASE Slot[3] = None
      BY <1>0, <1>2, <2>1, <2>2, <2>3, Messages DEF SettledJourney, Waiting, Journey, PingAt,
         DataAt
    <2>4. CASE Slot[3] = PingMsg
      <3>1. p = 1 /\ pp = 2 /\ q # 1 /\ qq = q /\ ~Quiet
        BY <1>2, <2>1, <2>2, <2>4, Messages DEF Journey, PingAt, DataAt
      <3>2. test.at = "pinged" /\ test.i = 3
        BY <1>0, <2>1, <3>1 DEF SettledJourney, TestIInv, TestTypeOK, Clients, SuiteCalls
      <3>3. QED
        BY <1>0, <3>1, <3>2 DEF SettledJourney
    <2>5. CASE Slot[3] = DataMsg
      <3>1. q = 1 /\ qq = 2 /\ p # 1 /\ pp = p /\ ~Quiet
        BY <1>2, <2>1, <2>2, <2>5, Messages DEF Journey, PingAt, DataAt
      <3>2. test.at = "sent" /\ test.i = 3
        BY <1>0, <2>1, <3>1 DEF SettledJourney, Journey, DataAt, DataSent, TestIInv, TestTypeOK
      <3>3. QED
        BY <1>0, <2>1, <3>1, <3>2 DEF SettledJourney
    <2>6. QED
      BY <1>0, <2>3, <2>4, <2>5
  <1>6. QED
    BY <1>2, <1>3, <1>4, <1>5 DEF Clients, OnTheWay

\* The dispatcher clears its mailbox, and with it the DATA message if it is there by now.
LEMMA DispatcherClears ==
  ASSUME TestIInv, IInv', Inside(3), ClearOutcome(3), settled' = settled
  PROVE Clients'
  <1>0. /\ test' = test /\ acks' = acks /\ disp' = disp /\ arg' = arg /\ settled' = settled
        /\ pc'[0] = pc[0] /\ ret'[0] = ret[0] /\ (Decided(0)' <=> Decided(0)) /\ pc[3] # "idle"
        /\ disp = "cleared" /\ Slot'[0] = Slot[0]
        /\ \A d \in 1 .. 3 : Slot[d] = None => Slot'[d] = None
        /\ Slot'[3] = None /\ ~Decided(3) /\ Decided(3)' /\ ret'[3].code # 1
    BY InsideDispatcher, Messages, IpcTestsAssumption DEF ClearOutcome, DecidesWith, Becomes,
       TestIInv, Clients, SuiteCalls, DispatcherCalls, Contents, Send, Receive, Clear
  <1>1. PICK p \in 0 .. 5, q \in 0 .. 6 : Journey(p, q) /\ (settled => SettledJourney(p, q))
    BY DEF TestIInv, Clients, OnTheWay
  <1>2. PICK pp \in 0 .. 5, qq \in 0 .. 6 :
          /\ pp = p /\ p >= 3
          /\ qq = IF q = 1 THEN 6 ELSE q
    BY <1>0, <1>1 DEF Journey, Behind
  <1>3. /\ SuiteCalls' /\ DispatcherCalls' /\ Contents' /\ FreeAhead'
        /\ Test1Passes' /\ AcksInOrder'
    BY <1>0 DEF TestIInv, Clients, SuiteCalls, DispatcherCalls, Contents, FreeAhead, Test1Passes,
                AcksInOrder
  <1>4. Journey(pp, qq)'
    <2> USE DEF Journey
    <2>1. PingAt(pp)'
      BY <1>0, <1>1, <1>2, Messages DEF PingAt, PingSent, Answering, Held
    <2>2. DataAt(qq)'
      BY <1>0, <1>1, <1>2, Messages DEF DataAt, DataSent, Answering, Held
    <2>3. Behind(pp, qq)'
      BY <1>0, <1>1, <1>2, Messages DEF Behind, PingAt, DataAt, Answering, Held, PingSent,
         DataSent
    <2>4. QED
      BY <2>1, <2>2, <2>3
  <1>5. ASSUME settled' PROVE SettledJourney(pp, qq)'
    <2>1. SettledJourney(p, q) /\ Journey(p, q)
      BY <1>0, <1>1, <1>5
    <2>2. (Quiet <=> Slot[3] = None /\ Waiting) /\ (Quiet <=> Slot[3] = None /\ Waiting)'
      BY QuietIs, QuietNext DEF TestIInv
    <2>3. QED
      BY <1>0, <1>2, <2>1, <2>2, Messages DEF SettledJourney, Waiting, Journey, Behind, PingAt,
         DataAt, Answering, Held, PingSent, DataSent
  <1>6. QED
    BY <1>2, <1>3, <1>4, <1>5 DEF Clients, OnTheWay

-----------------------------------------------------------------------------
\* Nothing is sent and nothing is in the mailboxes when the suite starts.
LEMMA InitTestIInv == TestInit => TestIInv
  <1> SUFFICES ASSUME TestInit PROVE TestIInv
    OBVIOUS
  <1>1. IInv /\ faults = 0 /\ {0, 1, 2, 3} \subseteq Cores /\ PollRounds \in Nat /\ PollRounds >= 2
    BY InitIInv, IpcTestsAssumption DEF TestInit, Init
  <1>2. /\ \A d \in 0 .. 3 : Slot[d] = None /\ pc[d] = "idle" /\ ret[d].code = 0
        /\ test.at = "ping" /\ test.i = 1 /\ test.result = 0 /\ acks = <<>> /\ disp = "receive"
    BY IpcTestsAssumption DEF TestInit, Init, Slot, Result
  <1>3. TestTypeOK
    <2>1. TypeOK
      BY <1>1 DEF IInv
    <2>2. settled \in BOOLEAN /\ 1 \in 1 .. PollRounds + 1 /\ refused = {}
      BY <1>1, IpcTestsAssumption DEF TestInit
    <2>3. test \in [at : {"ping", "pinged", "data", "sent", "poll", "polled", "cleared", "passed",
                          "failed"}, i : 1 .. PollRounds + 1, result : {-1, 0}]
      BY <2>2 DEF TestInit
    <2>4. QED
      BY <1>2, <2>1, <2>2, <2>3 DEF TestTypeOK
  <1>4. /\ Slot[0] = None /\ Slot[3] = None
        /\ \A c \in {0, 1, 2, 3} : pc[c] = "idle" /\ ret[c].code = 0
    BY <1>2
  <1>5. SuiteCalls /\ DispatcherCalls /\ Contents
    BY <1>2, <1>4 DEF SuiteCalls, DispatcherCalls, Contents
  <1>6. FreeAhead /\ Test1Passes /\ AcksInOrder
    BY <1>2 DEF FreeAhead, Test1Passes, AcksInOrder
  <1>7. Journey(0, 0)
    <2>1. ~PingSent /\ ~DataSent /\ ~Answering(PingMsg) /\ ~Answering(DataMsg)
          /\ ~Held(PingAck) /\ ~Held(TestAck) /\ acks # <<PingAck, TestAck>>
      BY <1>2, <1>4 DEF PingSent, DataSent, Answering, Held
    <2>2. QED
      BY <1>2, <1>4, <2>1, Messages DEF Journey, PingAt, DataAt, Behind
  <1>8. SettledJourney(0, 0)
    <2>1. Quiet
      BY <1>1, <1>2, <1>4, QuietIs DEF Waiting
    <2>2. QED
      BY <1>2, <2>1 DEF SettledJourney
  <1>9. Clients
    BY <1>5, <1>6, <1>7, <1>8 DEF Clients, OnTheWay
  <1>10. QED
    BY <1>1, <1>3, <1>4, <1>9 DEF TestIInv

\* Cores 1 and 2 call none of the mailbox functions.
LEMMA OthersIdle ==
  TestIInv /\ [TestNext]_allVars => pc'[1] = "idle" /\ pc'[2] = "idle"
  <1> SUFFICES ASSUME TestIInv, [TestNext]_allVars PROVE pc'[1] = pc[1] /\ pc'[2] = pc[2]
    BY DEF TestIInv
  <1>1. ASSUME NEW c \in {0, 3}, Inside(c) PROVE pc'[1] = pc[1] /\ pc'[2] = pc[2]
    <2>1. Elsewhere(c) /\ {1, 2} \subseteq Cores \ {c}
      BY <1>1, StepEffect, IpcTestsAssumption DEF Inside, TestIInv
    <2>2. QED
      BY <2>1 DEF Elsewhere
  <1>2. CASE Suite
    BY <1>2, SuiteLeaves
  <1>3. CASE Dispatcher
    BY <1>3, DispatcherLeaves
  <1>4. CASE UNCHANGED allVars
    BY <1>4 DEF allVars, vars
  <1>5. QED
    BY <1>1, <1>2, <1>3, <1>4 DEF TestNext

\* Every step keeps the messages on their way.
LEMMA ClientsKept == TestIInv /\ [TestNext]_allVars => Clients'
  <1> SUFFICES ASSUME TestIInv, [TestNext]_allVars PROVE Clients'
    OBVIOUS
  <1>1. IInv'
    BY MachineKept
  <1>2. CASE UNCHANGED allVars
    <2>1. UNCHANGED <<test, acks, disp, settled, pc, arg, ret, status, tag>>
      BY <1>2 DEF allVars, vars, mailboxes, suite
    <2>2. UNCHANGED Slot
      BY <2>1 DEF Slot
    <2>3. UNCHANGED <<Quiet, Waiting, Decided(0), Decided(3), PingSent, DataSent>>
      BY <2>1 DEF Quiet, Waiting, Decided, PingSent, DataSent
    <2>4. /\ SuiteCalls' /\ DispatcherCalls' /\ Contents' /\ FreeAhead'
        /\ Test1Passes' /\ AcksInOrder'
      BY <2>1, <2>2, <2>3 DEF TestIInv, Clients, SuiteCalls, DispatcherCalls, Contents, FreeAhead,
                               Test1Passes, AcksInOrder
    <2>5. OnTheWay'
      BY <2>1, <2>2, <2>3 DEF TestIInv, Clients, OnTheWay, Journey, PingAt, DataAt, Behind,
                               Answering, Held, SettledJourney
    <2>6. QED
      BY <2>4, <2>5 DEF Clients
  <1>3. CASE TestNext
    <2>1. settled' = settled
      BY <1>3 DEF TestNext
    <2>2. CASE Suite
      BY <1>1, <2>1, <2>2, PingKeeps, PingResultKeeps, SendDataKeeps, SendDataReturnsKeeps,
         PollKeeps, PollEmptyKeeps, PollAckKeeps, PollClearedKeeps, VerdictKeeps DEF Suite
    <2>3. CASE Dispatcher
      BY <1>1, <2>1, <2>3, DispReceiveKeeps, DispNothingKeeps, DispAckKeeps, DispClearKeeps,
         DispLoopKeeps DEF Dispatcher
    <2>4. CASE Inside(0)
      BY <1>1, <2>1, <2>4, InsideSuite, SuiteOnItsWay, SuiteSends, SuiteReceives, SuiteClears
    <2>5. CASE Inside(3)
      BY <1>1, <2>1, <2>5, InsideDispatcher, DispatcherOnItsWay, DispatcherSends,
         DispatcherReceives, DispatcherClears
    <2>6. QED
      BY <1>3, <2>2, <2>3, <2>4, <2>5 DEF TestNext
  <1>4. QED
    BY <1>2, <1>3

-----------------------------------------------------------------------------
\* Where the messages of the two tests are, at every instant.
THEOREM TestInvariance == SafeSpec => []TestIInv
  <1>1. TestIInv /\ [TestNext]_allVars => TestIInv'
    BY MachineKept, ClientTypes, OthersIdle, ClientsKept DEF TestIInv
  <1>2. QED
    BY InitTestIInv, <1>1, PTL DEF SafeSpec

\* The two clients use the mailboxes as Mailbox.tla has them used, so that its
\* theorems hold of them: exclusion, verification, the abstract slots.
THEOREM ClientsUseMailboxes == SafeSpec => Spec
  <1>1. TestInit => Init
    BY DEF TestInit
  <1>2. QED
    BY TestInvariance, ClientsCall, <1>1, PTL DEF SafeSpec, Spec

\* Every variable of the clients keeps its type.
THEOREM TestTypeCorrect == SafeSpec => []TestTypeOK
  <1>1. TestIInv => TestTypeOK
    BY DEF TestIInv
  <1>2. QED
    BY TestInvariance, <1>1, PTL

\* test1_ping_all_cores returns 0, whatever the delays.
THEOREM Test1AlwaysPasses == SafeSpec => []Test1Passes
  <1>1. TestIInv => Test1Passes
    BY DEF TestIInv, Clients
  <1>2. QED
    BY TestInvariance, <1>1, PTL

\* acks_received counts the answer to the PING, then that to the DATA message,
\* each at most once, whatever the delays.
THEOREM AnswersInOrder == SafeSpec => []AcksInOrder
  <1>1. TestIInv => AcksInOrder
    BY DEF TestIInv, Clients
  <1>2. QED
    BY TestInvariance, <1>1, PTL

\* With delays that are long enough Test 2 passes on the answer to Test 1.
THEOREM Test2Passes == SafeSpec => []Test2CountsThePing
  <1>1. TestIInv => Test2CountsThePing
    <2> SUFFICES ASSUME TestIInv, settled, Over PROVE test.at = "passed" /\ acks = <<PingAck>>
      BY DEF Test2CountsThePing
    <2>1. PICK p \in 0 .. 5, q \in 0 .. 6 : Journey(p, q) /\ SettledJourney(p, q)
      BY DEF TestIInv, Clients, OnTheWay
    <2>2. test.at = "passed" /\ p = 5 /\ q = 6
      BY <2>1 DEF Over, SettledJourney
    <2>3. acks # <<>> /\ acks # <<PingAck, TestAck>>
      BY <2>1, <2>2 DEF Journey, PingAt, DataAt
    <2>4. QED
      BY <2>2, <2>3 DEF TestIInv, Clients, AcksInOrder
  <1>2. QED
    BY TestInvariance, <1>1, PTL

\* With such delays mailbox_clear never wipes a message nobody received.
THEOREM NothingWiped == SafeSpec => SettledIsReceived
  <1>1. TestIInv /\ [TestNext]_allVars => [settled => OnlyReceived]_allVars
    <2> SUFFICES ASSUME TestIInv, TestNext, settled, NEW c \in Cores, status[c] = 1, status'[c] # 1
                 PROVE  pc[c] = "take"
      BY DEF OnlyReceived
    <2>1. IInv /\ faults = 0 /\ {0, 3} \subseteq Cores
      BY IpcTestsAssumption DEF TestIInv
    <2>2. ASSUME NEW b, NEW r, Call(b, r) PROVE FALSE
      BY <2>2 DEF Call, mailboxes
    <2>3. ~Suite /\ ~Dispatcher
      BY <2>2 DEF Suite, Ping, PingResult, SendData, SendDataReturns, Poll, PollEmpty, PollAck,
                  PollCleared, Verdict, Dispatcher, DispReceive, DispNothing, DispAck, DispClear,
                  DispLoop, vars, mailboxes
    <2>4. PICK b \in {0, 3} : Inside(b)
      BY <2>3 DEF TestNext
    <2>5. Box(b) = c
      BY <2>1, <2>4, StepWritesItsBox DEF Inside
    <2>6. pc[b] \in {"take", "status"} /\ c = b
      <3>1. ReceiveTake(b) \/ ReceiveReject(b) \/ ClearStatus(b)
        BY <2>1, <2>4, <2>5 DEF Inside, Step, Lock, Unlock, SendFull, SendWrite, SendTag,
           SendReady, ReceiveNothing, ReceiveVerify, ClearType, mailboxes, IInv, TypeOK
      <3>2. ~ReceiveReject(b)
        BY <2>1, <2>4 DEF ReceiveReject, IInv, ReadyVerifies
      <3>3. QED
        BY <2>1, <2>4, <2>5, <3>1, <3>2 DEF ReceiveTake, ClearStatus, Goto, Box, IInv,
           InItsFunction
    <2>7. ASSUME pc[b] = "status" PROVE FALSE
      <3>1. arg[b].op = "clear" /\ ~Decided(b) /\ Slot[b] # None
        BY <2>1, <2>4, <2>6, <2>7, SlotFilled DEF IInv, InItsFunction, Decided
      <3>2. PICK p \in 0 .. 5, q \in 0 .. 6 : Journey(p, q) /\ SettledJourney(p, q)
        BY DEF TestIInv, Clients, OnTheWay
      <3>3. CASE b = 0
        <4>1. test.at = "cleared" /\ Slot[0] \in {AckMsg(PingAck), AckMsg(TestAck)}
          BY <2>7, <3>1, <3>3 DEF TestIInv, TestTypeOK, Clients, SuiteCalls, Contents, Send,
             Receive
        <4>2. p = 5 /\ q = 6
          BY <3>2, <4>1 DEF SettledJourney
        <4>3. QED
          BY <3>2, <4>1, <4>2 DEF Journey, PingAt, DataAt
      <3>4. CASE b = 3
        <4>1. disp = "cleared" /\ Slot[3] \in {PingMsg, DataMsg}
          BY <2>7, <3>1, <3>4 DEF TestIInv, TestTypeOK, Clients, DispatcherCalls, Contents, AckOf,
                                  Send, Receive
        <4>2. ~Quiet
          BY <4>1 DEF Quiet
        <4>3. \/ test.at = "pinged" /\ test.i = 3 /\ p \notin 0 .. 1
              \/ test.at = "sent" /\ test.i = 3 /\ p = 3 /\ q \notin 0 .. 1
          BY <3>2, <4>1, <4>2 DEF SettledJourney, Waiting, TestIInv, TestTypeOK, Clients,
             SuiteCalls
        <4>4. test.at = "pinged" => q = 0
          BY <3>2 DEF Journey, DataAt, DataSent
        <4>5. QED
          BY <3>2, <4>1, <4>3, <4>4 DEF Journey, PingAt, DataAt
      <3>5. QED
        BY <3>3, <3>4
    <2>8. QED
      BY <2>6, <2>7
  <1>2. QED
    BY TestInvariance, <1>1, PTL DEF SafeSpec, SettledIsReceived
=============================================================================
