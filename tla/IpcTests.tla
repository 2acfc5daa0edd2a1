------------------------------ MODULE IpcTests ------------------------------
(***************************************************************************)
(* The clients of the mailboxes: tests/trivial/tests.c on Core 0 (Test 1   *)
(* pings every core, Test 2 sends them data and polls for the answers) and *)
(* mailbox_dispatcher_task of dispatcher/dispatcher.c on Core 3, which     *)
(* acknowledges what it receives.  Cores 1 and 2 never read their mailbox  *)
(* (secondary_main of main.c).                                             *)
(*                                                                         *)
(* Only delay() orders the two cores.  settled says whether it does: TRUE  *)
(* when Core 3 has always finished by the end of a delay, FALSE when the   *)
(* loops may be over at any time.  The prints, each under SPINLOCK and     *)
(* with no mailbox locked, are part of those delays.                       *)
(***************************************************************************)
EXTENDS Mailbox, Sequences

CONSTANTS
  Timings,      \* TRUE for delays that outlast Core 3's work, FALSE for others
  PollRounds,   \* TEST_ACK_POLL_ROUNDS, 10 in the code
  AckStep       \* 1 << 16, scaled to the payloads below

ASSUME IpcTestsAssumption ==
  /\ Cores = 0 .. 3 /\ Types = {"PING", "DATA", "ACK"}
  /\ Routes = {<<0, 1>>, <<0, 2>>, <<0, 3>>, <<3, 0>>}
  /\ Timings \subseteq BOOLEAN
  /\ PollRounds \in Nat /\ PollRounds >= 2
  /\ AckStep \in Nat /\ AckStep > 7
  /\ Data = 0 .. 4 * AckStep

VARIABLES
  settled,\* the timing of this behaviour
  test,   \* Core 0: the call it is at, its loop variable and local results
  acks,   \* the payloads acks_received counts
  refused,\* history: the cores whose DATA mailbox_send returned -1
  disp    \* Core 3: the call the dispatcher task is at

suite == <<test, acks, refused>>
allVars == <<vars, suite, disp, settled>>

PingData(dest) == dest          \* TEST_PING_DATA_BASE + dest
TestData(dest) == 4 + dest      \* TEST_DATA_BASE + dest * TEST_DATA_STEP

\* Variant for mutation: the core number is not shifted.
BugAckData(x) == x + 3

AckData(x) == x + 3 * AckStep    \* msg_data + (cpu << 16), cpu being 3

TestInit ==
  /\ Init
  /\ settled \in Timings
  /\ test = [at |-> "ping", i |-> 1, result |-> 0]
  /\ acks = <<>>
  /\ refused = {}
  /\ disp = "receive"

\* Types of the clients' variables, on top of the mailboxes' own.
TestTypeOK ==
  /\ TypeOK
  /\ settled \in BOOLEAN
  /\ test \in [at : {"ping", "pinged", "data", "sent", "poll", "polled", "cleared", "passed", "failed"},
               i : 1 .. PollRounds + 1, result : {-1, 0}]
  /\ acks \in Seq(Data)
  /\ refused \subseteq Cores
  /\ disp \in {"receive", "received", "acked", "cleared"}

-----------------------------------------------------------------------------
\* Core 3 has nothing left to answer: it only polls its empty mailbox.
Quiet == /\ status[3] # 1
         /\ disp = "receive" \/ (disp = "received" /\ ret[3].code # 1)

Delay == settled => Quiet

At(a) == test.at = a /\ pc[0] = "idle" /\ UNCHANGED disp

Move(a, i) == test' = [test EXCEPT !.at = a, !.i = i]

\* Variant for mutation: the loop does not advance.
BugNextDest(again, after) == IF test.i < 3 THEN Move(again, test.i) ELSE Move(after, 1)

\* The next of the cores 1 to 3, or the first poll round after the last core.
NextDest(again, after) == IF test.i < 3 THEN Move(again, test.i + 1) ELSE Move(after, 1)

\* test1_ping_all_cores: mailbox_send(dest, MSG_PING, ...)
Ping ==
  /\ At("ping")
  /\ Call(0, Send(test.i, "PING", PingData(test.i)))
  /\ Move("pinged", test.i)
  /\ UNCHANGED <<acks, refused>>

\* Its result, and the delay before the next core or the next test.
PingResult ==
  /\ At("pinged") /\ Delay
  /\ IF ret[0].code = 0 THEN NextDest("ping", "data")
     ELSE test' = [at |-> IF test.i < 3 THEN "ping" ELSE "data",
                   i |-> IF test.i < 3 THEN test.i + 1 ELSE 1, result |-> -1]
  /\ UNCHANGED <<vars, acks, refused>>

\* test2_send_data_messages: mailbox_send(dest, MSG_DATA, ...)
SendData ==
  /\ At("data")
  /\ Call(0, Send(test.i, "DATA", TestData(test.i)))
  /\ Move("sent", test.i)
  /\ UNCHANGED <<acks, refused>>

\* Its result is not looked at; "refused" only remembers it.
SendDataReturns ==
  /\ At("sent") /\ Delay
  /\ NextDest("data", "poll")
  /\ refused' = IF ret[0].code = 0 THEN refused ELSE refused \cup {test.i}
  /\ UNCHANGED <<vars, acks>>

\* mailbox_receive(0, ...) of the poll round
Poll ==
  /\ At("poll") /\ test.i <= PollRounds
  /\ Call(0, Receive)
  /\ Move("polled", test.i)
  /\ UNCHANGED <<acks, refused>>

PollEmpty ==
  /\ At("polled") /\ Delay
  /\ ret[0].code # 1
  /\ Move("poll", test.i + 1)
  /\ UNCHANGED <<vars, acks, refused>>

\* A message: mailbox_clear(0) and acks_received++
PollAck ==
  /\ At("polled")
  /\ ret[0].code = 1
  /\ acks' = Append(acks, ret[0].msg.data)
  /\ Call(0, Clear)
  /\ Move("cleared", test.i)
  /\ UNCHANGED refused

PollCleared ==
  /\ At("cleared") /\ Delay
  /\ Move("poll", test.i + 1)
  /\ UNCHANGED <<vars, acks, refused>>

\* The verdict of Test 2.
Verdict ==
  /\ At("poll") /\ test.i > PollRounds
  /\ Move(IF acks # <<>> THEN "passed" ELSE "failed", test.i)
  /\ UNCHANGED <<vars, acks, refused>>

Suite == \/ Ping \/ PingResult \/ SendData \/ SendDataReturns
         \/ Poll \/ PollEmpty \/ PollAck \/ PollCleared \/ Verdict

-----------------------------------------------------------------------------
From(a, b) == /\ disp = a /\ disp' = b
              /\ pc[3] = "idle"
              /\ UNCHANGED suite

DispReceive == From("receive", "received") /\ Call(3, Receive)

\* Variant for mutation: mailbox_receive is called once, before the loop.
BugDispNothing == /\ ret[3].code # 1
                  /\ From("received", "received")
                  /\ UNCHANGED vars

\* Nothing received: task_yield, which finds no other task on this core.
DispNothing == /\ ret[3].code # 1
               /\ From("received", "receive")
               /\ UNCHANGED vars

\* mailbox_send(sender, MSG_ACK, msg_data + (cpu << 16))
DispAck == /\ ret[3].code = 1
           /\ From("received", "acked")
           /\ Call(3, Send(ret[3].msg.sender, "ACK", AckData(ret[3].msg.data)))

\* The result of the send is not looked at.
DispClear == From("acked", "cleared") /\ Call(3, Clear)

DispLoop == From("cleared", "receive") /\ UNCHANGED vars

Dispatcher == DispReceive \/ DispNothing \/ DispAck \/ DispClear \/ DispLoop

Inside(c) == Step(c) /\ UNCHANGED <<suite, disp>>

TestNext == (Suite \/ Dispatcher \/ Inside(0) \/ Inside(3)) /\ UNCHANGED settled

SafeSpec == TestInit /\ [][TestNext]_allVars

\* Both cores keep executing, and neither loses the race for a mailbox's lock
\* for ever: the LDXR/STXR loop alone promises only that someone wins it.
Fairness ==
  /\ WF_allVars(Suite /\ UNCHANGED settled) /\ WF_allVars(Dispatcher /\ UNCHANGED settled)
  /\ \A c \in {0, 3} : /\ WF_allVars(Inside(c) /\ UNCHANGED settled)
                        /\ SF_allVars(Lock(c) /\ UNCHANGED <<suite, disp, settled>>)

TestSpec == SafeSpec /\ Fairness

-----------------------------------------------------------------------------
PingAck == PingData(3) + 3 * AckStep
TestAck == TestData(3) + 3 * AckStep
Over    == test.at \in {"passed", "failed"}

\* test1_ping_all_cores never fails: however far Core 3 has got with the earlier
\* messages, each PING finds its mailbox empty.
Test1Passes == test.result = 0

\* Core 0 counts only answers to what it sent Core 3, each once and in order,
\* although its own clear may wipe an answer and sends are refused unseen.
AcksInOrder == acks \in {<<>>, <<PingAck>>, <<PingAck, TestAck>>}

\* With long enough delays Test 2 passes, and always for the same reason: the
\* answer to Test 1's PING, which has filled Core 0's mailbox since then.  The
\* answer to the DATA message is refused and its dispatcher does not notice.
Test2CountsThePing == settled /\ Over => test.at = "passed" /\ acks = <<PingAck>>

OnlyReceived == \A c \in Cores : status[c] = 1 /\ status'[c] # 1 => pc[c] = "take"

\* When the delays hold, a message that mailbox_send accepted leaves its mailbox
\* only by being received: no mailbox_clear comes after a newer message.  Nothing
\* but the delays sees to that.
SettledIsReceived == [][settled => OnlyReceived]_allVars

\* The test suite comes to its verdict, however the dispatcher's polling and
\* Core 0's sends compete for the lock of mailbox 3.
SuiteEnds == <>Over

\* Core 3's mailbox does not stay full: the dispatcher comes back to it after
\* every message, whether or not its answer was accepted.
Core3Drains == status[3] = 1 ~> status[3] # 1

\* What tests.c:127 says a pass of Test 2 means: all DATA messages were sent.
Test2MeansAllSent == test.at = "passed" => refused = {}

-----------------------------------------------------------------------------
\* The strengthening that is inductive, in terms of the abstract slots: a call
\* acts at one instant, after which it is decided.
Decided(c) == pc[c] \in {"type", "unlock", "idle"}

PingMsg   == [sender |-> 0, type |-> "PING", data |-> PingData(3)]
DataMsg   == [sender |-> 0, type |-> "DATA", data |-> TestData(3)]
AckMsg(x) == [sender |-> 3, type |-> "ACK", data |-> x]
AckOf(m)  == Send(0, "ACK", AckData(m.data))

\* The call each of the two clients is in.
SuiteCalls ==
  /\ test.at \in {"ping", "data", "poll", "passed", "failed"} => pc[0] = "idle"
  /\ test.at = "pinged" => arg[0] = Send(test.i, "PING", PingData(test.i))
  /\ test.at = "sent"   => arg[0] = Send(test.i, "DATA", TestData(test.i))
  /\ test.at = "polled"  => arg[0] = Receive /\ test.i <= PollRounds
  /\ test.at = "cleared" => arg[0] = Clear /\ test.i <= PollRounds /\ acks # <<>>
  /\ test.at \in {"ping", "pinged", "data", "sent"} => test.i \in 1 .. 3

DispatcherCalls ==
  /\ disp = "receive"  => pc[3] = "idle" /\ ret[3].code # 1
  /\ disp = "received" => arg[3] = Receive /\ (~Decided(3) => ret[3].code # 1)
  /\ disp = "acked"    => /\ arg[3] \in {AckOf(PingMsg), AckOf(DataMsg)}
                          /\ Decided(3) => ret[3].code # 1
  /\ disp = "cleared"  => arg[3] = Clear /\ ret[3].code # 1

\* What the two mailboxes can hold, and what their owners can have received.
Contents ==
  /\ Slot[3] \in {None, PingMsg, DataMsg}
  /\ Slot[0] \in {None, AckMsg(PingAck), AckMsg(TestAck)}
  /\ disp = "received" /\ ret[3].code = 1 => ret[3].msg \in {PingMsg, DataMsg}
  /\ test.at = "polled" /\ Decided(0) /\ ret[0].code = 1 =>
       ret[0].msg \in {AckMsg(PingAck), AckMsg(TestAck)}

\* While Test 1 pings, the mailboxes of the cores still to come are empty.
FreeAhead ==
  /\ test.at = "ping" => \A d \in 1 .. 3 : d >= test.i => Slot[d] = None
  /\ test.at = "pinged" =>
       /\ \A d \in 1 .. 3 : d > test.i => Slot[d] = None
       /\ ~Decided(0) => Slot[test.i] = None
       /\ Decided(0) => ret[0].code = 0

\* The PING or the DATA message to Core 3 has been sent, or refused.
PingSent == ~(test.at = "ping" \/ (test.at = "pinged" /\ (test.i < 3 \/ ~Decided(0))))
DataSent == \/ test.at \in {"poll", "polled", "cleared", "passed", "failed"}
            \/ test.at = "sent" /\ test.i = 3 /\ Decided(0)

\* Core 3 has message m and its answer is not in mailbox 0 yet.
Answering(m) == \/ disp = "received" /\ ret[3].code = 1 /\ ret[3].msg = m
                \/ disp = "acked" /\ ~Decided(3) /\ arg[3] = AckOf(m)

\* Core 0 has the answer x and has not counted it yet.
Held(x) == test.at = "polled" /\ Decided(0) /\ ret[0].code = 1 /\ ret[0].msg = AckMsg(x)

\* Each of the two messages, or its answer, is at one place of its way, from not
\* sent (0) to counted (5) ...
PingAt(p) ==
  /\ p = 0 <=> ~PingSent
  /\ p = 1 <=> Slot[3] = PingMsg
  /\ p = 2 <=> Answering(PingMsg)
  /\ p = 3 <=> Slot[0] = AckMsg(PingAck)
  /\ p = 4 <=> Held(PingAck)
  /\ p = 5 <=> acks # <<>>

\* ... where the DATA message and its answer may get lost (6) ...
DataAt(q) ==
  /\ q = 0 <=> ~DataSent
  /\ q = 1 <=> Slot[3] = DataMsg
  /\ q = 2 <=> Answering(DataMsg)
  /\ q = 3 <=> Slot[0] = AckMsg(TestAck)
  /\ q = 4 <=> Held(TestAck)
  /\ q = 5 <=> acks = <<PingAck, TestAck>>

\* ... and do not overtake the PING and its answer.
Behind(p, q) ==
  /\ q = 1 => p >= 2
  /\ q = 2 => p >= 3
  /\ q = 3 => p >= 4
  /\ q \in {4, 5} => p = 5
  /\ disp = "cleared" \/ (disp = "acked" /\ Decided(3)) => p >= 3

Journey(p, q) == PingAt(p) /\ DataAt(q) /\ Behind(p, q)

\* The dispatcher has no message in hand.
Waiting == disp = "receive" \/ (disp = "received" /\ ret[3].code # 1)

\* When the delays hold: the PING's answer waits in mailbox 0 until the first
\* poll, so that of the DATA message is refused, and then nothing is under way.
SettledJourney(p, q) ==
  /\ test.at = "ping" \/ (test.at = "pinged" /\ test.i < 3) => Quiet
  /\ test.at = "pinged" /\ test.i = 3 => p \in 0 .. 3 /\ (p \in 0 .. 1 => Waiting)
  /\ test.at = "data" \/ (test.at = "sent" /\ test.i < 3) => p = 3 /\ Quiet
  /\ test.at = "sent" /\ test.i = 3 => p = 3 /\ q \in {0, 1, 2, 6} /\ (q \in 0 .. 1 => Waiting)
  /\ test.at \in {"poll", "polled", "cleared", "passed", "failed"} => q = 6 /\ Quiet
  /\ test.at = "poll" /\ test.i = 1 => p = 3
  /\ test.at = "polled" /\ test.i = 1 => p = IF Decided(0) THEN 4 ELSE 3
  /\ test.at = "polled" /\ test.i > 1 /\ Decided(0) => ret[0].code # 1
  /\ test.at \in {"poll", "polled"} /\ test.i > 1 => p = 5
  /\ test.at \in {"cleared", "passed"} => p = 5
  /\ test.at # "failed"

OnTheWay == \E p \in 0 .. 5, q \in 0 .. 6 : Journey(p, q) /\ (settled => SettledJourney(p, q))

Clients == /\ SuiteCalls /\ DispatcherCalls /\ Contents /\ FreeAhead
           /\ Test1Passes /\ AcksInOrder /\ OnTheWay

TestIInv == /\ IInv /\ faults = 0 /\ TestTypeOK
            /\ pc[1] = "idle" /\ pc[2] = "idle"
            /\ Clients
=============================================================================
