---------------------------- MODULE RingClients ----------------------------
(***************************************************************************)
(* Everyone who uses UART_RX_BUFFER: Core 1 pushes its test bytes and      *)
(* Core 2 prints them (secondary_main of main.c); later, on Core 0, the    *)
(* tasks uart_rx_task and ring_consumer_task of dispatcher/dispatcher.c    *)
(* take turns, one storing what is typed and the other echoing it until    *)
(* Ctrl+C.  All of them print under SPINLOCK, and so does Core 3, which    *)
(* does not use the ring: it polls its mailbox and reports a message.      *)
(*                                                                         *)
(* Every spinlock_release ends with SEV, whichever lock it is, and so may  *)
(* end the WFE in which Core 2 waits for bytes.  It is the releases of     *)
(* Core 3, at each poll of its mailbox, that go on for ever.               *)
(*                                                                         *)
(* Only delays order the cores.  <<a, b>> \in held says that they do: core  *)
(* a has finished its test before core b begins with the ring.  What the   *)
(* cores print before and after their loops, and Core 0 in its tests, is   *)
(* left out; its SEVs could only wake Core 2 more often.                   *)
(***************************************************************************)
EXTENDS RingBuffer

CONSTANTS
  Timings,     \* the orders of cores that delays may establish
  Test,        \* the bytes 'A' to 'J'; any byte but the named ones is "x"
  MaxTyped,    \* bound on the keys typed, for each of them
  MaxMail,     \* how many messages the communication tests send to Core 3
  Free         \* nobody holds the lock

\* What the delays of main.c are there for.
AllPairs == {<<1, 2>>, <<1, 0>>, <<2, 0>>}

\* The constants are those of this program.  A predicate, since what RingBuffer
\* does it does for other processes too.
RingUsers ==
  /\ Producers = {"core1", "uart_rx"} /\ Consumers = {"core2", "echo"}
  /\ Free \notin Process \cup {"core3"}
  /\ {"x", "etx"} \subseteq Byte
  /\ Timings \subseteq SUBSET AllPairs
  /\ Test \in Seq(Byte) /\ Test # <<>> /\ Len(Test) < Size
  /\ MaxTyped \in [Timings -> Nat] /\ MaxMail \in Nat

VARIABLES
  held,   \* the order that the delays of this behaviour establish
  at,     \* where each user of the ring, and Core 3, is in its loop
  turn,   \* the task that Core 0 executes, "none" before sched_run
  lock,   \* who holds SPINLOCK, the lock of the prints
  event,  \* the event register of Core 2, for its WFE
  sent,   \* how many bytes Core 1 has pushed
  rx,     \* the receive FIFO of the UART
  mail,   \* how many messages Core 3 has still to receive
  typed, got, out   \* history: the keys received, what Core 2 and Core 0 printed

ring == vars
clients == <<at, turn, lock, event, sent, rx, mail, typed, got, out>>
allVars == <<ring, clients, held>>

\* RAM is zero at boot; a core's event register may be set.
ClientsInit ==
  /\ data = [i \in Index |-> "x"] /\ byte = [p \in Process |-> "x"]
  /\ Init
  /\ held \in Timings
  /\ at = [p \in Process \cup {"core3"} |->
             CASE p = "core1" -> "push" [] p = "core2" -> "delay"
               [] p = "core3" -> "poll" [] OTHER -> "loop"]
  /\ turn = "none" /\ lock = Free
  /\ event \in BOOLEAN
  /\ sent = 0 /\ rx = <<>> /\ mail = MaxMail
  /\ typed = <<>> /\ got = <<>> /\ out = <<>>

Move(p, a, b) == at[p] = a /\ at' = [at EXCEPT ![p] = b]

Acquire(p, a, b) == /\ Move(p, a, b)
                    /\ lock = Free /\ lock' = p

\* Variant for mutation: spinlock_release ends with its DSB.
BugSev == UNCHANGED event

\* The SEV at the end of spinlock_release reaches all cores, its own included.
Sev == event' = TRUE

-----------------------------------------------------------------------------
\* Core 1: ring_buffer_put of the next byte; the result is not looked at.
Push ==
  /\ Move("core1", "push", "pushed")
  /\ PutCall("core1", Test[sent + 1])
  /\ sent' = sent + 1
  /\ UNCHANGED <<turn, lock, event, rx, mail, typed, got, out>>

\* The next byte, or WFE for ever.  There is no SEV for the bytes.
Pushed ==
  /\ Move("core1", "pushed", IF sent < Len(Test) THEN "push" ELSE "wfe")
  /\ Return("core1")
  /\ UNCHANGED <<turn, lock, event, sent, rx, mail, typed, got, out>>

-----------------------------------------------------------------------------
\* Core 2 gets through its delay of twice Core 1's and releases the lock after its
\* last print before the loop.
Delayed ==
  /\ <<1, 2>> \in held => at["core1"] = "wfe"
  /\ Move("core2", "delay", "loop")
  /\ Sev
  /\ UNCHANGED <<ring, turn, lock, sent, rx, mail, typed, got, out>>

\* while (received < 10): ring_buffer_get
Get ==
  /\ Len(got) < Len(Test)
  /\ Move("core2", "loop", "got")
  /\ GetCall("core2")
  /\ UNCHANGED <<turn, lock, event, sent, rx, mail, typed, got, out>>

GotByte ==
  /\ code["core2"] = 0
  /\ Move("core2", "got", "ask")
  /\ Return("core2")
  /\ UNCHANGED <<turn, lock, event, sent, rx, mail, typed, got, out>>

\* -1: WFE
GotNothing ==
  /\ code["core2"] = -1
  /\ Move("core2", "got", "wfe")
  /\ Return("core2")
  /\ UNCHANGED <<turn, lock, event, sent, rx, mail, typed, got, out>>

\* The WFE ends once the event register is set, and clears it; there may be no byte.
Wake ==
  /\ event /\ event' = FALSE
  /\ Move("core2", "wfe", "loop")
  /\ UNCHANGED <<ring, turn, lock, sent, rx, mail, typed, got, out>>

\* spinlock_acquire: another core's store to the lock may end Core 2's exclusive
\* reservation, which sets its event register.
AskPrint ==
  /\ Acquire("core2", "ask", "print")
  /\ event' \in {event, TRUE}
  /\ UNCHANGED <<ring, turn, sent, rx, mail, typed, got, out>>

\* uart_putc(byte), spinlock_release, received++
PrintByte ==
  /\ Move("core2", "print", "loop")
  /\ got' = Append(got, byte["core2"])
  /\ lock' = Free /\ Sev
  /\ UNCHANGED <<ring, turn, sent, rx, mail, typed, out>>

Received == Len(got) = Len(Test) /\ at["core2"] = "loop"

-----------------------------------------------------------------------------
\* The UART receives a key.
Type(b) ==
  /\ Len(typed) < MaxTyped[held]
  /\ rx' = Append(rx, b) /\ typed' = Append(typed, b)
  /\ UNCHANGED <<ring, at, turn, lock, event, sent, mail, got, out>>

\* Variant for mutation: nothing makes Core 0 wait for the other two.
BugStartTasks ==
  /\ turn = "none" /\ turn' = "uart_rx"
  /\ UNCHANGED <<ring, at, lock, event, sent, rx, mail, typed, got, out>>

\* The tests are over; sched_run starts uart_rx_task.
StartTasks ==
  /\ <<1, 0>> \in held => at["core1"] = "wfe"
  /\ <<2, 0>> \in held => Received
  /\ turn = "none" /\ turn' = "uart_rx"
  /\ UNCHANGED <<ring, at, lock, event, sent, rx, mail, typed, got, out>>

Yield(p) == turn = p /\ turn' = IF p = "uart_rx" THEN "echo" ELSE "uart_rx"

\* uart_rx_task: no data, task_yield
RxNothing ==
  /\ Yield("uart_rx") /\ at["uart_rx"] = "loop"
  /\ rx = <<>>
  /\ UNCHANGED <<ring, at, lock, event, sent, rx, mail, typed, got, out>>

\* uart_getc and ring_buffer_put
RxByte ==
  /\ turn = "uart_rx" /\ rx # <<>>
  /\ Move("uart_rx", "loop", "put")
  /\ PutCall("uart_rx", Head(rx))
  /\ rx' = Tail(rx)
  /\ UNCHANGED <<turn, lock, event, sent, mail, typed, got, out>>

\* Variant for mutation: the task goes on while there is data.
BugRxStored ==
  /\ turn = "uart_rx" /\ turn' = IF rx = <<>> THEN "echo" ELSE "uart_rx"
  /\ Move("uart_rx", "put", "loop")
  /\ Return("uart_rx")
  /\ event' = TRUE
  /\ UNCHANGED <<lock, sent, rx, mail, typed, got, out>>

\* Its result is not looked at; an SEV of its own and task_yield.
RxStored ==
  /\ Yield("uart_rx")
  /\ Move("uart_rx", "put", "loop")
  /\ Return("uart_rx")
  /\ event' = TRUE
  /\ UNCHANGED <<lock, sent, rx, mail, typed, got, out>>

-----------------------------------------------------------------------------
\* As many bytes as there are: a bound only for consumers that repeat bytes.
MaxEchoed == MaxTyped[held] + Len(Test)

\* ring_consumer_task: ring_buffer_get
EchoGet ==
  /\ turn = "echo" /\ Len(out) < MaxEchoed
  /\ Move("echo", "loop", "got")
  /\ GetCall("echo")
  /\ UNCHANGED <<turn, lock, event, sent, rx, mail, typed, got, out>>

\* Variant for mutation: the task waits for data without giving way.
BugEchoNothing ==
  /\ turn = "echo" /\ code["echo"] = -1
  /\ Move("echo", "got", "loop")
  /\ Return("echo")
  /\ UNCHANGED <<turn, lock, event, sent, rx, mail, typed, got, out>>

EchoNothing ==
  /\ Yield("echo") /\ code["echo"] = -1
  /\ Move("echo", "got", "loop")
  /\ Return("echo")
  /\ UNCHANGED <<lock, event, sent, rx, mail, typed, got, out>>

EchoByte ==
  /\ code["echo"] = 0
  /\ Move("echo", "got", "ask")
  /\ Return("echo")
  /\ UNCHANGED <<turn, lock, event, sent, rx, mail, typed, got, out>>

AskKey ==
  /\ Acquire("echo", "ask", "key")
  /\ UNCHANGED <<ring, turn, event, sent, rx, mail, typed, got, out>>

\* What is printed for a byte: a new line for Enter, be it CR or LF, a message
\* for Ctrl+C, the byte itself for any other (uart_key_event).
KeyEvent(b) == CASE b = "etx" -> "halt" [] b \in {"cr", "lf"} -> "newline" [] OTHER -> b

\* Variant for mutation: the lock is released before the halt.
BugHalt ==
  /\ byte["echo"] = "etx"
  /\ Move("echo", "key", "halted")
  /\ out' = Append(out, KeyEvent(byte["echo"]))
  /\ lock' = Free
  /\ UNCHANGED <<ring, turn, event, sent, rx, mail, typed, got>>

\* Ctrl+C: Core 0 waits for ever, with the lock.
Halt ==
  /\ byte["echo"] = "etx"
  /\ Move("echo", "key", "halted")
  /\ out' = Append(out, KeyEvent(byte["echo"]))
  /\ UNCHANGED <<ring, turn, lock, event, sent, rx, mail, typed, got>>

\* Any other key is printed, the lock released, and the task yields.
Echo ==
  /\ Yield("echo") /\ byte["echo"] # "etx"
  /\ Move("echo", "key", "loop")
  /\ out' = Append(out, KeyEvent(byte["echo"]))
  /\ lock' = Free /\ Sev
  /\ UNCHANGED <<ring, sent, rx, mail, typed, got>>

-----------------------------------------------------------------------------
\* Core 3: mailbox_receive, under the lock of its own mailbox, which nobody here asks
\* for.  There is no message ...
Poll ==
  /\ at["core3"] = "poll"
  /\ Sev
  /\ UNCHANGED <<ring, at, turn, lock, sent, rx, mail, typed, got, out>>

\* ... or one of the tests', whose [CRYPTO] lines are printed without SPINLOCK.
PollMessage ==
  /\ mail > 0 /\ mail' = mail - 1
  /\ Move("core3", "poll", "ask")
  /\ Sev
  /\ UNCHANGED <<ring, turn, lock, sent, rx, typed, got, out>>

AskReport ==
  /\ Acquire("core3", "ask", "report")
  /\ UNCHANGED <<ring, turn, event, sent, rx, mail, typed, got, out>>

\* "[Core 3] RX ..." is printed and SPINLOCK released; the answer and mailbox_clear.
Report ==
  /\ Move("core3", "report", "poll")
  /\ lock' = Free /\ Sev
  /\ UNCHANGED <<ring, turn, sent, rx, mail, typed, got, out>>

InRing(p) == (PutStep(p) \/ GetStep(p)) /\ UNCHANGED clients

Core1 == Push \/ Pushed \/ InRing("core1")
Core2 == \/ Delayed \/ Get \/ GotByte \/ GotNothing \/ Wake
         \/ AskPrint \/ PrintByte \/ InRing("core2")
Core0 == \/ StartTasks \/ RxNothing \/ RxByte \/ RxStored \/ InRing("uart_rx")
         \/ EchoGet \/ EchoNothing \/ EchoByte \/ AskKey \/ Halt \/ Echo \/ InRing("echo")
Core3 == Poll \/ PollMessage \/ AskReport \/ Report

ClientsNext == /\ Core0 \/ Core1 \/ Core2 \/ Core3 \/ \E b \in Byte : Type(b)
               /\ UNCHANGED held

SafeSpec == ClientsInit /\ [][ClientsNext]_allVars

\* Every core keeps executing.  Nobody need type.  SPINLOCK needs no strong fairness: the
\* other cores ask for it only a number of times.
Fairness ==
  /\ WF_allVars(Core0 /\ UNCHANGED held) /\ WF_allVars(Core1 /\ UNCHANGED held)
  /\ WF_allVars(Core2 /\ UNCHANGED held) /\ WF_allVars(Core3 /\ UNCHANGED held)

ClientsSpec == SafeSpec /\ Fairness

-----------------------------------------------------------------------------
Settled == held = AllPairs

IsPrefix(s, t) == Len(s) <= Len(t) /\ \A i \in 1 .. Len(s) : s[i] = t[i]

Events(s) == [i \in DOMAIN s |-> KeyEvent(s[i])]

Halted == at["echo"] = "halted"

\* When the delays hold, Core 2 prints what Core 1 pushed and Core 0 echoes what
\* is typed, in order, nothing lost, repeated or taken by the wrong reader, although
\* the results of ring_buffer_put are ignored: the turns of the two tasks keep the
\* ring from filling up, and the delays keep the cores apart.
EchoInOrder ==
  Settled => /\ IsPrefix(got, Test)
             /\ IsPrefix(out, Events(typed))

\* Then every key is echoed, unless Ctrl+C came first: the tasks' turns come round
\* although Core 3 may have the lock, and the ring has room for each key.
EveryKeyEchoed ==
  \A n \in UNION {1 .. MaxTyped[t] : t \in Timings} :
    Settled /\ Len(typed) = n ~> Len(out) >= n \/ Halted

\* Whatever the timing, after Ctrl+C nothing is printed under SPINLOCK any more: not by
\* Core 2 if it was still at its test, nor by Core 3 for a message it has received
\* ("System halted").  The [CRYPTO] lines of mailbox_receive are not under it.
HaltIsFinal == [][Halted => UNCHANGED <<got, out>> /\ at'["core3"] # "report"]_allVars

\* When Core 0 waits for it, Core 2 gets all its bytes, even if it looked before Core 1
\* had put them: it sleeps "until Core 1 fires SEV" (main.c:166), which Core 1 does not
\* do for its bytes, but Core 3 releases the lock of its mailbox again and again.
RingTestCompletes == <<2, 0>> \in held ~> Received

Together == INSTANCE BoundedFifo WITH
              queue <- IF Settled THEN Queue ELSE <<>>,
              call <- IF Settled THEN InCall ELSE [p \in Process |-> [op |-> "idle"]],
              Capacity <- Size - 1

\* When the delays hold, two producers and two consumers are as good as one: the
\* calls of all cores make a first-in first-out queue.
ClientsImplementFifo == Together!Spec

-----------------------------------------------------------------------------
\* The strengthening that is inductive.  First what holds for any timing:
\* the places, and that who prints holds SPINLOCK, Core 0 still does when it has halted.
Places ==
  /\ DOMAIN at = Process \cup {"core3"}
  /\ at["core1"] \in {"push", "pushed", "wfe"}
  /\ at["core2"] \in {"delay", "loop", "got", "ask", "print", "wfe"}
  /\ at["uart_rx"] \in {"loop", "put"}
  /\ at["echo"] \in {"loop", "got", "ask", "key", "halted"}
  /\ at["core3"] \in {"poll", "ask", "report"}

ClientsTypeOK ==
  /\ held \in Timings /\ Places
  /\ turn \in {"none", "uart_rx", "echo"}
  /\ sent \in 0 .. Len(Test) /\ (at["core1"] = "push" => sent < Len(Test))
  /\ rx \in Seq(Byte) /\ mail \in 0 .. MaxMail /\ typed \in Seq(Byte)

LockHeld == /\ at["core2"] = "print" => lock = "core2"
            /\ at["echo"] \in {"key", "halted"} => lock = "echo"
            /\ at["core3"] = "report" => lock = "core3"

\* Then, when the delays hold, that nobody is in the ring when another on the same
\* side is: a process is in a call only where its loop calls, a task that is not
\* executing is at the top of its loop, and each core waits for the one before it.
Apart ==
  /\ at["core1"] # "pushed" => pc["core1"] = "idle"
  /\ at["core2"] # "got" => pc["core2"] = "idle"
  /\ at["uart_rx"] # "put" => pc["uart_rx"] = "idle"
  /\ at["echo"] # "got" => pc["echo"] = "idle"
  /\ turn # "uart_rx" => at["uart_rx"] = "loop"
  /\ turn # "echo" => at["echo"] = "loop"
  /\ at["core2"] # "delay" => at["core1"] = "wfe"
  /\ turn # "none" => at["core1"] = "wfe" /\ Received

\* The bytes on their way from a producer's input to a consumer's output: what the
\* consumer holds, what the ring holds, what the producer holds, and the input.
Holds(p) == IF InCall[p].op \in {"put", "got"} THEN <<InCall[p].byte>>
            ELSE IF at[p] \in {"ask", "print", "key"} THEN <<byte[p]>> ELSE <<>>
OnTheWay(c, p, rest) == Holds(c) \o (Queue \o (Holds(p) \o rest))

\* What is printed are bytes, and the events of bytes.
KeyEvents == {KeyEvent(b) : b \in Byte}
Outputs == got \in Seq(Byte) /\ out \in Seq(KeyEvents)

\* What remains of a sequence after its first n elements.
After(s, n) == SubSeq(s, n + 1, Len(s))

\* They are all that Core 1 has still to see printed, and then all the keys typed
\* that have not been echoed.
TestFlows ==
  IF turn = "none"
  THEN IsPrefix(got, Test) /\ OnTheWay("core2", "core1", After(Test, sent)) = After(Test, Len(got))
  ELSE got = Test

KeysFlow ==
  IF turn = "none"
  THEN rx = typed /\ out = <<>>
  ELSE IsPrefix(out, Events(typed)) /\ OnTheWay("echo", "uart_rx", rx) = After(typed, Len(out))

\* The two tasks have at most one byte in the ring, and so never fill it.
AtMostOne ==
  turn # "none" =>
    /\ Len(Queue) <= 1
    /\ turn = "uart_rx" /\ InCall["uart_rx"].op \in {"idle", "put"} => Queue = <<>>
    /\ InCall["echo"].op \in {"got", "failed"} \/ at["echo"] \in {"ask", "key"} => Queue = <<>>

SettledIInv == IInv /\ Apart /\ Outputs /\ TestFlows /\ KeysFlow /\ AtMostOne

ClientsIInv == /\ ClientsTypeOK /\ LockHeld
               /\ Settled => SettledIInv
=============================================================================
