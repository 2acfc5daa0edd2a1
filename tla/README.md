# TLA+ specifications of the Cortex-A72 bare-metal gateway

The program boots four cores of QEMU's `virt` machine at EL1, without an operating system. The cores share one RAM
and talk through a spinlock, four mailboxes whose messages carry an HMAC tag, and a ring buffer; a cooperative
scheduler runs tasks on Core 0 and Core 3; a timer interrupt is exercised by a test suite. This directory holds the
models of that code, the TLC configurations that check them and proofs for TLAPS. Paths below are relative to the
repository.

## The system

| component | state | operations | shared with |
|---|---|---|---|
| spinlock (`include/ipc/ipc.c:22-60`) | a word at a fixed address; one more word in each mailbox | `spinlock_init`, `_acquire` (LDXR/STXR loop, `dmb`), `_release` (`dmb`, store, `dsb`, `sev`) | all cores: most prints take it, every mailbox call takes the mailbox's |
| mailboxes (`include/ipc/ipc.c:62-172`) | per core: lock, sender, type, data, counter, status (0 empty, 1 ready, 2 processed), tag | `mailbox_init`, `_send`, `_receive`, `_clear` | Core 0 (tests), Core 3 (dispatcher); Cores 1 and 2 never read theirs |
| message authentication (`include/crypto/hmac_sha256.c`) | the key, set once by Core 0 | `hmac_key_init`, `hmac_tag_compute`, `hmac_tag_verify` | the mailboxes |
| SHA-256 (`include/crypto/sha256.c`, vendored TinyCrypt) | the state of one hash on the caller's stack | `tc_sha256_init`, `_update`, `_final` | message authentication |
| ring buffer (`include/ringbuffer/ringbuf.c`) | head, tail, 256 bytes | `ring_buffer_init`, `_put`, `_get` (no lock) | Core 1 and Core 2 (boot test), the two tasks of Core 0 |
| scheduler (`include/scheduler/scheduler.c`) | per core: task table, number of tasks, current task, tick count | `sched_add_task`, `sched_run`, `task_yield`, `task_sleep_ms`, `sched_tick` | the core's own tasks; `sched_tick` is written for an interrupt |
| context switch (`src/sched.S`) | the saved stack pointer of each task | `sched_context_switch` | scheduler |
| dispatcher (`dispatcher/dispatcher.c`) | none of its own | `uart_rx_task`, `ring_consumer_task` on Core 0, `mailbox_dispatcher_task` on Core 3, `dispatcher_run` (no caller) | UART, ring, mailboxes, spinlock |
| communication tests (`tests/trivial/tests.c`) | loop variables, counts | Test 1 pings Cores 1-3, Test 2 sends data and polls for answers, Test 3 prints | mailboxes |
| timer tests (`tests/interrupt/timer_tests.c`) | countdown, counters and time stamps shared with the handlers | frequency, IMASK, countdown, delta | interrupt controller |
| interrupt controller (`include/interrupts/irq.c`), vectors (`src/vector.S`) | handler table; GIC and timer registers | `irq_init`, `irq_register_handler`, `irq_enable/disable`, `common_trap_handler` | timer tests |
| UART (`include/uart/uart0.c`) | the device's FIFOs | `uart_init`, `_putc`, `_puts`, `_puthex`, `_has_data`, `_getc`, `_key_event` | all cores |
| main (`src/main.c`), boot (`src/boot.S`), MMU (`src/mmu.S`) | boot order; `mmu_lock`, `mmu_init`, the page table | `main`, `secondary_main`, `psci_cpu_on`, `mmu_on` | everything |

What is hard here: a lock built from exclusive loads and stores on a weakly ordered processor; stores to a device that
arrive late; two sides of a ring buffer without a lock; a mailbox that is free for the next message before the owner
has cleared it; results of calls that callers ignore; waiting with WFE for an event that somebody must send; an
interrupt between any two instructions of a loop or of the context switch; a hash fed in pieces around the block
boundary; and an order of events across cores that only busy-wait delays establish. `PROJECT.json` lists these hazards
with their lines and the properties that cover them.

What each component has to guarantee:

* UART: lines of cores that take the lock come out whole, and no character is lost.
* spinlock: one holder; the holder sees what earlier holders wrote; a free lock that is wanted is taken.
* mailboxes: a message is received once and as sent, or not at all; sends fail only on a full mailbox; an honest
  message is never rejected and a damaged one never returned.
* SHA-256 and the tags: for every way of feeding a message, the result is that of FIPS 180-4 and RFC 2104.
* ring buffer: first in, first out, nothing lost or repeated; full and empty are told apart.
* ring clients: what is typed is echoed in order; after Ctrl+C nothing more is printed under SPINLOCK; the boot test gets
  its ten bytes.
* boot: no core translates with an unfinished page table, none sleeps for ever, none uses what is not initialised.
* scheduler: one task runs, on its own stack; tasks take turns; a sleeping task stays asleep for its time.
* context switch and exception entry: code that was switched out or interrupted finds its registers and its stack.
* test suites: they end, and a pass means what they print.

## Modules

| module | what it is |
|---|---|
| `Mutex` | what a lock promises: nobody enters while another is inside, and a wanted free lock is entered |
| `Spinlock` | the lock one instruction at a time, with exclusive monitors, stores that become visible late and loads satisfied early |
| `Console` | EXTENDS `Spinlock`: `uart_putc` and its callers, with and without the lock, on the transmit FIFO |
| `MailboxSlot` | what the mailboxes promise: one-message slots on which calls act at one instant |
| `Mailbox` | `mailbox_send`, `_receive`, `_clear`, one group of memory accesses per step |
| `IpcTests` | EXTENDS `Mailbox`: the two communication tests on Core 0 against the dispatcher on Core 3 |
| `Sha256Words` | 32-bit words as sets of bits, the logical functions of SHA-256 and its constants |
| `Sha256` | `tc_sha256_init`, `_update`, `_final` byte by byte, `compress` round by round |
| `Fips180` | EXTENDS `Sha256`: the padding, the hash and HMAC as the standards define them |
| `Hmac` | EXTENDS `Fips180`: `hmac_key_init`, `hmac_tag_compute`, `hmac_tag_verify` as calls of the hash |
| `BoundedFifo` | what the ring buffer promises |
| `RingBuffer` | `ring_buffer_put` and `_get`, one access to shared memory per step |
| `RingClients` | EXTENDS `RingBuffer`: Cores 1 and 2, the two tasks of Core 0, and Core 3, which polls its mailbox and reports messages under SPINLOCK |
| `RoundRobin` | what the scheduler promises: tasks take turns in the order of registration |
| `Scheduler` | the scheduler of one core, with the tick interrupt between any two steps |
| `ContextSwitch` | EXTENDS `Scheduler`: `sched_context_switch` one instruction per step on registers and stacks, `save_regs` and `restore_regs` around an interrupt before any instruction |
| `TimerTests` | the timer tests on Core 0, with `uart_init`, `irq_init`, the interrupt controller and the handlers |
| `Boot` | every core from reset through `mmu_on` to its main function, and `main` up to `psci_cpu_on` |
| `MC*` | the instances TLC checks |
| `*Proofs` | theorems about the module they extend |

The actions carry the names of the functions or of the branches of them (`SendFull`, `GetEmpty`, `YieldAlone`), the
variables those of the C variables where there is one. Where a function touches shared memory several times, `pc`
says how far a core has got in it. Definitions named `Bug...` are wrong variants of the action that follows them:
each is a plausible slip in the code that a property named in `PROJECT.json` ("mutants") must notice.

Points of correspondence that are not obvious:

* `Spinlock` has no processor reordering in general, but what the code's barriers are there for: a store of the
  critical section stays invisible until `Observe`, `ReleaseBarrier` waits for it, `AcquireBarrier` throws away
  what was loaded too early. `StoreExclusiveFails` may always happen.
* `Console` has the printing inside the lock's critical section. A character written by a core is on the `wire` until it
  arrives at the device, and only the release's `dmb sy` makes it arrive before the lock is free. `careless` cores
  are those in code that prints without SPINLOCK: `sched_add_task`, `sched_run`, `mailbox_receive` (its `[CRYPTO]` lines,
  `ipc.c:133-152`, are under the mailbox's own lock only), and the timer tests and their handlers. Which cores may is the
  constant `Bare`. The
  properties say what holds as long as nobody is careless, and the FIFO is checked and written in two steps.
* `Mailbox` takes a mailbox's lock in one step. `Spinlock` implements `Mutex` and shows the data under the lock to
  be what the last holder left, so accesses under the lock are ordinary accesses. The tag is ideal: equal tags mean
  equal fields. `Damage` is the one action that is not code: something else writes to a message at rest.
* `RingBuffer` has put's and get's two barriers by keeping the accesses around them in order. Between get's load of
  the byte and its store of the tail there is none, so `GetAdvanceEarly` and `GetLoadLate` do them the other way
  round. The slot that is always free makes this harmless.
* The busy-wait delays are constants of the models. In `IpcTests`, `settled` says whether Core 3 has always finished by the
  end of a delay. In `RingClients`, `held` is the set of pairs of cores whose order the delays establish, all three when
  they work as they are meant to (`Settled`). Both are fixed at the start to a member of `Timings`, so one run has
  behaviours with and without the order. A property that needs the delays says so.
* `Sha256` keeps words as sets of bit numbers, so that rotations, shifts and exclusive-or are set operations, and
  addition modulo 2^32 is exclusive-or with the carries. `ShortMessage` keeps the bit count, a 64-bit field that `tc_sha256_final` writes byte by
  byte, within TLC's integers. `Hmac` hashes the real fields; `Mailbox` instead has tags that are equal when the
  fields are.
* `ContextSwitch` writes a word as a triple of a kind and two numbers: a value that a task computed, an address in a
  stack, an instruction. `work` changes each time a task works, so that values left over from an earlier turn are
  not taken for the present ones. Words that are popped become `Junk` at once, since an interrupt may overwrite them. x3 to
  x18 are left out (an interrupt saves them like x0 to x2, a call preserves none of them). `exec` changes when
  `task_yield` calls the switch; the stack pointer follows ten instructions later, which is what the invariant has to bridge.
* `Scheduler` models the switch of stacks by its effect: the task that yields stops inside `task_yield`. Nothing
  calls `task_sleep_ms` and `sched_tick` yet; they are modelled as the comments of `scheduler.h` mean them to be
  used, the tick as an interrupt.
* `Boot` models what the WFE loop of `mmu_on` depends on: the loss of a reservation sets the core's event register, and
  nothing in the loop executes SEV. A WFE may also end without an event. Caches are left out: QEMU has none. (With caches,
  a core whose MMU is off and one whose MMU is on would access `mmu_lock` with different memory attributes.)
* `RingClients` takes the tasks' strict turns (`Yield`) from what `Scheduler` is shown to implement. Every release of a lock
  sets the event register of Core 2 (`Sev`, `ipc.c:59`), also those of Core 3, which takes the lock of its own mailbox
  at each poll (`Poll`) and SPINLOCK only to report a message (`AskReport`, `Report`). The lock of that mailbox is left
  out: `IpcTests` has it, and nobody else in this module asks for it. So are the SEVs of Core 0 in its tests and
  those of `mailbox_send`, which could only wake Core 2 more often.
* `TimerTests` keeps times relative to the moment, up to a horizon, so that the main thread may lag for as long as
  it likes in a finite model. It starts in any state of UART and GIC. The handler that
  the suite registers for the UART reads nothing from the device, so one key would interrupt for ever if the UART did
  not mask its interrupt. In the build for the Raspberry Pi `uart_init` masks it; in the one for QEMU, the only one to get
  past the frequency check, it does nothing, and the interrupt is masked because that is the PL011's state at reset.
  `UartInit` may do either. The safety properties hold with the interrupt masked or not; `TestsEnd` has the mask as
  its premise. A key typed at any time is an action for that reason (`Type`).

## What TLC checks

| run | instance | result |
|---|---|---|
| `console` | 3 cores, one of which may print without the lock, FIFO of 1, lines of 2 | `MutualExclusion`, `HolderSeesLastWrites`; the instructions implement `Mutex` with its progress; lines whole and nothing lost while every core takes the lock |
| `mailbox` | 2 symmetric senders, 1 owner, 2 payloads, counter modulo 2, up to one damaged payload | locking, honest messages verify, refinement of `MailboxSlot`: no damaged message is returned |
| `hmac` | a message of up to 131 bytes in pieces of 0, 55, 56, 63, 64 and 65; 4 mailboxes that differ in one field | padding and digest of FIPS 180-4, tag of RFC 2104, a tag verifies for its own fields only, `tc_sha256_update` skips no byte |
| `boot` | 4 cores, started by `main` or all executing from reset; none or Core 1 fails its TCR check | complete table, no lost wake-up, initialisation before use, everyone gets on |
| `tests` | tests and dispatcher, both timings of the delays, 10 poll rounds | Test 1 passes, answers counted once and in order, the suite ends, Core 3's mailbox drains; when the delays hold, Test 2's one answer is the answer to the PING and no accepted message is erased unread |
| `tests_all_sent` | delays order everything | finding 1 |
| `ringbuffer_fifo` | 1 producer, 1 consumer, 4 slots, 2 bytes | disjoint slots, refinement of `BoundedFifo` |
| `clients` | all users of the ring, 2 slots; all delays hold and up to 3 keys of 3 kinds, or Core 0 does not wait for Core 2 and 1 key, or Core 2 does not wait for Core 1 | when all delays hold nothing is lost, every key is echoed, two producers and two consumers still make one queue; after Ctrl+C nothing is printed under SPINLOCK, also while Core 2 is at its test; Core 2 gets its byte, also when it looked first |
| `context_switch` | up to 3 tasks, 2 ticks, delays 1 and 2, 2 words of their own on the stacks | one running task, every task finds its registers and stack as it left them, refinement of `RoundRobin` with its progress |
| `scheduler_sleep` | up to 2 tasks | finding 2 |
| `timer_suite` | a period of 20 units, tolerance 2, lateness 1, countdown from 2, 3 intervals, 1 spurious interrupt | from any state of UART and GIC, tests that are over have passed, no interrupt is early, none of the timer comes while it is masked; the tests end if the UART's interrupts are masked |

Bounds. The counter wraps at 2 or 4 instead of 2^32: only its equality matters, and the wrap happens. A ring of 4
slots wraps several times and has a slot for each of producer, consumer, queued byte and gap; the ring of 2 slots in
`clients` is the smallest possible, so "never full" is as hard as it can be. Test 2 polls 10 rounds, as in the code.
The tests' payloads are scaled so that all of them and their acknowledgements are different. Three keys in a ring of
one byte suffice for an overflow, a Ctrl+C and a key after it. Three tasks are enough for a turn to be skipped, and
for a register of one to turn up in the task after next. A FIFO of one entry is full after every character. The pieces
of the message reach 55, 56, 63, 64 and more bytes in the last block, where the padding takes one block or two.
`MaxEchoed` is reached only where two consumers run past each other and repeat bytes. Two messages for
Core 3 (`MaxMail`) are what the tests send it. `MaxLate` is an assumption about the machine; the delta test needs twice its
value to be within the tolerance, because the handler sets the timer relative to its own lateness. Failures of
STXR in `Spinlock` and the lag of the main thread are unbounded. In `Boot` an STXR fails only when the core has lost its
reservation, as often as you like; the architecture permits a failure with the reservation still there, which leaves no
event for the WFE of `mmu_on`, and that is left out. States in which a core stops are intended in
`RingClients` (Ctrl+C), `Boot` (`mmu_hang`, or all cores in their main functions) and `TimerTests` (the end of the
suite), whose runs do not check for deadlock.

Fairness.

* `Spinlock`, `Console`: a core keeps executing; the UART transmits; critical sections end, for the prints in them do;
  and if STXRs are attempted again and again, one succeeds, which is the architecture's promise for LDXR/STXR loops.
  This gives progress for someone, not for each core.
* `Boot`: a core executes, a WFE ends when there is an event, stores drain, and among the cores that keep trying one STXR
  succeeds. That is enough for every core to get on, for each needs the lock only once.
* `IpcTests`: in addition, no core loses the race for a lock for ever (strong fairness of the lock step). The lock itself
  does not guarantee that. It holds because every contender spends most of its time outside the lock, in delays or in
  its polling loop. `SuiteEnds` and `Core3Drains` depend on it.
* `RingClients`: every core keeps executing (weak fairness). No more is needed for SPINLOCK, which the others ask for
  only a number of times. Nobody need type.
* `Scheduler`, `ContextSwitch`: the task on the core calls `task_yield` again and again, as the loops in `dispatcher.c` do;
  handlers end, and interrupts leave time for the code that they interrupt (strong fairness of `Code`).
* `TimerTests`: the core executes, unmasked interrupts are taken, time passes.

## Findings

1. `tests_all_sent`: Test 2 ignores the result of `mailbox_send` (`tests/trivial/tests.c:138`). Cores 1 and 2 have
   never emptied their mailboxes after Test 1, so two of the three messages are refused, and the one answer counted
   answers Test 1's PING. The function's comment says a result of 0 means "All DATA messages sent and at least one
   ACK received".
2. `scheduler_sleep`: `task_sleep_ms` does not sleep. With no other ready task `task_yield` returns at once
   (`scheduler.c:118`), otherwise it makes the sleeper ready as it gives way (`scheduler.c:123`).

Worth knowing, though no run shows them to go wrong. Core 2's WFE is to last "until Core 1 fires SEV" (`src/main.c:166`),
and Core 1 fires none once its bytes are in the ring. Core 2 wakes all the same, because every release of a lock by another
core is an SEV and Core 3 releases that of its mailbox for ever (`RingTestCompletes`). And `mailbox_clear` (`include/ipc/ipc.c:165-172`) erases whatever the
mailbox holds, and after a receive the mailbox is free for the next message. Only the delays of the tests keep a clear from
erasing a message nobody has read. `SettledIsReceived` (run `tests`) says that they do.

## What is proved

TLAPS checks these for every value of the constants, under the assumptions named in the modules.

* `ConsoleProofs`, any set of cores: of `Spinlock`, `Exclusion`, `Visibility`, and `RefinesMutex` (the safety part of
  `Mutex`). The inductive invariant says that the lock word is set exactly when one core is between its STXR and its
  clearing store, that a core with a reservation has it only since the last store to the word, and that a core past
  its barrier has loaded nothing stale. Of `Console`, for any FIFO size and length of lines, `WholeLines`,
  `NoCharacterLost`, and `ConsoleLocks` (its steps are the lock's, so the theorems above hold of it). While nobody prints without the lock, only the core between its two barriers has a line begun or a character on the wire,
  and the FIFO has room for it.
* `MailboxProofs`, any cores, routes, types, payloads, wrap of the counter and number of damaged messages:
  `LockExclusion`, `HonestMessagesVerify`, and `MailboxesImplementSlots`, the whole refinement `Spec => S!Spec`. The
  state between two accesses of a call has to be described for the invariant to be inductive: `InItsFunction` and `AsLeft`
  say that a core finds the mailbox as its own last access left it, which holds because only the lock's holder writes.
* `IpcProofs`, any number of poll rounds from two on and any set of timings: `Test1AlwaysPasses`, `AnswersInOrder`,
  `Test2Passes` and `NothingWiped`, and `ClientsUseMailboxes` (the steps of the tests and the dispatcher are those of
  `Mailbox`, so the theorems above hold of them). A step inside a mailbox function is reduced first to its effect on
  the abstract slots (`StepEffect`). The invariant then follows the PING and the DATA message to Core 3: each, or its
  answer, is at one of five places on its way from unsent to counted (`PingAt`, `DataAt`), and the second does not
  overtake the first (`Behind`). It is these places that rule out an answer counted twice, or a PING that is refused.
  `SettledJourney` adds where the messages are when the delays hold.
* `Sha256Proofs`, any message (below the bound `ShortMessage`) in any pieces: `PadsAsFips` (the blocks compressed are
  those of FIPS 180-4, also where the length needs a block of its own) and `SkipsNothing`. The invariant says that the
  bytes compressed followed by those in `leftover` are the bytes fed so far, and follows the padding byte by byte.
  For any key of 32 bytes and any mailboxes of four words (`HmacAssumption`) as well, `CompressesAsFips`, `DigestsAreFips`
  and `TagsAreHmac`: every digest and every tag is that of the standards, in whatever order tags are computed and verified.
  The standards define them by recursion over rounds and blocks, and the prover has no induction over data, but none is
  needed: the program's steps are those of the recursion. In `compress`, the ring holds the last 16 words of the
  message schedule and the working variables are at the end of a trace of the rounds so far (`RoundsInv`). At any
  time the iv is the last value of the one chain of hash values for the blocks compressed (`ChainInv`). A trace of 64
  rounds, or a chain of all blocks, is then what `Compressed` and `Digest` compute. The code adds up the terms
  of a round in another order than FIPS 180-4, which is the same because addition of words is associative
  (`AddAssociates`, by the carries at each bit). `HmacInv` says what the hash has been given at each place of
  `hmac_tag_compute`. `TagsVerify` (`VerifiesIffSame`) has a hypothesis, `NoCollision`: no two of the mailboxes have the
  same HMAC under the key. That is what HMAC is used for and no property of this code; TLC checks it for the mailboxes of
  the run `hmac`.
* `RingBufferProofs`, any size above 1 and any bytes. Of `RingBuffer`, with one producer and one consumer (`OneEach`):
  `NoSharedSlot`, the bounds of the indices, and `Implements`, the refinement of `BoundedFifo`. The invariant records what
  each side knows of the other's index and why it stays true while that side moves on (`ProducerSees`, `ConsumerSees`). The
  queue is the slots from the tail to the head (`Queue`); a put takes effect with the store of the head
  (`PublishAppends`), a get with the store of the tail (`AdvanceTakes`), and a byte that is loaded only after that store
  is still there because no producer writes that slot (`SlotsDisjoint`). The steps are proved for any number of processes
  of which at most one on each side is in a call (`InTurn`), for that is what `RingClients` needs.

  Of `RingClients`, for its four users, any test bytes that fit the ring, any number of keys and any set of timings
  (`RingUsers`, which `MCRingClients` assumes and TLC evaluates): `SpinlockStaysHalted` whatever the timing, for who prints
  under SPINLOCK holds it, and Core 0 halts with it (`LockHeld`); and when the delays hold, `ClientsImplement` and `EchoesInOrder`. Then everyone is in the
  ring only where its loop calls, and the loops wait for each other (`Apart`), hence `InTurn`. What a consumer holds,
  what the ring holds, what the producer holds and the rest of its input are together the bytes that are not printed
  yet (`OnTheWay`, `TestFlows`, `KeysFlow`): every step of a call moves one byte along, or none, unless a put finds the
  ring full. The test of Core 1 is shorter than the ring, and the two tasks of Core 0 have at most one byte in it
  (`AtMostOne`), so none does.
* `BootProofs`, any number of cores, any of them executing from reset, any of them failing: `SafeTranslation`,
  `WaitersWake`, `InitialisationFirst`. The invariant says who may have stores to the table on their way (`TableAt`)
  and that a failed STXR leaves an event behind (`EventOnLoss`), so the WFE that follows it does not sleep.
* `ContextSwitchProofs`, any number of tasks, ticks, delays and words on the stacks. Of `Scheduler`: `RunningIsCurrent`,
  and `TasksTakeTurns`, the safety part of `RoundRobin`. `OthersReady` is the key: every task but the current one is
  ready whatever ticks and sleeps happen, so the search of `pick_next` ends at its first candidate (`PickNextIsNext`).
  Of `ContextSwitch`: `MachineSchedules` (the machine implements `Scheduler`, so these theorems hold of it), and
  `TasksFindTheirOwn`. The invariant describes the code that an interrupt interrupted as well as running code, by
  `CodeRegs`, `CodeSp` and `CodeIp`, which read the exception frame while there is one. All it says of the stacks is at
  or above those pointers, so an interrupt cannot disturb it (`DependsOn`). `Saving` and `Loading` say, before each
  instruction of the switch, how much of which task is on its stack and how much in the registers.
* `TimerProofs`, any period, tolerance, lateness and number of interrupts: `MaskedTimerIsSilent`,
  `CountdownTakesItsTime`, and `TestsPass` on condition that twice the lateness is within the tolerance, all of them from
  any state of UART and GIC and whether or not `uart_init` masks the UART (`SafeSpec` is the behaviours without fairness). The invariant says in which phases of the main thread the interrupt is masked, whose
  handler is registered and whether the timer runs (`Phases`), that a timer interrupt is handled only when it was due,
  and that the UART's goes to the handler that changes nothing (`Interrupts`), and how the counters the handlers share with the loop relate to the time that has passed (`CountTime`,
  `DeltaTime`).

Only model-checked: liveness and progress (`Mutex` and `RoundRobin` with fairness, `SuiteEnds`, `Core3Drains`,
`EveryKeyEchoed`, `EveryoneGetsOn`, `RingTestCompletes`, `TestsEnd`), which the prover does not handle.

## Not modelled

* Text output, except where a property is about its order or completeness (`Console`): elsewhere prints take time under the
  lock, which the models have as delays or as holding the lock. Test 3 only prints.
* `dispatcher_run` and `uart_special_chars`: nobody calls them.
* The vectors other than the IRQ from the current level: they halt the core or are never taken. The stack and vector
  set-up of `boot.S`, the UART's baud rate, linker scripts: fixed writes before anything runs concurrently.
* Null pointers passed to TinyCrypt: no caller does.
* Memory attributes and caches: the target is QEMU.
* The firmware behind `psci_cpu_on`: a call either starts the core or fails.
* More tasks than the table holds: `sched_add_task` (`scheduler.c:45`) has no bound check, and the repository adds two
  tasks on a core at most. The alignment of stacks (`scheduler.h:43`): fixed offsets, with nothing to explore.
* SEV overtaking the store it announces (`dispatcher.c:46`, no DSB): `RingBuffer` makes stores visible at once. The only core
  that waits is Core 2, which has finished by then when the delays hold, and which the later SEVs of Core 3 wake again if
  they do not.

## Plan

Done, in this order: spinlock, mailboxes, tests, ring buffer, its clients, scheduler, timer tests, boot; then SHA-256
and HMAC, the console, the context switch, and UART and interrupt controller in the timer tests.

Proved since: the refinement of `BoundedFifo`, and inductive invariants of `TimerTests`, `IpcTests` and
`RingClients`, and that digests and tags are those of the standards.
