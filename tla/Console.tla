------------------------------ MODULE Console ------------------------------
(***************************************************************************)
(* The transmitter of include/uart/uart0.c under the lock of Spinlock.     *)
(* uart_puts and uart_puthex call uart_putc for one character after the    *)
(* other, and uart_putc looks at the device twice: it waits until the FIFO *)
(* is not full, then it writes.  main, secondary_main and the tasks print  *)
(* while they hold the lock.  Others print without SPINLOCK: sched_add_task *)
(* and sched_run, mailbox_receive ("[CRYPTO]", under the mailbox's lock    *)
(* only), and the timer tests and their handlers; Core 3 runs the first    *)
(* three while the other cores print.                                      *)
(*                                                                         *)
(* A write is a store like any other: it arrives at the device later, and  *)
(* before the lock is free only because of the "dmb sy" of the release.    *)
(* Accesses of one core to the device stay in order.                       *)
(***************************************************************************)
EXTENDS Spinlock, Integers

CONSTANTS
  FifoSize,   \* entries of the transmit FIFO
  LineLength, \* characters of a line
  Bare        \* cores that may print without the lock

ASSUME ConsoleAssumption == /\ FifoSize \in Nat \ {0} /\ LineLength \in Nat \ {0}
                            /\ Bare \subseteq Cores

VARIABLES
  careless,  \* the cores that are in one of the functions that print without
             \* the lock
  fill,      \* how many characters are in the FIFO
  at,        \* where each core is in uart_putc, "none" outside of a line
  char,      \* the number of the character of its line
  wire,      \* its character on the way to the device, or 0
  line,      \* history: the unfinished line at the device, as the core and the
             \* number of the character that arrived last, or <<>>
  torn,      \* history: a character came between those of another core's line
  lost       \* history: a character arrived while the FIFO was full

device  == <<fill, line, torn, lost>>
conVars == <<careless, device, at, char, wire>>
allVars == <<vars, conVars>>

ConTypeOK ==
  /\ TypeOK
  /\ careless \subseteq Bare
  /\ fill \in 0 .. FifoSize
  /\ at \in [Cores -> {"none", "check", "write"}]
  /\ char \in [Cores -> 1 .. LineLength]
  /\ wire \in [Cores -> 0 .. LineLength]
  /\ line = <<>> \/ line \in Cores \X (1 .. LineLength - 1)
  /\ torn \in BOOLEAN /\ lost \in BOOLEAN

ConInit ==
  /\ Init
  /\ careless \in {{}, Bare}
  /\ fill = 0 /\ line = <<>> /\ torn = FALSE /\ lost = FALSE
  /\ at = [c \in Cores |-> "none"]
  /\ char = [c \in Cores |-> 1]
  /\ wire = [c \in Cores |-> 0]

-----------------------------------------------------------------------------
\* A line begins once the last character before it has arrived: PutcCheck, its
\* first step, reads the device after that write.
Begin(c) == /\ at[c] = "none" /\ wire[c] = 0
            /\ at' = [at EXCEPT ![c] = "check"]
            /\ UNCHANGED <<vars, careless, device, char, wire>>

\* A line printed between spinlock_acquire and spinlock_release ...
PrintLocked(c) == pc[c] = "held" /\ Begin(c)

\* ... and one by sched_add_task, sched_run, mailbox_receive, a timer test or a
\* handler, whose caller does not hold it.
PrintBare(c) == pc[c] = "idle" /\ c \in careless /\ Begin(c)

\* Variant for mutation: uart_putc writes without a look at the FIFO.
BugPutcCheck(c) ==
  /\ at[c] = "check" /\ wire[c] = 0
  /\ at' = [at EXCEPT ![c] = "write"]
  /\ UNCHANGED <<vars, careless, device, char, wire>>

\* while (*uart0_fr & (1 << 5)): the loop ends once the FIFO is not full.
PutcCheck(c) ==
  /\ at[c] = "check" /\ wire[c] = 0    \* accesses to the device are in order
  /\ fill < FifoSize
  /\ at' = [at EXCEPT ![c] = "write"]
  /\ UNCHANGED <<vars, careless, device, char, wire>>

\* *uart0_dr = c, and uart_puts goes on to the next character.
PutcWrite(c) ==
  /\ at[c] = "write"
  /\ wire' = [wire EXCEPT ![c] = char[c]]
  /\ IF pc[c] = "held" THEN Store(c) ELSE UNCHANGED vars
  /\ IF char[c] < LineLength
     THEN char' = [char EXCEPT ![c] = @ + 1] /\ at' = [at EXCEPT ![c] = "check"]
     ELSE char' = [char EXCEPT ![c] = 1] /\ at' = [at EXCEPT ![c] = "none"]
  /\ UNCHANGED <<careless, device>>

\* The store arrives: the character goes into the FIFO, or is lost.
Arrive(c) ==
  /\ wire[c] # 0
  /\ wire' = [wire EXCEPT ![c] = 0]
  /\ IF fill < FifoSize THEN fill' = fill + 1 /\ UNCHANGED lost
                        ELSE lost' = TRUE /\ UNCHANGED fill
  /\ line' = IF wire[c] = LineLength THEN <<>> ELSE <<c, wire[c]>>
  /\ torn' = (torn \/ line # IF wire[c] = 1 THEN <<>> ELSE <<c, wire[c] - 1>>)
  /\ IF pending[c] THEN Observe(c) ELSE UNCHANGED vars
  /\ UNCHANGED <<careless, at, char>>

\* The line transmits a character.
Transmit == /\ fill > 0 /\ fill' = fill - 1
            /\ UNCHANGED <<vars, careless, at, char, wire, line, torn, lost>>

\* The lock, which its holder frees after its lines.
Locking(c) ==
  /\ \/ Attempt(c) \/ AcquireBarrier(c) \/ ReleaseStore(c)
     \/ at[c] = "none" /\ (ReleaseBarrier(c) \/ Load(c))
     \/ c \notin careless /\ AcquireCall(c)
  /\ UNCHANGED conVars

ConNext == Transmit \/ \E c \in Cores : \/ Locking(c) \/ PrintLocked(c) \/ PrintBare(c)
                                        \/ PutcCheck(c) \/ PutcWrite(c) \/ Arrive(c)

ConSafeSpec == ConInit /\ [][ConNext]_allVars

Running(c) ==
  \/ PutcCheck(c) \/ PutcWrite(c) \/ Arrive(c)
  \/ (Attempt(c) \/ AcquireBarrier(c) \/ ReleaseStore(c)) /\ UNCHANGED conVars

\* As for Spinlock: a core keeps executing, its stores arrive, a critical
\* section ends, and among the cores that try, one succeeds.  The line transmits,
\* and since only a few lines are printed without the lock, they do not keep a
\* core from the FIFO forever.
ConSpec ==
  /\ ConSafeSpec
  /\ WF_allVars(Transmit)
  /\ \A c \in Cores : SF_allVars(Running(c)) /\ SF_allVars(ReleaseBarrier(c) /\ Locking(c))
  /\ SF_allVars(\E c \in Cores : StoreExclusive(c) /\ Locking(c))

-----------------------------------------------------------------------------
\* While all take the lock, lines come out whole: also the last character of a
\* line, written just before the lock is free, is ahead of the next holder's.
LinesWhole == torn => careless # {}

\* uart_putc checks and writes in two steps, and still no character is lost
\* unless one core prints without the lock.
NothingLost == lost => careless # {}

-----------------------------------------------------------------------------
\* The strengthening that is inductive.  What the device has of c's line:
Before(c, n) == IF n = 1 THEN <<>> ELSE <<c, n - 1>>

Careful ==
  /\ ~torn /\ ~lost
  /\ \A c \in Cores :
       /\ pc[c] # "held" => at[c] = "none" /\ wire[c] = 0
       /\ pc[c] = "held" => line = Before(c, IF wire[c] = 0 THEN char[c] ELSE wire[c])
       /\ at[c] = "none" => char[c] = 1
       /\ at[c] = "write" => wire[c] = 0
       /\ at[c] = "write" \/ wire[c] # 0 => fill < FifoSize
       /\ wire[c] # 0 => /\ pending[c]
                         /\ wire[c] = IF at[c] = "none" THEN LineLength ELSE char[c] - 1
  /\ (\A c \in Cores : pc[c] # "held") => line = <<>>

ConIInv == ConTypeOK /\ IInv /\ (careless = {} => Careful)
=============================================================================
