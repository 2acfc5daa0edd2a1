-------------------------------- MODULE Boot --------------------------------
(***************************************************************************)
(* From reset to the main functions: _start of src/boot.S, mmu_on of       *)
(* src/mmu.S on every core, and main of src/main.c on Core 0 up to the     *)
(* start of the other cores with psci_cpu_on.                              *)
(*                                                                         *)
(* mmu_on is one instruction or one group of stores per step.  The lock    *)
(* has a WFE in its loop and no SEV: what wakes a waiting core is the loss *)
(* of its own exclusive reservation, which its event register records.     *)
(* .data needs no copy: its load address is its run-time address.          *)
(***************************************************************************)
EXTENDS Integers, Sequences

CONSTANTS
  Last,      \* the highest core number, 3
  AtReset,   \* the sets of cores that may execute from reset
  Faulty     \* the sets of cores that may read back another TCR than written

Cores == 0 .. Last

ASSUME BootAssumption ==
  /\ Last \in Nat
  /\ AtReset \subseteq {s \in SUBSET Cores : 0 \in s}
  /\ Faulty \subseteq SUBSET Cores

\* The calls of main that come before psci_cpu_on.
MainInits == <<"spinlock_init", "uart_init", "ring_buffer_init", "hmac_key_init", "mailbox_init">>

VARIABLES
  early,     \* the cores that execute from reset
  broken,    \* the cores whose TCR check fails
  mmu_lock,
  mmu_init,  \* 1 once a core has built the table
  table,     \* how far the page table at TTB_BASE is written
  pending,   \* the cores with stores to the table that a walk may not see
  monitor,   \* monitor[c]: core c's exclusive reservation on mmu_lock
  event,     \* the event register of each core
  pc,        \* the next instruction of each core, "run" in its main function
  inits,     \* how many of MainInits Core 0 has done
  next       \* the next core for psci_cpu_on

walk    == <<mmu_init, table, pending>>
sync    == <<mmu_lock, monitor, event>>
main    == <<inits, next>>
machine == <<early, broken>>
vars    == <<machine, walk, sync, main, pc>>

Critical == {"check", "zero", "device", "normal", "mark", "regs", "flush", "enable", "release", "hang"}
MmuIsOn  == {"release", "run"}

TypeOK ==
  /\ early \in AtReset /\ broken \in Faulty
  /\ mmu_lock \in {0, 1} /\ mmu_init \in {0, 1}
  /\ table \in {"garbage", "zero", "device", "full"}
  /\ pending \subseteq Cores
  /\ monitor \in [Cores -> BOOLEAN] /\ event \in [Cores -> BOOLEAN]
  /\ pc \in [Cores -> {"off", "bss", "entry", "wfe", "ldaxr", "stxr", "run"} \cup Critical]
  /\ inits \in 0 .. Len(MainInits) /\ next \in 1 .. Last + 1

Init ==
  /\ early \in AtReset /\ broken \in Faulty
  /\ mmu_lock = 0 /\ mmu_init = 0
  /\ table = "garbage" /\ pending = {}
  /\ monitor = [c \in Cores |-> FALSE]
  /\ event = [c \in Cores |-> FALSE]
  /\ pc = [c \in Cores |-> IF c = 0 THEN "bss" ELSE IF c \in early THEN "entry" ELSE "off"]
  /\ inits = 0 /\ next = 1

-----------------------------------------------------------------------------
Goto(c, from, to) == pc[c] = from /\ pc' = [pc EXCEPT ![c] = to]

\* Variant for mutation: a reservation is lost without an event.
BugWriteLock(c, v) ==
  /\ mmu_lock' = v
  /\ monitor' = [d \in Cores |-> FALSE]
  /\ UNCHANGED event

\* A store to mmu_lock: all reservations on it are lost, and each other core
\* that had one sees an event.
WriteLock(c, v) ==
  /\ mmu_lock' = v
  /\ monitor' = [d \in Cores |-> FALSE]
  /\ event' = [d \in Cores |-> event[d] \/ (monitor[d] /\ d # c)]

\* A core loses its reservation for another reason, such as a store near it.
LoseReservation(c) ==
  /\ monitor[c]
  /\ monitor' = [monitor EXCEPT ![c] = FALSE]
  /\ event' = [event EXCEPT ![c] = TRUE]
  /\ UNCHANGED <<machine, walk, mmu_lock, main, pc>>

\* _start on Core 0: clear .bss.
ClearBss ==
  /\ Goto(0, "bss", "entry")
  /\ UNCHANGED <<machine, walk, sync, main>>

\* Variant for mutation: no SEVL.
BugEnter(c) ==
  /\ Goto(c, "entry", "wfe")
  /\ UNCHANGED <<machine, walk, sync, main>>

\* SEVL
Enter(c) ==
  /\ Goto(c, "entry", "wfe")
  /\ event' = [event EXCEPT ![c] = TRUE]
  /\ UNCHANGED <<machine, walk, mmu_lock, monitor, main>>

\* WFE.  It may end without an event, and does end with one.
Wfe(c) ==
  /\ Goto(c, "wfe", "ldaxr")
  /\ event' = [event EXCEPT ![c] = FALSE]
  /\ UNCHANGED <<machine, walk, mmu_lock, monitor, main>>

\* LDAXR, and back to the WFE if the lock is taken.
LoadExclusive(c) ==
  /\ Goto(c, "ldaxr", IF mmu_lock = 0 THEN "stxr" ELSE "wfe")
  /\ monitor' = [monitor EXCEPT ![c] = TRUE]
  /\ UNCHANGED <<machine, walk, mmu_lock, event, main>>

StoreExclusive(c) ==
  /\ monitor[c]
  /\ Goto(c, "stxr", "check")
  /\ WriteLock(c, 1)
  /\ UNCHANGED <<machine, walk, main>>

\* The STXR fails: back to the WFE, not past it.  It fails only when the reservation is
\* lost, and so has left an event.  (The architecture permits others; after such a failure
\* the core would sleep until some event comes.)
StoreExclusiveFails(c) ==
  /\ ~monitor[c]
  /\ Goto(c, "stxr", "wfe")
  /\ UNCHANGED <<machine, walk, sync, main>>

-----------------------------------------------------------------------------
CheckInit(c) ==
  /\ Goto(c, "check", IF mmu_init = 0 THEN "zero" ELSE "regs")
  /\ UNCHANGED <<machine, walk, sync, main>>

\* Stores to the table: all 512 entries, entry 0, entry 1.
Build(c, from, to, written) ==
  /\ Goto(c, from, to)
  /\ table' = written
  /\ pending' = pending \cup {c}
  /\ UNCHANGED <<machine, mmu_init, sync, main>>

BuildTable(c) == \/ Build(c, "zero", "device", "zero")
                 \/ Build(c, "device", "normal", "device")
                 \/ Build(c, "normal", "mark", "full")

MarkBuilt(c) ==
  /\ Goto(c, "mark", "regs")
  /\ mmu_init' = 1
  /\ UNCHANGED <<machine, table, pending, sync, main>>

\* The stores of a core get to memory at a time of their own.
Drain(c) ==
  /\ c \in pending /\ pending' = pending \ {c}
  /\ UNCHANGED <<machine, mmu_init, table, sync, main, pc>>

\* TTBR0, MAIR and TCR, and TCR read back.
LoadRegs(c) ==
  /\ Goto(c, "regs", IF c \in broken THEN "hang" ELSE "flush")
  /\ UNCHANGED <<machine, walk, sync, main>>

\* Variant for mutation: no DSB.
BugFlush(c) ==
  /\ Goto(c, "flush", "enable")
  /\ UNCHANGED <<machine, walk, sync, main>>

\* TLBI VMALLE1IS, and the DSB ISH that waits for this core's stores.
Flush(c) ==
  /\ c \notin pending
  /\ Goto(c, "flush", "enable")
  /\ UNCHANGED <<machine, walk, sync, main>>

\* SCTLR: the core translates its addresses from here on.
Enable(c) ==
  /\ Goto(c, "enable", "release")
  /\ UNCHANGED <<machine, walk, sync, main>>

\* STLR, and the branch to main or secondary_main.
Release(c) ==
  /\ Goto(c, "release", "run")
  /\ WriteLock(c, 0)
  /\ UNCHANGED <<machine, walk, main>>

-----------------------------------------------------------------------------
MainInit ==
  /\ pc[0] = "run" /\ inits < Len(MainInits)
  /\ inits' = inits + 1
  /\ UNCHANGED <<machine, walk, sync, next, pc>>

\* Variant for mutation: the cores start before the mailboxes are initialised.
BugCpuOn ==
  /\ pc[0] = "run" /\ inits >= 4
  /\ next <= Last /\ next' = next + 1
  /\ pc' \in {pc, [pc EXCEPT ![next] = IF @ = "off" THEN "entry" ELSE @]}
  /\ UNCHANGED <<machine, walk, sync, inits>>

\* psci_cpu_on of the next core.  An error, as for a core that is on already,
\* is printed and otherwise ignored.
CpuOn ==
  /\ pc[0] = "run" /\ inits = Len(MainInits)
  /\ next <= Last /\ next' = next + 1
  /\ pc' \in {pc, [pc EXCEPT ![next] = IF @ = "off" THEN "entry" ELSE @]}
  /\ UNCHANGED <<machine, walk, sync, inits>>

MmuOn(c) == \/ Enter(c) \/ LoadExclusive(c) \/ StoreExclusive(c) \/ StoreExclusiveFails(c)
            \/ CheckInit(c) \/ BuildTable(c) \/ MarkBuilt(c)
            \/ LoadRegs(c) \/ Flush(c) \/ Enable(c) \/ Release(c)

Next == \/ ClearBss \/ MainInit \/ CpuOn
        \/ \E c \in Cores : MmuOn(c) \/ Wfe(c) \/ LoseReservation(c) \/ Drain(c)

SafeSpec == Init /\ [][Next]_vars

\* A core executes; its WFE ends when there is an event; its stores drain; and
\* among the cores that keep trying, one's STXR succeeds.
Fairness ==
  /\ WF_vars(ClearBss \/ MainInit \/ CpuOn)
  /\ \A c \in Cores : /\ WF_vars(MmuOn(c))
                      /\ WF_vars(event[c] /\ Wfe(c))
                      /\ WF_vars(Drain(c))
  /\ SF_vars(\E c \in Cores : StoreExclusive(c))

Spec == SafeSpec /\ Fairness

-----------------------------------------------------------------------------
\* Whoever translates addresses finds the whole table, with no store to it on
\* its way: nobody rebuilds the table under a core that has its MMU on, and the
\* builder waits for its stores before it turns on its own.
TableIsComplete ==
  \A c \in Cores : pc[c] \in MmuIsOn => table = "full" /\ pending = {}

\* A core that waits in the WFE of mmu_on will wake: there is an event already,
\* or it still has the reservation whose loss at the STLR will be one.
NoLostWakeup ==
  \A c \in Cores : pc[c] = "wfe" => event[c] \/ (monitor[c] /\ mmu_lock = 1)

\* When the other cores are started by psci_cpu_on, each finds what it uses
\* initialised when it gets to secondary_main.
InitialisedFirst ==
  early = {0} => \A c \in Cores \ {0} : pc[c] = "run" => inits = Len(MainInits)

\* Every core that begins mmu_on gets through it, in whatever order they come,
\* unless a core hangs with the lock after its TCR check.
EveryoneGetsOn ==
  \A c \in Cores : broken = {} /\ pc[c] = "entry" ~> pc[c] = "run"

-----------------------------------------------------------------------------
\* The strengthening that is inductive.
OneInside == /\ \A c, d \in Cores : pc[c] \in Critical /\ pc[d] \in Critical => c = d
             /\ mmu_lock = 1 <=> \E c \in Cores : pc[c] \in Critical
FreshReservation == \A c \in Cores : pc[c] = "stxr" /\ monitor[c] => mmu_lock = 0
Building == {"zero", "device", "normal", "mark"}
BuildersFirst == (\E c \in Cores : pc[c] \in Building) => mmu_init = 0
TableAt(c) ==
  /\ pc[c] \in {"regs", "flush", "enable", "hang"} \cup MmuIsOn => mmu_init = 1
  /\ pc[c] = "normal" => table = "device"
  /\ pc[c] = "mark" => table = "full"
  /\ c \in pending => pc[c] \in Critical \ {"check", "enable", "release"}
BuiltIsFull == mmu_init = 1 => table = "full"
EventOnLoss == \A c \in Cores : pc[c] = "stxr" /\ ~monitor[c] => event[c]
OthersAreOff ==
  early = {0} /\ inits < Len(MainInits) => next = 1 /\ \A c \in Cores \ {0} : pc[c] = "off"

IInv == /\ TypeOK /\ OneInside /\ FreshReservation /\ BuildersFirst
        /\ (\A c \in Cores : TableAt(c)) /\ BuiltIsFull
        /\ EventOnLoss /\ NoLostWakeup /\ OthersAreOff /\ TableIsComplete
=============================================================================
