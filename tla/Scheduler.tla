----------------------------- MODULE Scheduler -----------------------------
(***************************************************************************)
(* include/scheduler/scheduler.c on one core; the other cores have rows of *)
(* their own in every array.  Tasks are added, sched_run starts the first, *)
(* and tasks give up the core in task_yield or task_sleep_ms.  sched_tick  *)
(* is an interrupt handler and comes between any two accesses; nothing in  *)
(* the repository calls it or task_sleep_ms yet.                           *)
(*                                                                         *)
(* sched_context_switch (src/sched.S) is modelled by what it does: the old *)
(* task stops inside task_yield and the new one goes on where it stopped,  *)
(* or enters its function.                                                 *)
(***************************************************************************)
EXTENDS Integers

CONSTANTS
  MaxTasks,   \* bound on the tasks added (the array has 8 rows; 2 are used)
  MaxTick,    \* bound on the timer ticks
  Delays      \* the arguments of task_sleep_ms

ASSUME SchedulerAssumption ==
  /\ MaxTasks \in Nat \ {0}
  /\ MaxTick \in Nat
  /\ Delays \subseteq Nat

VARIABLES
  count,     \* task_count
  current,   \* current_task
  tick,      \* tick_count
  state,     \* state of each task; "none" for a row not yet used
  wake,      \* wake_tick of each task
  exec,      \* the task whose stack the core is on, or -1 for the boot stack
  pc,        \* where each task is in task_yield and task_sleep_ms
  local      \* new_idx of its task_yield, ms of its task_sleep_ms

vars == <<count, current, tick, state, wake, exec, pc, local>>

Tasks == 0 .. MaxTasks - 1

TypeOK ==
  /\ count \in 0 .. MaxTasks
  /\ current \in Tasks
  /\ tick \in 0 .. MaxTick
  /\ state \in [Tasks -> {"none", "ready", "running", "sleeping"}]
  /\ wake \in [Tasks -> Nat]
  /\ exec \in Tasks \cup {-1}
  /\ pc \in [Tasks -> {"body", "arm", "pick", "switch", "resume"}]
  /\ local \in [Tasks -> Nat]

\* The arrays are in .bss, zero at boot.
Init ==
  /\ count = 0 /\ current = 0 /\ tick = 0
  /\ state = [t \in Tasks |-> "none"]
  /\ wake = [t \in Tasks |-> 0]
  /\ exec = -1
  /\ pc = [t \in Tasks |-> "body"]
  /\ local = [t \in Tasks |-> 0]

-----------------------------------------------------------------------------
\* sched_add_task, called before sched_run.  The saved link register is entry.
AddTask ==
  /\ exec = -1 /\ count < MaxTasks
  /\ state' = [state EXCEPT ![count] = "ready"]
  /\ wake' = [wake EXCEPT ![count] = 0]
  /\ pc' = [pc EXCEPT ![count] = "body"]
  /\ count' = count + 1
  /\ UNCHANGED <<current, tick, exec, local>>

\* sched_run.  With no task it waits for events for ever.
Run ==
  /\ exec = -1 /\ count > 0
  /\ current' = 0 /\ exec' = 0
  /\ state' = [state EXCEPT ![0] = "running"]
  /\ UNCHANGED <<count, tick, wake, pc, local>>

\* sched_tick: one more tick, and the sleepers that are due become ready.
Tick ==
  /\ tick < MaxTick
  /\ tick' = tick + 1
  /\ state' = [t \in Tasks |->
                 IF t < count /\ state[t] = "sleeping" /\ tick + 1 >= wake[t]
                 THEN "ready" ELSE state[t]]
  /\ UNCHANGED <<count, current, wake, exec, pc, local>>

-----------------------------------------------------------------------------
Goto(t, from, to) == exec = t /\ pc[t] = from /\ pc' = [pc EXCEPT ![t] = to]

\* Variant for mutation: the search starts at task 1, not after the current one.
BugPickNext ==
  LET ready == {i \in 1 .. count : state[i % count] = "ready"}
  IN IF ready = {} THEN current
     ELSE (CHOOSE i \in ready : \A j \in ready : i <= j) % count

\* pick_next: the first ready task after the current one, in cyclic order, the
\* current one last; the current one, too, when none is ready.
PickNext ==
  LET ready == {i \in 1 .. count : state[(current + i) % count] = "ready"}
  IN IF ready = {} THEN current
     ELSE (current + CHOOSE i \in ready : \A j \in ready : i <= j) % count

\* The body of a task calls task_yield ...
Yield(t) ==
  /\ Goto(t, "body", "pick")
  /\ UNCHANGED <<count, current, tick, state, wake, exec, local>>

\* ... or task_sleep_ms(ms), which first marks the current task as sleeping ...
Sleep(t, ms) ==
  /\ Goto(t, "body", "arm")
  /\ state' = [state EXCEPT ![current] = "sleeping"]
  /\ local' = [local EXCEPT ![t] = ms]
  /\ UNCHANGED <<count, current, tick, wake, exec>>

\* ... then sets the tick at which it is due, and yields.
SleepArm(t) ==
  /\ Goto(t, "arm", "pick")
  /\ wake' = [wake EXCEPT ![current] = tick + local[t]]
  /\ UNCHANGED <<count, current, tick, state, exec, local>>

\* task_yield: pick_next finds another task ...
YieldPick(t) ==
  /\ PickNext # current
  /\ Goto(t, "pick", "switch")
  /\ local' = [local EXCEPT ![t] = PickNext]
  /\ UNCHANGED <<count, current, tick, state, wake, exec>>

\* ... or none, and task_yield returns.
YieldAlone(t) ==
  /\ PickNext = current
  /\ Goto(t, "pick", "body")
  /\ UNCHANGED <<count, current, tick, state, wake, exec, local>>

\* Variant for mutation: the task that gives way still counts as running.
BugYieldSwitch(t) ==
  /\ Goto(t, "switch", "resume")
  /\ state' = [state EXCEPT ![local[t]] = "running"]
  /\ current' = local[t] /\ exec' = local[t]
  /\ UNCHANGED <<count, tick, wake, local>>

\* The old task is ready, whatever it was; the new one runs on its own stack.
YieldSwitch(t) ==
  /\ Goto(t, "switch", "resume")
  /\ state' = [state EXCEPT ![current] = "ready", ![local[t]] = "running"]
  /\ current' = local[t] /\ exec' = local[t]
  /\ UNCHANGED <<count, tick, wake, local>>

\* The "ret" of sched_context_switch, back into the task_yield it left.
Resume(t) ==
  /\ Goto(t, "resume", "body")
  /\ UNCHANGED <<count, current, tick, state, wake, exec, local>>

-----------------------------------------------------------------------------
TaskStep(t) == \/ Yield(t) \/ \E ms \in Delays : Sleep(t, ms)
               \/ SleepArm(t) \/ YieldPick(t) \/ YieldAlone(t)
               \/ YieldSwitch(t) \/ Resume(t)

Next == AddTask \/ Run \/ Tick \/ \E t \in Tasks : TaskStep(t)

SafeSpec == Init /\ [][Next]_vars

\* The task on the core keeps executing and calls task_yield again and again,
\* as the loop of every task in dispatcher.c does.
Spec == SafeSpec /\ WF_vars(\E t \in Tasks : TaskStep(t))

-----------------------------------------------------------------------------
\* Whatever ticks come and whichever tasks sleep, at most one task is marked as
\* running, it is the current one, and it is the one whose stack is in use.
OneRunning ==
  \A t \in Tasks : state[t] = "running" => t = current /\ t = exec

\* The strengthening that is inductive: every task but the current one waits
\* for its turn, ready, in the middle of task_yield or before its first step.
OthersReady ==
  exec # -1 => \A t \in 0 .. count - 1 : t # current =>
                 state[t] = "ready" /\ pc[t] \in {"body", "resume"}

OnItsStack == exec # -1 => exec = current /\ current < count
NotStarted == exec = -1 => \A t \in Tasks : /\ pc[t] = "body"
                                            /\ state[t] = IF t < count THEN "ready" ELSE "none"
Unused == \A t \in Tasks : t >= count => state[t] = "none" /\ pc[t] = "body"
Chosen == exec # -1 /\ pc[current] = "switch" =>
            local[current] = (current + 1) % count /\ local[current] # current

IInv == /\ TypeOK /\ OneRunning /\ OthersReady /\ OnItsStack
        /\ NotStarted /\ Unused /\ Chosen

\* task_sleep_ms returns when its time has come: "returns here ~ms milliseconds
\* later" (scheduler.c:140), "wake when tick_count >= this" (scheduler.h:45).
SleepLasts ==
  \A t \in Tasks : exec = t /\ pc[t] = "body" => tick >= wake[t]

-----------------------------------------------------------------------------
RR == INSTANCE RoundRobin WITH n <- count, turn <- exec

\* The tasks take strict turns, also when they sleep: a sleeping task is made
\* ready as it gives way and so comes round like any other.
ImplementsRoundRobin == RR!Spec
=============================================================================
