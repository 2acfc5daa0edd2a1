------------------------ MODULE ContextSwitchProofs ------------------------
(***************************************************************************)
(* Proofs about Scheduler.tla and ContextSwitch.tla for any number of      *)
(* tasks, ticks, delays and words on the stacks: one task runs at a time   *)
(* and the tasks take strict turns (the safety part of RoundRobin); the    *)
(* machine implements the scheduler, and a task finds its registers and    *)
(* its stack as it left them.                                              *)
(***************************************************************************)
EXTENDS ContextSwitch, TLAPS

\* The next index in cyclic order is an index, and another one unless it is alone.
LEMMA CyclicNext ==
  ASSUME NEW n \in Nat \ {0}, NEW i \in 0 .. n - 1
  PROVE  /\ (i + 1) % n = IF i = n - 1 THEN 0 ELSE i + 1
         /\ (i + 1) % n \in 0 .. n - 1
         /\ n # 1 => (i + 1) % n # i
  <1>1. CASE i = n - 1
    BY <1>1
  <1>2. CASE i # n - 1
    <2>1. i + 1 \in 0 .. n - 1
      BY <1>2
    <2>2. (i + 1) % n = i + 1
      BY <2>1
    <2>3. QED
      BY <2>1, <2>2, <1>2
  <1>3. QED
    BY <1>1, <1>2

\* Since all other tasks are ready, pick_next returns the one right after the
\* current one, which is the current one itself when it is alone.
LEMMA PickNextIsNext ==
  ASSUME IInv, exec # -1
  PROVE  PickNext = (current + 1) % count
  <1> DEFINE ready == {i \in 1 .. count : state[(current + i) % count] = "ready"}
             least == CHOOSE i \in ready : \A j \in ready : i <= j
  <1>1. count \in Nat \ {0} /\ current \in 0 .. count - 1
    BY SchedulerAssumption DEF IInv, TypeOK, OnItsStack, Tasks
  <1>2. PickNext = IF ready = {} THEN current ELSE (current + least) % count
    BY DEF PickNext
  <1>3. CASE count = 1
    <2>1. current = 0 /\ (current + 1) % count = 0
      BY <1>1, <1>3
    <2>2. ready \subseteq {1}
      BY <1>3
    <2>3. ready # {} => ready = {1}
      BY <2>2
    <2>4. ready # {} => least = 1
      BY <2>3
    <2>5. QED
      BY <1>2, <2>1, <2>4
  <1>4. CASE count # 1
    <2>1. (current + 1) % count \in 0 .. count - 1 /\ (current + 1) % count # current
      BY <1>1, <1>4, CyclicNext
    <2>2. 1 \in ready
      BY <1>1, <2>1 DEF IInv, OthersReady
    <2>3. \A i \in ready : i \in Nat /\ 1 <= i
      BY <1>1
    <2>4. least \in ready /\ \A j \in ready : least <= j
      <3> HIDE DEF ready
      <3>1. \E i \in ready : \A j \in ready : i <= j
        BY <2>2, <2>3
      <3>2. QED
        BY <3>1
    <2>5. least = 1
      <3> HIDE DEF ready, least
      <3>1. QED
        BY <2>2, <2>3, <2>4
    <2>6. QED
      <3> HIDE DEF ready, least
      <3>1. QED
        BY <1>2, <2>2, <2>5
  <1>5. QED
    BY <1>3, <1>4

\* An initial state satisfies the inductive invariant.
LEMMA InitIInv == Init => IInv
  BY SchedulerAssumption DEF Init, IInv, TypeOK, OneRunning, OthersReady,
     OnItsStack, NotStarted, Unused, Chosen, Tasks

\* Adding tasks and starting the first one preserve it.
LEMMA StartPreserves == IInv /\ (AddTask \/ Run) => IInv'
  <1> SUFFICES ASSUME IInv, AddTask \/ Run PROVE IInv'
    OBVIOUS
  <1> USE SchedulerAssumption DEF IInv, Tasks
  <1>1. CASE AddTask
    BY <1>1 DEF AddTask, TypeOK, OneRunning, OthersReady, OnItsStack, NotStarted, Unused, Chosen
  <1>2. CASE Run
    BY <1>2 DEF Run, TypeOK, OneRunning, OthersReady, OnItsStack, NotStarted, Unused, Chosen
  <1>3. QED
    BY <1>1, <1>2

\* The interrupt wakes at most the current task, which is the only one that can
\* be marked as sleeping.
LEMMA TickPreserves == IInv /\ Tick => IInv'
  <1> SUFFICES ASSUME IInv, Tick PROVE IInv'
    OBVIOUS
  <1> USE SchedulerAssumption DEF IInv, Tasks
  <1>1. \A t \in Tasks : \/ state'[t] = state[t]
                         \/ /\ t < count /\ state[t] = "sleeping"
                            /\ state'[t] = "ready"
    BY DEF Tick
  <1>2. state' \in [Tasks -> {"none", "ready", "running", "sleeping"}]
    BY DEF Tick, TypeOK
  <1>3. TypeOK'
    BY <1>2 DEF Tick, TypeOK
  <1>4. OneRunning' /\ OthersReady' /\ OnItsStack' /\ Unused' /\ Chosen'
    BY <1>1 DEF Tick, TypeOK, OneRunning, OthersReady, OnItsStack, Unused, Chosen
  <1>5. NotStarted'
    BY <1>1 DEF Tick, TypeOK, NotStarted
  <1>6. QED
    BY <1>3, <1>4, <1>5

\* So does every step of the task that is on the core.
LEMMA TaskPreserves ==
  ASSUME IInv, NEW t \in Tasks, TaskStep(t)
  PROVE  IInv'
  <1> USE SchedulerAssumption DEF IInv, Tasks, Goto
  <1>0. exec = t /\ current = t /\ t < count /\ exec # -1
    BY DEF TaskStep, Yield, Sleep, SleepArm, YieldPick, YieldAlone, YieldSwitch,
           Resume, OnItsStack
  <1>1. CASE Yield(t)
    BY <1>0, <1>1 DEF Yield, TypeOK, OneRunning, OthersReady, OnItsStack, NotStarted, Unused, Chosen
  <1>2. ASSUME NEW ms \in Delays, Sleep(t, ms) PROVE IInv'
    BY <1>0, <1>2 DEF Sleep, TypeOK, OneRunning, OthersReady, OnItsStack, NotStarted, Unused, Chosen
  <1>3. CASE SleepArm(t)
    BY <1>0, <1>3 DEF SleepArm, TypeOK, OneRunning, OthersReady, OnItsStack, NotStarted, Unused, Chosen
  <1>4. CASE YieldPick(t)
    <2>1. PickNext = (current + 1) % count /\ PickNext \in 0 .. count - 1
      BY <1>0, PickNextIsNext, CyclicNext DEF TypeOK
    <2>2. QED
      BY <1>0, <1>4, <2>1 DEF YieldPick, TypeOK, OneRunning, OthersReady, OnItsStack, NotStarted, Unused, Chosen
  <1>5. CASE YieldAlone(t)
    BY <1>0, <1>5 DEF YieldAlone, TypeOK, OneRunning, OthersReady, OnItsStack, NotStarted, Unused, Chosen
  <1>6. CASE YieldSwitch(t)
    <2>1. local[t] \in 0 .. count - 1 /\ local[t] # t
      BY <1>0, <1>6, CyclicNext DEF YieldSwitch, Chosen, TypeOK
    <2>2. pc[local[t]] \in {"body", "resume"}
      BY <1>0, <2>1 DEF OthersReady
    <2> DEFINE u == local[t]
    <2>3. u \in Tasks /\ u # t /\ u < count
      BY <2>1, <1>0 DEF TypeOK
    <2>4. /\ current' = u /\ exec' = u
          /\ UNCHANGED <<count, tick, wake, local>>
      BY <1>6 DEF YieldSwitch
    <2>5. /\ state' = [state EXCEPT ![t] = "ready", ![u] = "running"]
          /\ pc' = [pc EXCEPT ![t] = "resume"]
          /\ pc[u] \in {"body", "resume"}
      BY <1>0, <1>6, <2>2 DEF YieldSwitch
    <2> HIDE DEF u
    <2>6. TypeOK'
      BY <2>3, <2>4, <2>5 DEF TypeOK
    <2>7. OneRunning' /\ OnItsStack' /\ NotStarted'
      BY <1>0, <2>3, <2>4, <2>5 DEF TypeOK, OneRunning, OnItsStack, NotStarted
    <2>8. OthersReady' /\ Unused'
      BY <1>0, <2>3, <2>4, <2>5 DEF TypeOK, OthersReady, Unused
    <2>9. Chosen'
      BY <2>3, <2>4, <2>5 DEF TypeOK, Chosen
    <2>10. QED
      BY <2>6, <2>7, <2>8, <2>9
  <1>7. CASE Resume(t)
    BY <1>0, <1>7 DEF Resume, TypeOK, OneRunning, OthersReady, OnItsStack, NotStarted, Unused, Chosen
  <1>8. QED
    BY <1>1, <1>2, <1>3, <1>4, <1>5, <1>6, <1>7 DEF TaskStep

\* So does every step of the specification.
LEMMA NextIInv == IInv /\ [Next]_vars => IInv'
  <1>1. IInv /\ UNCHANGED vars => IInv'
    BY DEF vars, IInv, TypeOK, OneRunning, OthersReady, OnItsStack, NotStarted, Unused, Chosen
  <1>2. QED
    BY <1>1, StartPreserves, TickPreserves, TaskPreserves DEF Next

\* The inductive invariant holds in every reachable state, for any number of tasks.
THEOREM Invariance == SafeSpec => []IInv
  BY InitIInv, NextIInv, PTL DEF SafeSpec

\* Every variable of the scheduler keeps its type, current_task stays in the array.
THEOREM TypeCorrect == SafeSpec => []TypeOK
  <1>1. IInv => TypeOK
    BY DEF IInv
  <1>2. QED
    BY Invariance, <1>1, PTL

\* Whatever the timer interrupt and task_sleep_ms do, only current_task is marked
\* as running, and it is the task whose stack the core is on.
THEOREM RunningIsCurrent == SafeSpec => []OneRunning
  <1>1. IInv => OneRunning
    BY DEF IInv
  <1>2. QED
    BY Invariance, <1>1, PTL

\* Every context switch of task_yield goes to the next task in the order of
\* sched_add_task, so none is passed over (the safety part of RoundRobin).
THEOREM TasksTakeTurns == SafeSpec => RR!SafeSpec
  <1>1. Init => RR!Init
    BY DEF Init, RR!Init
  <1>2. ASSUME IInv, [Next]_vars PROVE [RR!Next]_(RR!vars)
    <2> USE DEF RR!Next, RR!vars
    <2>1. CASE AddTask
      BY <2>1 DEF AddTask, RR!Add
    <2>2. CASE Run
      BY <2>2 DEF Run, RR!Start, IInv, TypeOK
    <2>3. CASE Tick
      BY <2>3 DEF Tick
    <2>4. ASSUME NEW t \in Tasks, YieldSwitch(t) PROVE RR!Pass
      <3>1. exec = t /\ exec # -1 /\ current = t /\ pc[current] = "switch"
        BY <2>4, <1>2, SchedulerAssumption DEF YieldSwitch, Goto, IInv, OnItsStack, Tasks
      <3>2. exec' = local[t] /\ local[t] = (exec + 1) % count /\ count' = count
        BY <3>1, <2>4, <1>2 DEF YieldSwitch, IInv, Chosen
      <3>3. QED
        BY <3>1, <3>2 DEF RR!Pass
    <2>5. ASSUME NEW t \in Tasks, TaskStep(t), ~YieldSwitch(t) PROVE UNCHANGED <<count, exec>>
      BY <2>5 DEF TaskStep, Yield, Sleep, SleepArm, YieldPick, YieldAlone, Resume
    <2>6. CASE UNCHANGED vars
      BY <2>6 DEF vars
    <2>7. QED
      BY <1>2, <2>1, <2>2, <2>3, <2>4, <2>5, <2>6 DEF Next
  <1>3. QED
    BY Invariance, <1>1, <1>2, PTL DEF SafeSpec, RR!SafeSpec

-----------------------------------------------------------------------------
\* The steps of the machine are steps of the scheduler, or leave it alone.
LEMMA StepsOfScheduler == [SwitchNext]_allVars => [Next]_vars
  <1>1. ASSUME SwitchAdd \/ SwitchRun PROVE Next
    BY <1>1 DEF SwitchAdd, SwitchRun, InC, Next
  <1>2. ASSUME Switching PROVE UNCHANGED vars
    BY <1>2 DEF Switching, Stp, Ldp, MovX2, StrX2, LdrX2, MovSp, Ret, At
  <1>3. ASSUME NEW t \in Tasks, TaskCode(t) PROVE [Next]_vars
    BY <1>3 DEF TaskCode, SwitchYield, SwitchBody, SwitchC, SwitchBack, Enter, InC, Next, TaskStep
  <1>4. ASSUME Irq PROVE [Next]_vars
    BY <1>4 DEF Irq, IrqEnter, Handler, IrqExit, Next
  <1>5. ASSUME UNCHANGED allVars PROVE UNCHANGED vars
    BY <1>5 DEF allVars
  <1> QED
    BY <1>1, <1>2, <1>3, <1>4, <1>5 DEF SwitchNext, Code

\* The machine implements Scheduler, whose theorems therefore hold of it.
THEOREM MachineSchedules == SwitchSafeSpec => SafeSpec
  <1>1. SwitchInit => Init
    BY DEF SwitchInit
  <1> QED
    BY <1>1, StepsOfScheduler, PTL DEF SwitchSafeSpec, SafeSpec

-----------------------------------------------------------------------------

\* Every word that the model names has the type of a word.
LEMMA Words ==
  /\ Zero \in Word /\ Back \in Word /\ Junk \in Word /\ CCode \in Word
  /\ Trap \in Word /\ Restore \in Word
  /\ \A i, j \in Int : /\ Entry(i) \in Word /\ Instr(i) \in Word /\ Tcb(i) \in Word
                       /\ Sp(i, j) \in Word /\ Sp(i, j)[2] = i /\ Sp(i, j)[3] = j
                       /\ Tcb(i)[2] = i
  BY DEF Word, Zero, Back, Junk, CCode, Trap, Restore, Entry, Instr, Tcb, Sp

\* No instruction of the code is one of the interrupt handler's.
LEMMA Handlers ==
  /\ Trap # Restore
  /\ CCode \notin {Trap, Restore} /\ Back \notin {Trap, Restore}
  /\ \A i \in Int : Entry(i) \notin {Trap, Restore} /\ Instr(i) \notin {Trap, Restore}
  BY DEF Back, CCode, Trap, Restore, Entry, Instr

\* What is kept of a task stays while nothing changes in its part of its stack.
LEMMA KeptStays ==
  ASSUME NEW t, NEW n \in 0 .. 12, Kept(t, n), pc'[t] = pc[t], work'[t] = work[t],
         \A d \in 1 .. Used(t) + n : mem'[t][d] = mem[t][d]
  PROVE  Kept(t, n)'
  <1>1. Used(t) \in Nat /\ Used(t)' = Used(t)
    BY FrameAssumption DEF Used
  <1>2. \A k : Value(t, k)' = Value(t, k) /\ Own(k, t)' = Own(k, t)
    BY DEF Value, Own
  <1>3. \A d \in 1 .. Used(t) : mem'[t][d] = mem[t][d]
    BY <1>1
  <1>4. \A s \in 1 .. n : mem'[t][Used(t) + s] = mem[t][Used(t) + s]
    BY <1>1
  <1> QED
    BY <1>1, <1>2, <1>3, <1>4 DEF Kept

\* A waiting task stays as it is while nobody touches its stack and its sp.
LEMMA ParkedStays ==
  ASSUME NEW t, Parked(t), pc'[t] = pc[t], work'[t] = work[t], saved'[t] = saved[t],
         \A d \in 1 .. Depth : mem'[t][d] = mem[t][d]
  PROVE  Parked(t)'
  <1>1. Used(t) \in Nat /\ Used(t)' = Used(t) /\ Used(t) + 12 <= Depth
    BY FrameAssumption DEF Used, Depth, EXC
  <1>2. \A d \in 1 .. Used(t) + 12 : mem'[t][d] = mem[t][d]
    BY <1>1, FrameAssumption DEF Depth, EXC
  <1>3. Kept(t, 12)'
    BY <1>2, KeptStays DEF Parked
  <1> QED
    BY <1>1, <1>3 DEF Parked, Sp

\* What the invariant says of an interrupted code depends on its registers, its
\* stack pointer, its next instruction, and the stacks up to that pointer.
LEMMA DependsOn ==
  ASSUME TypeOK, CodeInv, UNCHANGED <<count, exec, pc, saved, work, CodeRegs, CodeSp, CodeIp>>,
         \A o \in Owner, d \in 1 .. Depth :
           o # CodeSp[2] \/ d <= CodeSp[3] => mem'[o][d] = mem[o][d]
  PROVE  CodeInv'
  <1>0. \A t \in 0 .. count - 1 : t \in Owner
    BY SchedulerAssumption DEF TypeOK, Owner, Tasks
  <1>1. ASSUME NEW o, Others(o), CodeSp[2] = o PROVE Others(o)'
    <2>1. ASSUME NEW t \in 0 .. count - 1, t # o PROVE Parked(t)'
      BY <1>0, <1>1, <2>1, ParkedStays DEF Others
    <2> QED
      BY <2>1 DEF Others
  <1>2. ASSUME NEW o \in Owner, NEW n \in 0 .. 12, Kept(o, n), CodeSp = Sp(o, Used(o) + n)
        PROVE  Kept(o, n)'
    <2>1. Used(o) \in Nat /\ Used(o) + n <= Depth
      BY FrameAssumption DEF Used, Depth, EXC
    <2>2. \A d \in 1 .. Used(o) + n : mem'[o][d] = mem[o][d]
      BY <2>1, <1>2, FrameAssumption DEF Sp, Depth, EXC
    <2> QED
      BY <1>2, <2>2, KeptStays
  <1>3. CASE AtStart
    <2>1. Others(-1)'
      BY <1>1, <1>3 DEF AtStart, Sp
    <2> QED
      BY <1>3, <2>1 DEF AtStart, CodeInv, Sp
  <1>4. CASE InTask
    <2> DEFINE e == exec
    <2>1. Others(e)' /\ e \in Owner
      BY <1>0, <1>1, <1>4 DEF InTask, Sp
    <2>2. \A d \in 1 .. Frame : mem'[e][d] = mem[e][d]
      BY <1>4, <2>1, FrameAssumption DEF InTask, Sp, Depth, EXC
    <2> QED
      BY <1>4, <2>1, <2>2 DEF InTask, CodeInv, Sp, Own
  <1>5. CASE AtEntry
    <2>1. Others(exec)'
      BY <1>1, <1>5 DEF AtEntry, Sp
    <2> QED
      BY <1>5, <2>1 DEF AtEntry, CodeInv, Sp, Entry
  <1>6. ASSUME NEW n \in 1 .. 10, NEW o \in Owner, Saving(n, o) PROVE Saving(n, o)'
    <2>1. Others(o)' /\ Pushed(n) \in 0 .. 12
      BY <1>1, <1>6 DEF Saving, Sp, Pushed
    <2>2. o # -1 => Kept(o, Pushed(n))'
      BY <1>2, <1>6, <2>1 DEF Saving, Used
    <2>3. \A k : Value(o, k)' = Value(o, k)
      BY DEF Value, Own
    <2> QED
      BY <1>6, <2>1, <2>2, <2>3 DEF Saving, Sp, Instr, Tcb
  <1>7. ASSUME NEW n \in 11 .. 17, Loading(n) PROVE Loading(n)'
    <2> DEFINE e == exec
    <2>1. Others(e)' /\ e \in Owner /\ 34 - 2 * n \in 0 .. 12
      BY <1>0, <1>1, <1>7 DEF Loading, Sp
    <2>2. CodeSp = Sp(e, Used(e) + (34 - 2 * n))
      BY <1>7, FrameAssumption DEF Loading, Used
    <2>3. Kept(e, 34 - 2 * n)'
      <3> DEFINE m == 34 - 2 * n
      <3>1. Kept(e, m) /\ m \in 0 .. 12 /\ CodeSp = Sp(e, Used(e) + m)
        BY <1>7, <2>1, <2>2 DEF Loading
      <3> HIDE DEF m
      <3>2. Kept(e, m)'
        BY <1>2, <2>1, <3>1
      <3> QED
        BY <3>2 DEF m
    <2>4. \A k : Value(e, k)' = Value(e, k) /\ Used(e)' = Used(e)
      BY DEF Value, Own, Used
    <2> QED
      BY <1>7, <2>1, <2>3, <2>4 DEF Loading, Sp, Instr
  <1> QED
    BY <1>3, <1>4, <1>5, <1>6, <1>7 DEF CodeInv

\* The code's stack pointer is within a stack, with room for the frame of an
\* exception, and its next instruction is not one of the handler.
LEMMA CodeDepth == TypeOK /\ CodeInv => StackOK
  <1> SUFFICES ASSUME TypeOK, CodeInv PROVE StackOK
    OBVIOUS
  <1>0. \A t \in 0 .. count - 1 : t \in Owner
    BY SchedulerAssumption DEF TypeOK, Owner, Tasks
  <1>1. CASE AtStart
    BY <1>1, Handlers, FrameAssumption DEF StackOK, AtStart, Sp, Owner
  <1>2. CASE InTask
    BY <1>0, <1>2, Handlers, FrameAssumption DEF StackOK, InTask, Sp
  <1>3. CASE AtEntry
    <2>1. exec \in Int
      BY <1>3 DEF AtEntry
    <2> QED
      BY <1>0, <1>3, <2>1, Handlers, FrameAssumption DEF StackOK, AtEntry, Sp
  <1>4. ASSUME NEW n \in 1 .. 10, NEW o \in Owner, Saving(n, o) PROVE StackOK
    <2>1. Pushed(n) \in 0 .. 12
      BY DEF Pushed
    <2>2. CodeIp \notin {Trap, Restore}
      BY <1>4, Handlers DEF Saving
    <2> QED
      BY <1>4, <2>1, <2>2, FrameAssumption DEF StackOK, Saving, Sp
  <1>5. ASSUME NEW n \in 11 .. 17, Loading(n) PROVE StackOK
    <2>1. Used(exec) \in 0 .. Frame
      BY FrameAssumption DEF Used
    <2>2. CodeIp \notin {Trap, Restore}
      BY <1>5, Handlers DEF Loading
    <2>3. exec \in Owner /\ CodeSp = Sp(exec, Used(exec) + 34 - 2 * n)
      BY <1>0, <1>5 DEF Loading
    <2> QED
      BY <2>1, <2>2, <2>3, FrameAssumption DEF StackOK, Sp
  <1> QED
    BY <1>1, <1>2, <1>3, <1>4, <1>5 DEF CodeInv

\* The same of the next state.
LEMMA CodeDepthNext == TypeOK' /\ CodeInv' => StackOK'
  BY CodeDepth, PTL

\* What an interrupt saves is what it restores: the code's registers, stack and
\* next instruction are the same all through it.
LEMMA IrqEnterKeeps ==
  ASSUME SwitchInv, IrqEnter
  PROVE  /\ SwitchTypeOK' /\ UNCHANGED <<CodeRegs, CodeSp, CodeIp>>
         /\ sp' = Sp(sp'[2], sp'[3]) /\ sp'[2] \in Owner /\ sp'[3] \in 0 .. Depth
         /\ ip' = Trap /\ regs'[30] = Restore
         /\ \A o \in Owner, d \in 1 .. Depth :
              o # CodeSp[2] \/ d <= CodeSp[3] => mem'[o][d] = mem[o][d]
  <1> DEFINE o == sp[2]
             b == sp[3]
  <1>1. ~Trapped /\ CodeSp = sp /\ CodeRegs = regs /\ CodeIp = ip
    BY DEF IrqEnter, Trapped, CodeSp, CodeRegs, CodeIp
  <1>2. o \in Owner /\ b \in 0 .. Frame + 12 /\ sp = Sp(o, b)
    BY <1>1, CodeDepth DEF SwitchInv, IInv, StackOK
  <1>3. sp' = Sp(o, b + 34) /\ ip' = Trap /\ Trapped' /\ UNCHANGED <<saved, work>>
    BY DEF IrqEnter, Move, Trapped, EXC
  <1>18. sp'[2] = o /\ sp'[3] = b + 34
    BY <1>3 DEF Sp
  <1>4. regs' = [regs EXCEPT ![0] = Junk, ![1] = Sp(o, b + 34), ![30] = Restore]
    BY <1>3 DEF IrqEnter
  <1>5. mem' = [mem EXCEPT ![o] = [d \in 1 .. Depth |->
                  IF b + 1 <= d /\ d <= b + 34 THEN Saved(b + 34 - d) ELSE mem[o][d]]]
    BY DEF IrqEnter, Write, Below, EXC
  <1>6. mem \in [Owner -> [1 .. Depth -> Word]] /\ regs \in [Reg -> Word] /\ ip \in Word
    BY DEF SwitchInv, SwitchTypeOK
  <1>7. b \in Nat /\ o \in Int /\ b + 34 <= Depth /\ Depth \in Nat
    BY <1>2, FrameAssumption, SchedulerAssumption DEF Depth, EXC, Owner, Tasks
  <1>8. \A k \in Int : Saved(k) \in Word
    BY <1>2, <1>6, <1>7, Words DEF Saved
  <1>9. mem'[o] = [d \in 1 .. Depth |->
                  IF b + 1 <= d /\ d <= b + 34 THEN Saved(b + 34 - d) ELSE mem[o][d]]
    BY <1>2, <1>5, <1>6
  <1> HIDE DEF o, b
  <1>10. mem' \in [Owner -> [1 .. Depth -> Word]]
    BY <1>2, <1>5, <1>6, <1>7, <1>8
  <1>11. SwitchTypeOK'
    <2>1. Sp(o, b + 34) \in Word /\ Junk \in Word /\ Restore \in Word /\ Trap \in Word
      BY <1>7, Words
    <2>2. regs' \in [Reg -> Word]
      BY <1>4, <1>6, <2>1 DEF Reg
    <2> QED
      BY <1>3, <1>10, <2>1, <2>2 DEF SwitchInv, SwitchTypeOK
  <1>12. \A k \in 0 .. 33 : mem'[o][b + 34 - k] = Saved(k)
    BY <1>7, <1>9
  <1>13. CodeSp' = CodeSp
    BY <1>1, <1>2, <1>3, <1>7 DEF CodeSp, Sp, EXC
  <1>14. CodeIp' = CodeIp
    <2>1. CodeIp' = mem'[o][b + 34 - 32]
      BY <1>3, <1>18, <1>7 DEF CodeIp
    <2>2. Saved(32) = ip
      BY DEF Saved, Reg
    <2> QED
      BY <1>1, <1>12, <2>1, <2>2
  <1>15. CodeRegs' = CodeRegs
    <2>1. CodeRegs' = [k \in Reg |-> mem'[o][b + 34 - k]]
      BY <1>3, <1>18, <1>7 DEF CodeRegs, Reg
    <2>2. \A k \in Reg : Saved(k) = regs[k] /\ k \in 0 .. 33
      BY DEF Saved, Reg
    <2> QED
      BY <1>1, <1>6, <1>12, <2>1, <2>2
  <1>16. \A p \in Owner, d \in 1 .. Depth :
           p # CodeSp[2] \/ d <= CodeSp[3] => mem'[p][d] = mem[p][d]
    BY <1>1, <1>2, <1>5, <1>6, <1>7, <1>9 DEF Sp
  <1>17. regs'[30] = Restore
    BY <1>4, <1>6 DEF Reg
  <1> QED
    BY <1>2, <1>3, <1>7, <1>11, <1>13, <1>14, <1>15, <1>16, <1>17 DEF Sp

\* The handler neither moves the stack pointer nor writes above its own frame.
LEMMA HandlerKeeps ==
  ASSUME SwitchInv, Handler
  PROVE  /\ SwitchTypeOK' /\ UNCHANGED <<CodeRegs, CodeSp, CodeIp, sp, mem>>
         /\ ip' = Restore
  <1>1. ip = Trap /\ ip' = Restore /\ UNCHANGED <<sp, mem, saved, work>>
    BY DEF Handler, SwitchInv, FrameInv
  <1>2. Trapped /\ Trapped'
    BY <1>1 DEF Trapped
  <1>3. UNCHANGED <<CodeRegs, CodeSp, CodeIp>>
    BY <1>1, <1>2 DEF CodeRegs, CodeSp, CodeIp, Sp
  <1>4. regs' = [k \in Reg |-> IF k \in 19 .. 29 THEN regs[k] ELSE Junk]
    BY DEF Handler
  <1>5. regs' \in [Reg -> Word]
    BY <1>4, Words DEF SwitchInv, SwitchTypeOK
  <1>6. SwitchTypeOK'
    BY <1>1, <1>5, Words DEF SwitchInv, SwitchTypeOK
  <1> QED
    BY <1>1, <1>3, <1>6

\* restore_regs gives the code back what save_regs took from it.
LEMMA IrqExitKeeps ==
  ASSUME SwitchInv, IrqExit
  PROVE  /\ SwitchTypeOK' /\ UNCHANGED <<CodeRegs, CodeSp, CodeIp>>
         /\ sp' = Sp(sp'[2], sp'[3]) /\ sp'[2] \in Owner /\ sp'[3] \in 0 .. Depth
         /\ ip' # Trap
         /\ \A o \in Owner, d \in 1 .. Depth :
              o # CodeSp[2] \/ d <= CodeSp[3] => mem'[o][d] = mem[o][d]
  <1> DEFINE o == sp[2]
             b == sp[3]
  <1>1. Trapped /\ UNCHANGED <<saved, work>>
    BY DEF IrqExit, Trapped
  <1>2. sp = Sp(o, b) /\ o \in Owner /\ b \in 0 .. Depth
    BY DEF SwitchInv, FrameInv
  <1>3. StackOK
    BY CodeDepth DEF SwitchInv, IInv
  <1>4. CodeSp = Sp(o, b - 34) /\ CodeIp = mem[o][b - 32] /\ CodeRegs = [k \in Reg |-> mem[o][b - k]]
    BY <1>1 DEF CodeSp, CodeIp, CodeRegs, EXC
  <1>5. b \in 34 .. Depth /\ o \in Int /\ Depth \in Nat
    BY <1>2, <1>3, <1>4, FrameAssumption, SchedulerAssumption DEF StackOK, Sp, Depth, EXC, Owner, Tasks
  <1>6. mem \in [Owner -> [1 .. Depth -> Word]]
    BY DEF SwitchInv, SwitchTypeOK
  <1>7. regs' = CodeRegs /\ ip' = CodeIp
    BY <1>4 DEF IrqExit, Below
  <1>8. ~Trapped'
    BY <1>3, <1>7 DEF StackOK, Trapped
  <1>9. sp' = CodeSp
    <2>1. sp' = Sp(o, b + (-34))
      BY DEF IrqExit, Move, EXC
    <2> QED
      BY <1>4, <1>5, <2>1
  <1>10. mem' = [mem EXCEPT ![o] = [d \in 1 .. Depth |->
                  IF b - 33 <= d /\ d <= b THEN Junk ELSE mem[o][d]]]
    <2>1. mem' = [mem EXCEPT ![o] = [d \in 1 .. Depth |->
                    IF b - 34 + 1 <= d /\ d <= b THEN Junk ELSE mem[o][d]]]
      BY DEF IrqExit, Write, Below, EXC
    <2>2. \A d \in 1 .. Depth : b - 34 + 1 <= d <=> b - 33 <= d
      BY <1>5
    <2> HIDE DEF o, b
    <2> QED
      BY <1>5, <2>1, <2>2
  <1> HIDE DEF o, b
  <1>11. UNCHANGED <<CodeRegs, CodeSp, CodeIp>>
    BY <1>7, <1>8, <1>9 DEF CodeRegs, CodeSp, CodeIp
  <1>12. CodeIp \in Word /\ CodeRegs \in [Reg -> Word]
    <2>1. mem[o] \in [1 .. Depth -> Word]
      BY <1>2, <1>6
    <2>2. b - 32 \in 1 .. Depth /\ \A k \in Reg : b - k \in 1 .. Depth
      BY <1>5 DEF Reg
    <2> QED
      BY <1>4, <2>1, <2>2
  <1>13. mem' \in [Owner -> [1 .. Depth -> Word]]
    BY <1>6, <1>2, <1>10, Words
  <1>14. SwitchTypeOK'
    BY <1>1, <1>7, <1>12, <1>13 DEF SwitchInv, SwitchTypeOK
  <1>15. \A p \in Owner, d \in 1 .. Depth :
           p # CodeSp[2] \/ d <= CodeSp[3] => mem'[p][d] = mem[p][d]
    <2>1. CodeSp[2] = o /\ CodeSp[3] = b - 34
      BY <1>4 DEF Sp
    <2> QED
      BY <1>2, <1>5, <1>6, <1>10, <2>1
  <1>16. CodeSp[3] \in 0 .. Depth
    BY <1>3, FrameAssumption DEF StackOK, Depth, EXC
  <1> QED
    BY <1>3, <1>7, <1>9, <1>11, <1>14, <1>15, <1>16 DEF StackOK

\* An interrupt preserves the invariant, wherever in the code it comes.
LEMMA IrqPreserves == SwitchInv /\ Irq => SwitchInv'
  <1> SUFFICES ASSUME SwitchInv, Irq PROVE SwitchInv'
    OBVIOUS
  <1>1. UNCHANGED <<count, exec, pc, saved, work>>
    BY DEF Irq, IrqEnter, Handler, IrqExit, Tick, vars
  <1>2. /\ SwitchTypeOK' /\ FrameInv' /\ UNCHANGED <<CodeRegs, CodeSp, CodeIp>>
        /\ \A o \in Owner, d \in 1 .. Depth :
             o # CodeSp[2] \/ d <= CodeSp[3] => mem'[o][d] = mem[o][d]
    <2>1. CASE IrqEnter
      BY <2>1, IrqEnterKeeps DEF FrameInv
    <2>2. CASE Handler
      <3>1. Restore # Trap
        BY Handlers
      <3> QED
        BY <2>2, <3>1, HandlerKeeps DEF FrameInv, SwitchInv
    <2>3. CASE IrqExit
      BY <2>3, IrqExitKeeps DEF FrameInv
    <2> QED
      BY <2>1, <2>2, <2>3 DEF Irq
  <1>3. CodeInv'
    BY <1>1, <1>2, DependsOn DEF SwitchInv, IInv
  <1>4. IInv'
    <2>1. [SwitchNext]_allVars
      BY DEF SwitchNext
    <2> QED
      BY <2>1, StepsOfScheduler, NextIInv DEF SwitchInv
  <1> QED
    BY <1>2, <1>3, <1>4 DEF SwitchInv

-----------------------------------------------------------------------------
\* Where the code is, by its next instruction, when no interrupt is being handled.
LEMMA CodeAt ==
  ASSUME SwitchInv, ip \notin {Trap, Restore}
  PROVE  /\ CodeRegs = regs /\ CodeSp = sp /\ CodeIp = ip
         /\ \A n \in 1 .. 10 : ip = Instr(n) => \E o \in Owner : Saving(n, o)
         /\ \A n \in 11 .. 17 : ip = Instr(n) => Loading(n)
         /\ ip = CCode => AtStart \/ InTask
         /\ ip = Back => InTask
         /\ \A t : ip = Entry(t) => AtEntry
  <1>1. CodeRegs = regs /\ CodeSp = sp /\ CodeIp = ip
    BY DEF Trapped, CodeRegs, CodeSp, CodeIp
  <1>2. AtStart => ip = CCode
    BY <1>1 DEF AtStart
  <1>3. InTask => ip \in {CCode, Back}
    BY <1>1 DEF InTask
  <1>4. AtEntry => ip = Entry(exec)
    BY <1>1 DEF AtEntry
  <1>5. \A n, o : Saving(n, o) => ip = Instr(n)
    BY <1>1 DEF Saving
  <1>6. \A n : Loading(n) => ip = Instr(n)
    BY <1>1 DEF Loading
  <1>7. \A n, m, t : /\ Instr(n) # CCode /\ Instr(n) # Back /\ Instr(n) # Entry(t)
                     /\ Instr(n) = Instr(m) => n = m
                     /\ CCode # Back /\ CCode # Entry(t) /\ Back # Entry(t)
    BY DEF Instr, CCode, Back, Entry
  <1>8. \A n \in 1 .. 10, m \in 11 .. 17 : n # m
    OBVIOUS
  <1> QED
    BY <1>1, <1>2, <1>3, <1>4, <1>5, <1>6, <1>7, <1>8, Zenon DEF SwitchInv, CodeInv

\* A step of the code preserves the invariant if it leaves the code in one of the
\* situations that the invariant names.
LEMMA CodePreserves ==
  ASSUME SwitchInv, SwitchNext, SwitchTypeOK', ip' \notin {Trap, Restore}, CodeInv'
  PROVE  SwitchInv'
  <1>1. IInv'
    BY StepsOfScheduler, NextIInv DEF SwitchInv
  <1>2. StackOK'
    BY <1>1, CodeDepthNext DEF IInv
  <1>3. CodeSp' = sp'
    BY DEF CodeSp, Trapped
  <1>4. FrameInv'
    <2>1. \A d \in 0 .. Frame + 12 : d \in 0 .. Depth
      BY FrameAssumption DEF Depth, EXC
    <2> QED
      BY <1>2, <1>3, <2>1 DEF StackOK, FrameInv
  <1> QED
    BY <1>1, <1>4 DEF SwitchInv

\* The registers of the code after a step that is not an interrupt.
LEMMA CodeNext ==
  ASSUME ip' \notin {Trap, Restore}
  PROVE  CodeRegs' = regs' /\ CodeSp' = sp' /\ CodeIp' = ip'
  BY DEF Trapped, CodeRegs, CodeSp, CodeIp

\* Tasks that wait are not disturbed by a step on another stack.
LEMMA OthersStay ==
  ASSUME NEW o, Others(o), count' = count,
         \A t \in 0 .. count - 1 : t # o =>
           pc'[t] = pc[t] /\ work'[t] = work[t] /\ saved'[t] = saved[t] /\ mem'[t] = mem[t]
  PROVE  Others(o)'
  <1>1. ASSUME NEW t \in 0 .. count - 1, t # o PROVE Parked(t)'
    BY <1>1, ParkedStays DEF Others
  <1> QED
    BY <1>1 DEF Others

\* A task that was added has a stack.
LEMMA TasksOwn == TypeOK => \A t \in 0 .. count - 1 : t \in Owner /\ t \in Tasks /\ t \in Int /\ t # -1
  BY SchedulerAssumption DEF TypeOK, Owner, Tasks

-----------------------------------------------------------------------------
\* What stays when neither tasks nor stacks change.
LEMMA AllStay ==
  ASSUME NEW o, NEW n \in 0 .. 12, UNCHANGED <<vars, work, mem>>
  PROVE  /\ \A k : Value(o, k)' = Value(o, k) /\ Own(k, o)' = Own(k, o)
         /\ Used(o)' = Used(o)
         /\ Kept(o, n) => Kept(o, n)'
         /\ Others(o) /\ (\A t \in 0 .. count - 1 : t # o => saved'[t] = saved[t]) => Others(o)'
  <1>1. UNCHANGED <<count, pc>>
    BY DEF vars
  <1>2. Kept(o, n) => Kept(o, n)'
    BY <1>1, KeptStays
  <1>3. Others(o) /\ (\A t \in 0 .. count - 1 : t # o => saved'[t] = saved[t]) => Others(o)'
    BY <1>1, OthersStay
  <1> QED
    BY <1>1, <1>2, <1>3 DEF Value, Own, Used

\* The stack pointer is an address within a stack.
LEMMA SpWord == FrameInv => sp \in Word /\ sp[2] \in Owner /\ sp[3] \in 0 .. Depth
  <1> SUFFICES ASSUME FrameInv PROVE sp \in Word
    BY DEF FrameInv
  <1>1. sp[2] \in Int /\ sp[3] \in Int
    BY SchedulerAssumption DEF FrameInv, Owner, Tasks
  <1> QED
    BY <1>1, Words DEF FrameInv

\* mov x2, sp; str x2, [x0]; ldr x2, [x1]
LEMMA SavePreserves == SwitchInv /\ (MovX2 \/ StrX2 \/ LdrX2) => SwitchInv'
  <1> SUFFICES ASSUME SwitchInv, MovX2 \/ StrX2 \/ LdrX2 PROVE SwitchInv'
    OBVIOUS
  <1>1. PICK n \in 7 .. 9 : ip = Instr(n) /\ ip' = Instr(n + 1)
    BY DEF MovX2, StrX2, LdrX2, At
  <1>2. UNCHANGED <<vars, work, sp, mem>>
    BY DEF MovX2, StrX2, LdrX2, At
  <1>3. ip \notin {Trap, Restore} /\ ip' \notin {Trap, Restore} /\ ip' \in Word
    BY <1>1, Handlers, Words
  <1>4. SwitchNext
    BY DEF SwitchNext, Code, Switching
  <1>5. PICK o \in Owner : Saving(n, o)
    BY <1>1, <1>3, CodeAt
  <1>6. /\ regs[0] = Tcb(o) /\ regs[1] = Tcb(exec) /\ exec \in Owner /\ exec # o
        /\ sp = Sp(o, IF o = -1 THEN 12 ELSE Frame + 12)
    BY <1>3, <1>5, CodeAt, TasksOwn DEF Saving, Pushed, SwitchInv, IInv
  <1>7. regs[0][2] = o /\ regs[1][2] = exec
    BY <1>6 DEF Tcb
  <1>8. /\ n = 7 => regs' = [regs EXCEPT ![2] = sp] /\ saved' = saved
        /\ n = 8 => regs' = regs /\ saved' = [saved EXCEPT ![o] = regs[2]]
        /\ n = 9 => regs' = [regs EXCEPT ![2] = saved[exec]] /\ saved' = saved
    BY <1>1, <1>7 DEF MovX2, StrX2, LdrX2, At, Instr
  <1>9. regs \in [Reg -> Word] /\ saved \in [Owner -> Word] /\ sp \in Word
    BY SpWord DEF SwitchInv, SwitchTypeOK
  <1>10. regs' \in [Reg -> Word] /\ saved' \in [Owner -> Word]
    BY <1>6, <1>8, <1>9 DEF Reg
  <1>11. SwitchTypeOK'
    BY <1>2, <1>3, <1>10 DEF SwitchInv, SwitchTypeOK
  <1>12. \A k \in Reg \ {2} : regs'[k] = regs[k]
    BY <1>8, <1>9
  <1>13. \A t \in Owner : t # o => saved'[t] = saved[t]
    BY <1>8, <1>9
  <1>14. Others(o)'
    BY <1>2, <1>5, <1>13, AllStay, TasksOwn DEF Saving, SwitchInv, IInv
  <1>15. /\ n = 7 => regs'[2] = sp
         /\ n = 8 => saved'[o] = sp
         /\ n = 9 => saved' = saved /\ regs'[2] = saved'[exec]
    BY <1>3, <1>5, <1>8, <1>9, CodeAt DEF Reg, Saving
  <1>16. Saving(n + 1, o)'
    <2>1. CodeRegs' = regs' /\ CodeSp' = sp' /\ CodeIp' = ip' /\ CodeRegs = regs /\ CodeSp = sp
      BY <1>3, CodeNext, CodeAt
    <2>2. \A k \in 19 .. 30 : k \in Reg \ {2}
      BY DEF Reg
    <2>3. 0 \in Reg \ {2} /\ 1 \in Reg \ {2}
      BY DEF Reg
    <2>4. Pushed(n) = 12 /\ Pushed(n + 1) = 12
      BY DEF Pushed
    <2>5. o # -1 => /\ pc[o] = "resume"
                    /\ \A k \in 19 .. 30 : regs'[k] = Value(o, k)'
                    /\ Kept(o, 12)'
      BY <1>2, <1>5, <1>12, <2>1, <2>2, <2>4, AllStay DEF Saving
    <2>6. o # -1 => (n + 1 >= 9 => saved'[o] = sp')
      <3>1. CASE n = 7
        BY <3>1
      <3>2. CASE n = 8
        BY <1>2, <1>15, <3>2
      <3>3. CASE n = 9
        BY <1>2, <1>5, <1>15, <2>1, <3>3 DEF Saving
      <3> QED
        BY <3>1, <3>2, <3>3
    <2>7. UNCHANGED <<exec, count, pc>>
      BY <1>2 DEF vars
    <2>8. CodeRegs'[0] = Tcb(o) /\ CodeRegs'[1] = Tcb(exec)
      BY <1>6, <1>12, <2>1, <2>3
    <2>9. /\ n + 1 = 8 => CodeRegs'[2] = CodeSp'
          /\ n + 1 = 10 => CodeRegs'[2] = saved'[exec]
      BY <1>2, <1>15, <2>1
    <2>10. exec \in 0 .. count - 1 /\ pc[exec] \in {"body", "resume"} /\ o < count
      BY <1>5 DEF Saving
    <2> HIDE DEF Value, Kept, Others
    <2> QED
      BY <1>1, <1>2, <1>6, <1>14, <2>1, <2>4, <2>5, <2>6, <2>7, <2>8, <2>9, <2>10 DEF Saving, Tcb
  <1>17. CodeInv'
    <2>1. n + 1 \in 1 .. 10
      OBVIOUS
    <2> QED
      BY <1>16, <2>1 DEF CodeInv
  <1> QED
    BY <1>3, <1>4, <1>11, <1>17, CodePreserves

\* mov sp, x2: from here the stack is the new task's, and the old task waits.
LEMMA MovSpPreserves == SwitchInv /\ MovSp => SwitchInv'
  <1> SUFFICES ASSUME SwitchInv, MovSp PROVE SwitchInv'
    OBVIOUS
  <1>1. ip = Instr(10) /\ ip' = Instr(11) /\ sp' = regs[2] /\ UNCHANGED <<vars, work, regs, mem, saved>>
    BY DEF MovSp, At
  <1>2. ip \notin {Trap, Restore} /\ ip' \notin {Trap, Restore} /\ ip' \in Word
    BY <1>1, Handlers, Words
  <1>3. SwitchNext
    BY DEF SwitchNext, Code, Switching
  <1>4. SwitchTypeOK'
    BY <1>1, <1>2 DEF SwitchInv, SwitchTypeOK
  <1>5. PICK o \in Owner : Saving(10, o)
    BY <1>1, <1>2, CodeAt
  <1>6. PICK e \in 0 .. count - 1 : /\ e = exec /\ pc[e] \in {"body", "resume"}
                                    /\ Others(o) /\ e # o
                                    /\ regs[2] = saved[e] /\ Parked(e)
    BY <1>2, <1>5, CodeAt DEF Saving, Others
  <1>7. o # -1 => Parked(o)
    BY <1>2, <1>5, CodeAt DEF Saving, Parked, Pushed, Used
  <1>8. Others(e)
    BY <1>6, <1>7, TasksOwn DEF Others, SwitchInv, IInv
  <1>9. Others(e)' /\ Kept(e, 12)' /\ Used(e)' = Used(e)
    BY <1>1, <1>6, <1>8, AllStay DEF Parked
  <1>10. Used(e) \in Nat /\ 34 - 2 * 11 = 12 /\ Used(e) + 34 - 2 * 11 = Used(e) + 12
    BY FrameAssumption DEF Used
  <1>11. sp' = Sp(e, Used(e) + 12)
    BY <1>1, <1>6 DEF Parked
  <1>12. Loading(11)'
    <2>1. UNCHANGED <<exec, count, pc>>
      BY <1>1 DEF vars
    <2>2. CodeSp' = sp' /\ CodeIp' = ip'
      BY <1>2, CodeNext
    <2>3. \A s \in 1 .. 12 : ~(s > 34 - 2 * 11)
      OBVIOUS
    <2> QED
      BY <1>1, <1>6, <1>9, <1>10, <1>11, <2>1, <2>2, <2>3 DEF Loading
  <1>13. CodeInv'
    BY <1>12 DEF CodeInv
  <1> QED
    BY <1>2, <1>3, <1>4, <1>13, CodePreserves

\* stp: two registers more are in the old task's frame.
LEMMA StpPreserves ==
  ASSUME SwitchInv, NEW i \in 1 .. 6, Stp(i)
  PROVE  SwitchInv'
  <1> DEFINE b == sp[3]
  <1>1. ip = Instr(i) /\ ip' = Instr(i + 1) /\ UNCHANGED <<vars, work, regs, saved>>
    BY DEF Stp, At
  <1>2. ip \notin {Trap, Restore} /\ ip' \notin {Trap, Restore} /\ ip' \in Word
    BY <1>1, Handlers, Words
  <1>3. SwitchNext
    BY DEF SwitchNext, Code, Switching
  <1>4. PICK o \in Owner : Saving(i, o)
    BY <1>1, <1>2, CodeAt
  <1> DEFINE f == IF o = -1 THEN 0 ELSE Frame
             p == 2 * (i - 1)
  <1>5. Pushed(i) = p /\ Pushed(i + 1) = p + 2 /\ p \in 0 .. 10 /\ f \in 0 .. Frame
    BY FrameAssumption DEF Pushed
  <1>6. sp = Sp(o, f + p) /\ b = f + p /\ sp[2] = o /\ b \in Nat /\ b + 2 <= Depth
    BY <1>2, <1>4, <1>5, CodeAt, FrameAssumption DEF Saving, Sp, Depth, EXC
  <1>7. sp' = Sp(o, b + 2)
    BY <1>6 DEF Stp, Move
  <1>8. mem' = [mem EXCEPT ![o] = [d \in 1 .. Depth |->
                  IF b + 1 <= d /\ d <= b + 2
                  THEN regs[(IF d = b + 2 THEN 17 ELSE 18) + 2 * i] ELSE mem[o][d]]]
    BY <1>6 DEF Stp, Write, Below
  <1>9. mem \in [Owner -> [1 .. Depth -> Word]] /\ regs \in [Reg -> Word] /\ Depth \in Nat
    BY FrameAssumption DEF SwitchInv, SwitchTypeOK, Depth, EXC
  <1>10. 17 + 2 * i \in 19 .. 30 /\ 18 + 2 * i \in 19 .. 30 /\ 17 + 2 * i \in Reg /\ 18 + 2 * i \in Reg
    BY DEF Reg
  <1>11. /\ mem' \in [Owner -> [1 .. Depth -> Word]]
         /\ \A t \in Owner : t # o => mem'[t] = mem[t]
         /\ \A d \in 1 .. b : mem'[o][d] = mem[o][d]
         /\ mem'[o][b + 1] = regs[18 + 2 * i] /\ mem'[o][b + 2] = regs[17 + 2 * i]
    <2> DEFINE g == [d \in 1 .. Depth |->
                       IF b + 1 <= d /\ d <= b + 2
                       THEN regs[(IF d = b + 2 THEN 17 ELSE 18) + 2 * i] ELSE mem[o][d]]
    <2>1. \A d \in 1 .. Depth : g[d] \in Word
      BY <1>9, <1>10
    <2>2. g \in [1 .. Depth -> Word]
      BY <2>1
    <2>3. /\ \A d \in 1 .. b : g[d] = mem[o][d]
          /\ g[b + 1] = regs[18 + 2 * i] /\ g[b + 2] = regs[17 + 2 * i]
      <3>1. \A d \in 1 .. b : d \in 1 .. Depth /\ ~(b + 1 <= d)
        BY <1>6, <1>9
      <3>2. b + 1 \in 1 .. Depth /\ b + 2 \in 1 .. Depth /\ b + 1 # b + 2 /\ b + 1 <= b + 2 /\ b \in Nat
        BY <1>6, <1>9
      <3>3. \A d \in 1 .. b : g[d] = mem[o][d]
        BY <3>1
      <3> HIDE DEF b
      <3>4. g[b + 1] = regs[18 + 2 * i]
        BY <3>2
      <3>5. g[b + 2] = regs[17 + 2 * i]
        BY <3>2
      <3> QED
        BY <3>3, <3>4, <3>5
    <2>4. mem' = [mem EXCEPT ![o] = g]
      BY <1>8
    <2> HIDE DEF g
    <2> QED
      BY <1>9, <2>2, <2>3, <2>4
  <1> HIDE DEF b
  <1>12. SwitchTypeOK'
    BY <1>1, <1>2, <1>11 DEF SwitchInv, SwitchTypeOK
  <1>13. UNCHANGED <<exec, count, pc>>
    BY <1>1 DEF vars
  <1>14. Others(o)'
    BY <1>1, <1>4, <1>11, <1>13, OthersStay, TasksOwn DEF Saving, SwitchInv, IInv
  <1>15. \A k : Value(o, k)' = Value(o, k) /\ Own(k, o)' = Own(k, o)
    BY <1>1, <1>13 DEF Value, Own
  <1>16. ASSUME o # -1 PROVE Kept(o, p + 2)'
    <2>1. Used(o) = Frame /\ f = Frame /\ Kept(o, p) /\ \A k \in 19 .. 30 : regs[k] = Value(o, k)
      BY <1>2, <1>4, <1>5, <1>16, CodeAt DEF Saving, Used
    <2>2. Kept(o, p)' /\ Used(o)' = Frame
      <3>1. Used(o)' = Frame
        BY <1>13, <2>1 DEF Used
      <3>2. p \in 0 .. 12 /\ Used(o) + p = b
        BY <1>5, <1>6, <2>1, FrameAssumption
      <3> HIDE DEF p
      <3> QED
        BY <1>1, <1>11, <1>13, <2>1, <3>1, <3>2, KeptStays
    <2>3. Slot(p + 1) = 18 + 2 * i /\ Slot(p + 2) = 17 + 2 * i
      BY DEF Slot
    <2>4. Frame + (p + 1) = b + 1 /\ Frame + (p + 2) = b + 2
      BY <1>5, <1>6, <2>1, FrameAssumption
    <2>5. mem'[o][Frame + (p + 1)] = Value(o, Slot(p + 1)) /\ mem'[o][Frame + (p + 2)] = Value(o, Slot(p + 2))
      BY <1>10, <1>11, <2>1, <2>3, <2>4
    <2> HIDE DEF p
    <2>6. \A s \in 1 .. p + 2 : s \in 1 .. p \/ s = p + 1 \/ s = p + 2
      BY <1>5
    <2>7. \A s \in 1 .. p : mem'[o][Frame + s] = Value(o, Slot(s))
      BY <1>15, <2>2 DEF Kept
    <2>8. \A s \in 1 .. p + 2 : mem'[o][Frame + s] = Value(o, Slot(s))
      BY <2>5, <2>6, <2>7
    <2> QED
      BY <1>15, <2>2, <2>8 DEF Kept
  <1>17. Saving(i + 1, o)'
    <2>1. CodeRegs' = regs' /\ CodeSp' = sp' /\ CodeIp' = ip' /\ CodeRegs = regs /\ CodeSp = sp
      BY <1>2, CodeNext, CodeAt
    <2>2. sp' = Sp(o, IF o = -1 THEN p + 2 ELSE Frame + (p + 2))
      BY <1>5, <1>6, <1>7, FrameAssumption
    <2>3. /\ exec \in 0 .. count - 1 /\ pc[exec] \in {"body", "resume"} /\ o < count /\ o # exec
          /\ regs[0] = Tcb(o) /\ regs[1] = Tcb(exec)
          /\ o # -1 => pc[o] = "resume" /\ \A k \in 19 .. 30 : regs[k] = Value(o, k)
      BY <1>4, <2>1 DEF Saving
    <2>4. ~(i + 1 >= 9) /\ i + 1 # 8 /\ i + 1 # 10
      OBVIOUS
    <2> HIDE DEF p
    <2> QED
      BY <1>1, <1>5, <1>13, <1>14, <1>15, <1>16, <2>1, <2>2, <2>3, <2>4 DEF Saving, Tcb
  <1>18. CodeInv'
    <2>1. i + 1 \in 1 .. 10
      OBVIOUS
    <2> QED
      BY <1>17, <2>1 DEF CodeInv
  <1> QED
    BY <1>2, <1>3, <1>12, <1>18, CodePreserves

\* ldp: two registers of the new task are back from its frame.
LEMMA LdpPreserves ==
  ASSUME SwitchInv, NEW i \in 11 .. 16, Ldp(i)
  PROVE  SwitchInv'
  <1> DEFINE b == sp[3]
             m == 34 - 2 * i
  <1>1. ip = Instr(i) /\ ip' = Instr(i + 1) /\ UNCHANGED <<vars, work, saved>>
    BY DEF Ldp, At
  <1>2. ip \notin {Trap, Restore} /\ ip' \notin {Trap, Restore} /\ ip' \in Word
    BY <1>1, Handlers, Words
  <1>3. SwitchNext
    <2>1. i - 10 \in 1 .. 6 /\ (i - 10) + 10 = i
      OBVIOUS
    <2> QED
      BY <2>1 DEF SwitchNext, Code, Switching
  <1>4. Loading(i) /\ CodeSp = sp /\ CodeRegs = regs
    BY <1>1, <1>2, CodeAt
  <1>5. PICK e \in 0 .. count - 1 : e = exec
    BY <1>4 DEF Loading
  <1>6. /\ Others(e) /\ Kept(e, m) /\ pc[e] \in {"body", "resume"} /\ e \in Owner
        /\ \A s \in 1 .. 12 : s > m => regs[Slot(s)] = Value(e, Slot(s))
    BY <1>4, <1>5, TasksOwn DEF Loading, SwitchInv, IInv
  <1>7. m \in 2 .. 12 /\ 34 - 2 * (i + 1) = m - 2 /\ 51 - 2 * i = m + 17 /\ 52 - 2 * i = m + 18
    OBVIOUS
  <1>8. Used(e) \in 0 .. Frame
    BY FrameAssumption DEF Used
  <1>9. sp = Sp(e, Used(e) + m)
    BY <1>4, <1>5, <1>8, FrameAssumption DEF Loading
  <1>10. b = Used(e) + m /\ sp[2] = e /\ b \in 2 .. Depth /\ Depth \in Nat
    BY <1>7, <1>8, <1>9, FrameAssumption DEF Sp, Depth, EXC
  <1>11. sp' = Sp(e, Used(e) + (m - 2))
    <2>1. sp' = Sp(e, b + (-2))
      BY <1>10 DEF Ldp, Move
    <2>2. b + (-2) = Used(e) + (m - 2)
      BY <1>7, <1>8, <1>10
    <2> QED
      BY <2>1, <2>2
  <1>12. mem' = [mem EXCEPT ![e] = [d \in 1 .. Depth |->
                   IF b - 1 <= d /\ d <= b THEN Junk ELSE mem[e][d]]]
    BY <1>10 DEF Ldp, Write, Below
  <1>13. regs' = [regs EXCEPT ![m + 17] = mem[e][b], ![m + 18] = mem[e][b - 1]]
    BY <1>7, <1>10 DEF Ldp, Below
  <1>14. mem \in [Owner -> [1 .. Depth -> Word]] /\ regs \in [Reg -> Word]
    BY DEF SwitchInv, SwitchTypeOK
  <1>15. Slot(m) = m + 17 /\ Slot(m - 1) = m + 18
    <2>1. m % 2 = 0 /\ (m - 1) % 2 = 1
      BY <1>7
    <2> QED
      BY <1>7, <2>1 DEF Slot
  <1> HIDE DEF m, b
  <1>16. mem[e][b] = Value(e, Slot(m)) /\ mem[e][b - 1] = Value(e, Slot(m - 1))
    <2>1. m \in 1 .. m /\ m - 1 \in 1 .. m /\ Used(e) + (m - 1) = b - 1
      BY <1>7, <1>8, <1>10
    <2> QED
      BY <1>6, <1>10, <2>1 DEF Kept
  <1>17. m + 17 \in Reg /\ m + 18 \in Reg /\ m + 17 # m + 18
    BY <1>7 DEF Reg
  <1>18. regs' \in [Reg -> Word] /\ regs'[m + 17] = mem[e][b] /\ regs'[m + 18] = mem[e][b - 1]
         /\ \A k \in Reg : k # m + 17 /\ k # m + 18 => regs'[k] = regs[k]
    <2>1. mem[e][b] \in Word /\ mem[e][b - 1] \in Word
      <3>1. mem[e] \in [1 .. Depth -> Word] /\ b \in 1 .. Depth /\ b - 1 \in 1 .. Depth
        BY <1>6, <1>10, <1>14
      <3> QED
        BY <3>1
    <2> DEFINE x == m + 17
               y == m + 18
               v == mem[e][b]
               w == mem[e][b - 1]
    <2>2. x \in Reg /\ y \in Reg /\ x # y /\ v \in Word /\ w \in Word
          /\ regs' = [regs EXCEPT ![x] = v, ![y] = w]
      BY <1>13, <1>17, <2>1
    <2> HIDE DEF x, y, v, w
    <2>3. regs' \in [Reg -> Word] /\ regs'[x] = v /\ regs'[y] = w
          /\ \A k \in Reg : k # x /\ k # y => regs'[k] = regs[k]
      BY <1>14, <2>2
    <2> QED
      BY <2>3, Zenon DEF x, y, v, w
  <1>19. /\ mem' \in [Owner -> [1 .. Depth -> Word]]
         /\ \A t \in Owner : t # e => mem'[t] = mem[t]
         /\ \A d \in 1 .. Used(e) + (m - 2) : mem'[e][d] = mem[e][d]
    <2> DEFINE g == [d \in 1 .. Depth |-> IF b - 1 <= d /\ d <= b THEN Junk ELSE mem[e][d]]
    <2>1. g \in [1 .. Depth -> Word]
      <3>1. mem[e] \in [1 .. Depth -> Word] /\ Junk \in Word
        BY <1>6, <1>14, Words
      <3> QED
        BY <3>1
    <2>2. \A d \in 1 .. Used(e) + (m - 2) : d \in 1 .. Depth /\ ~(b - 1 <= d)
      BY <1>7, <1>8, <1>10
    <2>3. \A d \in 1 .. Used(e) + (m - 2) : g[d] = mem[e][d]
      BY <2>2
    <2>4. mem' = [mem EXCEPT ![e] = g]
      BY <1>12
    <2> HIDE DEF g
    <2> QED
      BY <1>6, <1>14, <2>1, <2>3, <2>4
  <1>20. SwitchTypeOK'
    BY <1>1, <1>2, <1>18, <1>19 DEF SwitchInv, SwitchTypeOK
  <1>21. UNCHANGED <<exec, count, pc>>
    BY <1>1 DEF vars
  <1>22. Others(e)'
    BY <1>1, <1>6, <1>19, <1>21, OthersStay, TasksOwn DEF SwitchInv, IInv
  <1>23. Kept(e, m - 2)'
    <2>1. m - 2 \in 0 .. 12 /\ \A s \in 1 .. m - 2 : s \in 1 .. m
      BY <1>7
    <2>2. Kept(e, m - 2)
      BY <1>6, <2>1 DEF Kept
    <2> QED
      BY <1>1, <1>19, <1>21, <2>1, <2>2, KeptStays
  <1>24. \A k : Value(e, k)' = Value(e, k) /\ Used(e)' = Used(e)
    BY <1>1, <1>21 DEF Value, Used, Own
  <1>25. \A s \in 1 .. 12 : s > m - 2 => regs'[Slot(s)] = Value(e, Slot(s))
    <2>1. \A s \in 1 .. 12 : s > m - 2 => s > m \/ s = m \/ s = m - 1
      BY <1>7
    <2>2. \A s \in 1 .. 12 : s > m => Slot(s) \in Reg /\ Slot(s) # m + 17 /\ Slot(s) # m + 18
      BY <1>7, <1>15 DEF Slot, Reg
    <2> QED
      BY <1>6, <1>15, <1>16, <1>18, <2>1, <2>2
  <1>26. Loading(i + 1)'
    <2>1. CodeRegs' = regs' /\ CodeSp' = sp' /\ CodeIp' = ip'
      BY <1>2, CodeNext
    <2>2. Used(e) + 34 - 2 * (i + 1) = Used(e) + (m - 2)
      BY <1>7, <1>8
    <2> QED
      BY <1>1, <1>5, <1>6, <1>7, <1>11, <1>21, <1>22, <1>23, <1>24, <1>25, <2>1, <2>2 DEF Loading
  <1>27. CodeInv'
    <2>1. i + 1 \in 11 .. 17
      OBVIOUS
    <2> QED
      BY <1>26, <2>1 DEF CodeInv
  <1> QED
    BY <1>2, <1>3, <1>20, <1>27, CodePreserves

\* ret: into the task_yield that the new task left, or into its function.
LEMMA RetPreserves == SwitchInv /\ Ret => SwitchInv'
  <1> SUFFICES ASSUME SwitchInv, Ret PROVE SwitchInv'
    OBVIOUS
  <1>1. ip = Instr(17) /\ ip' = regs[30] /\ UNCHANGED <<vars, regs, sp, mem, saved, work>>
    BY DEF Ret
  <1>2. ip \notin {Trap, Restore}
    BY <1>1, Handlers
  <1>3. SwitchNext
    BY DEF SwitchNext, Code, Switching
  <1>4. Loading(17) /\ CodeSp = sp /\ CodeRegs = regs
    BY <1>1, <1>2, CodeAt
  <1>5. PICK e \in 0 .. count - 1 : e = exec
    BY <1>4 DEF Loading
  <1>6. /\ Others(e) /\ Kept(e, 0) /\ pc[e] \in {"body", "resume"} /\ e \in Int
        /\ \A s \in 1 .. 12 : regs[Slot(s)] = Value(e, Slot(s))
        /\ sp = Sp(e, Used(e))
    <2>1. Used(e) + 34 - 2 * 17 = Used(e) /\ 34 - 2 * 17 = 0
      BY FrameAssumption DEF Used
    <2>2. \A s \in 1 .. 12 : s > 34 - 2 * 17
      OBVIOUS
    <2> QED
      BY <1>4, <1>5, <2>1, <2>2 DEF Loading
  <1>7. \A k \in 19 .. 30 : regs[k] = Value(e, k)
    <2>1. \A k \in 19 .. 30 : \E s \in 1 .. 12 : Slot(s) = k
      <3>1. /\ Slot(2) = 19 /\ Slot(1) = 20 /\ Slot(4) = 21 /\ Slot(3) = 22
            /\ Slot(6) = 23 /\ Slot(5) = 24 /\ Slot(8) = 25 /\ Slot(7) = 26
            /\ Slot(10) = 27 /\ Slot(9) = 28 /\ Slot(12) = 29 /\ Slot(11) = 30
        BY DEF Slot
      <3> QED
        BY <3>1
    <2> QED
      BY <1>6, <2>1
  <1>8. ip' = IF pc[e] = "resume" THEN Back ELSE Entry(e)
    BY <1>1, <1>7 DEF Value
  <1>9. ip' \notin {Trap, Restore} /\ ip' \in Word
    BY <1>6, <1>8, Handlers, Words
  <1>10. SwitchTypeOK'
    BY <1>1, <1>9 DEF SwitchInv, SwitchTypeOK
  <1>11. UNCHANGED <<exec, count, pc>>
    BY <1>1 DEF vars
  <1>12. Others(e)' /\ \A k : Own(k, e)' = Own(k, e)
    BY <1>1, <1>6, AllStay
  <1>13. CodeRegs' = regs' /\ CodeSp' = sp' /\ CodeIp' = ip'
    BY <1>9, CodeNext
  <1>14. CASE pc[e] = "resume"
    <2>1. Used(e) = Frame /\ \A k \in 19 .. 29 : regs[k] = Own(k, e)
      BY <1>7, <1>14 DEF Used, Value
    <2>2. \A d \in 1 .. Frame : mem[e][d] = Own(d, e)
      BY <1>6, <2>1 DEF Kept
    <2>3. InTask'
      BY <1>1, <1>5, <1>6, <1>8, <1>11, <1>12, <1>13, <1>14, <2>1, <2>2 DEF InTask
    <2> QED
      BY <1>3, <1>9, <1>10, <2>3, CodePreserves DEF CodeInv
  <1>15. CASE pc[e] = "body"
    <2>1. Used(e) = 0
      BY <1>15 DEF Used
    <2>2. AtEntry'
      BY <1>1, <1>5, <1>6, <1>8, <1>11, <1>12, <1>13, <1>15, <2>1 DEF AtEntry, Entry
    <2> QED
      BY <1>3, <1>9, <1>10, <2>2, CodePreserves DEF CodeInv
  <1> QED
    BY <1>6, <1>14, <1>15

-----------------------------------------------------------------------------
\* sched_add_task: the new task's frame is what the switch will load.
LEMMA AddPreserves == SwitchInv /\ SwitchAdd => SwitchInv'
  <1> SUFFICES ASSUME SwitchInv, SwitchAdd PROVE SwitchInv'
    OBVIOUS
  <1>1. /\ ip = CCode /\ exec = -1 /\ count < MaxTasks /\ count' = count + 1
        /\ pc' = [pc EXCEPT ![count] = "body"] /\ exec' = exec
        /\ mem' = [mem EXCEPT ![count] = FirstFrame(count)]
        /\ saved' = [saved EXCEPT ![count] = Sp(count, 12)]
        /\ UNCHANGED <<regs, sp, ip, work>>
    BY DEF SwitchAdd, InC, AddTask
  <1>2. ip \notin {Trap, Restore} /\ ip' \notin {Trap, Restore}
    BY <1>1, Handlers
  <1>3. SwitchNext
    BY DEF SwitchNext
  <1>4. PICK c \in Tasks : c = count
    BY <1>1, SchedulerAssumption DEF SwitchInv, IInv, TypeOK, Tasks
  <1>5. c \in Owner /\ c \in Nat /\ Depth \in Nat /\ 12 < Depth
    BY FrameAssumption, SchedulerAssumption DEF Tasks, Owner, Depth, EXC
  <1>6. FirstFrame(c) \in [1 .. Depth -> Word] /\ Sp(c, 12) \in Word
    <2>1. Entry(c) \in Word /\ Zero \in Word /\ Junk \in Word /\ Sp(c, 12) \in Word
      BY <1>5, Words
    <2> QED
      BY <2>1 DEF FirstFrame
  <1>7. mem \in [Owner -> [1 .. Depth -> Word]] /\ saved \in [Owner -> Word] /\ pc = [x \in Tasks |-> pc[x]]
    BY DEF SwitchInv, SwitchTypeOK, IInv, TypeOK
  <1>8. mem' \in [Owner -> [1 .. Depth -> Word]] /\ saved' \in [Owner -> Word]
    BY <1>1, <1>4, <1>5, <1>6, <1>7
  <1>9. SwitchTypeOK'
    BY <1>1, <1>8 DEF SwitchInv, SwitchTypeOK
  <1>10. AtStart
    <2>1. ~InTask
      BY <1>1 DEF InTask
    <2> QED
      BY <1>1, <1>2, <2>1, CodeAt
  <1>11. ASSUME NEW t \in 0 .. count - 1 PROVE Parked(t)'
    <2>1. t \in Owner /\ t \in Tasks /\ t # count /\ Parked(t)
      BY <1>4, <1>10, TasksOwn DEF AtStart, Others, SwitchInv, IInv
    <2>2. mem'[t] = mem[t] /\ saved'[t] = saved[t] /\ pc'[t] = pc[t] /\ work'[t] = work[t]
      BY <1>1, <1>7, <2>1
    <2> QED
      BY <2>1, <2>2, ParkedStays
  <1>12. Parked(c)'
    <2>1. pc'[c] = "body" /\ mem'[c] = FirstFrame(c) /\ saved'[c] = Sp(c, 12)
      BY <1>1, <1>4, <1>5, <1>7
    <2>2. Used(c)' = 0
      BY <2>1 DEF Used
    <2>3. \A s \in 1 .. 12 : FirstFrame(c)[s] = IF s = 11 THEN Entry(c) ELSE Zero
      BY <1>5 DEF FirstFrame
    <2>4. \A s \in 1 .. 12 : Slot(s) = 30 <=> s = 11
      BY DEF Slot
    <2>5. \A s \in 1 .. 12 : mem'[c][0 + s] = Value(c, Slot(s))'
      BY <2>1, <2>3, <2>4 DEF Value, Slot
    <2> QED
      BY <2>1, <2>2, <2>5 DEF Parked, Kept
  <1>13. Others(-1)'
    <2>1. \A t \in 0 .. count' - 1 : t \in 0 .. count - 1 \/ t = c
      BY <1>1, <1>4, <1>5
    <2> QED
      BY <1>11, <1>12, <2>1 DEF Others
  <1>14. AtStart'
    BY <1>1, <1>2, <1>10, <1>13, CodeAt, CodeNext DEF AtStart
  <1> QED
    BY <1>2, <1>3, <1>9, <1>14, CodePreserves DEF CodeInv

\* sched_run calls the switch from the boot stack to the first task.
LEMMA RunPreserves == SwitchInv /\ SwitchRun => SwitchInv'
  <1> SUFFICES ASSUME SwitchInv, SwitchRun PROVE SwitchInv'
    OBVIOUS
  <1>1. /\ ip = CCode /\ ip' = Instr(1) /\ exec = -1 /\ exec' = 0 /\ count > 0
        /\ regs' = [regs EXCEPT ![0] = Tcb(-1), ![1] = Tcb(0), ![30] = Junk]
        /\ UNCHANGED <<count, pc, sp, mem, saved, work>>
    BY DEF SwitchRun, InC, Run, Call
  <1>2. ip \notin {Trap, Restore} /\ ip' \notin {Trap, Restore} /\ ip' \in Word
    BY <1>1, Handlers, Words
  <1>3. SwitchNext
    BY DEF SwitchNext
  <1>4. AtStart
    <2>1. ~InTask
      BY <1>1 DEF InTask
    <2> QED
      BY <1>1, <1>2, <2>1, CodeAt
  <1>5. regs \in [Reg -> Word] /\ Tcb(-1) \in Word /\ Tcb(0) \in Word /\ Junk \in Word
    BY Words DEF SwitchInv, SwitchTypeOK
  <1>6. regs' \in [Reg -> Word] /\ regs'[0] = Tcb(-1) /\ regs'[1] = Tcb(0)
    BY <1>1, <1>5 DEF Reg
  <1>7. SwitchTypeOK'
    BY <1>1, <1>2, <1>6 DEF SwitchInv, SwitchTypeOK
  <1>8. Others(-1)'
    BY <1>1, <1>4, OthersStay DEF AtStart
  <1>9. 0 \in 0 .. count - 1 /\ -1 < count /\ pc[0] = "body" /\ -1 \in Owner
    BY <1>1, SchedulerAssumption DEF SwitchInv, IInv, TypeOK, NotStarted, Tasks, Owner
  <1>10. Saving(1, -1)'
    <2>1. CodeRegs' = regs' /\ CodeSp' = sp' /\ CodeIp' = ip' /\ CodeSp = sp
      BY <1>2, CodeNext, CodeAt
    <2>2. Pushed(1) = 0
      BY DEF Pushed
    <2>3. sp' = Sp(-1, 0)
      BY <1>1, <1>4, <2>1 DEF AtStart
    <2> QED
      BY <1>1, <1>6, <1>8, <1>9, <2>1, <2>2, <2>3 DEF Saving
  <1> QED
    BY <1>2, <1>3, <1>7, <1>9, <1>10, CodePreserves DEF CodeInv

\* task_yield calls the switch: the task's registers are its own, and the link
\* register leads back into task_yield.
LEMMA YieldPreserves ==
  ASSUME SwitchInv, NEW t \in Tasks, SwitchYield(t)
  PROVE  SwitchInv'
  <1>1. PICK u : u = local[t]
    OBVIOUS
  <1>2. /\ ip = CCode /\ ip' = Instr(1) /\ exec = t /\ exec' = u
        /\ pc[t] = "switch" /\ pc' = [pc EXCEPT ![t] = "resume"]
        /\ regs' = [regs EXCEPT ![0] = Tcb(t), ![1] = Tcb(u), ![30] = Back]
        /\ UNCHANGED <<count, sp, mem, saved, work>>
    BY <1>1 DEF SwitchYield, InC, YieldSwitch, Goto, Call
  <1>3. ip \notin {Trap, Restore} /\ ip' \notin {Trap, Restore} /\ ip' \in Word
    BY <1>2, Handlers, Words
  <1>4. SwitchNext
    BY DEF SwitchNext, Code, TaskCode
  <1>5. InTask /\ t \in Int /\ t # -1 /\ t \in Owner
    BY <1>2, <1>3, CodeAt, SchedulerAssumption DEF AtStart, Tasks, Owner
  <1>6. u \in 0 .. count - 1 /\ u # t /\ pc[u] \in {"body", "resume"} /\ t < count
    <2>1. t = current /\ current < count /\ count \in Nat
      BY <1>2, <1>5 DEF SwitchInv, IInv, TypeOK, OnItsStack
    <2>2. u = (t + 1) % count /\ u # t
      BY <1>1, <1>2, <1>5, <2>1 DEF SwitchInv, IInv, Chosen
    <2>3. t \in 0 .. count - 1 /\ count \in Nat \ {0}
      BY <2>1, SchedulerAssumption DEF Tasks
    <2>4. u \in 0 .. count - 1
      BY <2>2, <2>3, CyclicNext
    <2> QED
      BY <1>2, <1>5, <2>1, <2>2, <2>4 DEF SwitchInv, IInv, OthersReady
  <1>7. regs \in [Reg -> Word] /\ Tcb(t) \in Word /\ Tcb(u) \in Word /\ Back \in Word /\ pc = [x \in Tasks |-> pc[x]]
    BY <1>5, <1>6, Words DEF SwitchInv, SwitchTypeOK, IInv, TypeOK
  <1>8. /\ regs' \in [Reg -> Word] /\ regs'[0] = Tcb(t) /\ regs'[1] = Tcb(u) /\ regs'[30] = Back
        /\ \A k \in 19 .. 29 : regs'[k] = regs[k]
    BY <1>2, <1>7 DEF Reg
  <1>9. SwitchTypeOK'
    BY <1>2, <1>3, <1>8 DEF SwitchInv, SwitchTypeOK
  <1>10. pc'[t] = "resume" /\ \A x \in Tasks : x # t => pc'[x] = pc[x]
    BY <1>2, <1>7
  <1>11. Others(t)'
    BY <1>2, <1>5, <1>10, OthersStay, TasksOwn DEF InTask, SwitchInv, IInv
  <1>12. u \in Tasks
    BY <1>6, TasksOwn DEF SwitchInv, IInv
  <1>13. \A k : Own(k, t)' = Own(k, t)
    BY <1>2 DEF Own
  <1>14. \A k \in 19 .. 30 : regs'[k] = Value(t, k)'
    <2>1. \A k \in 19 .. 29 : regs[k] = Own(k, t)
      BY <1>2, <1>3, <1>5, CodeAt DEF InTask
    <2>2. \A k \in 19 .. 30 : k \in 19 .. 29 \/ k = 30
      OBVIOUS
    <2> QED
      BY <1>8, <1>10, <1>13, <2>1, <2>2 DEF Value
  <1>15. Kept(t, 0)'
    <2>1. Used(t)' = Frame
      BY <1>10 DEF Used
    <2>2. \A d \in 1 .. Frame : mem'[t][d] = Own(d, t)'
      BY <1>2, <1>5, <1>13 DEF InTask
    <2> QED
      BY <2>1, <2>2 DEF Kept
  <1>16. Saving(1, t)'
    <2>1. CodeRegs' = regs' /\ CodeSp' = sp' /\ CodeIp' = ip' /\ CodeSp = sp
      BY <1>3, CodeNext, CodeAt
    <2>2. Pushed(1) = 0 /\ Frame + 0 = Frame
      BY FrameAssumption DEF Pushed
    <2>3. sp' = Sp(t, Frame)
      BY <1>2, <1>5, <2>1 DEF InTask
    <2> QED
      BY <1>2, <1>5, <1>6, <1>8, <1>10, <1>11, <1>12, <1>14, <1>15, <2>1, <2>2, <2>3 DEF Saving
  <1> QED
    BY <1>3, <1>4, <1>5, <1>9, <1>16, CodePreserves DEF CodeInv

\* The task on the core is in its function or in task_yield: whatever it does on its
\* own stack leaves the others alone.
LEMMA InTaskPreserves ==
  ASSUME SwitchInv, SwitchNext, NEW t \in Tasks, exec = t, exec' = t, count' = count,
         t < count, Others(t),
         \A x \in Tasks : x # t => pc'[x] = pc[x] /\ work'[x] = work[x],
         \A x \in Owner : x # t => mem'[x] = mem[x],
         saved' = saved, SwitchTypeOK', pc'[t] # "resume",
         ip' = CCode, sp' = Sp(t, Frame),
         \A k \in 19 .. 29 : regs'[k] = Own(k, t)',
         \A d \in 1 .. Frame : mem'[t][d] = Own(d, t)'
  PROVE  SwitchInv'
  <1>1. ip' \notin {Trap, Restore}
    BY Handlers
  <1>2. Others(t)'
    BY OthersStay, TasksOwn DEF SwitchInv, IInv
  <1>3. t \in 0 .. count - 1
    BY SchedulerAssumption DEF Tasks, SwitchInv, IInv, TypeOK
  <1>4. CodeRegs' = regs' /\ CodeSp' = sp' /\ CodeIp' = ip'
    BY <1>1, CodeNext
  <1>5. InTask'
    BY <1>2, <1>3, <1>4 DEF InTask
  <1> QED
    BY <1>1, <1>5, CodePreserves DEF CodeInv

\* The task works: its registers and its part of the stack get new values.
LEMMA BodyPreserves ==
  ASSUME SwitchInv, NEW t \in Tasks, SwitchBody(t)
  PROVE  SwitchInv'
  <1>1. PICK n : n = 1 - work[t]
    OBVIOUS
  <1>2. /\ ip = CCode /\ ip' = CCode /\ exec = t /\ UNCHANGED <<exec, count, sp, saved>>
        /\ \/ pc' = [pc EXCEPT ![t] = "pick"]
           \/ pc' = [pc EXCEPT ![t] = "arm"]
        /\ pc[t] = "body"
    BY DEF SwitchBody, InC, Yield, Sleep, Goto, Works
  <1>3. /\ work' = [work EXCEPT ![t] = n]
        /\ regs' = [k \in Reg |-> IF k \in 19 .. 29 THEN <<k, t, n>> ELSE Junk]
    BY <1>1 DEF SwitchBody, Works
  <1>4. ip \notin {Trap, Restore}
    BY <1>2, Handlers
  <1>5. SwitchNext
    BY DEF SwitchNext, Code, TaskCode
  <1>6. InTask /\ t \in Int /\ t # -1 /\ t \in Owner
    BY <1>2, <1>4, CodeAt, SchedulerAssumption DEF AtStart, Tasks, Owner
  <1>7. /\ mem \in [Owner -> [1 .. Depth -> Word]] /\ work \in [Tasks -> 0 .. 1]
        /\ pc = [x \in Tasks |-> pc[x]]
    BY DEF SwitchInv, SwitchTypeOK, IInv, TypeOK
  <1>8. n \in 0 .. 1 /\ work' \in [Tasks -> 0 .. 1] /\ work'[t] = n /\ \A x \in Tasks : x # t => work'[x] = work[x]
    <2>1. work[t] \in 0 .. 1
      BY <1>7
    <2>2. n \in 0 .. 1
      BY <1>1, <2>1
    <2> QED
      BY <1>3, <1>7, <2>2
  <1>9. \A k : Own(k, t)' = <<k, t, n>>
    BY <1>8 DEF Own
  <1>10. pc'[t] # "resume" /\ \A x \in Tasks : x # t => pc'[x] = pc[x]
    BY <1>2, <1>7
  <1>11. sp = Sp(t, Frame) /\ sp[2] = t /\ sp[3] = Frame /\ t < count /\ Others(t)
    <2>1. count \in Nat
      BY DEF SwitchInv, IInv, TypeOK
    <2> QED
      BY <1>2, <1>4, <1>6, <2>1, CodeAt DEF InTask, Sp
  <1>12. mem' = [mem EXCEPT ![t] = [d \in 1 .. Depth |->
                   IF Frame - Frame + 1 <= d /\ d <= Frame THEN <<d, t, n>> ELSE mem[t][d]]]
    BY <1>1, <1>11 DEF SwitchBody, Works, Write, Below
  <1>13. \A i, j, k \in Int : <<i, j, k>> \in Word
    BY DEF Word
  <1>14. /\ mem' \in [Owner -> [1 .. Depth -> Word]]
         /\ \A x \in Owner : x # t => mem'[x] = mem[x]
         /\ \A d \in 1 .. Frame : mem'[t][d] = <<d, t, n>>
    <2> DEFINE g == [d \in 1 .. Depth |->
                       IF Frame - Frame + 1 <= d /\ d <= Frame THEN <<d, t, n>> ELSE mem[t][d]]
    <2>0. mem[t] \in [1 .. Depth -> Word] /\ n \in Int
      BY <1>6, <1>7, <1>8
    <2>1. \A d \in 1 .. Depth : g[d] \in Word
      <3> TAKE d \in 1 .. Depth
      <3>1. <<d, t, n>> \in Word /\ mem[t][d] \in Word
        <4>1. d \in Int
          BY FrameAssumption DEF Depth, EXC
        <4> QED
          BY <1>6, <1>13, <2>0, <4>1
      <3> QED
        BY <3>1
    <2>2. g \in [1 .. Depth -> Word]
      BY <2>1
    <2>3. \A d \in 1 .. Frame : d \in 1 .. Depth /\ Frame - Frame + 1 <= d /\ d <= Frame
      BY FrameAssumption DEF Depth, EXC
    <2>4. \A d \in 1 .. Frame : g[d] = <<d, t, n>>
      BY <2>3
    <2>5. mem' = [mem EXCEPT ![t] = g]
      BY <1>12
    <2> HIDE DEF g
    <2> QED
      BY <1>6, <1>7, <2>2, <2>4, <2>5
  <1>15. regs' \in [Reg -> Word] /\ \A k \in 19 .. 29 : regs'[k] = <<k, t, n>>
    <2>1. \A k \in 19 .. 29 : <<k, t, n>> \in Word /\ k \in Reg
      BY <1>6, <1>8, <1>13 DEF Reg
    <2>2. Junk \in Word
      BY Words
    <2> QED
      BY <1>3, <2>1, <2>2
  <1>16. SwitchTypeOK'
    BY <1>2, <1>8, <1>14, <1>15 DEF SwitchInv, SwitchTypeOK
  <1> QED
    <2>1. /\ \A k \in 19 .. 29 : regs'[k] = Own(k, t)'
          /\ \A d \in 1 .. Frame : mem'[t][d] = Own(d, t)'
      BY <1>9, <1>14, <1>15
    <2>2. exec' = t /\ count' = count /\ saved' = saved /\ ip' = CCode /\ sp' = Sp(t, Frame)
      BY <1>2, <1>11
    <2>3. \A x \in Tasks : x # t => pc'[x] = pc[x] /\ work'[x] = work[x]
      BY <1>8, <1>10
    <2> QED
      BY <1>2, <1>5, <1>10, <1>11, <1>14, <1>16, <2>1, <2>2, <2>3, InTaskPreserves

\* The rest of task_yield and task_sleep_ms, and the way back from the switch.
LEMMA YieldCodePreserves ==
  ASSUME SwitchInv, NEW t \in Tasks, SwitchC(t) \/ SwitchBack(t)
  PROVE  SwitchInv'
  <1>1. /\ exec = t /\ UNCHANGED <<exec, count, sp, mem, saved, work>> /\ ip' = CCode
        /\ \E q \in {"pick", "switch", "body"} : pc' = [pc EXCEPT ![t] = q]
    BY DEF SwitchC, SwitchBack, InC, SleepArm, YieldPick, YieldAlone, Resume, Goto, machine
  <1>2. ip \in {CCode, Back}
    BY DEF SwitchC, SwitchBack, InC
  <1>3. regs' = regs \/ regs' = [k \in Reg |-> IF k \in 19 .. 29 THEN regs[k] ELSE Junk]
    BY DEF SwitchC, SwitchBack, machine
  <1>4. ip \notin {Trap, Restore}
    BY <1>2, Handlers
  <1>5. SwitchNext
    BY DEF SwitchNext, Code, TaskCode
  <1>6. InTask /\ t \in Int /\ t # -1
    BY <1>1, <1>2, <1>4, CodeAt, SchedulerAssumption DEF AtStart, Tasks
  <1>7. regs \in [Reg -> Word] /\ pc = [x \in Tasks |-> pc[x]]
    BY DEF SwitchInv, SwitchTypeOK, IInv, TypeOK
  <1>8. regs' \in [Reg -> Word] /\ \A k \in 19 .. 29 : regs'[k] = regs[k]
    BY <1>3, <1>7, Words DEF Reg
  <1>9. pc'[t] # "resume" /\ \A x \in Tasks : x # t => pc'[x] = pc[x]
    BY <1>1, <1>7
  <1>10. \A k : Own(k, t)' = Own(k, t)
    BY <1>1 DEF Own
  <1>11. /\ sp = Sp(t, Frame) /\ t < count /\ Others(t)
         /\ \A k \in 19 .. 29 : regs[k] = Own(k, t)
         /\ \A d \in 1 .. Frame : mem[t][d] = Own(d, t)
    <2>1. count \in Nat
      BY DEF SwitchInv, IInv, TypeOK
    <2> QED
      BY <1>1, <1>4, <1>6, <2>1, CodeAt DEF InTask
  <1>12. SwitchTypeOK'
    <2>1. CCode \in Word
      BY Words
    <2> QED
      BY <1>1, <1>8, <2>1 DEF SwitchInv, SwitchTypeOK
  <1> QED
    BY <1>1, <1>5, <1>8, <1>9, <1>10, <1>11, <1>12, InTaskPreserves

\* A task begins: it allocates its part of the stack.
LEMMA EnterPreserves ==
  ASSUME SwitchInv, NEW t \in Tasks, Enter(t)
  PROVE  SwitchInv'
  <1>1. /\ ip = Entry(t) /\ ip' = CCode /\ UNCHANGED <<vars, saved, work>>
        /\ regs' = [k \in Reg |-> IF k \in 19 .. 29 THEN Own(k, t) ELSE Junk]
    BY DEF Enter
  <1>2. t \in Int /\ t \in Owner
    BY SchedulerAssumption DEF Tasks, Owner
  <1>3. ip \notin {Trap, Restore}
    BY <1>1, <1>2, Handlers
  <1>4. SwitchNext
    BY DEF SwitchNext, Code, TaskCode
  <1>5. AtEntry /\ CodeIp = ip /\ CodeSp = sp
    BY <1>1, <1>3, CodeAt
  <1>6. exec = t
    BY <1>1, <1>5 DEF AtEntry, Entry
  <1>7. sp = Sp(t, 0) /\ sp[2] = t /\ sp[3] = 0 /\ t < count /\ Others(t) /\ pc[t] = "body"
    <2>1. count \in Nat
      BY DEF SwitchInv, IInv, TypeOK
    <2> QED
      BY <1>5, <1>6, <2>1 DEF AtEntry, Sp
  <1>8. sp' = Sp(t, Frame)
    <2>1. sp' = Sp(t, 0 + Frame)
      BY <1>7 DEF Enter, Move
    <2> QED
      BY <2>1, FrameAssumption
  <1>9. mem' = [mem EXCEPT ![t] = [d \in 1 .. Depth |->
                  IF 0 + 1 <= d /\ d <= 0 + Frame THEN Own(d, t) ELSE mem[t][d]]]
    BY <1>7 DEF Enter, Write, Below
  <1>10. mem \in [Owner -> [1 .. Depth -> Word]] /\ work \in [Tasks -> 0 .. 1]
    BY DEF SwitchInv, SwitchTypeOK
  <1>11. \A k \in Int : Own(k, t) \in Word /\ Own(k, t)' = Own(k, t)
    <2>1. work[t] \in Int
      BY <1>10
    <2> QED
      BY <1>1, <1>2, <2>1 DEF Own, Word
  <1>12. /\ mem' \in [Owner -> [1 .. Depth -> Word]]
         /\ \A x \in Owner : x # t => mem'[x] = mem[x]
         /\ \A d \in 1 .. Frame : mem'[t][d] = Own(d, t)
    <2> DEFINE g == [d \in 1 .. Depth |->
                       IF 0 + 1 <= d /\ d <= 0 + Frame THEN Own(d, t) ELSE mem[t][d]]
    <2>1. mem[t] \in [1 .. Depth -> Word]
      BY <1>2, <1>10
    <2>2. g \in [1 .. Depth -> Word]
      <3>1. \A d \in 1 .. Depth : Own(d, t) \in Word /\ mem[t][d] \in Word
        <4>1. \A d \in 1 .. Depth : d \in Int
          BY FrameAssumption DEF Depth, EXC
        <4> QED
          BY <1>11, <2>1, <4>1
      <3> QED
        BY <3>1
    <2>3. \A d \in 1 .. Frame : d \in 1 .. Depth /\ 0 + 1 <= d /\ d <= 0 + Frame
      BY FrameAssumption DEF Depth, EXC
    <2>4. \A d \in 1 .. Frame : g[d] = Own(d, t)
      BY <2>3
    <2>5. mem' = [mem EXCEPT ![t] = g]
      BY <1>9
    <2> HIDE DEF g
    <2> QED
      BY <1>2, <1>10, <2>2, <2>4, <2>5
  <1>13. regs' \in [Reg -> Word] /\ \A k \in 19 .. 29 : regs'[k] = Own(k, t)
    <2>1. \A k \in 19 .. 29 : Own(k, t) \in Word /\ k \in Reg
      BY <1>11 DEF Reg
    <2>2. Junk \in Word
      BY Words
    <2> QED
      BY <1>1, <2>1, <2>2
  <1>14. SwitchTypeOK'
    <2>1. CCode \in Word
      BY Words
    <2> QED
      BY <1>1, <1>12, <1>13, <2>1 DEF SwitchInv, SwitchTypeOK
  <1>15. UNCHANGED <<exec, count, pc>>
    BY <1>1 DEF vars
  <1>16. /\ \A k \in 19 .. 29 : regs'[k] = Own(k, t)'
         /\ \A d \in 1 .. Frame : mem'[t][d] = Own(d, t)'
    BY <1>11, <1>12, <1>13
  <1> QED
    BY <1>1, <1>4, <1>6, <1>7, <1>8, <1>12, <1>14, <1>15, <1>16, InTaskPreserves

-----------------------------------------------------------------------------

\* The invariant holds at boot ...
LEMMA InitSwitchInv == SwitchInit => SwitchInv
  <1> SUFFICES ASSUME SwitchInit PROVE SwitchInv
    OBVIOUS
  <1>1. IInv
    BY InitIInv DEF SwitchInit
  <1>2. -1 \in Owner /\ Depth \in Nat
    BY FrameAssumption DEF Owner, Depth, EXC
  <1>3. SwitchTypeOK
    <2>1. Junk \in Word /\ Zero \in Word /\ CCode \in Word
      BY Words
    <2> QED
      BY <2>1 DEF SwitchInit, SwitchTypeOK
  <1>4. ip \notin {Trap, Restore}
    BY Handlers DEF SwitchInit
  <1>5. FrameInv
    BY <1>2, <1>4 DEF SwitchInit, FrameInv, Sp
  <1>6. AtStart
    <2>1. CodeIp = ip /\ CodeSp = sp
      BY <1>4 DEF CodeIp, CodeSp, Trapped
    <2> QED
      BY <2>1 DEF SwitchInit, Init, AtStart, Others
  <1> QED
    BY <1>1, <1>3, <1>5, <1>6 DEF SwitchInv, CodeInv

\* ... and every step preserves it.
LEMMA NextSwitchInv == SwitchInv /\ [SwitchNext]_allVars => SwitchInv'
  <1> SUFFICES ASSUME SwitchInv, [SwitchNext]_allVars PROVE SwitchInv'
    OBVIOUS
  <1>1. CASE SwitchAdd \/ SwitchRun
    BY <1>1, AddPreserves, RunPreserves
  <1>2. ASSUME NEW i \in 1 .. 6, Stp(i) \/ Ldp(i + 10) PROVE SwitchInv'
    <2>1. i + 10 \in 11 .. 16
      OBVIOUS
    <2> QED
      BY <1>2, <2>1, StpPreserves, LdpPreserves
  <1>3. CASE MovX2 \/ StrX2 \/ LdrX2 \/ MovSp \/ Ret
    BY <1>3, SavePreserves, MovSpPreserves, RetPreserves
  <1>4. ASSUME NEW t \in Tasks, TaskCode(t) PROVE SwitchInv'
    BY <1>4, YieldPreserves, BodyPreserves, YieldCodePreserves, EnterPreserves DEF TaskCode
  <1>5. CASE Irq
    BY <1>5, IrqPreserves
  <1>6. CASE UNCHANGED allVars
    <2>1. IInv'
      BY StepsOfScheduler, NextIInv DEF SwitchInv
    <2>2. UNCHANGED <<vars, regs, sp, mem, saved, ip, work, count, exec, pc>>
      BY <1>6 DEF allVars, machine, vars
    <2>3. UNCHANGED <<CodeRegs, CodeSp, CodeIp>>
      BY <2>2 DEF CodeRegs, CodeSp, CodeIp, Trapped, Sp
    <2>4. CodeInv'
      BY <2>2, <2>3, DependsOn DEF SwitchInv, IInv
    <2>5. SwitchTypeOK' /\ FrameInv'
      BY <2>2 DEF SwitchInv, SwitchTypeOK, FrameInv, Sp
    <2> QED
      BY <2>1, <2>4, <2>5 DEF SwitchInv
  <1> QED
    BY <1>1, <1>2, <1>3, <1>4, <1>5, <1>6 DEF SwitchNext, Code, Switching

\* Where registers and stacks are, in every reachable state: the inductive invariant.
THEOREM SwitchInvariance == SwitchSafeSpec => []SwitchInv
  BY InitSwitchInv, NextSwitchInv, PTL DEF SwitchSafeSpec

\* sched_context_switch, with the frame that sched_add_task builds and with
\* interrupts anywhere, brings every task back to the registers, the stack and the
\* stack pointer that it left, for any number of tasks.
THEOREM TasksFindTheirOwn == SwitchSafeSpec => []TaskFindsItsOwn
  <1>1. SwitchInv => TaskFindsItsOwn
    <2> SUFFICES ASSUME SwitchInv, ip \notin {Trap, Restore} PROVE TaskFindsItsOwn
      BY DEF TaskFindsItsOwn
    <2>1. CodeRegs = regs /\ CodeSp = sp /\ CodeIp = ip
      BY CodeAt
    <2>2. CASE AtStart \/ InTask \/ AtEntry
      BY <2>1, <2>2 DEF AtStart, InTask, AtEntry, TaskFindsItsOwn
    <2>3. ASSUME NEW n \in 1 .. 17, ip = Instr(n) PROVE TaskFindsItsOwn
      BY <2>3 DEF TaskFindsItsOwn
    <2>4. \A n \in 1 .. 10, o \in Owner : Saving(n, o) => ip = Instr(n) /\ n \in 1 .. 17
      BY <2>1 DEF Saving
    <2>5. \A n \in 11 .. 17 : Loading(n) => ip = Instr(n) /\ n \in 1 .. 17
      BY <2>1 DEF Loading
    <2> QED
      BY <2>2, <2>3, <2>4, <2>5 DEF SwitchInv, CodeInv
  <1> QED
    BY SwitchInvariance, <1>1, PTL
=============================================================================
