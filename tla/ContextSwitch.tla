--------------------------- MODULE ContextSwitch ---------------------------
(***************************************************************************)
(* The scheduler down to registers and stacks: sched_context_switch        *)
(* (src/sched.S) one instruction per step, the stack frame that            *)
(* sched_add_task builds for it, and interrupts between any two            *)
(* instructions, with save_regs and restore_regs of src/vector.S.          *)
(*                                                                         *)
(* A stack is a function of depth, in words of 8 bytes from its top; what  *)
(* is below the stack pointer may be overwritten at any time, so popped    *)
(* words are Junk at once.  x3 to x18 are left out: an interrupt saves     *)
(* them like x0 to x2, and a function call preserves none of them.         *)
(***************************************************************************)
EXTENDS Scheduler

CONSTANT Frame   \* words of a task's own in use whenever it calls task_yield

ASSUME FrameAssumption == Frame \in Nat

VARIABLES
  regs,    \* x0 to x2, x19 to x30
  sp,      \* the stack in use and its depth
  mem,     \* the stack of each task, and the boot stack
  saved,   \* sp of each tcb_t, and of boot_temp
  ip,      \* the address of the next instruction
  work     \* history: which values each task computed last

machine == <<regs, sp, mem, saved, ip>>
allVars == <<vars, machine, work>>

Reg    == (0 .. 2) \cup (19 .. 30)
Owner  == Tasks \cup {-1}
EXC    == 34                    \* EXC_FRAME_SIZE, in words
Depth  == Frame + 12 + EXC

\* Words: the values of tasks, <<k, t, n>> with k > 0, and
Zero     == <<0, 0, 0>>
Entry(t) == <<-1, t, 0>>        \* the address of a task's function
Back     == <<-2, 0, 0>>        \* the return address in task_yield
Instr(i) == <<-3, i, 0>>        \* instruction i of sched_context_switch
Junk     == <<-4, 0, 0>>
CCode    == <<-5, 0, 0>>        \* anywhere else in C code
Sp(o, d) == <<-6, o, d>>        \* an address in a stack
Tcb(o)   == <<-7, o, 0>>
Trap     == <<-8, 0, 0>>        \* common_trap_handler
Restore  == <<-8, 1, 0>>        \* restore_regs

\* Register k, or word k of its stack, as task t left it.
Own(k, t) == <<k, t, work[t]>>

SwitchInit ==
  /\ Init
  /\ regs = [k \in Reg |-> Junk]
  /\ sp = Sp(-1, 0)
  /\ mem = [o \in Owner |-> [d \in 1 .. Depth |-> Junk]]
  /\ saved = [o \in Owner |-> Zero]
  /\ ip = CCode
  /\ work = [t \in Tasks |-> 0]

-----------------------------------------------------------------------------
\* The stack in use: its depth, new contents for some of its words, a new depth.
Below == sp[3]
Write(from, to, Content(_)) ==
  mem' = [mem EXCEPT ![sp[2]] = [d \in 1 .. Depth |->
            IF from <= d /\ d <= to THEN Content(d) ELSE @[d]]]
Move(n) == sp' = Sp(sp[2], sp[3] + n)

InC(A) == ip = CCode /\ A

\* Variant for mutation: entry in the slot that the comment there names, 11.
BugFirstFrame(t) ==
  [d \in 1 .. Depth |-> IF d = 1 THEN Entry(t) ELSE IF d <= 12 THEN Zero ELSE Junk]

\* stack_top[0 .. 11] of a new task, all 0 but word 1.
FirstFrame(t) ==
  [d \in 1 .. Depth |-> IF d = 11 THEN Entry(t) ELSE IF d <= 12 THEN Zero ELSE Junk]

\* sched_add_task: the 12 words that the switch will load.
SwitchAdd ==
  /\ InC(AddTask)
  /\ mem' = [mem EXCEPT ![count] = FirstFrame(count)]
  /\ saved' = [saved EXCEPT ![count] = Sp(count, 12)]
  /\ UNCHANGED <<regs, sp, ip, work>>

\* sched_context_switch(old, new) is called.
Call(old, new, lr) ==
  /\ regs' = [regs EXCEPT ![0] = Tcb(old), ![1] = Tcb(new), ![30] = lr]
  /\ ip' = Instr(1)
  /\ UNCHANGED <<sp, mem, saved, work>>

SwitchRun == InC(Run) /\ Call(-1, 0, Junk)

SwitchYield(t) == InC(YieldSwitch(t)) /\ Call(t, local[t], Back)

\* The task has worked when it calls task_yield or task_sleep_ms: other values
\* are in its registers and in its part of the stack.
Works(t, n) ==
  /\ work' = [work EXCEPT ![t] = n]
  /\ regs' = [k \in Reg |-> IF k \in 19 .. 29 THEN <<k, t, n>> ELSE Junk]
  /\ Write(Below - Frame + 1, Below, LAMBDA d : <<d, t, n>>)
  /\ UNCHANGED <<sp, saved, ip>>

SwitchBody(t) ==
  /\ InC(Yield(t) \/ \E ms \in Delays : Sleep(t, ms))
  /\ Works(t, 1 - work[t])

SwitchC(t) ==
  /\ InC(SleepArm(t) \/ YieldPick(t) \/ YieldAlone(t))
  /\ UNCHANGED <<machine, work>>

\* The switch has returned into a task_yield, and that to its caller.
SwitchBack(t) ==
  /\ ip = Back /\ Resume(t)
  /\ ip' = CCode
  /\ regs' = [k \in Reg |-> IF k \in 19 .. 29 THEN regs[k] ELSE Junk]
  /\ UNCHANGED <<sp, mem, saved, work>>

\* The switch has returned to the first instruction of a task.
Enter(t) ==
  /\ ip = Entry(t)
  /\ ip' = CCode
  /\ Move(Frame)
  /\ Write(Below + 1, Below + Frame, LAMBDA d : Own(d, t))
  /\ regs' = [k \in Reg |-> IF k \in 19 .. 29 THEN Own(k, t) ELSE Junk]
  /\ UNCHANGED <<vars, saved, work>>

-----------------------------------------------------------------------------
At(i) == ip = Instr(i) /\ ip' = Instr(i + 1) /\ UNCHANGED <<vars, work>>

\* stp xA, xB, [sp, #-16]!
Stp(i) ==
  /\ At(i)
  /\ Move(2)
  /\ Write(Below + 1, Below + 2, LAMBDA d : regs[(IF d = Below + 2 THEN 17 ELSE 18) + 2 * i])
  /\ UNCHANGED <<regs, saved>>

\* mov x2, sp
MovX2 ==
  /\ At(7)
  /\ regs' = [regs EXCEPT ![2] = sp]
  /\ UNCHANGED <<sp, mem, saved>>

\* str x2, [x0]
StrX2 ==
  /\ At(8)
  /\ saved' = [saved EXCEPT ![regs[0][2]] = regs[2]]
  /\ UNCHANGED <<regs, sp, mem>>

\* ldr x2, [x1]
LdrX2 ==
  /\ At(9)
  /\ regs' = [regs EXCEPT ![2] = saved[regs[1][2]]]
  /\ UNCHANGED <<sp, mem, saved>>

\* mov sp, x2
MovSp ==
  /\ At(10)
  /\ sp' = regs[2]
  /\ UNCHANGED <<regs, mem, saved>>

\* ldp xA, xB, [sp], #16
Ldp(i) ==
  /\ At(i)
  /\ regs' = [regs EXCEPT ![51 - 2 * i] = mem[sp[2]][Below],
                         ![52 - 2 * i] = mem[sp[2]][Below - 1]]
  /\ Move(-2)
  /\ Write(Below - 1, Below, LAMBDA d : Junk)
  /\ UNCHANGED saved

Ret ==
  /\ ip = Instr(17)
  /\ ip' = regs[30]
  /\ UNCHANGED <<vars, regs, sp, mem, saved, work>>

-----------------------------------------------------------------------------
\* Word k of an exc_frame_t: the registers, the stack pointer, ELR_EL1; SPSR_EL1
\* and x3 to x18 are left out.
Saved(k) == IF k \in Reg THEN regs[k] ELSE IF k = 31 THEN sp ELSE IF k = 32 THEN ip ELSE Junk

\* An interrupt before any instruction but those of the handler, which runs with
\* interrupts masked: save_regs, and the call of common_trap_handler.
IrqEnter ==
  /\ ip \notin {Trap, Restore}
  /\ Move(EXC)
  /\ Write(Below + 1, Below + EXC, LAMBDA d : Saved(Below + EXC - d))
  /\ regs' = [regs EXCEPT ![0] = Junk, ![1] = sp', ![30] = Restore]
  /\ ip' = Trap
  /\ UNCHANGED <<vars, saved, work>>

\* The handler is C code: it keeps x19 to x29 and returns.
Handler ==
  /\ ip = Trap
  /\ Tick \/ UNCHANGED vars
  /\ regs' = [k \in Reg |-> IF k \in 19 .. 29 THEN regs[k] ELSE Junk]
  /\ ip' = regs[30]
  /\ UNCHANGED <<sp, mem, saved, work>>

\* restore_regs
IrqExit ==
  /\ ip = Restore
  /\ regs' = [k \in Reg |-> mem[sp[2]][Below - k]]
  /\ ip' = mem[sp[2]][Below - 32]
  /\ Move(-EXC)
  /\ Write(Below - EXC + 1, Below, LAMBDA d : Junk)
  /\ UNCHANGED <<vars, saved, work>>

-----------------------------------------------------------------------------
Switching == \/ \E i \in 1 .. 6 : Stp(i) \/ Ldp(i + 10)
             \/ MovX2 \/ StrX2 \/ LdrX2 \/ MovSp \/ Ret

TaskCode(t) == SwitchYield(t) \/ SwitchBody(t) \/ SwitchC(t) \/ SwitchBack(t) \/ Enter(t)

Code == Switching \/ \E t \in Tasks : TaskCode(t)

Irq == IrqEnter \/ Handler \/ IrqExit

SwitchNext == SwitchAdd \/ SwitchRun \/ Code \/ Irq

SwitchSafeSpec == SwitchInit /\ [][SwitchNext]_allVars

\* Interrupts leave time for the code that they interrupt.
SwitchSpec == /\ SwitchSafeSpec
              /\ SF_allVars(Code)
              /\ WF_allVars(Handler \/ IrqExit)

-----------------------------------------------------------------------------
\* A task that comes back from task_yield, or is interrupted anywhere, finds its
\* registers, its stack and its stack pointer as it left them, and a new task
\* starts in its own function with its stack empty, whatever else ran and
\* wherever in the switch itself interrupts came.
TaskFindsItsOwn ==
  \/ ip \in {Trap, Restore} \cup {Instr(i) : i \in 1 .. 17}
  \/ exec = -1 /\ ip = CCode
  \/ ip = Entry(exec) /\ pc[exec] = "body" /\ sp = Sp(exec, 0)
  \/ /\ ip = IF pc[exec] = "resume" THEN Back ELSE CCode
     /\ sp = Sp(exec, Frame)
     /\ \A k \in 19 .. 29 : regs[k] = Own(k, exec)
     /\ \A d \in 1 .. Frame : mem[exec][d] = Own(d, exec)

-----------------------------------------------------------------------------
\* The strengthening that is inductive.  Registers, stack pointer and next
\* instruction of the code, also while an interrupt has them in its frame:
Trapped == ip \in {Trap, Restore}
CodeRegs == IF Trapped THEN [k \in Reg |-> mem[sp[2]][sp[3] - k]] ELSE regs
CodeSp == IF Trapped THEN Sp(sp[2], sp[3] - EXC) ELSE sp
CodeIp == IF Trapped THEN mem[sp[2]][sp[3] - 32] ELSE ip

Word == Int \X Int \X Int

SwitchTypeOK ==
  /\ regs \in [Reg -> Word]
  /\ mem \in [Owner -> [1 .. Depth -> Word]]
  /\ saved \in [Owner -> Word]
  /\ ip \in Word
  /\ work \in [Tasks -> 0 .. 1]

\* Word number s of a task's frame is that of this register.
Slot(s) == IF s % 2 = 0 THEN 17 + s ELSE 19 + s

\* What a task that is not on the core will find in register k, how many words of
\* its own are on its stack, and that the first n words of its frame are there.
Value(t, k) == IF pc[t] = "resume" THEN IF k = 30 THEN Back ELSE Own(k, t)
                                   ELSE IF k = 30 THEN Entry(t) ELSE Zero
Used(t) == IF pc[t] = "resume" THEN Frame ELSE 0
Kept(t, n) == /\ \A d \in 1 .. Used(t) : mem[t][d] = Own(d, t)
              /\ \A s \in 1 .. n : mem[t][Used(t) + s] = Value(t, Slot(s))

Parked(t) == saved[t] = Sp(t, Used(t) + 12) /\ Kept(t, 12)
Others(o) == \A t \in 0 .. count - 1 : t # o => Parked(t)

AtStart == exec = -1 /\ CodeIp = CCode /\ CodeSp = Sp(-1, 0) /\ Others(-1)

InTask ==
  /\ exec \in 0 .. count - 1 /\ Others(exec)
  /\ CodeIp = IF pc[exec] = "resume" THEN Back ELSE CCode
  /\ CodeSp = Sp(exec, Frame)
  /\ \A k \in 19 .. 29 : CodeRegs[k] = Own(k, exec)
  /\ \A d \in 1 .. Frame : mem[exec][d] = Own(d, exec)

AtEntry ==
  /\ exec \in 0 .. count - 1 /\ Others(exec)
  /\ CodeIp = Entry(exec) /\ pc[exec] = "body" /\ CodeSp = Sp(exec, 0)

\* Before instruction n of the switch, up to the one that changes stacks, from o.
Pushed(n) == IF n <= 6 THEN 2 * (n - 1) ELSE 12
Saving(n, o) ==
  /\ exec \in 0 .. count - 1 /\ pc[exec] \in {"body", "resume"} /\ Others(o)
  /\ o # exec /\ o < count /\ CodeIp = Instr(n)
  /\ CodeRegs[0] = Tcb(o) /\ CodeRegs[1] = Tcb(exec)
  /\ CodeSp = Sp(o, IF o = -1 THEN Pushed(n) ELSE Frame + Pushed(n))
  /\ o # -1 => /\ pc[o] = "resume"
               /\ \A k \in 19 .. 30 : CodeRegs[k] = Value(o, k)
               /\ Kept(o, Pushed(n))
               /\ n >= 9 => saved[o] = CodeSp
  /\ n = 8 => CodeRegs[2] = CodeSp
  /\ n = 10 => CodeRegs[2] = saved[exec]

\* ... and after it.
Loading(n) ==
  /\ exec \in 0 .. count - 1 /\ pc[exec] \in {"body", "resume"} /\ Others(exec)
  /\ CodeIp = Instr(n)
  /\ CodeSp = Sp(exec, Used(exec) + 34 - 2 * n)
  /\ Kept(exec, 34 - 2 * n)
  /\ \A s \in 1 .. 12 : s > 34 - 2 * n => CodeRegs[Slot(s)] = Value(exec, Slot(s))

CodeInv == \/ AtStart \/ InTask \/ AtEntry
           \/ \E n \in 1 .. 10, o \in Owner : Saving(n, o)
           \/ \E n \in 11 .. 17 : Loading(n)

\* There is room for the frame of an exception above the code's stack pointer.
StackOK == /\ CodeSp = Sp(CodeSp[2], CodeSp[3])
           /\ CodeSp[2] \in Owner /\ CodeSp[3] \in 0 .. Frame + 12
           /\ CodeIp \notin {Trap, Restore}

FrameInv == /\ sp = Sp(sp[2], sp[3]) /\ sp[2] \in Owner /\ sp[3] \in 0 .. Depth
            /\ ip = Trap => regs[30] = Restore

SwitchInv == IInv /\ SwitchTypeOK /\ FrameInv /\ CodeInv
=============================================================================
