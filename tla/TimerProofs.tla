---------------------------- MODULE TimerProofs ----------------------------
(***************************************************************************)
(* Proofs about TimerTests.tla, for any frequency, start of the countdown, *)
(* number of ticks, tolerance and lateness: the inductive invariant, that  *)
(* the masked timer never interrupts, that the countdown is not early, and *)
(* that all tests pass when the handlers are in time.                      *)
(***************************************************************************)
EXTENDS TimerTests, SequenceTheorems, TLAPS

\* The horizon lies beyond every time that the tests wait for.
LEMMA HorizonIsFar ==
  /\ Horizon \in Nat /\ Horizon >= 2 * Freq /\ Horizon >= Freq
  /\ \A n \in 0 .. Start : Horizon >= (n + 1) * Freq /\ (n + 1) * Freq = n * Freq + Freq
  <1>1. Start * Freq \in Nat
    BY TimerAssumption
  <1>2. Horizon = Start * Freq + 2 * Freq
    BY TimerAssumption DEF Horizon
  <1>3. ASSUME NEW n \in 0 .. Start
        PROVE  Horizon >= (n + 1) * Freq /\ (n + 1) * Freq = n * Freq + Freq
    <2>1. (Start - n) * Freq \in Nat
      BY TimerAssumption
    <2>2. (Start - n) * Freq = Start * Freq - n * Freq /\ (n + 1) * Freq = n * Freq + Freq
      BY TimerAssumption
    <2>3. n * Freq \in Nat
      BY TimerAssumption
    <2>4. QED
      BY <1>1, <1>2, <2>1, <2>2, <2>3, TimerAssumption
  <1>4. QED
    BY <1>1, <1>2, <1>3, TimerAssumption

\* What the timer is set to has the right type, and so have the times' zeros.
LEMMA ArmTypes ==
  Freq \in -MaxLate .. Freq /\ 0 \in -MaxLate .. Freq /\ 0 \in 0 .. Horizon
  BY HorizonIsFar, TimerAssumption

\* An initial state satisfies the inductive invariant.
LEMMA InitIInv == Init => IInv
  <1> SUFFICES ASSUME Init PROVE IInv
    OBVIOUS
  <1>1. TypeOK
    <2>1. 0 \in -1 .. Start /\ 0 \in 0 .. MaxSpurious
      BY TimerAssumption
    <2>2. stamps \in Seq(Nat) /\ Len(stamps) <= Ticks + 1
      BY TimerAssumption DEF Init
    <2>3. handler \in [IntId -> {"none", "imask", "countdown", "delta", "uart0"}]
      BY DEF Init
    <2>4. QED
      BY <2>1, <2>2, <2>3, ArmTypes DEF Init, TypeOK
  <1>2. QED
    BY <1>1 DEF Init, IInv, ImaskHolds, Phases, Interrupts, CountTime, DeltaTime, Passed,
       Counting, Timing

\* Up to the countdown the timer is off or masked, whatever the firmware left on.
LEMMA StartPreserves ==
  ASSUME IInv, UartInit \/ IrqInit \/ FreqSanity \/ ImaskArm \/ ImaskEnd
  PROVE  IInv'
  <1>0. Freq \in Nat
    BY TimerAssumption
  <1> USE DEF IInv, ImaskHolds, Phases, Interrupts, CountTime, DeltaTime, Passed, Counting, Timing
  <1>1. CASE UartInit
    BY <1>1 DEF UartInit, At, TypeOK, clock, timer, results, inputs
  <1>2. CASE IrqInit
    BY <1>2 DEF IrqInit, Register, At, TypeOK, clock, timer, results, inputs, IntId
  <1>3. CASE FreqSanity
    BY <1>3 DEF FreqSanity, At, TypeOK, clock, timer, gic, results, inputs
  <1>4. CASE ImaskArm
    <2>1. TypeOK'
      BY <1>4, ArmTypes DEF ImaskArm, Arm, Register, At, TypeOK, inputs, IntId
    <2>2. QED
      BY <1>4, <2>1 DEF ImaskArm, Arm, Register, At, TypeOK, inputs, IntId
  <1>5. CASE ImaskEnd
    BY <1>5 DEF ImaskEnd, At, TypeOK, clock, gic, results, inputs
  <1>6. QED
    BY <1>1, <1>2, <1>3, <1>4, <1>5

\* Arming the countdown and the delta test, and what the main thread does while
\* they run: it never turns the timer on or off.
LEMMA ArmPreserves ==
  ASSUME IInv, CountArm \/ DeltaArm
  PROVE  IInv'
  <1>0. /\ Freq \in Nat /\ Start \in -1 .. Start /\ Start # -1
        /\ 0 + Freq >= (Start - Start + 1) * Freq
        /\ <<>> \in Seq(Nat) /\ Len(<<>>) = 0 /\ Len(<<>>) <= Ticks + 1 /\ ~(0 > Ticks)
    BY TimerAssumption
  <1> USE DEF IInv, ImaskHolds, Phases, Interrupts, Passed, Counting, Timing
  <1>1. CASE CountArm
    <2>1. TypeOK'
      BY <1>0, <1>1, ArmTypes DEF CountArm, Arm, Register, At, TypeOK, inputs, IntId
    <2>2. CountTime'
      <3>1. since' = 0 /\ due' = Freq /\ left' = Start /\ irq' = "none"
        BY <1>1 DEF CountArm, Arm, At
      <3>2. QED
        BY <1>0, <3>1 DEF CountTime, CountOver
    <2>3. QED
      BY <1>0, <1>1, <2>1, <2>2 DEF CountArm, Arm, Register, At, TypeOK, inputs, IntId, CountOver,
         DeltaTime
  <1>2. CASE DeltaArm
    <2>1. stamps' = <<>>
      BY <1>2 DEF DeltaArm
    <2>2. TypeOK'
      BY <1>0, <1>2, <2>1, ArmTypes DEF DeltaArm, Arm, Register, At, TypeOK, inputs, IntId
    <2>3. QED
      BY <1>0, <1>2, <2>1, <2>2 DEF DeltaArm, Arm, Register, At, TypeOK, inputs, IntId, DeltaOver,
         DeltaTime, CountTime
  <1>3. QED
    BY <1>1, <1>2

LEMMA LoopPreserves ==
  ASSUME IInv, LoopCheck \/ Wfe \/ CountEnd \/ DeltaEnd
  PROVE  IInv'
  <1> USE DEF IInv, ImaskHolds, Phases, Interrupts, Passed, Counting, Timing, CountTime, DeltaTime,
              At, TypeOK, clock, timer, gic, results, inputs, CountOver, DeltaOver
  <1>1. CASE LoopCheck
    BY <1>1 DEF LoopCheck
  <1>2. CASE Wfe
    BY <1>2 DEF Wfe
  <1>3. CASE CountEnd
    BY <1>3 DEF CountEnd
  <1>4. CASE DeltaEnd
    BY <1>4 DEF DeltaEnd
  <1>5. QED
    BY <1>1, <1>2, <1>3, <1>4

\* A count below its bound stays within it.
LEMMA Incremented ==
  ASSUME NEW n \in 0 .. MaxSpurious, n < MaxSpurious
  PROVE  n + 1 \in 0 .. MaxSpurious
  BY TimerAssumption

\* Taking an interrupt, acknowledging and ending it: what is acknowledged is the
\* timer's when it is due, the UART's, or nothing.
LEMMA GicPreserves ==
  ASSUME IInv, TakeIrq \/ TakeSpurious \/ Acknowledge \/ AcknowledgeSpurious \/ EndOfInterrupt
  PROVE  IInv'
  <1> USE DEF IInv, ImaskHolds, Phases, Interrupts, Passed, Counting, Timing, CountTime, DeltaTime,
              mainVars, clock, timer, gic, results, inputs, CountOver, DeltaOver
  <1>1. CASE TakeIrq
    <2>1. TypeOK'
      BY <1>1 DEF TakeIrq, TypeOK
    <2>2. CountTime' /\ DeltaTime'
      BY <1>1 DEF TakeIrq
    <2>3. QED
      BY <1>1, <2>1, <2>2 DEF TakeIrq
  <1>2. CASE TakeSpurious
    <2>1. TypeOK'
      <3>1. spurious \in 0 .. MaxSpurious /\ spurious < MaxSpurious /\ spurious' = spurious + 1
        BY <1>2 DEF TakeSpurious, TypeOK
      <3>2. spurious' \in 0 .. MaxSpurious
        BY <3>1, Incremented
      <3>3. QED
        BY <1>2, <3>2 DEF TakeSpurious, TypeOK
    <2>2. QED
      BY <1>2, <2>1 DEF TakeSpurious
  <1>3. CASE Acknowledge
    <2>1. (irq' = "timer" /\ ctl = "on" /\ due <= 0) \/ irq' = "uart"
      BY <1>3 DEF Acknowledge, Pending, Signal
    <2>2. irq' \in {"timer", "uart"} /\ irq' # "rearm" /\ irq # "rearm" /\ ~masked
      BY <1>3, <2>1 DEF Acknowledge
    <2>3. TypeOK'
      BY <1>3, <2>2 DEF Acknowledge, TypeOK, IntId
    <2>4. CountTime' /\ DeltaTime'
      BY <1>3, <2>2 DEF Acknowledge
    <2>5. QED
      BY <1>3, <2>1, <2>2, <2>3, <2>4 DEF Acknowledge
  <1>4. CASE AcknowledgeSpurious
    <2>1. TypeOK'
      BY <1>4 DEF AcknowledgeSpurious, Eret, TypeOK
    <2>2. CountTime' /\ DeltaTime'
      BY <1>4 DEF AcknowledgeSpurious, Eret
    <2>3. QED
      BY <1>4, <2>1, <2>2 DEF AcknowledgeSpurious, Eret
  <1>5. CASE EndOfInterrupt
    <2>1. TypeOK'
      BY <1>5 DEF EndOfInterrupt, Eret, TypeOK
    <2>2. CountTime' /\ DeltaTime'
      BY <1>5 DEF EndOfInterrupt, Eret
    <2>3. QED
      BY <1>5, <2>1, <2>2 DEF EndOfInterrupt, Eret
  <1>6. QED
    BY <1>1, <1>2, <1>3, <1>4, <1>5

\* The handler that runs is the UART's, or the one of the test under way, while its
\* timer is on.
LEMMA HandlerOfTest ==
  ASSUME IInv, Handle
  PROVE  \/ HandleUart
         \/ /\ irq = "timer" /\ due <= 0 /\ ~masked
            /\ \/ Counting /\ ~CountOver /\ HandleCountdown
               \/ Timing /\ ~DeltaOver /\ HandleDelta
  <1>1. irq \in {"timer", "uart"} /\ ~masked
    BY DEF IInv, Interrupts, Handle, IntId
  <1>2. CASE irq = "uart"
    <2>1. main \notin {"reset", "init"}
      BY <1>1 DEF IInv, Phases
    <2>2. handler[irq] = "uart0"
      BY <1>2, <2>1 DEF IInv, Interrupts
    <2>3. QED
      BY <2>2 DEF Handle
  <1>3. CASE irq = "timer"
    <2>1. ctl = "on" /\ due <= 0
      BY <1>3 DEF IInv, Interrupts
    <2>2. Counting \/ Timing
      BY <1>1, <2>1 DEF IInv, TypeOK, Phases, Counting, Timing
    <2>3. QED
      BY <1>1, <1>3, <2>1, <2>2 DEF IInv, Phases, Handle
  <1>4. QED
    BY <1>1, <1>2, <1>3

\* The UART's handler changes nothing.
LEMMA UartPreserves ==
  ASSUME IInv, Handle, HandleUart
  PROVE  IInv'
  <1>1. ~masked /\ irq # "rearm"
    BY DEF IInv, Interrupts, Handle, IntId
  <1>2. TypeOK'
    BY DEF HandleUart, IInv, TypeOK, mainVars, clock, timer, gic, results, inputs
  <1>3. CountTime' /\ DeltaTime'
    BY <1>1 DEF HandleUart, IInv, CountTime, DeltaTime, Counting, Timing, CountOver, mainVars, clock,
       timer, results
  <1>4. QED
    BY <1>1, <1>2, <1>3 DEF HandleUart, IInv, ImaskHolds, Phases, Interrupts, Passed, Counting, Timing,
       CountOver, DeltaOver, mainVars, clock, timer, gic, results

\* The countdown's handler, and with it the timer's new period.
LEMMA CountdownPreserves ==
  ASSUME IInv, irq = "timer", due <= 0, ~masked, Counting, ~CountOver, HandleCountdown
  PROVE  IInv'
  <1>1. left \in 0 .. Start /\ left \in Int /\ since \in Int /\ due \in Int /\ Freq \in Nat /\ Start \in Nat
    <2>1. left \in -1 .. Start /\ left # -1 /\ since \in 0 .. Horizon /\ due \in -MaxLate .. Freq
      BY DEF IInv, TypeOK, CountOver
    <2>2. left \in 0 .. Start
      BY <2>1, TimerAssumption
    <2>3. QED
      BY <2>1, <2>2, HorizonIsFar, TimerAssumption
  <1>2. since = Horizon \/ since + due >= (Start - left + 1) * Freq
    BY DEF IInv, CountTime
  <1>3. since >= (Start - left + 1) * Freq
    <2>1. Start - left \in 0 .. Start
      BY <1>1
    <2>2. (Start - left + 1) * Freq \in Int /\ Horizon >= (Start - left + 1) * Freq /\ Horizon \in Nat
      BY <1>1, <2>1, HorizonIsFar
    <2>3. QED
      BY <1>1, <1>2, <2>2
  <1>4. CASE left > 0
    <2>1. left' = left - 1 /\ irq' = "rearm" /\ ctl' = ctl /\ since' = since /\ left' # -1
      BY <1>1, <1>4 DEF HandleCountdown, clock
    <2>2. left' \in -1 .. Start /\ Start - left' = Start - left + 1
      BY <1>1, <1>4, <2>1
    <2>3. since' >= (Start - left') * Freq
      BY <1>3, <2>1, <2>2
    <2>4. CountTime'
      BY <2>1, <2>3 DEF CountTime, CountOver
    <2>5. QED
      BY <2>1, <2>2, <2>4 DEF HandleCountdown, IInv, TypeOK, ImaskHolds, Phases, Interrupts, DeltaTime, Passed,
         Counting, Timing, CountOver, DeltaOver, mainVars, clock, gic, inputs
  <1>5. CASE left = 0
    <2>1. left' = -1 /\ irq' = "eoi" /\ ctl' = "off" /\ since' = since
      BY <1>5 DEF HandleCountdown, clock
    <2>2. since' >= (Start + 1) * Freq /\ -1 \in -1 .. Start
      BY <1>1, <1>3, <1>5, <2>1
    <2>3. CountTime'
      BY <2>1, <2>2 DEF CountTime, CountOver
    <2>4. QED
      BY <2>1, <2>2, <2>3 DEF HandleCountdown, IInv, TypeOK, ImaskHolds, Phases, Interrupts, DeltaTime, Passed,
         Counting, Timing, CountOver, DeltaOver, mainVars, clock, gic, inputs
  <1>6. QED
    BY <1>1, <1>4, <1>5

\* The delta test's handler, and with it the new time stamp.
LEMMA DeltaPreserves ==
  ASSUME IInv, irq = "timer", due <= 0, ~masked, Timing, ~DeltaOver, HandleDelta
  PROVE  IInv'
  <1> DEFINE n == Len(stamps)
  <1>1. n \in Nat /\ ~(n > Ticks) /\ gap \in 0 .. Horizon /\ due \in -MaxLate .. Freq /\ stamps \in Seq(Nat)
    <2>1. ~(n > Ticks) /\ gap \in 0 .. Horizon /\ due \in -MaxLate .. Freq /\ stamps \in Seq(Nat)
      BY DEF IInv, TypeOK, DeltaOver
    <2>2. QED
      BY <2>1
  <1>2. gap \in Nat /\ due \in Int
    BY <1>1, HorizonIsFar, TimerAssumption
  <1>3. /\ stamps' = Append(stamps, gap) /\ stamps' \in Seq(Nat) /\ Len(stamps') = n + 1
        /\ \A i \in 1 .. n : stamps'[i] = stamps[i]
        /\ stamps'[n + 1] = gap
    <2>1. stamps' = Append(stamps, gap)
      BY <1>1, TimerAssumption DEF HandleDelta
    <2>2. QED
      BY <1>1, <1>2, <2>1, AppendProperties
  <1> HIDE DEF n
  <1>4. ASSUME n > 0 PROVE gap >= Freq /\ gap <= Freq + 2 * MaxLate
    <2>1. stamps # <<>>
      BY <1>1, <1>4 DEF n
    <2>2. gap + due <= Freq + MaxLate /\ (gap = Horizon \/ gap + due >= Freq)
      BY <2>1 DEF IInv, DeltaTime, Phases
    <2>3. QED
      BY <1>1, <1>2, <2>2, HorizonIsFar, TimerAssumption
  <1>5. ASSUME NEW i \in 2 .. n + 1 PROVE stamps'[i] >= Freq /\ stamps'[i] <= Freq + 2 * MaxLate
    <2>1. CASE i = n + 1
      BY <1>1, <1>3, <1>4, <2>1
    <2>2. CASE i # n + 1
      <3>1. i \in 2 .. n /\ i \in 1 .. n
        BY <1>1, <2>2
      <3>2. QED
        BY <1>3, <3>1 DEF IInv, DeltaTime, n
    <2>3. QED
      BY <2>1, <2>2
  <1>6. irq' \in {"eoi", "rearm"} /\ (irq' = "eoi" <=> n + 1 > Ticks) /\ ctl' = (IF n + 1 > Ticks THEN "off" ELSE ctl)
    BY <1>3 DEF HandleDelta
  <1>7. TypeOK'
    <2>1. n + 1 <= Ticks + 1
      BY <1>1, TimerAssumption
    <2>2. gap' = 0 /\ 0 \in 0 .. Horizon
      BY ArmTypes DEF HandleDelta
    <2>3. ctl' \in {"off", "on", "imask"}
      BY <1>6 DEF IInv, TypeOK
    <2>4. QED
      BY <1>3, <1>6, <2>1, <2>2, <2>3 DEF HandleDelta, IInv, TypeOK, mainVars, gic, inputs
  <1>8. DeltaTime'
    <2>1. \A i \in 2 .. Len(stamps') : stamps'[i] >= Freq /\ stamps'[i] <= Freq + 2 * MaxLate
      BY <1>3, <1>5
    <2>2. gap' = 0 /\ due' = due /\ 0 + due <= 0
      BY <1>2 DEF HandleDelta
    <2>3. ctl' = "on" => irq' = "rearm"
      BY <1>6
    <2>4. QED
      BY <2>1, <2>2, <2>3 DEF DeltaTime
  <1>9. Phases' /\ Interrupts'
    <2>1. ctl = "on"
      BY DEF IInv, Phases
    <2>2. DeltaOver' <=> n + 1 > Ticks
      BY <1>3 DEF DeltaOver
    <2>3. QED
      BY <1>6, <2>1, <2>2 DEF HandleDelta, IInv, Phases, Interrupts, Counting, Timing, mainVars, gic
  <1>10. QED
    BY <1>7, <1>8, <1>9 DEF HandleDelta, IInv, ImaskHolds, CountTime, Passed, Counting, Timing, mainVars

\* Setting the timer again starts the next period.
LEMMA RearmPreserves ==
  ASSUME IInv, Rearm
  PROVE  IInv'
  <1>1. /\ irq = "rearm" /\ ctl = "on" /\ due <= 0 /\ ~masked /\ (Counting \/ Timing)
        /\ irq' = "eoi" /\ due' = Freq
        /\ UNCHANGED <<mainVars, event, clock, ctl, gic, results, inputs>>
    BY DEF Rearm, IInv, TypeOK, Phases, Interrupts, Counting, Timing
  <1>2. left \in -1 .. Start /\ since \in 0 .. Horizon /\ gap \in 0 .. Horizon /\ due \in -MaxLate .. Freq
    BY DEF IInv, TypeOK
  <1>3. /\ left \in Int /\ since \in Int /\ gap \in Int /\ due \in Int /\ Freq \in Nat
        /\ MaxLate \in Nat /\ due >= -MaxLate /\ gap >= 0
    BY <1>2, HorizonIsFar, TimerAssumption
  <1>4. TypeOK'
    BY <1>1, ArmTypes DEF IInv, TypeOK, mainVars, clock, gic, results, inputs
  <1>5. CountTime'
    <2>1. CASE Counting
      <3>1. left \in 0 .. Start /\ ~CountOver
        BY <1>1, <1>2, <2>1, TimerAssumption DEF IInv, Phases, CountOver
      <3>2. Start - left \in 0 .. Start /\ since >= (Start - left) * Freq
        BY <1>1, <2>1, <3>1, TimerAssumption DEF IInv, CountTime
      <3>3. /\ (Start - left + 1) * Freq = (Start - left) * Freq + Freq
            /\ (Start - left) * Freq \in Int
        BY <1>3, <3>2, HorizonIsFar, TimerAssumption
      <3>4. since + Freq >= (Start - left + 1) * Freq
        BY <1>3, <3>2, <3>3
      <3>5. QED
        BY <1>1, <3>1, <3>4 DEF CountTime, CountOver, clock, results
    <2>2. CASE ~Counting
      BY <1>1, <2>2 DEF CountTime, Counting, mainVars
    <2>3. QED
      BY <2>1, <2>2
  <1>6. DeltaTime'
    <2>1. CASE Timing
      <3>1. gap + due <= 0
        BY <1>1, <2>1 DEF IInv, DeltaTime
      <3>2. gap + Freq <= Freq + MaxLate /\ gap + Freq >= Freq
        BY <1>3, <3>1
      <3>3. QED
        BY <1>1, <2>1, <3>2 DEF IInv, DeltaTime, clock, results
    <2>2. CASE ~Timing
      BY <1>1, <2>2 DEF DeltaTime, Timing, mainVars
    <2>3. QED
      BY <2>1, <2>2
  <1>7. QED
    BY <1>1, <1>4, <1>5, <1>6 DEF IInv, ImaskHolds, Phases, Interrupts, Passed, Counting, Timing,
       CountOver, DeltaOver, mainVars, clock, gic, results

\* When only time passes and a key is typed, or nothing happens, the types stay.
LEMMA TypesStay ==
  ASSUME TypeOK, UNCHANGED <<mainVars, irq, event, ctl, gic, results, spurious>>,
         since' \in 0 .. Horizon, gap' \in 0 .. Horizon, due' \in -MaxLate .. Freq,
         typed' \in BOOLEAN
  PROVE  TypeOK'
  <1> USE DEF TypeOK
  <1>1. /\ main' = main /\ main \in {"reset", "init", "freq", "imask", "spin", "count", "counting",
             "count wfe", "delta", "timing", "delta wfe", "done", "halted"}
        /\ passed' \subseteq {"freq", "imask", "countdown", "delta"}
    BY DEF mainVars
  <1>2. irq' \in {"none", "taken", "rearm", "eoi"} \cup IntId
    OBVIOUS
  <1>3. masked' \in BOOLEAN /\ event' \in BOOLEAN /\ ctl' \in {"off", "on", "imask"}
    BY DEF mainVars
  <1>4. gicOn' \in BOOLEAN /\ enabled' \subseteq IntId /\ imsc' \in BOOLEAN
    BY DEF gic
  <1>5. handler' \in [IntId -> {"none", "imask", "countdown", "delta", "uart0"}]
    BY DEF gic
  <1>6. left' \in -1 .. Start /\ fired' \in Nat /\ spurious' \in 0 .. MaxSpurious
    BY DEF results
  <1>7. stamps' \in Seq(Nat) /\ Len(stamps') <= Ticks + 1
    BY DEF results
  <1>8. QED
    BY <1>1, <1>2, <1>3, <1>4, <1>5, <1>6, <1>7

\* A moment passes: what has passed and what is left change together.
LEMMA TickPreserves ==
  ASSUME IInv, Tick
  PROVE  IInv'
  <1>1. left \in -1 .. Start /\ since \in 0 .. Horizon /\ gap \in 0 .. Horizon /\ due \in -MaxLate .. Freq
    BY DEF IInv, TypeOK
  <1>2. /\ left \in Int /\ since \in Int /\ gap \in Int /\ due \in Int /\ Freq \in Nat
        /\ MaxLate \in Nat /\ Horizon \in Nat
    BY <1>1, HorizonIsFar, TimerAssumption
  <1>3. /\ since' = (IF since < Horizon THEN since + 1 ELSE since)
        /\ gap' = (IF gap < Horizon THEN gap + 1 ELSE gap)
        /\ due' = (IF ctl = "on" \/ due > 0 THEN due - 1 ELSE due)
        /\ ctl = "on" /\ due <= 0 => due > -MaxLate
        /\ UNCHANGED <<mainVars, irq, event, ctl, gic, results, inputs>>
    BY DEF Tick, Later, Signal
  <1>4. since' \in 0 .. Horizon /\ gap' \in 0 .. Horizon /\ due' \in -MaxLate .. Freq
    BY <1>1, <1>2, <1>3
  <1>5. TypeOK'
    BY <1>3, <1>4, TypesStay DEF IInv, TypeOK, inputs
  <1>6. due' <= due /\ since' >= since
    BY <1>2, <1>3
  <1>7. CountTime'
    <2>1. CASE Counting
      <3>1. CASE CountOver
        <4>1. (Start + 1) * Freq \in Int /\ since >= (Start + 1) * Freq
          BY <2>1, <3>1, TimerAssumption DEF IInv, CountTime
        <4>2. since' >= (Start + 1) * Freq
          BY <1>2, <1>3, <4>1
        <4>3. QED
          BY <1>3, <3>1, <4>2 DEF CountTime, CountOver, results
      <3>2. CASE ~CountOver /\ irq = "rearm"
        <4>1. (Start - left) * Freq \in Int /\ since >= (Start - left) * Freq
          BY <1>2, <2>1, <3>2, TimerAssumption DEF IInv, CountTime
        <4>2. since' >= (Start - left) * Freq
          BY <1>2, <1>3, <4>1
        <4>3. QED
          BY <1>3, <3>2, <4>2 DEF CountTime, CountOver, results
      <3>3. CASE ~CountOver /\ irq # "rearm"
        <4>1. (Start - left + 1) * Freq \in Int
          BY <1>2, TimerAssumption
        <4>2. since = Horizon \/ since + due >= (Start - left + 1) * Freq
          BY <2>1, <3>3 DEF IInv, CountTime
        <4>3. ctl = "on"
          BY <2>1, <3>3 DEF IInv, Phases
        <4>4. since' = Horizon \/ since' + due' >= (Start - left + 1) * Freq
          BY <1>1, <1>2, <1>3, <4>1, <4>2, <4>3
        <4>5. QED
          BY <1>3, <3>3, <4>4 DEF CountTime, CountOver, results
      <3>4. QED
        BY <3>1, <3>2, <3>3
    <2>2. CASE ~Counting
      BY <1>3, <2>2 DEF CountTime, Counting, mainVars
    <2>3. QED
      BY <2>1, <2>2
  <1>8. DeltaTime'
    <2>1. CASE Timing
      <3>1. irq = "rearm" => gap' + due' <= 0
        <4>1. irq = "rearm" => gap + due <= 0 /\ ctl = "on"
          BY <2>1 DEF IInv, DeltaTime, Interrupts
        <4>2. QED
          BY <1>2, <1>3, <4>1
      <3>2. ASSUME ctl = "on", irq # "rearm", stamps # <<>>
            PROVE  gap' + due' <= Freq + MaxLate /\ (gap' = Horizon \/ gap' + due' >= Freq)
        <4>1. gap + due <= Freq + MaxLate /\ (gap = Horizon \/ gap + due >= Freq)
          BY <2>1, <3>2 DEF IInv, DeltaTime
        <4>2. QED
          BY <1>1, <1>2, <1>3, <3>2, <4>1
      <3>3. QED
        BY <1>3, <2>1, <3>1, <3>2 DEF IInv, DeltaTime, results
    <2>2. CASE ~Timing
      BY <1>3, <2>2 DEF DeltaTime, Timing, mainVars
    <2>3. QED
      BY <2>1, <2>2
  <1>9. Interrupts'
    <2>1. due <= 0 => due' <= 0
      BY <1>2, <1>3
    <2>2. QED
      BY <1>3, <2>1 DEF IInv, Interrupts, mainVars, gic
  <1>10. QED
    BY <1>3, <1>5, <1>7, <1>8, <1>9 DEF IInv, ImaskHolds, Phases, Passed, Counting, Timing,
       CountOver, DeltaOver, mainVars, gic, results

\* So does every step.
LEMMA NextIInv == IInv /\ [Next]_vars => IInv'
  <1> SUFFICES ASSUME IInv, [Next]_vars PROVE IInv'
    OBVIOUS
  <1>1. CASE Main
    BY <1>1, StartPreserves, ArmPreserves, LoopPreserves DEF Main
  <1>2. CASE Exception
    BY <1>2, GicPreserves, HandlerOfTest, UartPreserves, CountdownPreserves, DeltaPreserves, RearmPreserves
       DEF Exception
  <1>3. CASE TakeSpurious
    BY <1>3, GicPreserves
  <1>4. CASE Tick
    BY <1>4, TickPreserves
  <1>5. CASE Type
    <2>1. TypeOK'
      BY <1>5, TypesStay DEF Type, IInv, TypeOK, clock, timer
    <2>2. QED
      BY <1>5, <2>1 DEF Type, IInv, ImaskHolds, Phases, Interrupts, CountTime, DeltaTime, Passed,
         Counting, Timing, CountOver, DeltaOver, mainVars, clock, timer, gic, results
  <1>6. CASE UNCHANGED vars
    <2>1. TypeOK'
      BY <1>6, TypesStay DEF vars, IInv, TypeOK, clock, timer, inputs
    <2>2. QED
      BY <1>6, <2>1 DEF vars, IInv, ImaskHolds, Phases, Interrupts, CountTime, DeltaTime, Passed,
         Counting, Timing, CountOver, DeltaOver, mainVars, clock, timer, gic, results
  <1>7. QED
    BY <1>1, <1>2, <1>3, <1>4, <1>5, <1>6 DEF Next

-----------------------------------------------------------------------------
\* The inductive invariant holds in every reachable state.
THEOREM Invariance == SafeSpec => []IInv
  BY InitIInv, NextIInv, PTL DEF SafeSpec

\* Every variable keeps its type: g_delta_timestamps is never written past its
\* end, and the timer's handler is never called outside of its test.
THEOREM TypeCorrect == SafeSpec => []TypeOK
  <1>1. IInv => TypeOK
    BY DEF IInv
  <1>2. QED
    BY Invariance, <1>1, PTL

\* The handler of test_imask never runs, for any frequency and lateness.
THEOREM MaskedTimerIsSilent == SafeSpec => []ImaskHolds
  <1>1. IInv => ImaskHolds
    BY DEF IInv
  <1>2. QED
    BY Invariance, <1>1, PTL

\* The countdown from any digit takes at least its periods.
THEOREM CountdownTakesItsTime == SafeSpec => []CountdownNotEarly
  <1>1. IInv => CountdownNotEarly
    BY DEF IInv, CountTime, Counting, CountdownNotEarly
  <1>2. QED
    BY Invariance, <1>1, PTL

\* All tests have passed at their end when twice the lateness of a handler is
\* within the tolerance.
THEOREM TestsPass ==
  ASSUME 2 * MaxLate <= Tolerance
  PROVE  SafeSpec => []AllPass
  <1>1. Init => AllPass
    BY DEF Init, AllPass
  <1>2. IInv /\ AllPass /\ [Next]_vars => AllPass'
    <2> SUFFICES ASSUME IInv, AllPass, [Next]_vars, main' = "done"
                 PROVE  passed' = {"freq", "imask", "countdown", "delta"}
      BY DEF AllPass
    <2>1. CASE DeltaEnd
      <3>1. Timing /\ DeltaOver
        BY <2>1 DEF DeltaEnd, At, Timing
      <3>2. ASSUME NEW i \in 1 .. Ticks PROVE InTolerance(stamps[i + 1])
        <4>1. stamps \in Seq(Nat) /\ Len(stamps) <= Ticks + 1 /\ Len(stamps) > Ticks
          BY <3>1 DEF IInv, TypeOK, DeltaOver
        <4>2. i + 1 \in 2 .. Len(stamps) /\ i + 1 \in 1 .. Len(stamps)
          BY <4>1, TimerAssumption
        <4>3. stamps[i + 1] >= Freq /\ stamps[i + 1] <= Freq + 2 * MaxLate /\ stamps[i + 1] \in Nat
          BY <3>1, <4>1, <4>2 DEF IInv, DeltaTime
        <4>4. QED
          BY <4>3, TimerAssumption DEF InTolerance
      <3>3. QED
        BY <2>1, <3>1, <3>2 DEF DeltaEnd, At, IInv, Passed
    <2>2. CASE ~DeltaEnd
      <3>1. UNCHANGED <<main, passed>> \/ Main
        BY HandlerOfTest DEF Next, Exception, TakeIrq, TakeSpurious, Acknowledge, AcknowledgeSpurious,
           HandleUart, HandleCountdown, HandleDelta, Rearm, EndOfInterrupt, Tick, Type, mainVars, vars
      <3>2. UNCHANGED <<main, passed>>
        BY <2>2, <3>1 DEF Main, UartInit, IrqInit, FreqSanity, ImaskArm, ImaskEnd, CountArm, CountEnd,
           DeltaArm, LoopCheck, Wfe, At
      <3>3. QED
        BY <3>2 DEF AllPass
    <2>3. QED
      BY <2>1, <2>2
  <1>3. QED
    BY Invariance, <1>1, <1>2, PTL DEF SafeSpec
=============================================================================
