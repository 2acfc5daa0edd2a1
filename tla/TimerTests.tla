----------------------------- MODULE TimerTests -----------------------------
(***************************************************************************)
(* Core 0 runs tests/interrupt/timer_tests.c while the generic timer       *)
(* interrupts it through include/interrupts/irq.c: the main thread on one  *)
(* side, the exception with its handler on the other.  The handlers may    *)
(* come between any two steps of the main thread that IRQs are unmasked    *)
(* in, in particular between the check of a loop and its WFE.              *)
(*                                                                         *)
(* The timer's output is level-sensitive: it stays up until the handler    *)
(* sets a new compare value or turns the timer off.  Times are kept        *)
(* relative to the moment, as what is left of the timer's count and as     *)
(* what has passed since an event, up to a horizon.                        *)
(***************************************************************************)
EXTENDS Integers, Sequences

CONSTANTS
  Freq,          \* cntfrq_el0: 62.5 million in the code
  Start,         \* COUNTDOWN_START - '0', 5 in the code
  Ticks,         \* DELTA_TEST_TICKS
  Tolerance,     \* freq * TOLERANCE_PERCENT / 100
  MaxLate,       \* bound on the time from the timer's signal to the end of its handler
  MaxSpurious    \* bound on the spurious interrupts

ASSUME TimerAssumption ==
  /\ Freq \in Nat \ {0} /\ Start \in Nat /\ Ticks \in Nat \ {0}
  /\ Tolerance \in Nat /\ MaxLate \in Nat /\ MaxSpurious \in Nat

VARIABLES
  main,      \* where interrupt_tests_init is
  irq,       \* where the exception is, "none" outside of it
  masked,    \* DAIF.I, as the main thread has it
  event,     \* the event register, for WFE
  ctl,       \* cntp_ctl_el0: "off", "on" or "imask"
  due,       \* cntp_tval_el0, which counts down: the condition is met from 0 on
  gicOn,     \* GICD_CTLR and GICC_CTLR
  enabled,   \* GICD_ISENABLER
  handler,   \* irq_table
  imsc,      \* UARTIMSC: a received character raises the UART's interrupt
  since,     \* time since the test under way armed the timer
  gap,       \* time since the last time stamp
  left,      \* u_timerLeft - '0', or -1 for the value 0 that ends the loop
  fired,     \* g_imask_fired
  stamps,    \* g_delta_timestamps up to g_delta_count, each as the time after
             \* the one before
  passed,    \* history: the tests that returned 0
  spurious,  \* history: how many spurious interrupts there were
  typed      \* a character is in the UART's receive FIFO, where it stays

mainVars == <<main, masked, passed>>
timer    == <<ctl, due>>
clock    == <<since, gap>>
results  == <<left, fired, stamps>>
gic      == <<gicOn, enabled, handler, imsc>>
inputs   == <<spurious, typed>>
vars == <<mainVars, irq, event, clock, timer, gic, results, inputs>>

IntId == {"timer", "uart"}   \* IRQ_ID_TIMER = 30, a PPI; IRQ_ID_UART0 = 33, an SPI

\* Long enough to tell the times that the tests compare.
Horizon == (Start + 2) * Freq

\* Every record of a time stamp is inside g_delta_timestamps.
TypeOK ==
  /\ main \in {"reset", "init", "freq", "imask", "spin", "count", "counting", "count wfe",
               "delta", "timing", "delta wfe", "done", "halted"}
  /\ irq \in {"none", "taken", "rearm", "eoi"} \cup IntId
  /\ masked \in BOOLEAN /\ event \in BOOLEAN
  /\ due \in -MaxLate .. Freq /\ since \in 0 .. Horizon /\ gap \in 0 .. Horizon
  /\ ctl \in {"off", "on", "imask"}
  /\ gicOn \in BOOLEAN /\ enabled \subseteq IntId /\ imsc \in BOOLEAN /\ typed \in BOOLEAN
  /\ handler \in [IntId -> {"none", "imask", "countdown", "delta", "uart0"}]
  /\ left \in -1 .. Start /\ fired \in Nat
  /\ stamps \in Seq(Nat) /\ Len(stamps) <= Ticks + 1
  /\ passed \subseteq {"freq", "imask", "countdown", "delta"}
  /\ spurious \in 0 .. MaxSpurious

\* IRQs are masked at boot; the UART and the GIC may be in any state.
Init ==
  /\ main = "reset" /\ irq = "none" /\ masked = TRUE /\ event \in BOOLEAN
  /\ since = 0 /\ gap = 0 /\ ctl = "off" /\ due = 0
  /\ gicOn \in BOOLEAN /\ enabled \in SUBSET IntId /\ imsc \in BOOLEAN
  /\ handler = [i \in IntId |-> "none"]
  /\ left = 0 /\ fired = 0 /\ stamps = <<>> /\ passed = {}
  /\ spurious = 0 /\ typed = FALSE

-----------------------------------------------------------------------------
At(a, b) == main = a /\ main' = b /\ irq = "none"

\* irq_register_handler
Register(i, h) ==
  /\ handler' = [handler EXCEPT ![i] = h]
  /\ enabled' = enabled \cup {i}

\* The handler is registered, cntp_tval_el0 and cntp_ctl_el0 are written, and
\* irq_enable unmasks IRQs.
Arm(h, c) == /\ Register("timer", h)
             /\ due' = Freq /\ ctl' = c
             /\ masked' = FALSE /\ since' = 0
             /\ UNCHANGED <<gicOn, imsc>>

\* uart_init: nothing in the build for QEMU, where the UART's interrupts are masked from
\* reset; the other build masks them.
UartInit ==
  /\ At("reset", "init")
  /\ imsc' \in {imsc, FALSE}
  /\ UNCHANGED <<masked, passed, irq, event, clock, timer, gicOn, enabled, handler, results, inputs>>

\* irq_init masks the SPIs but not the PPIs and turns the GIC on.  The only SPI is
\* the UART's, unmasked again as its handler is registered.
IrqInit ==
  /\ At("init", "freq")
  /\ gicOn' = TRUE
  /\ Register("uart", "uart0")
  /\ UNCHANGED <<masked, passed, irq, event, clock, timer, imsc, results, inputs>>

\* test_freq_sanity, whose failure stops the core.
FreqSanity ==
  /\ \/ At("freq", "imask") /\ passed' = {"freq"}
     \/ At("freq", "halted") /\ UNCHANGED passed
  /\ UNCHANGED <<irq, masked, event, clock, timer, gic, results, inputs>>

\* Variant for mutation: cntp_ctl_el0 is 1, not 3.
BugImaskArm ==
  /\ At("imask", "spin")
  /\ fired' = 0 /\ Arm("imask", "on")
  /\ UNCHANGED <<irq, event, gap, left, stamps, passed, inputs>>

\* test_imask: the timer counts, its signal is masked.
ImaskArm ==
  /\ At("imask", "spin")
  /\ fired' = 0 /\ Arm("imask", "imask")
  /\ UNCHANGED <<irq, event, gap, left, stamps, passed, inputs>>

\* Two seconds are over: irq_disable, the timer goes off, the verdict.
ImaskEnd ==
  /\ since >= 2 * Freq
  /\ At("spin", "count")
  /\ masked' = TRUE /\ ctl' = "off"
  /\ passed' = IF fired = 0 THEN passed \cup {"imask"} ELSE passed
  /\ UNCHANGED <<irq, event, clock, due, gic, results, inputs>>

CountArm ==
  /\ At("count", "counting")
  /\ left' = Start /\ Arm("countdown", "on")
  /\ UNCHANGED <<irq, event, gap, fired, stamps, passed, inputs>>

DeltaArm ==
  /\ At("delta", "timing")
  /\ stamps' = <<>> /\ Arm("delta", "on")
  /\ UNCHANGED <<irq, event, gap, left, fired, passed, inputs>>

CountOver == left = -1
DeltaOver == Len(stamps) > Ticks

\* while (u_timerLeft != 0), while (g_delta_count <= DELTA_TEST_TICKS)
LoopCheck ==
  /\ \/ ~CountOver /\ At("counting", "count wfe")
     \/ ~DeltaOver /\ At("timing", "delta wfe")
  /\ UNCHANGED <<irq, masked, event, clock, timer, gic, results, passed, inputs>>

\* WFE: over once the event register is set, which it clears.
Wfe ==
  /\ event /\ event' = FALSE
  /\ At("count wfe", "counting") \/ At("delta wfe", "timing")
  /\ UNCHANGED <<irq, masked, clock, timer, gic, results, passed, inputs>>

CountEnd ==
  /\ CountOver /\ At("counting", "delta")
  /\ masked' = TRUE
  /\ passed' = passed \cup {"countdown"}
  /\ UNCHANGED <<irq, event, clock, timer, gic, results, inputs>>

\* delta < min_ok || delta > max_ok
InTolerance(d) == d >= Freq - Tolerance /\ d <= Freq + Tolerance

DeltaEnd ==
  /\ DeltaOver /\ At("timing", "done")
  /\ masked' = TRUE
  /\ passed' = IF \A i \in 1 .. Ticks : InTolerance(stamps[i + 1])
               THEN passed \cup {"delta"} ELSE passed
  /\ UNCHANGED <<irq, event, clock, timer, gic, results, inputs>>

-----------------------------------------------------------------------------
Signal(i) == IF i = "timer" THEN ctl = "on" /\ due <= 0 ELSE imsc /\ typed

Pending(i) == gicOn /\ i \in enabled /\ Signal(i)

Quiet == \A i \in IntId : ~Pending(i)

\* The exception is taken; entry masks IRQs until ERET.
TakeIrq ==
  /\ ~masked /\ irq = "none" /\ ~Quiet
  /\ irq' = "taken"
  /\ UNCHANGED <<mainVars, event, clock, timer, gic, results, inputs>>

TakeSpurious ==
  /\ ~masked /\ irq = "none" /\ Quiet /\ gicOn
  /\ spurious < MaxSpurious /\ spurious' = spurious + 1
  /\ irq' = "taken"
  /\ UNCHANGED <<mainVars, event, clock, timer, gic, results, typed>>

\* ERET sets the event register.
Eret == irq' = "none" /\ event' = TRUE

\* common_trap_handler: GICC_IAR yields the lowest number of those pending ...
Acknowledge ==
  /\ irq = "taken" /\ ~Quiet
  /\ irq' = IF Pending("timer") THEN "timer" ELSE "uart"
  /\ UNCHANGED <<mainVars, event, clock, timer, gic, results, inputs>>

\* ... or 1023: nothing is pending and there is nothing to end.
AcknowledgeSpurious ==
  /\ irq = "taken" /\ Quiet
  /\ Eret
  /\ UNCHANGED <<mainVars, clock, timer, gic, results, inputs>>

\* The handlers.  This one must never run.
HandleImask ==
  /\ irq' = "eoi" /\ fired' = fired + 1
  /\ UNCHANGED <<mainVars, event, clock, timer, gic, left, stamps, inputs>>

\* Variant for mutation: the handler does not set the timer again.
BugHandleCountdown ==
  /\ irq' = "eoi" /\ left' = left - 1
  /\ ctl' = IF left > 0 THEN ctl ELSE "off"
  /\ UNCHANGED <<mainVars, event, clock, due, gic, fired, stamps, inputs>>

\* Variant for mutation: the timer goes off and u_timerLeft stays '0'.
BugCountdownStops ==
  /\ left' = IF left > 0 THEN left - 1 ELSE left
  /\ irq' = IF left > 0 THEN "rearm" ELSE "eoi"
  /\ ctl' = IF left > 0 THEN ctl ELSE "off"
  /\ UNCHANGED <<mainVars, event, clock, due, gic, fired, stamps, inputs>>

\* One less, or after '0' the timer goes off and u_timerLeft is 0.
HandleCountdown ==
  /\ left' = IF left > 0 THEN left - 1 ELSE -1
  /\ irq' = IF left > 0 THEN "rearm" ELSE "eoi"
  /\ ctl' = IF left > 0 THEN ctl ELSE "off"
  /\ UNCHANGED <<mainVars, event, clock, due, gic, fired, stamps, inputs>>

\* Variant for mutation: one time stamp too many.
BugHandleDelta ==
  /\ stamps' = IF Len(stamps) <= Ticks + 1 THEN Append(stamps, gap) ELSE stamps
  /\ irq' = IF Len(stamps') > Ticks + 1 THEN "eoi" ELSE "rearm"
  /\ ctl' = IF Len(stamps') > Ticks + 1 THEN "off" ELSE ctl
  /\ gap' = 0
  /\ UNCHANGED <<mainVars, event, since, due, gic, left, fired, inputs>>

\* A time stamp while there is room; with the last one the timer goes off.
HandleDelta ==
  /\ stamps' = IF Len(stamps) <= Ticks THEN Append(stamps, gap) ELSE stamps
  /\ irq' = IF Len(stamps') > Ticks THEN "eoi" ELSE "rearm"
  /\ ctl' = IF Len(stamps') > Ticks THEN "off" ELSE ctl
  /\ gap' = 0
  /\ UNCHANGED <<mainVars, event, since, due, gic, left, fired, inputs>>

\* uart0_irq_handler does nothing, so the character stays where it is.
HandleUart ==
  /\ irq' = "eoi"
  /\ UNCHANGED <<mainVars, event, clock, timer, gic, results, inputs>>

\* irq_table[irq_id](irq_id)
Handle ==
  /\ irq \in IntId
  /\ CASE handler[irq] = "imask"     -> HandleImask
       [] handler[irq] = "countdown" -> HandleCountdown
       [] handler[irq] = "delta"     -> HandleDelta
       [] handler[irq] = "uart0"     -> HandleUart

\* Variant for mutation: the next interrupt is due at once.
BugRearm ==
  /\ irq = "rearm" /\ irq' = "eoi"
  /\ due' = 0
  /\ UNCHANGED <<mainVars, event, clock, ctl, gic, results, inputs>>

\* cntp_tval_el0 = freq, which counts from now on
Rearm ==
  /\ irq = "rearm" /\ irq' = "eoi"
  /\ due' = Freq
  /\ UNCHANGED <<mainVars, event, clock, ctl, gic, results, inputs>>

\* GICC_EOIR, and the return to the main thread.
EndOfInterrupt ==
  /\ irq = "eoi" /\ Eret
  /\ UNCHANGED <<mainVars, clock, timer, gic, results, inputs>>

-----------------------------------------------------------------------------
Later(t) == IF t < Horizon THEN t + 1 ELSE t

\* Time passes, at most MaxLate of it while the timer's signal waits.
Tick ==
  /\ main \notin {"done", "halted"}
  /\ Signal("timer") => due > -MaxLate
  /\ due' = IF ctl = "on" \/ due > 0 THEN due - 1 ELSE due
  /\ since' = Later(since) /\ gap' = Later(gap)
  /\ UNCHANGED <<mainVars, irq, event, ctl, gic, results, inputs>>

\* A key arrives, for the rest of the tests: nobody reads it before they end.
Type ==
  /\ main \notin {"done", "halted"}
  /\ ~typed /\ typed' = TRUE
  /\ UNCHANGED <<mainVars, irq, event, clock, timer, gic, results, spurious>>

Main == \/ UartInit \/ IrqInit \/ FreqSanity \/ ImaskArm \/ ImaskEnd \/ CountArm \/ CountEnd
        \/ DeltaArm \/ DeltaEnd \/ LoopCheck \/ Wfe

Exception == \/ TakeIrq \/ Acknowledge \/ AcknowledgeSpurious
             \/ Handle \/ Rearm \/ EndOfInterrupt

Next == Main \/ Exception \/ TakeSpurious \/ Tick \/ Type

SafeSpec == Init /\ [][Next]_vars

\* The core executes, interrupts are taken, time goes on.
Spec == SafeSpec /\ WF_vars(Main) /\ WF_vars(Exception) /\ WF_vars(Tick)

-----------------------------------------------------------------------------
\* No IRQ comes while the timer's signal is masked at its source, though its
\* condition is met and IRQs are unmasked at the core for two of its periods.
ImaskHolds == fired = 0

\* The countdown takes a second for every digit from Start to 0: no handler runs
\* twice for one expiry of the timer, and none for an earlier test's.
CountdownNotEarly == main = "counting" /\ CountOver => since >= (Start + 1) * Freq

\* When every handler ends within MaxLate of its signal, and twice that is within
\* the tolerance (the timer is set again relative to the late handler), all tests
\* pass, whatever spurious interrupts come, even if keys interrupt too, and however slow
\* the main thread is.
AllPass == main = "done" => passed = {"freq", "imask", "countdown", "delta"}

\* The tests end if the UART's interrupts are masked once uart_init is over, as QEMU's
\* are from reset: the WFE of their loops never misses the last interrupt, even when it
\* comes right after the check, since ERET sets the event register.  (Were they not
\* masked, one key would interrupt again and again, for its handler does not take it.)
TestsEnd == main = "init" /\ ~imsc ~> main \in {"done", "halted"}

-----------------------------------------------------------------------------
\* The strengthening that is inductive.  In each test the timer's handler is the
\* test's own, and the timer is on until that handler has turned it off.
Counting == main \in {"counting", "count wfe"}
Timing   == main \in {"timing", "delta wfe"}

Phases ==
  /\ main \in {"reset", "init", "freq", "imask", "halted"} =>
       masked /\ ctl = "off"
  /\ main = "spin" => ctl = "imask" /\ ~masked
  /\ main \in {"count", "delta", "done"} => masked /\ ctl = "off"
  /\ Counting => /\ handler["timer"] = "countdown" /\ ~masked
                 /\ ctl = IF CountOver THEN "off" ELSE "on"
  /\ Timing => /\ handler["timer"] = "delta" /\ ~masked
               /\ ctl = IF DeltaOver THEN "off" ELSE "on"

\* The handler of the UART is there before interrupts are.  The timer interrupts only
\* when it is due; a handler sets it again while it is still on.
Interrupts ==
  /\ main \notin {"reset", "init"} => handler["uart"] = "uart0"
  /\ masked => irq = "none"
  /\ irq \in {"timer", "rearm"} => ctl = "on" /\ due <= 0

\* The timer is never due before a period for every digit shown, the one that
\* runs included.
CountTime ==
  Counting =>
    /\ CountOver => since >= (Start + 1) * Freq
    /\ ~CountOver /\ irq = "rearm" => since >= (Start - left) * Freq
    /\ ~CountOver /\ irq # "rearm" =>
         since = Horizon \/ since + due >= (Start - left + 1) * Freq

\* Since the last time stamp a period has passed when the timer is due, and not
\* more than the lateness of the handler that set it.
DeltaTime ==
  Timing =>
    /\ \A i \in 2 .. Len(stamps) : stamps[i] >= Freq /\ stamps[i] <= Freq + 2 * MaxLate
    /\ irq = "rearm" => gap + due <= 0
    /\ ctl = "on" /\ irq # "rearm" /\ stamps # <<>> =>
         /\ gap + due <= Freq + MaxLate
         /\ gap = Horizon \/ gap + due >= Freq

\* The tests before the one under way have passed.
Passed ==
  /\ main \in {"imask", "spin"} => passed = {"freq"}
  /\ main = "count" \/ Counting => passed = {"freq", "imask"}
  /\ main = "delta" \/ Timing => passed = {"freq", "imask", "countdown"}

IInv == TypeOK /\ ImaskHolds /\ Phases /\ Interrupts /\ CountTime /\ DeltaTime /\ Passed
=============================================================================
