------------------------------ MODULE PwmTimer ------------------------------
(***************************************************************************)
(* A timer of drivers/pwm/pwm_at32.c: PWM capture on one channel (with its *)
(* complimentary channel) in both of its ways, and PWM output on another   *)
(* channel of the same timer.                                              *)
(*                                                                         *)
(* Time is the counter's: Tick lets it count while a capture is on, the    *)
(* edges of the captured signal fall between ticks; otherwise only the     *)
(* overflows of the counter and the edges are steps, and how old they are  *)
(* when a capture is enabled is open.  The period and the compare register *)
(* are buffered: what is written takes effect at the next overflow event, of *)
(* the counter or by software.  The handler is one action and runs before  *)
(* the thread; it may be up to Latency ticks late.  Callbacks do not call  *)
(* the driver, and ask for pulse and period both.                          *)
(***************************************************************************)
EXTENDS Integers, FiniteSets

CONSTANTS
  MaxCount,    (* 0xffff or 0xffffffff: what capturing counts to           *)
  Wrap,        (* modulus of the compare register                          *)
  Periods,     (* period_cycles and pulse_cycles callers ask for           *)
  Pulses,
  CountModes,  (* count directions a devicetree may give                   *)
  Latency,     (* ticks an interrupt may wait                              *)
  MinGap,      (* ticks between two edges of the signal, at least          *)
  MaxAge,      (* ticks the model tells apart since an edge                *)
  Hazards      (* what may happen:                                         *)
               (*   "slow"     the counter overflows where the handler    *)
               (*              loses count of it (Lossy)                   *)
               (*   "preempt"  time passes inside enable_capture           *)
               (*   "zero"     a pulse of 0 cycles, counting down          *)

ASSUME CountAssumption  == MaxCount \in Nat \ {0} /\ Wrap \in Nat /\ MaxCount < Wrap
\* set_cycles refuses a period the counter cannot count.
ASSUME OutputAssumption ==
  /\ Periods \subseteq 2 .. (MaxCount + 1) /\ Pulses \subseteq 0 .. (Wrap - 1)
  /\ CountModes \subseteq {"up", "down", "two_way_1", "two_way_2", "two_way_3"}
\* The model tells more ticks apart than the counter counts.
ASSUME TimeAssumption ==
  /\ Latency \in Nat /\ MinGap \in Nat /\ Latency < MinGap
  /\ MaxAge \in Nat /\ MaxCount + Latency <= MaxAge
ASSUME HazardAssumption == Hazards \subseteq {"slow", "preempt", "zero"}

VARIABLES
  \* configuration and registers
  four,      (* four_channel_capture_support                               *)
  mode,      (* countermode                                                *)
  cnt,
  pr, top,   (* the period register, and the period in effect              *)
  slave,     (* the slave controller resets the counter at a pulse start   *)
  urs,       (* only an overflow of the counter raises OVF                 *)
  ie, flags, (* enabled interrupts and raised flags; "END" is the flag of  *)
             (* the complimentary channel, which has no interrupt          *)
  val,       (* captured values                                            *)
  capturing, (* both capture channels are enabled                          *)
  out,       (* the output channel: on, the compare register and the value *)
             (* in effect, what was asked for, and whether an overflow     *)
             (* event has come since (history)                             *)
  \* pwm_at32_capture_data
  cpt,
  \* control
  pc,        (* where the thread is                                        *)
  due,       (* ticks the handler has been due                             *)
  \* the signal
  high, age, width,
  \* history
  cycle,     (* true period and pulse of the cycle that ends               *)
  rep,       (* what the callback was told in this step                    *)
  armed,     (* a report may come                                          *)
  ready      (* no set_cycles has set the period since configure_capture   *)

regs   == <<cnt, pr, top, slave, urs, ie, flags, val, capturing>>
signal == <<high, age, width, cycle>>
vars   == <<four, mode, regs, out, cpt, pc, due, signal, rep, armed, ready>>

NoReport == [status |-> "none", period |-> 0, pulse |-> 0]
Off      == [on |-> FALSE, compare |-> 0, active |-> 0, period |-> 0, pulse |-> 0, loaded |-> FALSE]
None     == -1
NoCycle  == [period |-> None, pulse |-> None]
\* Values captured while no capture is on: no cycle is as long.
Old      == [CC |-> MaxAge + 1, END |-> MaxAge + 1]

\* pwm_at32_init; a counter with a period of 0 does not count.
Init ==
  /\ four \in BOOLEAN /\ mode \in CountModes
  /\ cnt = 0 /\ pr = 0 /\ top = 0 /\ slave = FALSE /\ urs = FALSE
  /\ ie = {} /\ flags = {} /\ val = Old /\ capturing = FALSE
  /\ out = Off
  /\ cpt = [callback |-> FALSE, continuous |-> FALSE, skip |-> 0, state |-> "idle", overflows |-> 0]
  /\ pc = "idle" /\ due = 0
  /\ high = FALSE /\ age = MaxAge /\ width = None
  /\ cycle = NoCycle
  /\ rep = NoReport /\ armed = FALSE /\ ready = FALSE

Asserted   == ie \cap flags # {}
ThreadRuns == ~Asserted

\* An event that is not an overflow of the counter raises OVF unless urs.
Reset(fs) == IF urs THEN fs ELSE fs \cup {"OVF"}

\* An overflow event: the counter restarts, and the registers take effect.
Loaded(o) == [o EXCEPT !.active = o.compare, !.loaded = (pc # "setPeriod")]
OverflowEvent == cnt' = 0 /\ top' = pr /\ out' = Loaded(out)

\* The signal is followed while a capture is on.
Forget == val' = Old /\ age' = MaxAge /\ width' = None /\ cycle' = NoCycle /\ UNCHANGED high

-----------------------------------------------------------------------------
(* pwm_at32_set_cycles on a channel that does not capture *)

\* Seeded fault: the last cycle of the period is counted twice.
RegistersLong(period, pulse) ==
  CASE mode = "up"        -> [top |-> period, compare |-> pulse]
    [] mode = "down"      -> [top |-> period - 1, compare |-> (pulse - 1) % Wrap]
    [] mode = "two_way_3" -> [top |-> period \div 2, compare |-> pulse \div 2]

\* is_center_aligned does not know the other two modes: they are refused.
Registers(period, pulse) ==
  CASE mode = "up"        -> [top |-> period - 1, compare |-> pulse]
    [] mode = "down"      -> [top |-> period - 1, compare |-> (pulse - 1) % Wrap]
    [] mode = "two_way_3" -> [top |-> period \div 2, compare |-> pulse \div 2]

Supported == mode \in {"up", "down", "two_way_3"}

\* Enabling the channel takes the timer out of slave mode and restarts the counter.
StartOutput(period, pulse) ==
  /\ pc = "idle" /\ "CC" \notin ie /\ Supported /\ ~out.on
  /\ mode = "down" /\ pulse = 0 => "zero" \in Hazards
  /\ LET r == Registers(period, pulse) IN
     /\ pr' = r.top /\ cnt' = 0 /\ top' = r.top
     /\ out' = Loaded([on |-> TRUE, compare |-> r.compare, active |-> 0, period |-> period,
                       pulse |-> pulse, loaded |-> FALSE])
  /\ flags' = Reset(flags) /\ slave' = FALSE
  /\ ready' = FALSE
  /\ rep' = NoReport
  /\ UNCHANGED <<four, mode, urs, ie, val, capturing, cpt, pc, due, signal, armed>>

\* On a channel that runs only the registers are written, first the compare value ...
SetCompare(period, pulse) ==
  /\ pc = "idle" /\ "CC" \notin ie /\ Supported /\ out.on
  /\ mode = "down" /\ pulse = 0 => "zero" \in Hazards
  /\ out' = [out EXCEPT !.compare = Registers(period, pulse).compare, !.period = period,
                        !.pulse = pulse, !.loaded = FALSE]
  /\ pc' = "setPeriod" /\ rep' = NoReport
  /\ UNCHANGED <<four, mode, regs, cpt, due, signal, armed, ready>>

\* ... then the period (first the fault of a period register that is not buffered).
Unbuffered == top' = pr'
Buffered   == UNCHANGED top

SetPeriod ==
  /\ pc = "setPeriod"
  /\ pr' = Registers(out.period, out.pulse).top /\ Buffered
  /\ ready' = FALSE
  /\ pc' = "idle" /\ rep' = NoReport
  /\ UNCHANGED <<four, mode, cnt, slave, urs, ie, flags, val, capturing, out, cpt, due, signal, armed>>

\* period_cycles = 0
SwitchOff ==
  /\ pc = "idle" /\ "CC" \notin ie /\ out.on
  /\ out' = Off
  /\ rep' = NoReport
  /\ UNCHANGED <<four, mode, regs, cpt, pc, due, signal, armed, ready>>

-----------------------------------------------------------------------------
(* Capture, the thread's side *)

\* Captures that are skipped: 2 with two channels, which the first edge and the
\* first cycle use up (first the fault of skipping none).
SkippedNone          == 0
SKIPPED_PWM_CAPTURES == IF four THEN 0 ELSE 2

\* pwm_at32_configure_capture.  Whether the vendor's input set-up enables the
\* channels at once is not known here.
Configure(callback, continuous) ==
  /\ pc = "idle" /\ "CC" \notin ie /\ mode = "up"
  /\ cpt' = [cpt EXCEPT !.callback = callback, !.continuous = continuous]
  /\ slave' = ~four
  /\ pr' = MaxCount
  /\ capturing' \in BOOLEAN
  /\ ready' = TRUE
  /\ rep' = NoReport
  /\ UNCHANGED <<four, mode, cnt, top, urs, ie, flags, val, out, pc, due, signal, armed>>

\* pwm_at32_enable_capture, up to the overflow interrupt ...
Enable ==
  /\ pc = "idle" /\ "CC" \notin ie /\ cpt.callback
  /\ cpt' = [cpt EXCEPT !.state = "start", !.skip = SKIPPED_PWM_CAPTURES, !.overflows = 0]
  /\ flags' = flags \ {"CC", "OVF"}
  /\ urs' = TRUE /\ ie' = {"CC"} /\ capturing' = TRUE
  /\ armed' = TRUE
  /\ age' \in 0 .. MaxAge
  /\ pc' = "enable" /\ rep' = NoReport
  /\ UNCHANGED <<four, mode, cnt, pr, top, slave, val, out, due, high, width, cycle, ready>>

\* ... and the rest of it.
EnableOverflow ==
  /\ pc = "enable"
  /\ ie' = ie \cup {"OVF"}
  /\ OverflowEvent /\ flags' = Reset(flags)
  /\ pc' = "idle" /\ rep' = NoReport
  /\ UNCHANGED <<four, mode, pr, slave, urs, val, capturing, cpt, due, signal, armed, ready>>

\* pwm_at32_disable_capture, in the steps the handler can come between
DisableSource ==
  /\ pc = "idle" /\ armed
  /\ urs' = FALSE
  /\ pc' = "disableCC" /\ rep' = NoReport
  /\ UNCHANGED <<four, mode, cnt, pr, top, slave, ie, flags, val, capturing, out, cpt, due, signal, armed, ready>>

DisableCapture ==
  /\ pc = "disableCC"
  /\ ie' = ie \ {"CC"}
  /\ pc' = "disableOVF" /\ rep' = NoReport
  /\ UNCHANGED <<four, mode, cnt, pr, top, slave, urs, flags, val, capturing, out, cpt, due, signal, armed, ready>>

DisableOverflow ==
  /\ pc = "disableOVF"
  /\ ie' = ie \ {"OVF"} /\ capturing' = FALSE
  /\ armed' = FALSE /\ Forget
  /\ pc' = "idle" /\ rep' = NoReport
  /\ UNCHANGED <<four, mode, cnt, pr, top, slave, urs, flags, out, cpt, due, ready>>

-----------------------------------------------------------------------------
(* pwm_at32_isr *)

\* A capture is skipped (first the fault of not counting it).
SkipOften(n) == n
Skip(n)      == n - 1

\* The first captures are nonsense with a counter the hardware resets.
IsrSkip ==
  /\ Asserted /\ cpt.skip # 0
  /\ flags' = {}
  /\ cpt' = IF flags \cap {"CC", "END"} # {} THEN [cpt EXCEPT !.skip = Skip(@)] ELSE cpt
  /\ due' = 0 /\ rep' = NoReport
  /\ UNCHANGED <<four, mode, cnt, pr, top, slave, urs, ie, val, capturing, out, pc, signal, armed, ready>>

\* What the handler makes of the overflow flag.
AfterOverflow ==
  IF "OVF" \notin flags THEN cpt
  ELSE IF four /\ cpt.state = "update" THEN [cpt EXCEPT !.state = "end"]
  ELSE [cpt EXCEPT !.overflows = 1]

\* Four channels: the first edge of a capture restarts the counter by hand;
\* other interrupts than the second edge are only noted.
IsrWait ==
  /\ Asserted /\ cpt.skip = 0 /\ four
  /\ LET c == AfterOverflow IN
     \/ /\ c.state = "start" /\ "CC" \in flags
        /\ cpt' = [c EXCEPT !.state = "update"]
        /\ OverflowEvent /\ flags' = Reset(flags \ {"CC", "OVF"}) \ {"CC"}
     \/ /\ c.state # "idle" /\ "CC" \notin flags
        /\ cpt' = c /\ flags' = flags \ {"OVF"} /\ UNCHANGED <<cnt, top, out>>
  /\ due' = 0 /\ rep' = NoReport
  /\ UNCHANGED <<four, mode, pr, slave, urs, ie, val, capturing, pc, signal, armed, ready>>

\* Two channels: any interrupt ends a capture.  Four: the second edge does.
Complete(c) == four => c.state = "idle" \/ (c.state \in {"update", "end"} /\ "CC" \in flags)

Status(c) == IF c.overflows > 0 THEN "erange" ELSE "ok"

\* The end of a single capture: pwm_at32_disable_capture (first the fault of
\* leaving the overflow interrupt on).
StopCaptureOnly == ie' = ie \ {"CC"}
StopInterrupts  == ie' = {}

\* The end of a capture: the callback is told, and a single capture switches
\* itself off.  cpt->period and cpt->pulse are the captured values then, or
\* those of an earlier capture when only the overflow was flagged.
IsrReport ==
  /\ Asserted /\ cpt.skip = 0 /\ Complete(AfterOverflow)
  /\ LET c == AfterOverflow IN
     /\ rep' = [status |-> Status(c), period |-> val.CC, pulse |-> val.END]
     /\ IF c.continuous
        THEN /\ cpt' = [c EXCEPT !.overflows = 0, !.state = "start"]
             /\ UNCHANGED <<urs, ie, capturing, armed, val, signal>>
        ELSE /\ cpt' = [c EXCEPT !.state = IF four THEN "idle" ELSE @]
             /\ StopInterrupts
             /\ urs' = FALSE /\ capturing' = FALSE /\ armed' = FALSE /\ Forget
  /\ flags' = (IF four THEN flags \ {"CC", "OVF"} ELSE {})
  /\ due' = 0
  /\ UNCHANGED <<four, mode, cnt, pr, top, slave, out, pc, ready>>

-----------------------------------------------------------------------------
(* The counter and the signal *)

\* Where a capture that is configured (ready) does not tell an overflow from the end
\* of a cycle: while the last capture is skipped, in two-channel mode when the capture
\* goes on after the report, and while the handler waits for the update it caused
\* itself.
Lossy == ready /\ IF four THEN cpt.state = "update" ELSE (cpt.skip = 1 \/ cpt.continuous)

\* Time is stepped while a capture is on, and the edges the timer captures.
Tick ==
  /\ mode = "up" /\ armed
  /\ Asserted => due < Latency
  /\ pc = "enable" => "preempt" \in Hazards
  /\ cnt = top /\ Lossy => "slow" \in Hazards
  /\ IF cnt = top /\ top # 0
     THEN OverflowEvent /\ flags' = flags \cup {"OVF"}
     ELSE cnt' = (IF top = 0 THEN cnt ELSE cnt + 1) /\ UNCHANGED <<top, out, flags>>
  /\ due' = IF Asserted THEN due + 1 ELSE 0
  /\ age' = IF age < MaxAge THEN age + 1 ELSE age
  /\ cycle' = IF Asserted THEN cycle ELSE NoCycle
  /\ rep' = NoReport
  /\ UNCHANGED <<four, mode, pr, slave, urs, ie, val, capturing, cpt, pc, high, width, armed, ready>>

\* The counter overflows while no capture is on.
Overflow ==
  /\ ~armed /\ top # 0
  /\ OverflowEvent /\ flags' = flags \cup {"OVF"}
  /\ rep' = NoReport
  /\ UNCHANGED <<four, mode, pr, slave, urs, ie, val, capturing, cpt, pc, due, signal, armed, ready>>

\* An edge from low to high captures the count, and where the slave controller says
\* so restarts the counter; an edge from high to low is the complimentary channel's.
Rise ==
  /\ capturing /\ ~high /\ high' = TRUE
  /\ IF armed THEN /\ age' = 0 /\ width' = None
                   /\ cycle' = [period |-> age, pulse |-> width]
                   /\ val' = [val EXCEPT !.CC = cnt]
              ELSE UNCHANGED <<age, width, cycle, val>>
  /\ LET fs == flags \cup {"CC"} IN
     IF slave THEN OverflowEvent /\ flags' = Reset(fs)
              ELSE flags' = fs /\ UNCHANGED <<cnt, top, out>>
  /\ rep' = NoReport
  /\ UNCHANGED <<four, mode, pr, slave, urs, ie, capturing, cpt, pc, due, armed, ready>>

Fall ==
  /\ capturing /\ high /\ age >= MinGap /\ high' = FALSE
  /\ IF armed THEN width' = age /\ val' = [val EXCEPT !.END = cnt]
              ELSE UNCHANGED <<width, val>>
  /\ flags' = flags \cup {"END"}
  /\ rep' = NoReport
  /\ UNCHANGED <<four, mode, cnt, pr, top, slave, urs, ie, capturing, out, cpt, pc, due, age, cycle, armed, ready>>

-----------------------------------------------------------------------------

ThreadStep == SetPeriod \/ EnableOverflow \/ DisableCapture \/ DisableOverflow
Isr        == IsrSkip \/ IsrWait \/ IsrReport

Next ==
  \/ /\ ThreadRuns
     /\ \/ \E p \in Periods, w \in Pulses : StartOutput(p, w) \/ SetCompare(p, w)
        \/ SwitchOff
        \/ \E cb, c \in BOOLEAN : Configure(cb, c)
        \/ Enable
        \/ DisableSource
        \/ ThreadStep
  \/ Isr
  \/ Tick \/ Overflow \/ Rise \/ Fall

\* The thread goes on, the handler comes, the counter counts, and the signal
\* does not stop.
Fairness ==
  /\ WF_vars(ThreadRuns /\ ThreadStep) /\ WF_vars(Isr)
  /\ WF_vars(Tick) /\ WF_vars(Rise) /\ WF_vars(Fall)

Spec == Init /\ [][Next]_vars /\ Fairness

-----------------------------------------------------------------------------

\* Every variable holds a value of its kind; at most two captures are skipped
\* (SKIPPED_PWM_CAPTURES) and the four-channel state stays idle in two-channel
\* mode only until the first capture.
TypeOK ==
  /\ four \in BOOLEAN /\ mode \in CountModes
  /\ cnt \in Nat /\ pr \in Nat /\ top \in Nat /\ cnt <= top
  /\ slave \in BOOLEAN /\ urs \in BOOLEAN /\ capturing \in BOOLEAN
  /\ ie \subseteq {"CC", "OVF"} /\ flags \subseteq {"CC", "END", "OVF"}
  /\ out.on \in BOOLEAN /\ out.compare \in 0 .. Wrap - 1 /\ out.active \in 0 .. Wrap - 1
  /\ cpt.skip \in 0 .. 2 /\ cpt.state \in {"idle", "start", "update", "end"} /\ cpt.overflows \in 0 .. 1
  /\ pc \in {"idle", "setPeriod", "enable", "disableCC", "disableOVF"} /\ due \in 0 .. Latency
  /\ age \in 0 .. MaxAge /\ width \in None .. MaxAge
  /\ rep.status \in {"none", "ok", "erange"}

\* A report without an error tells the signal's last cycle: to the tick where
\* the hardware restarts the counter, and short of at most the handler's
\* lateness where the handler does (pwm_at32_isr: what is reset, skipped,
\* cleared and counted from one edge to the next).  This is so beside an output that
\* runs on the timer, but not if set_cycles has set the period, and with it perhaps
\* ended the slave mode, between configure_capture and enable_capture: nothing checks
\* for that.
Truth ==
  rep'.status = "ok" /\ ready =>
    LET late == IF four THEN Latency ELSE 0 IN
    /\ rep'.period \in cycle.period - late .. cycle.period
    /\ rep'.pulse \in cycle.pulse - late .. cycle.pulse
ReportTrue == [][Truth]_vars

\* The callback runs only between enable_capture and the end of the capture:
\* once for a single capture, never after disable_capture has returned.
ReportOnlyArmed == [][rep'.status # "none" => armed]_vars

\* From the first overflow event after set_cycles on, a running output has the pulse
\* it was given, a cycle less where the counter counts up and down, whatever captures
\* are configured, enabled and disabled on the timer; and it has the period as well,
\* unless a capture was configured since, which sets the longest period and lets the
\* signal restart the counter (pwm_at32_set_cycles, pwm_at32_configure_capture).
OutputAsAsked ==
  out.on /\ out.loaded =>
    LET centre == mode = "two_way_3"
        period == IF centre THEN 2 * top ELSE top + 1
        active == IF centre THEN 2 * out.active
                  ELSE IF mode = "down" THEN out.active + 1 ELSE out.active
        slack  == IF centre THEN 1 ELSE 0
    IN /\ active \in out.pulse - slack .. out.pulse
       /\ ~ready /\ ~slave => period \in out.period - slack .. out.period

\* A capture that is enabled reports, an error if need be, unless it is
\* disabled first, as long as the signal goes on (pwm_at32_enable_capture,
\* pwm_at32_isr).
CaptureReports == armed ~> (rep.status # "none" \/ ~armed)
=============================================================================
