--------------------------- MODULE PwmTimerProofs ---------------------------
(***************************************************************************)
(* Safety of PwmTimer for counters, periods, pulses and latencies of any   *)
(* size: types, outputs that keep what was asked for, reports only while   *)
(* a capture is on, and reports that tell the true cycle.                  *)
(***************************************************************************)
EXTENDS PwmTimer, TLAPS

States   == {"idle", "start", "update", "end"}
Captures ==
  [callback: BOOLEAN, continuous: BOOLEAN, skip: 0 .. 2, state: States, overflows: 0 .. 1]
Reports == [status: {"none", "ok", "erange"}, period: Nat, pulse: Nat]
Outputs ==
  [on: BOOLEAN, compare: 0 .. Wrap - 1, active: 0 .. Wrap - 1, period: Nat, pulse: Nat,
   loaded: BOOLEAN]

\* The types in full: every field of every record.
Types ==
  /\ val \in [CC: Nat, END: Nat]
  /\ out \in Outputs
  /\ cpt \in Captures /\ rep \in Reports
  /\ cycle \in [period: Int, pulse: Int]
  /\ high \in BOOLEAN /\ armed \in BOOLEAN /\ ready \in BOOLEAN
  /\ top <= MaxCount /\ pr <= MaxCount

\* The registers that set_cycles is about to write have values.
Setting ==
  pc = "setPeriod" => Supported /\ out.period \in Periods /\ out.pulse \in Pulses

TypeInv == TypeOK /\ Types /\ Setting

\* Where the thread is tells what is enabled.
Stages ==
  /\ ~armed => ie = {}
  /\ pc = "enable" => armed
  /\ pc = "setPeriod" => ~armed
  /\ armed => ie = CASE pc = "enable"     -> {"CC"}
                     [] pc = "disableOVF" -> {"OVF"}
                     [] OTHER             -> {"CC", "OVF"}
  /\ armed /\ pc \in {"idle", "enable"} => urs
  /\ armed => IF four THEN cpt.skip = 0 /\ cpt.state # "idle" ELSE cpt.state # "update"

\* The interrupt of an edge is taken before the next edge, and the handler is
\* late only for an interrupt.
Answered ==
  /\ "CC" \in flags \cap ie => high /\ age <= due
  /\ due > 0 => Asserted /\ pc # "enable"

\* No time passes in enable_capture: at most one edge comes.
Enabling ==
  pc = "enable" =>
    /\ "OVF" \notin flags
    /\ IF four
       THEN \/ cpt.state = "start"
            \/ cpt.state = "update" /\ "CC" \notin flags /\ high /\ age = 0
       ELSE \/ cpt.skip = 2
            \/ cpt.skip = 1 /\ "CC" \notin flags /\ high /\ age = 0

ArmedInv == Stages /\ Answered /\ Enabling

\* Where set_cycles has not come between configure_capture and enable_capture, the
\* capture has the counter to itself: its period is in effect from the overflow event
\* of enable_capture on.
Owned ==
  /\ ready => slave = ~four /\ mode = "up" /\ pr = MaxCount
  /\ armed /\ pc # "enable" => top = pr

\* Two channels: the counter the hardware resets tells the age of the pulse.
Synced == cnt = age /\ (~high => val.END = width)

TwoChannels ==
  armed /\ ready /\ ~four =>
    /\ cpt.skip = 1 => /\ "OVF" \in flags => "CC" \in flags
                       /\ "CC" \in flags => Synced
    /\ cpt.skip = 0 /\ (cpt.continuous \/ (cpt.overflows = 0 /\ "OVF" \notin flags)) => Synced
    /\ cpt.skip = 0 /\ cpt.overflows = 0 /\ "OVF" \notin flags /\ "CC" \in flags \cap ie
         => val.CC = cycle.period /\ val.END = cycle.pulse

\* Four channels: between the edges the counter lags behind by the lateness of
\* the handler that reset it.
Lags(n, true) == n \in true - Latency .. true

FourChannels ==
  armed /\ ready /\ four =>
    /\ pc = "disableOVF" /\ "OVF" \in flags /\ cpt.state = "update" => cpt.overflows = 1
    /\ "CC" \in ie /\ cpt.state \in {"update", "end"} /\ cpt.overflows = 0
       /\ (cpt.state = "end" => "OVF" \notin flags)
         => IF "CC" \in flags
            THEN Lags(val.CC, cycle.period) /\ Lags(val.END, cycle.pulse)
            ELSE Lags(cnt, age) /\ (~high => Lags(val.END, width))

CaptureInv == ArmedInv /\ Owned /\ TwoChannels /\ FourChannels

-----------------------------------------------------------------------------
(* What the actions make of data->capture *)

LEMMA TwoFieldsSet ==
  ASSUME NEW z \in Captures, NEW w, NEW a \in BOOLEAN, NEW b \in BOOLEAN,
         w = [z EXCEPT !.callback = a, !.continuous = b]
  PROVE  /\ w \in Captures /\ w.continuous = b
         /\ w.skip = z.skip /\ w.state = z.state /\ w.overflows = z.overflows
BY DEF Captures

LEMMA StateSet ==
  ASSUME NEW z \in Captures, NEW w, NEW s \in States, w = [z EXCEPT !.state = s]
  PROVE  /\ w \in Captures /\ w.continuous = z.continuous
         /\ w.skip = z.skip /\ w.state = s /\ w.overflows = z.overflows
BY DEF Captures, States

LEMMA SkipSet ==
  ASSUME NEW z \in Captures, NEW w, NEW n \in 0 .. 2, w = [z EXCEPT !.skip = n]
  PROVE  /\ w \in Captures /\ w.continuous = z.continuous
         /\ w.skip = n /\ w.state = z.state /\ w.overflows = z.overflows
BY DEF Captures, States

LEMMA OverflowSet ==
  ASSUME NEW z \in Captures, NEW w, NEW o \in 0 .. 1, w = [z EXCEPT !.overflows = o]
  PROVE  /\ w \in Captures /\ w.continuous = z.continuous
         /\ w.skip = z.skip /\ w.state = z.state /\ w.overflows = o
BY DEF Captures, States

\* What the handler makes of an overflow: the end of a capture by four channels
\* that waits for its update, an overflow to report otherwise.
LEMMA OverflowSeen ==
  ASSUME TypeInv
  PROVE  LET c == AfterOverflow IN
         /\ c \in Captures /\ c.continuous = cpt.continuous /\ c.skip = cpt.skip
         /\ IF "OVF" \notin flags THEN c.state = cpt.state /\ c.overflows = cpt.overflows
            ELSE IF four /\ cpt.state = "update"
            THEN c.state = "end" /\ c.overflows = cpt.overflows
            ELSE c.state = cpt.state /\ c.overflows = 1
<1>1. cpt \in Captures
  BY DEF TypeInv, Types
<1>2. CASE "OVF" \notin flags
  BY <1>1, <1>2 DEF AfterOverflow
<1>3. CASE "OVF" \in flags /\ four /\ cpt.state = "update"
  <2>1. AfterOverflow = [cpt EXCEPT !.state = "end"]
    BY <1>3 DEF AfterOverflow
  <2>2. "end" \in States
    BY DEF States
  <2>. QED
    BY <1>1, <1>3, <2>1, <2>2, StateSet
<1>4. CASE "OVF" \in flags /\ ~(four /\ cpt.state = "update")
  <2>1. AfterOverflow = [cpt EXCEPT !.overflows = 1]
    BY <1>4 DEF AfterOverflow
  <2>. QED
    BY <1>1, <1>4, <2>1, OverflowSet
<1>. QED
  BY <1>2, <1>3, <1>4

Configured ==
  /\ cpt' \in Captures
  /\ pc = "idle" /\ "CC" \notin ie /\ mode = "up"
  /\ slave' = ~four /\ pr' = MaxCount /\ capturing' \in BOOLEAN /\ ready' = TRUE
  /\ rep' = NoReport
  /\ UNCHANGED <<four, mode, cnt, top, urs, ie, flags, val, out, pc, due, signal, armed>>

LEMMA ConfigureEffect ==
  ASSUME TypeInv, NEW cb \in BOOLEAN, NEW c \in BOOLEAN, Configure(cb, c)
  PROVE  Configured
<1>1. cpt \in Captures /\ cpt' = [cpt EXCEPT !.callback = cb, !.continuous = c]
  BY DEF Configure, TypeInv, Types
<1>2. cpt' \in Captures
  BY <1>1, TwoFieldsSet
<1>. QED
  BY <1>2 DEF Configure, Configured

Enabled ==
  /\ cpt' \in Captures /\ cpt'.continuous = cpt.continuous /\ cpt'.state = "start"
  /\ cpt'.skip = (IF four THEN 0 ELSE 2) /\ cpt'.overflows = 0
  /\ pc = "idle" /\ "CC" \notin ie
  /\ flags' = flags \ {"CC", "OVF"} /\ urs' = TRUE /\ ie' = {"CC"} /\ capturing' = TRUE
  /\ armed' = TRUE /\ pc' = "enable" /\ rep' = NoReport /\ age' \in 0 .. MaxAge
  /\ UNCHANGED <<four, mode, cnt, pr, top, slave, val, out, due, high, width, cycle, ready>>

LEMMA EnableEffect ==
  ASSUME TypeInv, Enable
  PROVE  Enabled
<1>1. cpt \in Captures
      /\ cpt' = [cpt EXCEPT !.state = "start", !.skip = SKIPPED_PWM_CAPTURES, !.overflows = 0]
  BY DEF Enable, TypeInv, Types
<1>2. SKIPPED_PWM_CAPTURES \in 0 .. 2 /\ SKIPPED_PWM_CAPTURES = (IF four THEN 0 ELSE 2)
  BY DEF SKIPPED_PWM_CAPTURES
<1>3. "start" \in States /\ 0 \in 0 .. 1
  BY DEF States
<1>4. /\ cpt' \in Captures /\ cpt'.continuous = cpt.continuous /\ cpt'.state = "start"
      /\ cpt'.skip = SKIPPED_PWM_CAPTURES /\ cpt'.overflows = 0
  <2> DEFINE s == "start"
             o == 0
             n == SKIPPED_PWM_CAPTURES
  <2>1. cpt' = [cpt EXCEPT !.state = s, !.skip = n, !.overflows = o]
    BY <1>1
  <2>2. s \in States /\ o \in 0 .. 1 /\ n \in 0 .. 2
    BY <1>2, <1>3
  <2>. HIDE DEF s, o, n
  <2>3. /\ cpt' \in Captures /\ cpt'.continuous = cpt.continuous /\ cpt'.state = s
        /\ cpt'.skip = n /\ cpt'.overflows = o
    BY <1>1, <2>1, <2>2 DEF Captures, States
  <2>. QED
    BY <2>3 DEF s, o, n
<1>. QED
  BY <1>2, <1>4 DEF Enable, Enabled

Skipped ==
  /\ cpt' \in Captures /\ cpt'.continuous = cpt.continuous /\ cpt'.state = cpt.state
  /\ cpt'.overflows = cpt.overflows
  /\ cpt'.skip = IF flags \cap {"CC", "END"} # {} THEN cpt.skip - 1 ELSE cpt.skip
  /\ Asserted /\ cpt.skip # 0 /\ flags' = {} /\ due' = 0 /\ rep' = NoReport
  /\ UNCHANGED <<four, mode, cnt, pr, top, slave, urs, ie, val, capturing, out, pc, signal,
                 armed, ready>>

LEMMA SkipEffect ==
  ASSUME TypeInv, IsrSkip
  PROVE  Skipped
<1>1. cpt \in Captures /\ cpt.skip \in 0 .. 2 /\ cpt.skip # 0
  BY DEF IsrSkip, TypeInv, TypeOK, Types
<1>2. CASE flags \cap {"CC", "END"} # {}
  <2>1. cpt' = [cpt EXCEPT !.skip = cpt.skip - 1]
    BY <1>2 DEF IsrSkip, Skip
  <2>2. cpt.skip - 1 \in 0 .. 2
    BY <1>1
  <2>. QED
    BY <1>1, <1>2, <2>1, <2>2, SkipSet DEF IsrSkip, Skipped
<1>3. CASE flags \cap {"CC", "END"} = {}
  BY <1>1, <1>3 DEF IsrSkip, Skipped
<1>. QED
  BY <1>2, <1>3

\* An overflow event puts the registers into effect.
LEMMA OverflowEffect ==
  ASSUME TypeInv, OverflowEvent
  PROVE  /\ cnt' = 0 /\ top' = pr /\ out' \in Outputs
         /\ out'.on = out.on /\ out'.period = out.period /\ out'.pulse = out.pulse
         /\ out'.compare = out.compare /\ out'.active = out.compare
         /\ out'.loaded <=> pc # "setPeriod"
<1>1. out \in Outputs /\ out' = [out EXCEPT !.active = out.compare, !.loaded = (pc # "setPeriod")]
  BY DEF OverflowEvent, Loaded, TypeInv, Types
<1>2. PICK l \in BOOLEAN : l = (pc # "setPeriod")
  OBVIOUS
<1>3. out' = [out EXCEPT !.active = out.compare, !.loaded = l]
  BY <1>1, <1>2
<1>4. /\ out' \in Outputs
      /\ out'.on = out.on /\ out'.period = out.period /\ out'.pulse = out.pulse
      /\ out'.compare = out.compare /\ out'.active = out.compare /\ out'.loaded = l
  BY <1>1, <1>3 DEF Outputs
<1>. QED
  BY <1>2, <1>4 DEF OverflowEvent

\* The capture is at its first edge, or goes on.
Waited ==
  LET c == AfterOverflow IN
  /\ cpt' \in Captures /\ cpt'.continuous = cpt.continuous /\ cpt'.skip = cpt.skip
  /\ cpt'.overflows = c.overflows
  /\ \/ /\ c.state = "start" /\ "CC" \in flags /\ cpt'.state = "update"
        /\ cnt' = 0 /\ top' = pr
        /\ flags' = (IF urs THEN flags \ {"CC", "OVF"} ELSE (flags \ {"CC"}) \cup {"OVF"})
     \/ /\ c.state # "idle" /\ "CC" \notin flags /\ cpt'.state = c.state
        /\ flags' = flags \ {"OVF"} /\ cnt' = cnt /\ top' = top
  /\ out' \in Outputs
  /\ Asserted /\ cpt.skip = 0 /\ four /\ due' = 0 /\ rep' = NoReport
  /\ UNCHANGED <<four, mode, pr, slave, urs, ie, val, capturing, pc, signal, armed, ready>>

LEMMA WaitEffect ==
  ASSUME TypeInv, IsrWait
  PROVE  Waited
<1> DEFINE c == AfterOverflow
<1>1. c \in Captures /\ c.continuous = cpt.continuous /\ c.skip = cpt.skip
  BY OverflowSeen
<1>2. "update" \in States
  BY DEF States
<1>3. ASSUME cpt' = [c EXCEPT !.state = "update"]
      PROVE  /\ cpt' \in Captures /\ cpt'.continuous = cpt.continuous /\ cpt'.skip = cpt.skip
             /\ cpt'.overflows = c.overflows /\ cpt'.state = "update"
  <2>. HIDE DEF c
  <2>. QED
    BY <1>1, <1>2, <1>3, StateSet
<1>4. CASE c.state = "start" /\ "CC" \in flags /\ cpt' = [c EXCEPT !.state = "update"]
           /\ OverflowEvent /\ flags' = Reset(flags \ {"CC", "OVF"}) \ {"CC"}
  <2>1. flags' = (IF urs THEN flags \ {"CC", "OVF"} ELSE (flags \ {"CC"}) \cup {"OVF"})
    BY <1>4 DEF Reset
  <2>2. cnt' = 0 /\ top' = pr /\ out' \in Outputs
    BY <1>4, OverflowEffect
  <2>. QED
    BY <1>3, <1>4, <2>1, <2>2 DEF IsrWait, Waited
<1>5. CASE c.state # "idle" /\ "CC" \notin flags /\ cpt' = c /\ flags' = flags \ {"OVF"}
           /\ UNCHANGED <<cnt, top, out>>
  BY <1>1, <1>5 DEF IsrWait, Waited, TypeInv, Types
<1>. QED
  BY <1>4, <1>5 DEF IsrWait

\* The report, and whether the capture goes on.
Reported ==
  LET c == AfterOverflow IN
  /\ cpt' \in Captures /\ cpt'.continuous = cpt.continuous /\ cpt'.skip = cpt.skip
  /\ rep' = [status |-> IF c.overflows > 0 THEN "erange" ELSE "ok",
             period |-> val.CC, pulse |-> val.END]
  /\ \/ /\ cpt.continuous /\ cpt'.overflows = 0 /\ cpt'.state = "start"
        /\ UNCHANGED <<urs, ie, capturing, armed, val, signal>>
     \/ /\ ~cpt.continuous
        /\ ie' = {} /\ urs' = FALSE /\ capturing' = FALSE /\ armed' = FALSE /\ Forget
  /\ Asserted /\ cpt.skip = 0 /\ Complete(c)
  /\ flags' = (IF four THEN flags \ {"CC", "OVF"} ELSE {}) /\ due' = 0
  /\ UNCHANGED <<four, mode, cnt, pr, top, slave, out, pc, ready>>

LEMMA ReportEffect ==
  ASSUME TypeInv, IsrReport
  PROVE  Reported
<1> DEFINE c == AfterOverflow
<1>1. c \in Captures /\ c.continuous = cpt.continuous /\ c.skip = cpt.skip /\ c.state \in States
  BY OverflowSeen DEF Captures, States
<1>2. "start" \in States /\ "idle" \in States /\ 0 \in 0 .. 1
  BY DEF States
<1>3. CASE c.continuous
  <2>1. cpt' = [c EXCEPT !.overflows = 0, !.state = "start"]
    BY <1>3 DEF IsrReport
  <2>2. /\ cpt' \in Captures /\ cpt'.continuous = cpt.continuous /\ cpt'.skip = cpt.skip
        /\ cpt'.overflows = 0 /\ cpt'.state = "start"
    <3> DEFINE s == "start"
               o == 0
    <3>1. cpt' = [c EXCEPT !.overflows = o, !.state = s]
      BY <2>1
    <3>. HIDE DEF s, o, c
    <3>2. /\ cpt' \in Captures /\ cpt'.continuous = c.continuous /\ cpt'.skip = c.skip
          /\ cpt'.overflows = o /\ cpt'.state = s
      <4>1. s \in States /\ o \in 0 .. 1
        BY <1>2 DEF s, o
      <4>. QED
        BY <1>1, <3>1, <4>1 DEF Captures, States
    <3>. QED
      BY <1>1, <3>2 DEF s, o
  <2>3. UNCHANGED <<urs, ie, capturing, armed, val, signal>>
    BY <1>3 DEF IsrReport
  <2>. QED
    BY <1>1, <1>3, <2>2, <2>3 DEF IsrReport, Status, Reported
<1>4. CASE ~c.continuous
  <2>1. cpt' = [c EXCEPT !.state = IF four THEN "idle" ELSE @]
    BY <1>4 DEF IsrReport
  <2>2. /\ cpt' \in Captures /\ cpt'.continuous = cpt.continuous /\ cpt'.skip = cpt.skip
    <3>. HIDE DEF c
    <3>1. (IF four THEN "idle" ELSE c.state) \in States
      BY <1>1, <1>2
    <3>. QED
      BY <1>1, <2>1, <3>1, StateSet
  <2>3. ie' = {} /\ urs' = FALSE /\ capturing' = FALSE /\ armed' = FALSE /\ Forget
    BY <1>4 DEF IsrReport, StopInterrupts
  <2>. QED
    BY <1>1, <1>4, <2>2, <2>3 DEF IsrReport, Status, Reported
<1>. QED
  BY <1>3, <1>4

\* The edges.
Risen ==
  /\ val' \in [CC: Nat, END: Nat] /\ cycle' \in [period: Int, pulse: Int]
  /\ age' \in {0, age} /\ width' \in {None, width}
  /\ armed => /\ val'.CC = cnt /\ val'.END = val.END
              /\ cycle'.period = age /\ cycle'.pulse = width
              /\ age' = 0
  /\ capturing /\ ~high /\ high' = TRUE
  /\ flags' = (IF slave /\ ~urs THEN flags \cup {"CC", "OVF"} ELSE flags \cup {"CC"})
  /\ IF slave THEN cnt' = 0 /\ top' = pr ELSE UNCHANGED <<cnt, top>>
  /\ out' \in Outputs
  /\ rep' = NoReport
  /\ UNCHANGED <<four, mode, pr, slave, urs, ie, capturing, cpt, pc, due, armed, ready>>

LEMMA RiseEffect ==
  ASSUME TypeInv, Rise
  PROVE  Risen
<1>1. /\ val \in [CC: Nat, END: Nat] /\ cycle \in [period: Int, pulse: Int]
      /\ cnt \in Nat /\ age \in Int /\ width \in Int
  BY TimeAssumption DEF TypeInv, Types, TypeOK, None
<1>2. flags' = (IF slave /\ ~urs THEN flags \cup {"CC", "OVF"} ELSE flags \cup {"CC"})
  BY DEF Rise, Reset
<1>3. out' \in Outputs /\ IF slave THEN cnt' = 0 /\ top' = pr ELSE UNCHANGED <<cnt, top>>
  BY OverflowEffect DEF Rise, TypeInv, Types
<1>4. CASE armed
  <2>1. /\ age' = 0 /\ width' = None
        /\ val' = [val EXCEPT !.CC = cnt] /\ cycle' = [period |-> age, pulse |-> width]
    BY <1>4 DEF Rise
  <2>2. val' \in [CC: Nat, END: Nat] /\ val'.CC = cnt /\ val'.END = val.END
    BY <1>1, <2>1
  <2>3. cycle' \in [period: Int, pulse: Int] /\ cycle'.period = age /\ cycle'.pulse = width
    BY <1>1, <2>1
  <2>. QED
    BY <1>2, <1>3, <2>1, <2>2, <2>3 DEF Rise, Risen
<1>5. CASE ~armed
  BY <1>1, <1>2, <1>3, <1>5 DEF Rise, Risen
<1>. QED
  BY <1>4, <1>5

Fallen ==
  /\ val' \in [CC: Nat, END: Nat] /\ width' \in {age, width}
  /\ armed => val'.CC = val.CC /\ val'.END = cnt /\ width' = age
  /\ capturing /\ high /\ age >= MinGap /\ high' = FALSE
  /\ flags' = flags \cup {"END"} /\ rep' = NoReport
  /\ UNCHANGED <<four, mode, cnt, pr, top, slave, urs, ie, capturing, out, cpt, pc, due, age, cycle,
                 armed, ready>>

LEMMA FallEffect ==
  ASSUME TypeInv, Fall
  PROVE  Fallen
<1>1. val \in [CC: Nat, END: Nat] /\ cnt \in Nat
  BY DEF TypeInv, Types, TypeOK
<1>2. CASE armed
  <2>1. val' = [val EXCEPT !.END = cnt] /\ width' = age
    BY <1>2 DEF Fall
  <2>2. val' \in [CC: Nat, END: Nat] /\ val'.CC = val.CC /\ val'.END = cnt
    BY <1>1, <2>1
  <2>. QED
    BY <2>1, <2>2 DEF Fall, Fallen
<1>3. CASE ~armed
  BY <1>1, <1>3 DEF Fall, Fallen
<1>. QED
  BY <1>2, <1>3

-----------------------------------------------------------------------------
(* Types *)

\* The types of the variables that are not records.
Scalars ==
  /\ four \in BOOLEAN /\ mode \in CountModes /\ slave \in BOOLEAN /\ urs \in BOOLEAN
  /\ capturing \in BOOLEAN /\ high \in BOOLEAN /\ armed \in BOOLEAN /\ ready \in BOOLEAN
  /\ cnt \in Nat /\ top \in Nat /\ cnt <= top /\ top <= MaxCount
  /\ pr \in Nat /\ pr <= MaxCount
  /\ ie \subseteq {"CC", "OVF"} /\ flags \subseteq {"CC", "END", "OVF"}
  /\ pc \in {"idle", "setPeriod", "enable", "disableCC", "disableOVF"} /\ due \in 0 .. Latency
  /\ age \in 0 .. MaxAge /\ width \in None .. MaxAge

Records ==
  /\ val \in [CC: Nat, END: Nat]
  /\ out \in Outputs
  /\ cpt \in Captures /\ rep \in Reports
  /\ cycle \in [period: Int, pulse: Int]

LEMMA TypeParts == TypeOK /\ Types <=> Scalars /\ Records
<1>1. TypeOK /\ Types => Scalars /\ Records
  BY DEF TypeOK, Types, Scalars, Records
<1>2. ASSUME Scalars, Records PROVE TypeOK /\ Types
  <2>1. out.on \in BOOLEAN /\ out.compare \in 0 .. Wrap - 1 /\ out.active \in 0 .. Wrap - 1
    BY <1>2 DEF Records, Outputs
  <2>2. cpt.skip \in 0 .. 2 /\ cpt.state \in {"idle", "start", "update", "end"} /\ cpt.overflows \in 0 .. 1
    BY <1>2 DEF Records, Captures, States
  <2>3. rep.status \in {"none", "ok", "erange"}
    BY <1>2 DEF Records, Reports
  <2>4. Types
    BY <1>2 DEF Scalars, Records, Types
  <2>. QED
    BY <1>2, <2>1, <2>2, <2>3, <2>4 DEF Scalars, TypeOK
<1>. QED
  BY <1>1, <1>2

LEMMA TypePartsNext == TypeOK' /\ Types' <=> Scalars' /\ Records'
BY TypeParts, PTL

LEMMA TypeInit == Init => TypeInv
<1> SUFFICES ASSUME Init PROVE TypeInv
  OBVIOUS
<1> USE CountAssumption, TimeAssumption
<1>1. out \in Outputs
  BY DEF Init, Off, Outputs
<1>2. cpt \in Captures
  BY DEF Init, Captures, States
<1>3. /\ val \in [CC: Nat, END: Nat] /\ cycle \in [period: Int, pulse: Int]
      /\ rep \in Reports
  BY DEF Init, Old, NoCycle, None, NoReport, Reports
<1>4. age \in 0 .. MaxAge /\ width \in None .. MaxAge /\ due \in 0 .. Latency
      /\ cnt \in Nat /\ top \in Nat /\ cnt <= top /\ top <= MaxCount /\ pr \in Nat /\ pr <= MaxCount
  BY DEF Init, None
<1>5. /\ four \in BOOLEAN /\ mode \in CountModes /\ slave = FALSE /\ urs = FALSE
      /\ capturing = FALSE /\ ie = {} /\ flags = {} /\ pc = "idle"
      /\ high = FALSE /\ armed = FALSE /\ ready = FALSE
  BY DEF Init
<1>6. Scalars
  BY <1>4, <1>5 DEF Scalars
<1>7. Records
  BY <1>1, <1>2, <1>3 DEF Records
<1>. QED
  BY <1>5, <1>6, <1>7, TypeParts DEF TypeInv, Setting

\* The registers for a period and a pulse are in range.
LEMMA RegisterRange ==
  ASSUME NEW p \in Periods, NEW w \in Pulses, Supported
  PROVE  /\ Registers(p, w).top \in 0 .. MaxCount
         /\ Registers(p, w).compare \in 0 .. Wrap - 1
<1>1. p \in 2 .. MaxCount + 1 /\ w \in 0 .. Wrap - 1 /\ Wrap \in Nat /\ MaxCount \in Nat
      /\ Wrap > 0
  BY CountAssumption, OutputAssumption
<1>2. (w - 1) % Wrap \in 0 .. Wrap - 1
  BY <1>1
<1>3. p \div 2 \in 0 .. MaxCount /\ w \div 2 \in 0 .. Wrap - 1
  BY <1>1
<1>. QED
  BY <1>1, <1>2, <1>3 DEF Registers, Supported

\* What starting an output and writing its registers leaves.
Started(p, w) ==
  /\ Supported /\ p \in Periods /\ w \in Pulses
  /\ out' \in Outputs /\ out'.on /\ out'.period = p /\ out'.pulse = w
  /\ out'.compare = Registers(p, w).compare /\ out'.active = out'.compare
  /\ pr' = Registers(p, w).top /\ top' = pr' /\ cnt' = 0 /\ pr' \in 0 .. MaxCount
  /\ pc = "idle" /\ "CC" \notin ie /\ (mode = "down" /\ w = 0 => "zero" \in Hazards)
  /\ flags' \subseteq flags \cup {"OVF"} /\ slave' = FALSE /\ ready' = FALSE /\ rep' = NoReport
  /\ UNCHANGED <<four, mode, urs, ie, val, capturing, cpt, pc, due, signal, armed>>

LEMMA StartEffect ==
  ASSUME TypeInv, NEW p \in Periods, NEW w \in Pulses, StartOutput(p, w)
  PROVE  Started(p, w)
<1> DEFINE r == Registers(p, w)
<1>1. r.top \in 0 .. MaxCount /\ r.compare \in 0 .. Wrap - 1
  BY RegisterRange DEF StartOutput
<1>2. p \in Nat /\ w \in Nat
  BY OutputAssumption, CountAssumption
<1>3. /\ pr' = r.top /\ top' = r.top
      /\ out' = [[on |-> TRUE, compare |-> r.compare, active |-> 0, period |-> p, pulse |-> w,
                  loaded |-> FALSE]
                 EXCEPT !.active = r.compare, !.loaded = TRUE]
  BY DEF StartOutput, Loaded
<1>4. flags' \subseteq flags \cup {"OVF"}
  BY DEF StartOutput, Reset
<1>. HIDE DEF r
<1>5. out' \in Outputs /\ out'.on /\ out'.period = p /\ out'.pulse = w
      /\ out'.compare = r.compare /\ out'.active = out'.compare
  BY <1>1, <1>2, <1>3 DEF Outputs
<1>. QED
  BY <1>1, <1>3, <1>4, <1>5 DEF StartOutput, Started, r

Compared(p, w) ==
  /\ Supported /\ p \in Periods /\ w \in Pulses
  /\ out' \in Outputs /\ out'.on /\ out'.period = p /\ out'.pulse = w
  /\ out'.compare = Registers(p, w).compare /\ ~out'.loaded
  /\ pc = "idle" /\ "CC" \notin ie /\ (mode = "down" /\ w = 0 => "zero" \in Hazards)
  /\ pc' = "setPeriod" /\ rep' = NoReport
  /\ UNCHANGED <<four, mode, regs, cpt, due, signal, armed, ready>>

LEMMA CompareEffect ==
  ASSUME TypeInv, NEW p \in Periods, NEW w \in Pulses, SetCompare(p, w)
  PROVE  Compared(p, w)
<1> DEFINE c == Registers(p, w).compare
<1>1. c \in 0 .. Wrap - 1
  BY RegisterRange DEF SetCompare
<1>2. p \in Nat /\ w \in Nat
  BY OutputAssumption, CountAssumption
<1>3. /\ out \in Outputs /\ out.on
      /\ out' = [out EXCEPT !.compare = c, !.period = p, !.pulse = w, !.loaded = FALSE]
  BY DEF SetCompare, TypeInv, Types
<1>. HIDE DEF c
<1>4. out' \in Outputs /\ out'.on = out.on /\ out'.period = p /\ out'.pulse = w
      /\ out'.compare = c /\ out'.loaded = FALSE
  BY <1>1, <1>2, <1>3 DEF Outputs
<1>5. out'.on /\ ~out'.loaded
  BY <1>3, <1>4
<1>. QED
  BY <1>4, <1>5 DEF SetCompare, Compared, c

LEMMA TypeSetCycles ==
  ASSUME TypeInv, NEW p \in Periods, NEW w \in Pulses, StartOutput(p, w) \/ SetCompare(p, w)
  PROVE  TypeOK' /\ Types'
<1>1. Scalars /\ Records
  BY TypeParts DEF TypeInv
<1>2. CASE Started(p, w)
  <2>1. Scalars'
    <3>1. cnt' \in Nat /\ cnt' <= top' /\ top' \in Nat /\ top' <= MaxCount /\ pr' = top'
      BY <1>2, CountAssumption DEF Started
    <3>. QED
      BY <1>1, <1>2, <3>1 DEF Started, Scalars, signal
  <2>2. Records'
    BY <1>1, <1>2 DEF Started, Records, NoReport, Reports, signal
  <2>. QED
    BY <2>1, <2>2, TypePartsNext
<1>3. CASE Compared(p, w)
  <2>1. Scalars'
    BY <1>1, <1>3 DEF Compared, Scalars, regs, signal
  <2>2. Records'
    BY <1>1, <1>3 DEF Compared, Records, NoReport, Reports, regs, signal
  <2>. QED
    BY <2>1, <2>2, TypePartsNext
<1>. QED
  BY <1>2, <1>3, StartEffect, CompareEffect

LEMMA ForgetTypes ==
  ASSUME Forget
  PROVE  /\ age' \in 0 .. MaxAge /\ width' \in None .. MaxAge /\ high' = high
         /\ val' \in [CC: Nat, END: Nat] /\ cycle' \in [period: Int, pulse: Int]
BY TimeAssumption DEF Forget, Old, NoCycle, None

LEMMA TypeThread ==
  ASSUME TypeInv,
         \/ SwitchOff \/ Enable \/ DisableSource \/ ThreadStep \/ Overflow
         \/ \E cb, c \in BOOLEAN : Configure(cb, c)
  PROVE  TypeOK' /\ Types'
<1>1. Scalars /\ Records /\ Setting
  BY TypeParts DEF TypeInv
<1>2. CASE SwitchOff
  <2>1. out' \in Outputs
    BY <1>2, CountAssumption DEF SwitchOff, Off, Outputs
  <2>2. Scalars'
    BY <1>1, <1>2 DEF SwitchOff, Scalars, regs, signal
  <2>3. Records'
    BY <1>1, <1>2, <2>1 DEF SwitchOff, Records, NoReport, Reports, regs, signal
  <2>. QED
    BY <2>2, <2>3, TypePartsNext
<1>3. ASSUME NEW cb \in BOOLEAN, NEW c \in BOOLEAN, Configure(cb, c)
      PROVE  TypeOK' /\ Types'
  <2>1. Configured
    BY <1>3, ConfigureEffect
  <2>2. pr' \in Nat /\ pr' <= MaxCount
    BY <2>1, CountAssumption DEF Configured
  <2>3. Scalars'
    BY <1>1, <2>1, <2>2 DEF Configured, Scalars, signal
  <2>4. Records'
    BY <1>1, <2>1 DEF Configured, Records, NoReport, Reports, signal
  <2>. QED
    BY <2>3, <2>4, TypePartsNext
<1>4. CASE Enable
  <2>1. Enabled
    BY <1>4, EnableEffect
  <2>2. Scalars'
    BY <1>1, <2>1 DEF Enabled, Scalars
  <2>3. Records'
    BY <1>1, <2>1 DEF Enabled, Records, NoReport, Reports
  <2>. QED
    BY <2>2, <2>3, TypePartsNext
<1>5. CASE DisableSource
  <2>1. Scalars'
    BY <1>1, <1>5 DEF DisableSource, Scalars, signal
  <2>2. Records'
    BY <1>1, <1>5 DEF DisableSource, Records, signal, NoReport, Reports
  <2>. QED
    BY <2>1, <2>2, TypePartsNext
<1>6. CASE SetPeriod
  <2>1. pr' \in Nat /\ pr' <= MaxCount
    BY <1>1, <1>6, RegisterRange, CountAssumption DEF SetPeriod, Setting
  <2>2. Scalars'
    BY <1>1, <1>6, <2>1 DEF SetPeriod, Buffered, Scalars, signal
  <2>3. Records'
    BY <1>1, <1>6 DEF SetPeriod, Records, signal, NoReport, Reports
  <2>. QED
    BY <2>2, <2>3, TypePartsNext
<1>7. CASE EnableOverflow \/ Overflow
  <2>1. cnt' = 0 /\ top' = pr /\ out' \in Outputs
    BY <1>7, OverflowEffect DEF EnableOverflow, Overflow
  <2>2. flags' \subseteq {"CC", "END", "OVF"} /\ ie' \subseteq {"CC", "OVF"}
    BY <1>1, <1>7 DEF EnableOverflow, Overflow, Reset, Scalars
  <2>3. pc' \in {"idle", pc} /\ UNCHANGED <<four, mode, pr, slave, urs, val, capturing, cpt, due,
                                            signal, armed, ready>>
        /\ rep' = NoReport
    BY <1>7 DEF EnableOverflow, Overflow
  <2>4. Scalars'
    BY <1>1, <2>1, <2>2, <2>3 DEF Scalars, signal
  <2>5. Records'
    BY <1>1, <2>1, <2>3 DEF Records, signal, NoReport, Reports
  <2>. QED
    BY <2>4, <2>5, TypePartsNext
<1>8. CASE DisableCapture
  <2>1. Scalars'
    BY <1>1, <1>8 DEF DisableCapture, Scalars, signal
  <2>2. Records'
    BY <1>1, <1>8 DEF DisableCapture, Records, signal, NoReport, Reports
  <2>. QED
    BY <2>1, <2>2, TypePartsNext
<1>9. CASE DisableOverflow
  <2>1. Scalars'
    BY <1>1, <1>9, ForgetTypes DEF DisableOverflow, Scalars
  <2>2. Records'
    BY <1>1, <1>9, ForgetTypes DEF DisableOverflow, Records, NoReport, Reports
  <2>. QED
    BY <2>1, <2>2, TypePartsNext
<1>. QED
  BY <1>2, <1>3, <1>4, <1>5, <1>6, <1>7, <1>8, <1>9 DEF ThreadStep

LEMMA TypeIsr ==
  ASSUME TypeInv, Isr
  PROVE  TypeOK' /\ Types'
<1>1. Scalars /\ Records
  BY TypeParts DEF TypeInv
<1>2. CASE Skipped
  <2>1. Scalars'
    BY <1>1, <1>2, TimeAssumption DEF Skipped, Scalars, signal
  <2>2. Records'
    BY <1>1, <1>2 DEF Skipped, Records, signal, NoReport, Reports
  <2>. QED
    BY <2>1, <2>2, TypePartsNext
<1>3. CASE Waited
  <2>1. Scalars'
    <3>1. cnt' \in Nat /\ cnt' <= top' /\ top' \in Nat /\ top' <= MaxCount
      BY <1>1, <1>3 DEF Waited, Scalars
    <3>2. flags' \subseteq {"CC", "END", "OVF"}
      BY <1>1, <1>3 DEF Waited, Scalars
    <3>. QED
      BY <1>1, <1>3, <3>1, <3>2, TimeAssumption DEF Waited, Scalars, signal
  <2>2. Records'
    BY <1>1, <1>3 DEF Waited, Records, signal, NoReport, Reports
  <2>. QED
    BY <2>1, <2>2, TypePartsNext
<1>4. CASE Reported
  <2>1. Scalars'
    <3>1. ie' \subseteq {"CC", "OVF"} /\ urs' \in BOOLEAN /\ capturing' \in BOOLEAN
          /\ armed' \in BOOLEAN /\ flags' \subseteq {"CC", "END", "OVF"}
      BY <1>1, <1>4 DEF Reported, Scalars
    <3>2. age' \in 0 .. MaxAge /\ width' \in None .. MaxAge /\ high' \in BOOLEAN
      BY <1>1, <1>4, ForgetTypes DEF Reported, Scalars, signal
    <3>. QED
      BY <1>1, <1>4, <3>1, <3>2, TimeAssumption DEF Reported, Scalars
  <2>2. Records'
    <3>1. val.CC \in Nat /\ val.END \in Nat
      BY <1>1 DEF Records
    <3>2. rep' \in Reports
      BY <1>4, <3>1 DEF Reported, Reports
    <3>3. val' \in [CC: Nat, END: Nat] /\ cycle' \in [period: Int, pulse: Int]
      BY <1>1, <1>4, ForgetTypes DEF Reported, Records, signal
    <3>. QED
      BY <1>1, <1>4, <3>2, <3>3 DEF Reported, Records
  <2>. QED
    BY <2>1, <2>2, TypePartsNext
<1>. QED
  <2>1. Skipped \/ Waited \/ Reported
    BY SkipEffect, WaitEffect, ReportEffect DEF Isr
  <2>. QED
    BY <1>2, <1>3, <1>4, <2>1

LEMMA TypeSignal ==
  ASSUME TypeInv, Tick \/ Rise \/ Fall
  PROVE  TypeOK' /\ Types'
<1>1. Scalars /\ Records
  BY TypeParts DEF TypeInv
<1>2. CASE Tick
  <2>1. Scalars'
    <3>1. cnt' \in Nat /\ cnt' <= top' /\ top' \in Nat /\ top' <= MaxCount
      BY <1>1, <1>2, OverflowEffect DEF Tick, Scalars
    <3>4. flags' \subseteq {"CC", "END", "OVF"}
      BY <1>1, <1>2 DEF Tick, Scalars
    <3>2. due' \in 0 .. Latency
      BY <1>1, <1>2, TimeAssumption DEF Tick, Scalars
    <3>3. age' \in 0 .. MaxAge
      BY <1>1, <1>2, TimeAssumption DEF Tick, Scalars
    <3>. QED
      BY <1>1, <1>2, <3>1, <3>2, <3>3, <3>4 DEF Tick, Scalars
  <2>2. Records'
    <3>1. cycle' \in [period: Int, pulse: Int] /\ rep' \in Reports
      BY <1>1, <1>2 DEF Tick, NoCycle, None, NoReport, Reports, Records
    <3>2. out' \in Outputs
      BY <1>1, <1>2, OverflowEffect DEF Tick, Records
    <3>. QED
      BY <1>1, <1>2, <3>1, <3>2 DEF Tick, Records
  <2>. QED
    BY <2>1, <2>2, TypePartsNext
<1>3. CASE Risen
  <2>1. Scalars'
    <3>1. /\ cnt' \in Nat /\ cnt' <= top' /\ top' \in Nat /\ top' <= MaxCount
          /\ flags' \subseteq {"CC", "END", "OVF"}
      BY <1>1, <1>3 DEF Risen, Scalars
    <3>2. age' \in 0 .. MaxAge /\ width' \in None .. MaxAge
      BY <1>1, <1>3, TimeAssumption DEF Risen, Scalars, None
    <3>. QED
      BY <1>1, <1>3, <3>1, <3>2 DEF Risen, Scalars
  <2>2. Records'
    BY <1>1, <1>3 DEF Risen, Records, NoReport, Reports
  <2>. QED
    BY <2>1, <2>2, TypePartsNext
<1>4. CASE Fallen
  <2>1. Scalars'
    <3>1. width' \in None .. MaxAge /\ flags' \subseteq {"CC", "END", "OVF"}
      BY <1>1, <1>4, TimeAssumption DEF Fallen, Scalars, None
    <3>. QED
      BY <1>1, <1>4, <3>1 DEF Fallen, Scalars
  <2>2. Records'
    BY <1>1, <1>4 DEF Fallen, Records, NoReport, Reports
  <2>. QED
    BY <2>1, <2>2, TypePartsNext
<1>. QED
  <2>1. Tick \/ Risen \/ Fallen
    BY RiseEffect, FallEffect
  <2>. QED
    BY <1>2, <1>3, <1>4, <2>1

\* What set_cycles is about to write stays what it was given.
LEMMA SettingNext ==
  ASSUME TypeInv, [Next]_vars
  PROVE  Setting'
<1>1. Setting
  BY DEF TypeInv
<1>2. ASSUME NEW p \in Periods, NEW w \in Pulses, StartOutput(p, w) \/ SetCompare(p, w)
      PROVE  Setting'
  BY <1>2, StartEffect, CompareEffect DEF Started, Compared, Setting, Supported
<1>3. ASSUME pc' # "setPeriod" PROVE Setting'
  BY <1>3 DEF Setting
<1>4. ASSUME UNCHANGED <<mode, pc>>, out'.period = out.period, out'.pulse = out.pulse PROVE Setting'
  BY <1>1, <1>4 DEF Setting, Supported
<1>5. CASE \/ SwitchOff \/ Enable \/ DisableSource \/ ThreadStep
           \/ \E cb, c \in BOOLEAN : Configure(cb, c)
  BY <1>3, <1>5 DEF SwitchOff, Enable, DisableSource, ThreadStep, SetPeriod, EnableOverflow,
                    DisableCapture, DisableOverflow, Configure
<1>6. CASE Isr
  BY <1>4, <1>6, OverflowEffect DEF Isr, IsrSkip, IsrWait, IsrReport
<1>7. CASE Tick \/ Overflow \/ Rise \/ Fall
  BY <1>4, <1>7, OverflowEffect DEF Tick, Overflow, Rise, Fall
<1>8. CASE UNCHANGED vars
  BY <1>4, <1>8 DEF vars, regs
<1>. QED
  BY <1>2, <1>5, <1>6, <1>7, <1>8 DEF Next

LEMMA TypeNext == TypeInv /\ [Next]_vars => TypeInv'
<1> SUFFICES ASSUME TypeInv, [Next]_vars PROVE TypeInv'
  OBVIOUS
<1>1. CASE UNCHANGED vars
  <2>1. Scalars /\ Records
    BY TypeParts DEF TypeInv
  <2>2. Scalars'
    BY <1>1, <2>1 DEF Scalars, vars, regs, signal
  <2>3. Records'
    BY <1>1, <2>1 DEF Records, vars, regs, signal
  <2>. QED
    BY <2>2, <2>3, TypePartsNext, SettingNext DEF TypeInv
<1>2. CASE Next
  <2>1. TypeOK' /\ Types'
    BY <1>2, TypeSetCycles, TypeThread, TypeIsr, TypeSignal DEF Next
  <2>. QED
    BY <2>1, SettingNext DEF TypeInv
<1>. QED
  BY <1>1, <1>2

\* Every variable holds a value of its kind, for any sizes (pwm_at32_isr and
\* the calls of the driver).
THEOREM TypeCorrect == Spec => []TypeOK
<1>1. Spec => []TypeInv
  BY TypeInit, TypeNext, PTL DEF Spec
<1>. QED
  BY <1>1, PTL DEF TypeInv

-----------------------------------------------------------------------------
(* The output *)

\* What OutputAsAsked says of an output holds of the registers for it.
LEMMA RegistersRight ==
  ASSUME NEW p \in Periods, NEW w \in Pulses, Supported, mode = "down" => w # 0
  PROVE  LET r      == Registers(p, w)
             centre == mode = "two_way_3"
             period == IF centre THEN 2 * r.top ELSE r.top + 1
             active == IF centre THEN 2 * r.compare
                       ELSE IF mode = "down" THEN r.compare + 1 ELSE r.compare
             slack  == IF centre THEN 1 ELSE 0
         IN period \in p - slack .. p /\ active \in w - slack .. w
<1>1. p \in 2 .. MaxCount + 1 /\ w \in 0 .. Wrap - 1 /\ Wrap \in Nat /\ MaxCount \in Nat
  BY CountAssumption, OutputAssumption
<1>2. w # 0 => (w - 1) % Wrap = w - 1
  BY <1>1
<1>3. p \div 2 \in Nat /\ w \div 2 \in Nat /\ 2 * (p \div 2) \in p - 1 .. p /\ 2 * (w \div 2) \in w - 1 .. w
  BY <1>1
<1>4. CASE mode = "up"
  BY <1>1, <1>4 DEF Registers
<1>5. CASE mode = "down"
  BY <1>1, <1>2, <1>5 DEF Registers
<1>6. CASE mode = "two_way_3"
  BY <1>1, <1>3, <1>6 DEF Registers
<1>. QED
  BY <1>4, <1>5, <1>6 DEF Supported

\* A running output was asked for what the driver takes; its compare register, and
\* the period register unless a capture has it or set_cycles is at work, hold the
\* registers for it, and what is in effect is what they held.
OutputInv ==
  /\ pc = "setPeriod" => out.on /\ ~out.loaded
  /\ out.on =>
       /\ out.period \in Periods /\ out.pulse \in Pulses
       /\ Supported /\ (mode = "down" => out.pulse # 0)
       /\ LET r == Registers(out.period, out.pulse) IN
          /\ out.compare = r.compare
          /\ out.loaded => out.active = r.compare
          /\ pc # "setPeriod" /\ ~ready => pr = r.top
          /\ out.loaded /\ ~ready => top = r.top

LEMMA OutputInvRight == OutputInv => OutputAsAsked
<1> SUFFICES ASSUME OutputInv, out.on, out.loaded PROVE OutputAsAsked
  BY DEF OutputAsAsked
<1> DEFINE r == Registers(out.period, out.pulse)
<1>1. out.period \in Periods /\ out.pulse \in Pulses /\ Supported /\ (mode = "down" => out.pulse # 0)
  BY DEF OutputInv
<1>2. out.active = r.compare /\ (~ready => top = r.top)
  BY DEF OutputInv
<1>3. LET centre == mode = "two_way_3"
          period == IF centre THEN 2 * r.top ELSE r.top + 1
          active == IF centre THEN 2 * r.compare
                    ELSE IF mode = "down" THEN r.compare + 1 ELSE r.compare
          slack  == IF centre THEN 1 ELSE 0
      IN period \in out.period - slack .. out.period /\ active \in out.pulse - slack .. out.pulse
  BY <1>1, RegistersRight
<1>. HIDE DEF r
<1>. QED
  BY <1>2, <1>3 DEF OutputAsAsked

\* An overflow event does not change what was asked for.
LEMMA OutputOverflow ==
  ASSUME TypeInv, OutputInv, OverflowEvent, UNCHANGED <<mode, pr, ready>>,
         pc' = pc \/ (pc' # "setPeriod" /\ pc # "setPeriod")
  PROVE  OutputInv'
<1>1. /\ top' = pr /\ out'.on = out.on /\ out'.period = out.period /\ out'.pulse = out.pulse
      /\ out'.compare = out.compare /\ out'.active = out.compare
      /\ (out'.loaded <=> pc # "setPeriod")
  BY OverflowEffect
<1>2. pc' = "setPeriod" => pc = "setPeriod"
  OBVIOUS
<1>3. pc' = "setPeriod" => out'.on /\ ~out'.loaded
  BY <1>1, <1>2 DEF OutputInv
<1>4. CASE ~out'.on
  BY <1>3, <1>4 DEF OutputInv
<1>5. CASE out'.on
  <2> DEFINE r == Registers(out.period, out.pulse)
  <2>1. r = Registers(out.period, out.pulse)' /\ (Supported' <=> Supported)
    BY <1>1 DEF Registers, Supported
  <2>2. /\ out.period \in Periods /\ out.pulse \in Pulses
        /\ Supported /\ (mode = "down" => out.pulse # 0)
        /\ out.compare = r.compare
        /\ pc # "setPeriod" /\ ~ready => pr = r.top
    BY <1>1, <1>5 DEF OutputInv
  <2>. HIDE DEF r
  <2>3. /\ out'.compare = r.compare
        /\ out'.loaded => out'.active = r.compare
        /\ pc' # "setPeriod" /\ ~ready' => pr' = r.top
        /\ out'.loaded /\ ~ready' => top' = r.top
    BY <1>1, <2>2
  <2>. QED
    BY <1>1, <1>3, <2>1, <2>2, <2>3 DEF OutputInv
<1>. QED
  BY <1>4, <1>5

\* From the first overflow event after set_cycles on, a running output has the pulse it
\* was given, whatever captures are configured, enabled and disabled on the timer, and
\* the period too unless a capture was configured since (pwm_at32_set_cycles,
\* pwm_at32_configure_capture); for counters, periods and pulses of any size, where no
\* pulse of 0 counts down.
THEOREM OutputKept ==
  ASSUME "zero" \notin Hazards
  PROVE  Spec => []OutputAsAsked
<1>1. Init => OutputInv
  BY DEF Init, OutputInv, Off
<1>2. TypeInv /\ OutputInv /\ [Next]_vars => OutputInv'
  <2> SUFFICES ASSUME TypeInv, OutputInv, [Next]_vars
               PROVE  OutputInv'
    OBVIOUS
  <2>1. ASSUME NEW p \in Periods, NEW w \in Pulses, StartOutput(p, w)
        PROVE  OutputInv'
    <3> DEFINE r == Registers(p, w)
    <3>1. Started(p, w)
      BY <2>1, StartEffect
    <3>2. r = Registers(out.period, out.pulse)' /\ Supported'
      BY <3>1 DEF Started, Registers, Supported
    <3>3. /\ out'.on /\ out'.period = p /\ out'.pulse = w /\ out'.compare = r.compare
          /\ out'.active = r.compare /\ pr' = r.top /\ top' = r.top
          /\ pc' # "setPeriod" /\ (mode' = "down" => w # 0)
      BY <3>1 DEF Started
    <3>. HIDE DEF r
    <3>. QED
      BY <3>2, <3>3 DEF OutputInv
  <2>2. ASSUME NEW p \in Periods, NEW w \in Pulses, SetCompare(p, w)
        PROVE  OutputInv'
    <3> DEFINE r == Registers(p, w)
    <3>1. Compared(p, w)
      BY <2>2, CompareEffect
    <3>2. r = Registers(out.period, out.pulse)' /\ Supported'
      BY <3>1 DEF Compared, Registers, Supported
    <3>3. /\ out'.on /\ out'.period = p /\ out'.pulse = w /\ out'.compare = r.compare
          /\ ~out'.loaded /\ pc' = "setPeriod" /\ (mode' = "down" => w # 0)
      BY <3>1 DEF Compared
    <3>. HIDE DEF r
    <3>. QED
      BY <3>2, <3>3 DEF OutputInv
  <2>3. CASE SetPeriod
    <3>1. /\ pr' = Registers(out.period, out.pulse).top /\ ~out.loaded /\ out.on
          /\ UNCHANGED <<mode, out>> /\ pc' = "idle" /\ ready' = FALSE
      BY <2>3 DEF SetPeriod, OutputInv
    <3>2. Registers(out.period, out.pulse)' = Registers(out.period, out.pulse)
          /\ (Supported' <=> Supported)
      BY <3>1 DEF Registers, Supported
    <3>. QED
      BY <3>1, <3>2 DEF OutputInv
  <2>4. CASE SwitchOff
    BY <2>4 DEF SwitchOff, OutputInv, Off
  <2>5. ASSUME UNCHANGED <<mode, out, pr, top, ready>>, (pc' = "setPeriod") <=> (pc = "setPeriod")
        PROVE  OutputInv'
    <3>1. Registers(out.period, out.pulse)' = Registers(out.period, out.pulse)
          /\ (Supported' <=> Supported)
      BY <2>5 DEF Registers, Supported
    <3>. QED
      BY <2>5, <3>1 DEF OutputInv
  <2>6. ASSUME NEW cb \in BOOLEAN, NEW c \in BOOLEAN, Configure(cb, c)
        PROVE  OutputInv'
    <3>1. UNCHANGED <<mode, out, pc>> /\ ready' /\ pc = "idle"
      BY <2>6 DEF Configure
    <3>2. Registers(out.period, out.pulse)' = Registers(out.period, out.pulse)
          /\ (Supported' <=> Supported)
      BY <3>1 DEF Registers, Supported
    <3>. QED
      BY <3>1, <3>2 DEF OutputInv
  <2>7. CASE Enable \/ DisableSource \/ DisableCapture \/ DisableOverflow
    BY <2>5, <2>7 DEF Enable, DisableSource, DisableCapture, DisableOverflow
  <2>8. CASE EnableOverflow
    BY <2>8, OutputOverflow DEF EnableOverflow
  <2>9. CASE Isr
    BY <2>5, <2>9, OutputOverflow DEF Isr, IsrSkip, IsrWait, IsrReport
  <2>10. CASE Tick \/ Overflow \/ Rise \/ Fall
    BY <2>5, <2>10, OutputOverflow DEF Tick, Overflow, Rise, Fall
  <2>11. CASE UNCHANGED vars
    BY <2>5, <2>11 DEF vars, regs
  <2>. QED
    BY <2>1, <2>2, <2>3, <2>4, <2>6, <2>7, <2>8, <2>9, <2>10, <2>11 DEF Next, ThreadStep
<1>. QED
  BY <1>1, <1>2, TypeInit, TypeNext, OutputInvRight, PTL DEF Spec

-----------------------------------------------------------------------------
(* Reports only while a capture is on *)

\* The types the arguments below use.
LEMMA Fields ==
  ASSUME TypeInv
  PROVE  /\ Scalars
         /\ cpt.skip \in 0 .. 2 /\ cpt.state \in States /\ cpt.overflows \in 0 .. 1
         /\ cpt.continuous \in BOOLEAN /\ val.CC \in Nat /\ val.END \in Nat
         /\ cycle.period \in Int /\ cycle.pulse \in Int
BY TypeParts DEF TypeInv, Records, Captures

LEMMA ArmedInit == Init => ArmedInv
<1> SUFFICES ASSUME Init PROVE ArmedInv
  OBVIOUS
<1>1. ie = {} /\ ~armed /\ pc = "idle" /\ due = 0 /\ flags = {}
  BY DEF Init
<1>. QED
  BY <1>1 DEF ArmedInv, Stages, Answered, Enabling

LEMMA ArmedThread ==
  ASSUME TypeInv, ArmedInv, ThreadRuns,
         \/ \E p \in Periods, w \in Pulses : StartOutput(p, w) \/ SetCompare(p, w)
         \/ SwitchOff \/ Enable \/ DisableSource \/ ThreadStep
         \/ \E cb, c \in BOOLEAN : Configure(cb, c)
  PROVE  ArmedInv'
<1>1. Scalars /\ cpt.skip \in 0 .. 2
  BY Fields
<1>2. flags \cap ie = {} /\ due = 0 /\ ~Asserted
  BY <1>1 DEF ArmedInv, Answered, ThreadRuns, Asserted, Scalars
<1>3. ASSUME ~armed, ~armed', UNCHANGED <<ie, due>>, pc' # "enable"
      PROVE  ArmedInv'
  BY <1>2, <1>3 DEF ArmedInv, Stages, Answered, Enabling
<1>4. ASSUME NEW p \in Periods, NEW w \in Pulses, StartOutput(p, w) \/ SetCompare(p, w)
      PROVE  ArmedInv'
  <2>1. pc = "idle" /\ "CC" \notin ie /\ pc' # "enable" /\ UNCHANGED <<ie, due, armed>>
    BY <1>4 DEF StartOutput, SetCompare, regs
  <2>. QED
    BY <1>3, <2>1 DEF ArmedInv, Stages
<1>5. CASE SwitchOff
  <2>1. UNCHANGED <<regs, cpt, pc, due, signal, armed, four>>
    BY <1>5 DEF SwitchOff
  <2>. QED
    BY <2>1 DEF ArmedInv, Stages, Answered, Enabling, Asserted, regs, signal
<1>6. ASSUME NEW cb \in BOOLEAN, NEW c \in BOOLEAN, Configure(cb, c)
      PROVE  ArmedInv'
  <2>1. pc = "idle" /\ "CC" \notin ie /\ UNCHANGED <<ie, pc, due, armed>>
    BY <1>6 DEF Configure
  <2>. QED
    BY <1>3, <2>1 DEF ArmedInv, Stages
<1>7. CASE Enable
  <2>1. Enabled
    BY <1>7, EnableEffect
  <2>2. Stages'
    BY <2>1 DEF Enabled, Stages
  <2>3. Answered'
    BY <1>2, <2>1 DEF Enabled, Answered
  <2>4. Enabling'
    BY <2>1 DEF Enabled, Enabling
  <2>. QED
    BY <2>2, <2>3, <2>4 DEF ArmedInv
<1>8. CASE EnableOverflow
  <2>1. urs /\ armed /\ ie = {"CC"}
    BY <1>8 DEF EnableOverflow, ArmedInv, Stages
  <2>2. /\ ie' = {"CC", "OVF"} /\ flags' = flags /\ pc' = "idle"
        /\ UNCHANGED <<four, urs, cpt, due, high, age, armed>>
    BY <1>8, <2>1 DEF EnableOverflow, Reset, signal
  <2>3. Stages'
    BY <2>1, <2>2 DEF ArmedInv, Stages
  <2>4. "CC" \notin flags' \/ "CC" \notin ie'
    BY <1>2, <2>1, <2>2
  <2>5. Answered'
    BY <1>2, <2>2, <2>4 DEF Answered
  <2>. QED
    BY <2>2, <2>3, <2>5 DEF ArmedInv, Enabling
<1>9. CASE DisableSource
  <2>1. /\ pc = "idle" /\ armed /\ pc' = "disableCC"
        /\ UNCHANGED <<four, ie, flags, cpt, due, armed>>
    BY <1>9 DEF DisableSource
  <2>2. Stages'
    BY <2>1 DEF ArmedInv, Stages
  <2>. QED
    BY <1>2, <2>1, <2>2 DEF ArmedInv, Answered, Enabling
<1>10. CASE DisableCapture
  <2>1. /\ pc = "disableCC" /\ ie' = ie \ {"CC"} /\ pc' = "disableOVF"
        /\ UNCHANGED <<four, flags, cpt, due, armed>>
    BY <1>10 DEF DisableCapture
  <2>2. Stages'
    BY <2>1 DEF ArmedInv, Stages
  <2>. QED
    BY <1>2, <2>1, <2>2 DEF ArmedInv, Answered, Enabling
<1>11. CASE DisableOverflow
  <2>1. /\ pc = "disableOVF" /\ ie' = ie \ {"OVF"} /\ pc' = "idle" /\ ~armed' /\ due' = due
    BY <1>11 DEF DisableOverflow
  <2>2. ie' = {}
    BY <2>1 DEF ArmedInv, Stages
  <2>. QED
    BY <1>2, <2>1, <2>2 DEF ArmedInv, Stages, Answered, Enabling
<1>12. CASE SetPeriod
  <2>1. ~armed /\ ~armed' /\ UNCHANGED <<ie, due>> /\ pc' = "idle"
    BY <1>12 DEF SetPeriod, ArmedInv, Stages
  <2>. QED
    BY <1>3, <2>1
<1>. QED
  BY <1>4, <1>5, <1>6, <1>7, <1>8, <1>9, <1>10, <1>11, <1>12 DEF ThreadStep

LEMMA ArmedIsr ==
  ASSUME TypeInv, ArmedInv, Isr
  PROVE  ArmedInv' /\ armed
<1>1. Scalars /\ cpt.skip \in 0 .. 2 /\ cpt.state \in States
  BY Fields
<1>2. Asserted
  BY DEF Isr, IsrSkip, IsrWait, IsrReport
<1>3. armed /\ (pc = "enable" => "CC" \in flags /\ ie = {"CC"} /\ high /\ due = 0 /\ age = 0)
  <2>1. armed
    BY <1>2 DEF Asserted, ArmedInv, Stages
  <2>2. ASSUME pc = "enable" PROVE ie = {"CC"} /\ "CC" \in flags /\ due = 0
    BY <1>1, <1>2, <2>1, <2>2 DEF Asserted, ArmedInv, Stages, Answered, Scalars
  <2>3. ASSUME pc = "enable" PROVE high /\ age = 0
    BY <1>1, <2>2, <2>3 DEF ArmedInv, Answered, Scalars
  <2>. QED
    BY <2>1, <2>2, <2>3
<1>4. CASE Skipped
  <2>1. ~four
    BY <1>3, <1>4 DEF Skipped, ArmedInv, Stages
  <2>2. Stages'
    BY <1>4, <2>1 DEF Skipped, ArmedInv, Stages
  <2>3. Answered'
    BY <1>4 DEF Skipped, Answered
  <2>4. Enabling'
    BY <1>1, <1>3, <1>4, <2>1 DEF Skipped, ArmedInv, Enabling, signal
  <2>. QED
    BY <1>3, <2>2, <2>3, <2>4 DEF ArmedInv
<1>5. CASE Waited
  <2>1. /\ four /\ UNCHANGED <<ie, pc, armed, urs, four, high, age>> /\ due' = 0
        /\ cpt'.skip = cpt.skip /\ cpt'.state # "idle" /\ "CC" \notin flags'
    BY <1>1, <1>5 DEF Waited, signal
  <2>2. Stages'
    BY <1>3, <2>1 DEF ArmedInv, Stages
  <2>3. Answered'
    BY <2>1 DEF Answered
  <2>4. ASSUME pc = "enable"
        PROVE  "OVF" \notin flags' /\ cpt'.state = "update"
    <3>1. urs /\ "CC" \in flags
      BY <1>3, <2>4 DEF ArmedInv, Stages
    <3>. QED
      BY <1>5, <3>1 DEF Waited
  <2>5. Enabling'
    BY <1>3, <2>1, <2>4 DEF Enabling
  <2>. QED
    BY <1>3, <2>2, <2>3, <2>5 DEF ArmedInv
<1>6. CASE Reported
  <2>1. pc # "enable"
    <3>1. SUFFICES ASSUME pc = "enable" PROVE FALSE
      OBVIOUS
    <3>2. cpt.skip = 0 /\ "OVF" \notin flags /\ Complete(AfterOverflow)
      BY <1>6, <3>1 DEF Reported, ArmedInv, Enabling
    <3>3. AfterOverflow = cpt
      BY <3>2 DEF AfterOverflow
    <3>. QED
      BY <1>3, <3>1, <3>2, <3>3 DEF Complete, ArmedInv, Enabling, Stages
  <2>2. CASE cpt.continuous
    <3>1. /\ cpt'.state = "start" /\ UNCHANGED <<urs, ie, armed, four, pc>> /\ due' = 0
          /\ cpt'.skip = cpt.skip /\ "CC" \notin flags'
      BY <1>6, <2>2 DEF Reported
    <3>2. Stages'
      BY <3>1 DEF ArmedInv, Stages
    <3>. QED
      BY <1>3, <2>1, <3>1, <3>2 DEF ArmedInv, Answered, Enabling
  <2>3. CASE ~cpt.continuous
    <3>1. ie' = {} /\ ~armed' /\ pc' = pc /\ due' = 0
      BY <1>6, <2>3 DEF Reported
    <3>. QED
      BY <1>3, <2>1, <3>1 DEF ArmedInv, Stages, Answered, Enabling
  <2>. QED
    BY <2>2, <2>3
<1>. QED
  BY <1>4, <1>5, <1>6, SkipEffect, WaitEffect, ReportEffect DEF Isr

LEMMA ArmedSignal ==
  ASSUME TypeInv, ArmedInv, "preempt" \notin Hazards, Tick \/ Overflow \/ Rise \/ Fall
  PROVE  ArmedInv'
<1>1. Scalars /\ cpt.skip \in 0 .. 2
  BY Fields
<1>2. ASSUME UNCHANGED <<four, ie, cpt, pc, armed, urs>>
      PROVE  Stages'
  BY <1>2 DEF ArmedInv, Stages
<1>3. CASE Tick
  <2>1. /\ UNCHANGED <<four, ie, cpt, pc, armed, urs, high>> /\ pc # "enable"
        /\ flags' \in {flags, flags \cup {"OVF"}}
        /\ due' = (IF Asserted THEN due + 1 ELSE 0) /\ age' <= age + 1
    BY <1>1, <1>3 DEF Tick, Scalars
  <2>2. Answered'
    <3>1. ASSUME "CC" \in flags' \cap ie'
          PROVE  high' /\ age' <= due'
      <4>1. "CC" \in flags \cap ie
        BY <2>1, <3>1
      <4>2. Asserted /\ high /\ age <= due
        BY <4>1 DEF Asserted, ArmedInv, Answered
      <4>3. age' <= age + 1 /\ age' \in Int
        BY <1>1, <1>3, TimeAssumption DEF Tick, Scalars
      <4>. QED
        BY <1>1, <2>1, <4>2, <4>3 DEF Scalars
    <3>2. ASSUME due' > 0
          PROVE  Asserted' /\ pc' # "enable"
      BY <2>1, <3>2 DEF Asserted
    <3>. QED
      BY <3>1, <3>2 DEF Answered
  <2>. QED
    BY <1>2, <2>1, <2>2 DEF ArmedInv, Enabling
<1>4. CASE Risen
  <2>1. UNCHANGED <<four, ie, cpt, pc, armed, urs, due>> /\ high' /\ (armed => age' = 0) /\ ~high
        /\ flags' = (IF slave /\ ~urs THEN flags \cup {"CC", "OVF"} ELSE flags \cup {"CC"})
    BY <1>4 DEF Risen
  <2>2. Asserted => Asserted'
    BY <2>1 DEF Asserted
  <2>3. Answered'
    BY <1>1, <2>1, <2>2 DEF ArmedInv, Stages, Answered, Scalars
  <2>4. Enabling'
    <3>1. ASSUME pc = "enable"
          PROVE  "OVF" \notin flags' /\ urs
      BY <2>1, <3>1 DEF ArmedInv, Enabling, Stages
    <3>. QED
      BY <2>1, <3>1 DEF ArmedInv, Stages, Enabling
  <2>. QED
    BY <1>2, <2>1, <2>3, <2>4 DEF ArmedInv
<1>5. CASE Fallen
  <2>1. /\ UNCHANGED <<four, ie, cpt, pc, armed, urs, due, age>>
        /\ flags' = flags \cup {"END"} /\ high /\ age > Latency
    BY <1>1, <1>5, TimeAssumption DEF Fallen, Scalars
  <2>2. "CC" \notin flags \cap ie
    BY <1>1, <2>1, TimeAssumption DEF ArmedInv, Answered, Scalars
  <2>3. Asserted => Asserted'
    BY <2>1 DEF Asserted
  <2>4. Answered'
    BY <2>1, <2>2, <2>3 DEF ArmedInv, Answered
  <2>5. age # 0
    BY <2>1, TimeAssumption
  <2>6. Enabling'
    BY <2>1, <2>5 DEF ArmedInv, Enabling
  <2>. QED
    BY <1>2, <2>1, <2>4, <2>6 DEF ArmedInv
<1>6. CASE Overflow
  <2>1. ~armed /\ UNCHANGED <<four, ie, cpt, pc, armed, urs, due>>
    BY <1>6 DEF Overflow
  <2>2. ie = {} /\ due = 0 /\ pc # "enable"
    BY <1>1, <2>1 DEF ArmedInv, Stages, Answered, Asserted, Scalars
  <2>. QED
    BY <1>2, <2>1, <2>2 DEF ArmedInv, Answered, Enabling
<1>. QED
  BY <1>3, <1>4, <1>5, <1>6, RiseEffect, FallEffect

LEMMA ArmedNext ==
  ASSUME "preempt" \notin Hazards, TypeInv, ArmedInv, [Next]_vars
  PROVE  ArmedInv'
<1>1. CASE UNCHANGED vars
  BY <1>1 DEF vars, regs, signal, ArmedInv, Stages, Answered, Enabling, Asserted
<1>. QED
  BY <1>1, ArmedThread, ArmedIsr, ArmedSignal DEF Next

\* The callback runs only between enable_capture and the end of the capture
\* (pwm_at32_isr, pwm_at32_disable_capture), for any sizes and whatever else the
\* driver is asked; where no time passes inside enable_capture.
THEOREM ReportsArmed ==
  ASSUME "preempt" \notin Hazards
  PROVE  Spec => ReportOnlyArmed
<1>1. TypeInv /\ ArmedInv /\ [Next]_vars => [rep'.status # "none" => armed]_vars
  <2> SUFFICES ASSUME TypeInv, ArmedInv, Next, rep'.status # "none"
               PROVE  armed
    OBVIOUS
  <2>1. CASE Isr
    BY <2>1, ArmedIsr
  <2>2. ASSUME rep' = NoReport PROVE FALSE
    BY <2>2 DEF NoReport
  <2>3. CASE ~Isr
    BY <2>2, <2>3 DEF Next, StartOutput, SetCompare, SetPeriod, SwitchOff, Configure, Enable,
                      DisableSource, ThreadStep, EnableOverflow, DisableCapture,
                      DisableOverflow, Tick, Overflow, Rise, Fall
  <2>. QED
    BY <2>1, <2>3
<1>. QED
  BY <1>1, TypeInit, TypeNext, ArmedInit, ArmedNext, PTL DEF Spec, ReportOnlyArmed

-----------------------------------------------------------------------------
(* Reports that tell the true cycle *)

NoSlip == Hazards \cap {"slow", "preempt"} = {}

LEMMA CaptureInit == Init => CaptureInv
<1> SUFFICES ASSUME Init PROVE CaptureInv
  OBVIOUS
<1>1. ~armed /\ ~ready
  BY DEF Init
<1>. QED
  BY <1>1, ArmedInit DEF CaptureInv, Owned, TwoChannels, FourChannels

\* The thread's steps do not touch a cycle that is being measured: enable_capture
\* starts the measure, disable_capture ends it.
LEMMA CaptureThread ==
  ASSUME NoSlip, TypeInv, CaptureInv, ThreadRuns,
         \/ \E p \in Periods, w \in Pulses : StartOutput(p, w) \/ SetCompare(p, w)
         \/ SwitchOff \/ Enable \/ DisableSource \/ ThreadStep
         \/ \E cb, c \in BOOLEAN : Configure(cb, c)
  PROVE  Owned' /\ TwoChannels' /\ FourChannels'
<1>1. Scalars /\ cpt.skip \in 0 .. 2
  BY Fields
<1>2. flags \cap ie = {}
  BY DEF ThreadRuns, Asserted
<1>3. ASSUME ~armed' PROVE TwoChannels' /\ FourChannels'
  BY <1>3 DEF TwoChannels, FourChannels
<1>4. ASSUME NEW p \in Periods, NEW w \in Pulses, StartOutput(p, w) \/ SetCompare(p, w)
      PROVE  Owned' /\ TwoChannels' /\ FourChannels'
  <2>1. ~armed'
    BY <1>4 DEF StartOutput, SetCompare, CaptureInv, ArmedInv, Stages
  <2>2. ~ready' \/ UNCHANGED <<four, mode, slave, pr, ready>>
    BY <1>4 DEF StartOutput, SetCompare, regs
  <2>. QED
    BY <1>3, <2>1, <2>2 DEF CaptureInv, Owned
<1>5. CASE SwitchOff
  <2>1. UNCHANGED <<four, mode, regs, cpt, pc, due, signal, armed, ready>>
    BY <1>5 DEF SwitchOff
  <2>2. UNCHANGED <<four, mode, slave, pr, top, pc, armed, ready>>
    BY <2>1 DEF regs
  <2>3. UNCHANGED <<four, cnt, ie, flags, val, cpt, pc, high, age, width, cycle, armed, ready>>
    BY <2>1 DEF regs, signal
  <2>. QED
    BY <2>2, <2>3 DEF CaptureInv, Owned, TwoChannels, Synced, FourChannels, Lags
<1>6. ASSUME NEW cb \in BOOLEAN, NEW c \in BOOLEAN, Configure(cb, c)
      PROVE  Owned' /\ TwoChannels' /\ FourChannels'
  <2>1. ~armed' /\ slave' = ~four' /\ mode' = "up" /\ pr' = MaxCount
    BY <1>6 DEF Configure, CaptureInv, ArmedInv, Stages
  <2>. QED
    BY <1>3, <2>1 DEF Owned
<1>7. CASE Enable
  <2>1. Enabled
    BY <1>7, EnableEffect
  <2>2. Owned'
    BY <2>1 DEF Enabled, CaptureInv, Owned
  <2>3. TwoChannels'
    BY <2>1 DEF Enabled, TwoChannels
  <2>4. FourChannels'
    BY <2>1 DEF Enabled, FourChannels
  <2>. QED
    BY <2>2, <2>3, <2>4
<1>8. CASE EnableOverflow
  <2>1. urs /\ armed /\ ie = {"CC"} /\ pc = "enable"
    BY <1>8 DEF EnableOverflow, CaptureInv, ArmedInv, Stages
  <2>2. /\ cnt' = 0 /\ top' = pr /\ flags' = flags /\ pc' = "idle"
        /\ UNCHANGED <<four, mode, slave, pr, val, cpt, high, age, width, cycle, armed, ready>>
    BY <1>8, <2>1 DEF EnableOverflow, OverflowEvent, Reset, signal
  <2>3. Owned'
    BY <2>2 DEF CaptureInv, Owned
  <2>4. "CC" \notin flags
    BY <1>2, <2>1
  <2>5. TwoChannels'
    BY <2>1, <2>2, <2>4 DEF CaptureInv, ArmedInv, Enabling, TwoChannels
  <2>6. FourChannels'
    BY <1>1, <2>1, <2>2, <2>4, TimeAssumption
    DEF CaptureInv, ArmedInv, Enabling, FourChannels, Lags, Scalars
  <2>. QED
    BY <2>3, <2>5, <2>6
<1>9. CASE DisableSource \/ DisableCapture
  <2>1. /\ ie' \subseteq ie /\ (pc' = "disableOVF" => ie' = ie \ {"CC"})
        /\ pc # "enable"
        /\ UNCHANGED <<four, mode, slave, pr, top, cnt, flags, val, cpt, high, age, width, cycle,
                       armed, ready>>
    BY <1>9 DEF DisableSource, DisableCapture, signal
  <2>2. Owned'
    BY <2>1 DEF CaptureInv, Owned
  <2>3. TwoChannels'
    BY <2>1 DEF CaptureInv, TwoChannels, Synced
  <2>4. pc' = "disableOVF" => ~armed \/ "OVF" \notin flags
    BY <1>2, <1>9 DEF DisableSource, DisableCapture, CaptureInv, ArmedInv, Stages
  <2>5. FourChannels'
    BY <2>1, <2>4 DEF CaptureInv, FourChannels, Lags
  <2>. QED
    BY <2>2, <2>3, <2>5
<1>10. CASE DisableOverflow
  <2>1. ~armed' /\ UNCHANGED <<four, mode, slave, pr, ready>>
    BY <1>10 DEF DisableOverflow
  <2>. QED
    BY <1>3, <2>1 DEF CaptureInv, Owned
<1>11. CASE SetPeriod
  <2>1. ~armed' /\ ~ready'
    BY <1>11 DEF SetPeriod, CaptureInv, ArmedInv, Stages
  <2>. QED
    BY <1>3, <2>1 DEF Owned
<1>. QED
  BY <1>4, <1>5, <1>6, <1>7, <1>8, <1>9, <1>10, <1>11 DEF ThreadStep

\* The handler skips, waits for the second edge, or reports and starts afresh.
LEMMA CaptureIsr ==
  ASSUME TypeInv, CaptureInv, Isr
  PROVE  Owned' /\ TwoChannels' /\ FourChannels'
<1>1. Scalars /\ cpt.skip \in 0 .. 2 /\ cpt.state \in States /\ cpt.overflows \in 0 .. 1
  BY Fields
<1>2. armed /\ Asserted
  BY ArmedIsr DEF CaptureInv, Isr, IsrSkip, IsrWait, IsrReport
<1>3. CASE Skipped
  <2>1. ~four
    BY <1>2, <1>3 DEF Skipped, CaptureInv, ArmedInv, Stages
  <2>2. Owned'
    BY <1>3 DEF Skipped, CaptureInv, Owned
  <2>3. ASSUME cpt'.skip = 0, ready
        PROVE  Synced'
    <3>1. cpt.skip = 1 /\ flags \cap {"CC", "END"} # {}
      BY <1>1, <1>3, <2>3 DEF Skipped
    <3>2. "CC" \in flags
      BY <1>1, <1>2, <2>1, <2>3, <3>1 DEF CaptureInv, TwoChannels, Asserted, Scalars
    <3>3. Synced
      BY <1>2, <2>1, <2>3, <3>1, <3>2 DEF CaptureInv, TwoChannels
    <3>. QED
      BY <1>3, <3>3 DEF Skipped, Synced, signal
  <2>4. flags' = {} /\ ~four' /\ ready' = ready
    BY <1>3, <2>1 DEF Skipped
  <2>. QED
    BY <2>2, <2>3, <2>4 DEF TwoChannels, FourChannels
<1>4. CASE Waited
  <2> DEFINE c == AfterOverflow
  <2>1. /\ four /\ four' /\ armed'
        /\ UNCHANGED <<ie, pc, val, cycle, high, age, width, ready>>
        /\ cpt'.overflows = c.overflows
    BY <1>2, <1>4 DEF Waited, signal
  <2>2. Owned'
    BY <1>4 DEF Waited, CaptureInv, Owned
  <2>3. IF "OVF" \notin flags THEN c.state = cpt.state /\ c.overflows = cpt.overflows
        ELSE IF cpt.state = "update" THEN c.state = "end" /\ c.overflows = cpt.overflows
        ELSE c.state = cpt.state /\ c.overflows = 1
    BY <2>1, OverflowSeen
  <2>. HIDE DEF c
  <2>4. ASSUME c.state = "start", "CC" \in flags, cpt'.state = "update", cnt' = 0,
               flags' = IF urs THEN flags \ {"CC", "OVF"} ELSE (flags \ {"CC"}) \cup {"OVF"}
        PROVE  FourChannels'
    <3>1. ASSUME pc = "disableOVF"
          PROVE  cpt'.overflows = 1 /\ "CC" \notin ie
      <4>1. ie = {"OVF"}
        BY <1>2, <3>1 DEF CaptureInv, ArmedInv, Stages
      <4>2. "OVF" \in flags
        BY <1>2, <4>1 DEF Asserted
      <4>. QED
        BY <2>1, <2>3, <2>4, <4>1, <4>2
    <3>2. "CC" \notin flags'
      BY <2>4
    <3>3. ASSUME "CC" \in ie
          PROVE  high /\ Lags(cnt', age)
      <4>1. high /\ age <= due
        BY <2>4, <3>3 DEF CaptureInv, ArmedInv, Answered
      <4>. QED
        BY <1>1, <2>4, <4>1, TimeAssumption DEF Lags, Scalars
    <3>. QED
      BY <2>1, <2>4, <3>1, <3>2, <3>3 DEF FourChannels, Lags
  <2>5. ASSUME c.state # "idle", "CC" \notin flags, cpt'.state = c.state,
               flags' = flags \ {"OVF"}, cnt' = cnt
        PROVE  FourChannels'
    <3>1. "OVF" \notin flags' /\ "CC" \notin flags'
      BY <2>5
    <3>2. "OVF" \in flags
      BY <1>1, <1>2, <2>5 DEF Asserted, Scalars
    <3>3. ASSUME ready, "CC" \in ie, cpt'.state \in {"update", "end"}, cpt'.overflows = 0
          PROVE  Lags(cnt, age) /\ (~high => Lags(val.END, width))
      <4>1. cpt.state = "update" /\ cpt.overflows = 0
        BY <2>1, <2>3, <2>5, <3>2, <3>3
      <4>. QED
        BY <1>2, <2>1, <2>5, <3>3, <4>1 DEF CaptureInv, FourChannels
    <3>. QED
      BY <2>1, <2>5, <3>1, <3>3 DEF FourChannels, Lags
  <2>6. FourChannels'
    BY <1>4, <2>4, <2>5 DEF Waited, c
  <2>. QED
    BY <2>1, <2>2, <2>6 DEF TwoChannels
<1>5. CASE Reported
  <2>1. UNCHANGED <<four, mode, slave, pr, top, ready, cnt, pc>>
    BY <1>5 DEF Reported
  <2>2. armed' => armed
    BY <1>2
  <2>3. Owned'
    BY <2>1, <2>2 DEF CaptureInv, Owned
  <2>4. ASSUME armed'
        PROVE  /\ cpt.continuous /\ cpt.skip = 0 /\ cpt'.state = "start" /\ cpt'.skip = 0
               /\ UNCHANGED <<val, age, high, width, cycle>>
    BY <1>5, <2>4 DEF Reported, signal
  <2>5. ASSUME armed', ready, ~four
        PROVE  Synced /\ flags' = {}
    BY <1>2, <1>5, <2>4, <2>5 DEF Reported, CaptureInv, TwoChannels
  <2>6. TwoChannels'
    BY <2>1, <2>4, <2>5 DEF TwoChannels, Synced
  <2>7. FourChannels'
    BY <2>4 DEF FourChannels
  <2>. QED
    BY <2>3, <2>6, <2>7
<1>. QED
  BY <1>3, <1>4, <1>5, SkipEffect, WaitEffect, ReportEffect DEF Isr

LEMMA CaptureTick ==
  ASSUME NoSlip, TypeInv, CaptureInv, Tick
  PROVE  Owned' /\ TwoChannels' /\ FourChannels'
<1>1. Scalars /\ cpt.skip \in 0 .. 2 /\ cpt.overflows \in 0 .. 1 /\ cpt.continuous \in BOOLEAN
  BY Fields
<1>2. /\ armed /\ ~(cnt = top /\ Lossy) /\ pc # "enable"
      /\ UNCHANGED <<four, mode, slave, pr, ready, armed, ie, val, cpt, pc, high, width>>
  BY DEF Tick, NoSlip
<1>3. Owned'
  BY <1>2 DEF Tick, OverflowEvent, CaptureInv, Owned
<1>4. SUFFICES ASSUME ready PROVE TwoChannels' /\ FourChannels'
  BY <1>2, <1>3 DEF TwoChannels, FourChannels
<1>5. top = MaxCount /\ MaxCount \in Nat \ {0} /\ MaxCount + Latency <= MaxAge /\ Latency \in Nat /\ MaxAge \in Nat
  BY <1>2, <1>4, CountAssumption, TimeAssumption DEF CaptureInv, Owned
<1>6. cnt \in Nat /\ cnt <= top /\ age \in 0 .. MaxAge
  BY <1>1 DEF Scalars
<1>7. CASE cnt = top
  <2>1. flags' = flags \cup {"OVF"} /\ ~Lossy
    BY <1>2, <1>5, <1>6, <1>7 DEF Tick
  <2>2. TwoChannels'
    BY <1>2, <1>4, <2>1 DEF Lossy, TwoChannels
  <2>3. four => cpt.state # "update"
    BY <1>2, <1>4, <2>1 DEF Lossy
  <2>4. FourChannels'
    BY <1>2, <2>1, <2>3 DEF FourChannels
  <2>. QED
    BY <2>2, <2>4
<1>8. CASE cnt < top
  <2>1. cnt' = cnt + 1 /\ flags' = flags
    BY <1>5, <1>6, <1>8 DEF Tick
  <2>2. age' = (IF age < MaxAge THEN age + 1 ELSE age)
    BY DEF Tick
  <2>3. "CC" \in flags \cap ie => cycle' = cycle
    BY DEF Tick, Asserted
  <2>4. Synced => Synced'
    BY <1>2, <1>5, <1>6, <1>8, <2>1, <2>2 DEF Synced
  <2>5. Lags(cnt, age) => Lags(cnt', age')
    BY <1>5, <1>6, <1>8, <2>1, <2>2 DEF Lags
  <2>6. TwoChannels'
    BY <1>2, <1>4, <2>1, <2>3, <2>4 DEF CaptureInv, TwoChannels
  <2>7. FourChannels'
    BY <1>2, <1>4, <2>1, <2>3, <2>5 DEF CaptureInv, FourChannels, Lags
  <2>. QED
    BY <2>6, <2>7
<1>. QED
  BY <1>6, <1>7, <1>8, <1>5

LEMMA CaptureEdge ==
  ASSUME TypeInv, CaptureInv, Rise \/ Fall
  PROVE  Owned' /\ TwoChannels' /\ FourChannels'
<1>1. /\ Scalars /\ cpt.skip \in 0 .. 2 /\ cpt.overflows \in 0 .. 1
      /\ val.CC \in Nat /\ val.END \in Nat
  BY Fields
<1>2. CASE Risen
  <2>1. /\ UNCHANGED <<four, mode, slave, pr, ready, armed, ie, cpt, pc>>
        /\ armed => /\ val'.CC = cnt /\ val'.END = val.END
                    /\ cycle'.period = age /\ cycle'.pulse = width /\ age' = 0
        /\ ~high /\ high' /\ top' \in {top, pr}
        /\ flags' = (IF slave /\ ~urs THEN flags \cup {"CC", "OVF"} ELSE flags \cup {"CC"})
        /\ cnt' = (IF slave THEN 0 ELSE cnt)
    BY <1>2 DEF Risen
  <2>2. Owned'
    BY <2>1 DEF CaptureInv, Owned
  <2>3. "CC" \notin flags \cap ie
    BY <2>1 DEF CaptureInv, ArmedInv, Answered
  <2>4. ASSUME armed, ready, ~four PROVE Synced'
    <3>1. slave
      BY <2>4 DEF CaptureInv, Owned
    <3>. QED
      BY <2>1, <2>4, <3>1 DEF Synced
  <2>5. TwoChannels'
    <3>1. ASSUME armed, ready, ~four, cpt.skip = 0, cpt.overflows = 0, "OVF" \notin flags
          PROVE  cnt = age /\ val.END = width
      BY <2>1, <3>1 DEF CaptureInv, TwoChannels, Synced
    <3>. QED
      BY <2>1, <2>4, <3>1 DEF TwoChannels
  <2>6. FourChannels'
    <3>1. ASSUME armed, ready, four PROVE cnt' = cnt /\ flags' = flags \cup {"CC"}
      BY <2>1, <3>1 DEF CaptureInv, Owned
    <3>. QED
      BY <2>1, <2>3, <3>1 DEF CaptureInv, FourChannels, Lags
  <2>. QED
    BY <2>2, <2>5, <2>6
<1>3. CASE Fallen
  <2>1. /\ UNCHANGED <<four, mode, slave, pr, top, ready, armed, ie, cpt, pc, cnt, age, cycle>>
        /\ armed => val'.CC = val.CC /\ val'.END = cnt /\ width' = age
        /\ high /\ ~high'
        /\ flags' = flags \cup {"END"} /\ age >= MinGap
    BY <1>3 DEF Fallen
  <2>2. Owned'
    BY <2>1 DEF CaptureInv, Owned
  <2>3. "CC" \notin flags \cap ie
    BY <1>1, <2>1, TimeAssumption DEF CaptureInv, ArmedInv, Answered, Scalars
  <2>4. armed /\ Synced => Synced'
    BY <2>1 DEF Synced
  <2>5. TwoChannels'
    BY <2>1, <2>3, <2>4 DEF CaptureInv, TwoChannels
  <2>6. FourChannels'
    BY <2>1, <2>3 DEF CaptureInv, FourChannels, Lags
  <2>. QED
    BY <2>2, <2>5, <2>6
<1>. QED
  BY <1>2, <1>3, RiseEffect, FallEffect

LEMMA CaptureNext ==
  ASSUME NoSlip, TypeInv, CaptureInv, [Next]_vars
  PROVE  CaptureInv'
<1>1. ArmedInv'
  BY ArmedNext DEF NoSlip, CaptureInv
<1>2. Owned' /\ TwoChannels' /\ FourChannels'
  <2>1. CASE UNCHANGED vars
    <3>1. UNCHANGED <<four, mode, slave, pr, top, pc, armed, ready>>
      BY <2>1 DEF vars, regs
    <3>2. UNCHANGED <<four, cnt, ie, flags, val, cpt, pc, high, age, width, cycle, armed, ready>>
      BY <2>1 DEF vars, regs, signal
    <3>. QED
      BY <3>1, <3>2 DEF CaptureInv, Owned, TwoChannels, Synced, FourChannels, Lags
  <2>2. CASE Overflow
    <3>1. ~armed /\ UNCHANGED <<four, mode, slave, pr, armed, ready>>
      BY <2>2 DEF Overflow
    <3>. QED
      BY <3>1 DEF CaptureInv, Owned, TwoChannels, FourChannels
  <2>. QED
    BY <2>1, <2>2, CaptureThread, CaptureIsr, CaptureTick, CaptureEdge DEF Next
<1>. QED
  BY <1>1, <1>2 DEF CaptureInv

\* A report without an error is the cycle the invariant keeps.
LEMMA ReportStep ==
  ASSUME TypeInv, CaptureInv, Isr
  PROVE  Truth
<1>1. /\ Scalars /\ cpt.skip \in 0 .. 2 /\ cpt.state \in States /\ cpt.overflows \in 0 .. 1
      /\ val.CC \in Nat /\ val.END \in Nat /\ cycle.period \in Int /\ cycle.pulse \in Int
  BY Fields
<1>2. armed /\ Asserted
  BY ArmedIsr DEF CaptureInv, Isr, IsrSkip, IsrWait, IsrReport
<1>3. CASE Skipped \/ Waited
  <2>1. rep' = NoReport
    BY <1>3 DEF Skipped, Waited
  <2>. QED
    BY <2>1 DEF NoReport, Truth
<1>4. CASE Reported
  <2> DEFINE c == AfterOverflow
  <2>1. /\ rep'.status = (IF c.overflows > 0 THEN "erange" ELSE "ok")
        /\ rep'.period = val.CC /\ rep'.pulse = val.END
        /\ cpt.skip = 0 /\ Complete(c)
    BY <1>4 DEF Reported
  <2>2. IF "OVF" \notin flags THEN c.state = cpt.state /\ c.overflows = cpt.overflows
        ELSE IF four /\ cpt.state = "update" THEN c.state = "end" /\ c.overflows = cpt.overflows
        ELSE c.state = cpt.state /\ c.overflows = 1
    BY OverflowSeen
  <2>. HIDE DEF c
  <2>3. SUFFICES ASSUME rep'.status = "ok", ready
                 PROVE  LET late == IF four THEN Latency ELSE 0 IN
                        /\ val.CC \in cycle.period - late .. cycle.period
                        /\ val.END \in cycle.pulse - late .. cycle.pulse
    BY <2>1 DEF Truth
  <2>4. cpt.overflows = 0 /\ ((four /\ cpt.state = "update") \/ "OVF" \notin flags)
    BY <1>1, <2>1, <2>2, <2>3
  <2>5. CASE ~four
    <3>1. "OVF" \notin flags
      BY <2>4, <2>5
    <3>2. "CC" \in flags \cap ie
      BY <1>1, <1>2, <3>1 DEF Asserted, Scalars
    <3>3. val.CC = cycle.period /\ val.END = cycle.pulse
      BY <1>2, <2>1, <2>3, <2>4, <2>5, <3>1, <3>2 DEF CaptureInv, TwoChannels
    <3>. QED
      BY <1>1, <2>5, <3>3
  <2>6. CASE four
    <3>1. cpt.state \in {"update", "end"} /\ "CC" \in flags
          /\ (cpt.state = "end" => "OVF" \notin flags)
      BY <1>2, <2>1, <2>2, <2>4, <2>6 DEF Complete, CaptureInv, ArmedInv, Stages
    <3>2. "CC" \in ie
      <4>1. SUFFICES ASSUME "CC" \notin ie PROVE FALSE
        OBVIOUS
      <4>2. pc = "disableOVF" /\ "OVF" \in flags
        BY <1>1, <1>2, <4>1 DEF Asserted, CaptureInv, ArmedInv, Stages, Scalars
      <4>. QED
        BY <1>2, <2>3, <2>4, <2>6, <3>1, <4>2 DEF CaptureInv, FourChannels
    <3>3. Lags(val.CC, cycle.period) /\ Lags(val.END, cycle.pulse)
      BY <1>2, <2>3, <2>4, <2>6, <3>1, <3>2 DEF CaptureInv, FourChannels
    <3>. QED
      BY <2>6, <3>3 DEF Lags
  <2>. QED
    BY <2>5, <2>6
<1>. QED
  BY <1>3, <1>4, SkipEffect, WaitEffect, ReportEffect DEF Isr

\* A report without an error tells the signal's last cycle, for counters of any
\* width and handlers of any latency, beside outputs that run on the timer
\* (pwm_at32_isr); where set_cycles has not come between configure_capture and
\* enable_capture, the counter does not overflow unseen, and no time passes inside
\* enable_capture.
THEOREM ReportsTrue ==
  ASSUME Hazards \cap {"slow", "preempt"} = {}
  PROVE  Spec => ReportTrue
<1>1. NoSlip
  BY DEF NoSlip
<1>2. TypeInv /\ CaptureInv /\ [Next]_vars => [Truth]_vars
  <2> SUFFICES ASSUME TypeInv, CaptureInv, Next
               PROVE  Truth
    OBVIOUS
  <2>1. ASSUME rep' = NoReport PROVE Truth
    BY <2>1 DEF NoReport, Truth
  <2>2. CASE Isr
    BY <2>2, ReportStep
  <2>3. CASE ~Isr
    BY <2>1, <2>3 DEF Next, StartOutput, SetCompare, SetPeriod, SwitchOff, Configure, Enable,
                      DisableSource, ThreadStep, EnableOverflow, DisableCapture,
                      DisableOverflow, Tick, Overflow, Rise, Fall
  <2>. QED
    BY <2>2, <2>3
<1>. QED
  BY <1>1, <1>2, TypeInit, TypeNext, CaptureInit, CaptureNext, PTL DEF Spec, ReportTrue
=============================================================================
