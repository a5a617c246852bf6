----------------------------- MODULE GpioExint -----------------------------
(***************************************************************************)
(* Pin interrupts: gpio_at32_pin_interrupt_configure of gpio_at32.c on top *)
(* of the EXINT driver intc_exint_at32.c.                                  *)
(*                                                                         *)
(* Pin l of every port shares EXINT line l; src selects the port.  Lines   *)
(* are grouped into ranges, one interrupt each, all of one priority.  One  *)
(* thread configures at a time; edges come at any moment, and a handler,   *)
(* which goes through its range line by line, runs between any two of the  *)
(* thread's register accesses.  Callbacks do not configure pins.           *)
(***************************************************************************)
EXTENDS Naturals

CONSTANTS
  Ports,      (* GPIO ports                                                *)
  PortA,      (* the port with index 0, which a cleared source selects     *)
  NoPort,     (* no callback                                               *)
  LastLine,   (* the last line a pin has; the table goes further           *)
  Modes,      (* the modes and triggers callers ask for                    *)
  Ranges,     (* the line-ranges of the devicetree                         *)
  Exclusive   (* do callers disable a line before another port uses it?    *)

Lines == 0 .. LastLine

Members(r) == r.start .. (r.start + r.len - 1)

ASSUME PortsAssumption     == PortA \in Ports /\ NoPort \notin Ports
ASSUME LinesAssumption     == LastLine \in Nat
ASSUME ModesAssumption     ==
  "disabled" \in Modes /\ Modes \subseteq {"disabled", "rise", "fall", "both", "unsupported"}
ASSUME RangesAssumption    ==
  /\ Ranges \subseteq [start: Nat, len: Nat \ {0}]
  /\ \A l \in Lines : \E r \in Ranges :
       l \in Members(r) /\ \A q \in Ranges : l \in Members(q) => q = r
  /\ \A r \in Ranges : Members(r) \subseteq Lines
ASSUME ExclusiveAssumption == Exclusive \in BOOLEAN

VARIABLES
  \* at32_exint_data and the registers
  cb,       (* per line: the port whose gpio_at32_isr is registered        *)
  src,      (* exintc: the port the line listens to                        *)
  trig,     (* polcfg1, polcfg2: the edges the line reacts to              *)
  inten,    (* enabled lines                                               *)
  flag,     (* lines with a latched edge                                   *)
  nvic,     (* ranges whose interrupt is enabled (irq_enable)              *)
  isr,      (* the handler: its range, the line and what it does next      *)
  \* the configuring thread
  pc, job,
  \* history
  armed,    (* the port that configured the line last, with success        *)
  due       (* lines with an edge their armed port has to be told of       *)

registers == <<src, trig, inten, nvic>>
vars == <<cb, registers, flag, isr, pc, job, armed, due>>

Edges   == {"rise", "fall"}
Jobs    == [port: Ports, line: Lines, mode: Modes]
Idle    == [range |-> [start |-> 0, len |-> 0], line |-> 0, at |-> "idle"]

\* The edges of a trigger mode.
Wanted(mode) ==
  CASE mode = "both" -> Edges
    [] mode \in Edges -> {mode}
    [] OTHER -> {}

RangeOf(l) == CHOOSE r \in Ranges : l \in Members(r)

\* A handler is due: some enabled line of an enabled interrupt is pending.
Asserted(r) == r \in nvic /\ \E l \in Members(r) : l \in flag /\ l \in inten

ThreadRuns == isr = Idle /\ \A r \in Ranges : ~Asserted(r)

Init ==
  /\ cb = [l \in Lines |-> NoPort]
  /\ src = [l \in Lines |-> PortA]
  /\ trig = [l \in Lines |-> {}]
  /\ inten = {} /\ flag = {} /\ nvic = {}
  /\ isr = Idle
  /\ pc = "idle"
  /\ job = [port |-> PortA, line |-> 0, mode |-> "disabled"]
  /\ armed = [l \in Lines |-> NoPort]
  /\ due = {}

-----------------------------------------------------------------------------
(* gpio_at32_pin_interrupt_configure *)

\* With Exclusive a port leaves a line alone while another holds its callback.
Begin(j) ==
  /\ pc = "idle"
  /\ Exclusive => cb[j.line] \in {NoPort, j.port}
  /\ job' = j
  /\ pc' = IF j.mode = "disabled" THEN "disable" ELSE "register"
  /\ armed' = [armed EXCEPT ![j.line] = NoPort]
  /\ due' = due \ {j.line}
  /\ UNCHANGED <<cb, registers, flag, isr>>

\* at32_exint_intc_set_irq_callback; its -EBUSY is not looked at.
Register ==
  /\ pc = "register"
  /\ cb' = [cb EXCEPT ![job.line] = IF @ = NoPort THEN job.port ELSE @]
  /\ pc' = "clearsource"
  /\ UNCHANGED <<registers, flag, isr, job, armed, due>>

\* Seeded fault: the mask takes in the other lines of the register.
ClearSourceAll ==
  /\ pc = "clearsource"
  /\ src' = [l \in Lines |-> PortA]
  /\ pc' = "setsource"
  /\ UNCHANGED <<cb, trig, inten, nvic, flag, isr, job, armed, due>>

\* exint_line_config: the nibble is cleared, then set.
ClearSource ==
  /\ pc = "clearsource"
  /\ src' = [src EXCEPT ![job.line] = PortA]
  /\ pc' = "setsource"
  /\ UNCHANGED <<cb, trig, inten, nvic, flag, isr, job, armed, due>>

SetSource ==
  /\ pc = "setsource"
  /\ src' = [src EXCEPT ![job.line] = job.port]
  /\ pc' = IF job.mode = "unsupported" THEN "idle" ELSE "rising"
  /\ UNCHANGED <<cb, trig, inten, nvic, flag, isr, job, armed, due>>

\* at32_exint_intc_select_line_trigger: polcfg1, then polcfg2.
SelectRising ==
  /\ pc = "rising"
  /\ trig' = [trig EXCEPT ![job.line] = (@ \ {"rise"}) \cup (Wanted(job.mode) \cap {"rise"})]
  /\ pc' = "falling"
  /\ UNCHANGED <<cb, src, inten, nvic, flag, isr, job, armed, due>>

SelectFalling ==
  /\ pc = "falling"
  /\ trig' = [trig EXCEPT ![job.line] = (@ \ {"fall"}) \cup (Wanted(job.mode) \cap {"fall"})]
  /\ pc' = IF job.mode = "disabled" THEN "remove" ELSE "enable"
  /\ UNCHANGED <<cb, src, inten, nvic, flag, isr, job, armed, due>>

\* Seeded fault: the interrupt of the range is not enabled.
EnableLineOnly ==
  /\ pc = "enable"
  /\ inten' = inten \cup {job.line}
  /\ armed' = [armed EXCEPT ![job.line] = job.port]
  /\ pc' = "idle"
  /\ UNCHANGED <<cb, src, trig, nvic, flag, isr, job, due>>

\* at32_exint_intc_enable_line, and the return of 0.
EnableLine ==
  /\ pc = "enable"
  /\ inten' = inten \cup {job.line}
  /\ nvic' = nvic \cup {RangeOf(job.line)}
  /\ armed' = [armed EXCEPT ![job.line] = job.port]
  /\ pc' = "idle"
  /\ UNCHANGED <<cb, src, trig, flag, isr, job, due>>

DisableLine ==
  /\ pc = "disable"
  /\ inten' = inten \ {job.line}
  /\ pc' = "rising"
  /\ UNCHANGED <<cb, src, trig, nvic, flag, isr, job, armed, due>>

\* at32_exint_intc_remove_irq_callback
RemoveCallback ==
  /\ pc = "remove"
  /\ cb' = [cb EXCEPT ![job.line] = NoPort]
  /\ pc' = "idle"
  /\ UNCHANGED <<registers, flag, isr, job, armed, due>>

-----------------------------------------------------------------------------
(* at32_exint_isr *)

Enter(r) ==
  /\ isr = Idle
  /\ Asserted(r)
  /\ isr' = [range |-> r, line |-> r.start, at |-> "check"]
  /\ UNCHANGED <<cb, registers, flag, pc, job, armed, due>>

\* for (i = 0; i <= range->len; i++): one line more than the range has.  After
\* the last range that is a line of no pin, with no callback and never latched.
LastOf(r) == r.start + r.len

\* Seeded fault: the end of the loop is noticed one line too late.
NextLineLong ==
  IF isr.line > LastOf(isr.range) THEN Idle
  ELSE [isr EXCEPT !.line = @ + 1, !.at = "check"]

NextLine ==
  IF isr.line = LastOf(isr.range) THEN Idle
  ELSE [isr EXCEPT !.line = @ + 1, !.at = "check"]

\* The flag of the line is looked at, whether or not the line is enabled, and
\* cleared; without a callback the edge is dropped.
CheckLine ==
  /\ isr.at = "check"
  /\ flag' = flag \ {isr.line}
  /\ isr' = IF isr.line \in flag /\ cb[isr.line] # NoPort
            THEN [isr EXCEPT !.at = "call"] ELSE NextLine
  /\ UNCHANGED <<cb, registers, pc, job, armed, due>>

\* gpio_at32_isr of the port registered for the line.
CallBack ==
  /\ isr.at = "call"
  /\ due' = IF cb[isr.line] = armed[isr.line] THEN due \ {isr.line} ELSE due
  /\ isr' = NextLine
  /\ UNCHANGED <<cb, registers, flag, pc, job, armed>>

\* An edge on pin l of port p (external): latched if the line listens to the
\* port and to the edge, even while the line is disabled.
ExtEdge(p, l, e) ==
  /\ src[l] = p /\ e \in trig[l]
  /\ flag' = flag \cup {l}
  /\ due' = IF armed[l] = p THEN due \cup {l} ELSE due
  /\ UNCHANGED <<cb, registers, isr, pc, job, armed>>

-----------------------------------------------------------------------------
Configure ==
  /\ ThreadRuns
  /\ \/ Register \/ ClearSource \/ SetSource \/ SelectRising \/ SelectFalling
     \/ EnableLine \/ DisableLine \/ RemoveCallback

Call == ThreadRuns /\ \E j \in Jobs : Begin(j)

Handler == CheckLine \/ CallBack \/ \E r \in Ranges : Enter(r)

Next ==
  \/ Call
  \/ Configure
  \/ Handler
  \/ \E p \in Ports, l \in Lines, e \in Edges : ExtEdge(p, l, e)

Spec == Init /\ [][Next]_vars

\* A handler runs to its end, and no line is so busy that another range never
\* gets its turn.
FairSpec == Spec /\ WF_vars(CheckLine \/ CallBack) /\ \A r \in Ranges : SF_vars(Enter(r))

-----------------------------------------------------------------------------
(* Properties *)

\* The tables stay within the lines and ports of the devicetree.
TypeOK ==
  /\ cb \in [Lines -> Ports \cup {NoPort}]
  /\ src \in [Lines -> Ports]
  /\ trig \in [Lines -> SUBSET Edges]
  /\ inten \subseteq Lines /\ flag \subseteq Lines /\ due \subseteq Lines
  /\ nvic \subseteq Ranges
  /\ \/ isr = Idle
     \/ /\ isr \in [range: Ranges, line: Nat, at: {"check", "call"}]
        /\ isr.line \in isr.range.start .. LastOf(isr.range)
        /\ isr.at = "call" => isr.line \in Lines
  /\ pc \in {"idle", "register", "clearsource", "setsource", "rising", "falling",
             "enable", "disable", "remove"}
  /\ job \in Jobs
  /\ armed \in [Lines -> Ports \cup {NoPort}]

\* A port whose gpio_pin_interrupt_configure returned 0 is the one the line
\* listens to and calls, until somebody configures the line again: the call
\* means what it says, and calls for other lines do not disturb it.
ArmedLinesWork ==
  \A l \in Lines :
    armed[l] # NoPort => cb[l] = armed[l] /\ src[l] = armed[l] /\ l \in inten

\* An edge on an armed line reaches the callback of its port, unless the line
\* is configured again first.
EdgeDelivered == \A l \in Lines : l \in due ~> l \notin due

=============================================================================
