-------------------------- MODULE GpioExintProofs --------------------------
(***************************************************************************)
(* Proofs about GpioExint for every set of ports, lines and ranges: its    *)
(* tables keep their types, and when each line is used by one port at a    *)
(* time an armed line stays wired to its port.                             *)
(***************************************************************************)
EXTENDS GpioExint, TLAPS

\* at32_fill_irq_table leaves every line with the interrupt of its range.
LEMMA RangeOfType ==
  ASSUME NEW l \in Lines
  PROVE  RangeOf(l) \in Ranges /\ l \in Members(RangeOf(l))
BY RangesAssumption DEF RangeOf

\* Init gives every table its type.
LEMMA InitType == Init => TypeOK
BY PortsAssumption, LinesAssumption, ModesAssumption
   DEF Init, TypeOK, Jobs, Lines, registers, Edges

\* A round of the loop keeps the handler within its range and one line more.
LEMMA NextLineType ==
  ASSUME TypeOK, isr # Idle
  PROVE  \/ NextLine = Idle
         \/ /\ NextLine \in [range: Ranges, line: Nat, at: {"check", "call"}]
            /\ NextLine.line \in NextLine.range.start .. LastOf(NextLine.range)
            /\ NextLine.at # "call"
<1>1. CASE isr.line = LastOf(isr.range)
  BY <1>1 DEF NextLine
<1>2. CASE isr.line # LastOf(isr.range)
  <2>1. /\ isr \in [range: Ranges, line: Nat, at: {"check", "call"}]
        /\ isr.line \in isr.range.start .. LastOf(isr.range)
    BY DEF TypeOK
  <2>2. isr.range.start \in Nat /\ LastOf(isr.range) \in Nat
    BY <2>1, RangesAssumption DEF LastOf
  <2>3. NextLine = [range |-> isr.range, line |-> isr.line + 1, at |-> "check"]
    BY <1>2, <2>1 DEF NextLine
  <2> QED BY <1>2, <2>1, <2>2, <2>3
<1> QED BY <1>1, <1>2

\* Every step keeps the types.
LEMMA NextType == TypeOK /\ [Next]_vars => TypeOK'
<1> SUFFICES ASSUME TypeOK, [Next]_vars PROVE TypeOK'
  OBVIOUS
<1>0. job.line \in Lines /\ job.port \in Ports
  BY DEF TypeOK, Jobs
<1>1. ASSUME NEW j \in Jobs, Begin(j) PROVE TypeOK'
  BY <1>1 DEF Begin, TypeOK, registers, Jobs
<1>2. CASE Register
  BY <1>0, <1>2 DEF Register, TypeOK, registers
<1>3. CASE ClearSource
  BY <1>0, <1>3, PortsAssumption DEF ClearSource, TypeOK
<1>4. CASE SetSource
  BY <1>0, <1>4 DEF SetSource, TypeOK
<1>5. CASE SelectRising
  <2>1. trig' \in [Lines -> SUBSET Edges]
    BY <1>5, Zenon DEF SelectRising, TypeOK, Edges
  <2> QED BY <1>5, <2>1 DEF SelectRising, TypeOK
<1>6. CASE SelectFalling
  <2>1. trig' \in [Lines -> SUBSET Edges]
    BY <1>6, Zenon DEF SelectFalling, TypeOK, Edges
  <2> QED BY <1>6, <2>1 DEF SelectFalling, TypeOK
<1>7. CASE EnableLine
  BY <1>0, <1>7, RangeOfType DEF EnableLine, TypeOK
<1>8. CASE DisableLine
  BY <1>0, <1>8 DEF DisableLine, TypeOK
<1>9. CASE RemoveCallback
  BY <1>0, <1>9 DEF RemoveCallback, TypeOK, registers
<1>10. ASSUME NEW r \in Ranges, Enter(r) PROVE TypeOK'
  <2>1. r.start \in Nat /\ r.start \in r.start .. LastOf(r)
    BY RangesAssumption DEF LastOf
  <2> QED BY <1>10, <2>1 DEF Enter, TypeOK, registers
<1>11. CASE CheckLine
  <2>1. isr # Idle
    BY <1>11 DEF CheckLine, Idle
  <2>2. CASE isr.line \in flag /\ cb[isr.line] # NoPort
    <3>1. isr' = [range |-> isr.range, line |-> isr.line, at |-> "call"]
      BY <1>11, <2>1, <2>2 DEF CheckLine, TypeOK
    <3> QED BY <1>11, <2>1, <2>2, <3>1 DEF CheckLine, TypeOK, registers
  <2>3. CASE ~(isr.line \in flag /\ cb[isr.line] # NoPort)
    <3>1. isr' = NextLine
      BY <1>11, <2>3 DEF CheckLine
    <3> QED BY <1>11, <2>1, <3>1, NextLineType DEF CheckLine, TypeOK, registers
  <2> QED BY <2>2, <2>3
<1>12. CASE CallBack
  <2>1. isr # Idle
    BY <1>12 DEF CallBack, Idle
  <2> QED BY <1>12, <2>1, NextLineType DEF CallBack, TypeOK, registers
<1>13. ASSUME NEW p \in Ports, NEW l \in Lines, NEW e \in Edges, ExtEdge(p, l, e)
       PROVE  TypeOK'
  BY <1>13 DEF ExtEdge, TypeOK, registers
<1>14. CASE UNCHANGED vars
  BY <1>14 DEF TypeOK, vars, registers
<1> QED BY <1>1, <1>2, <1>3, <1>4, <1>5, <1>6, <1>7, <1>8, <1>9, <1>10, <1>11,
           <1>12, <1>13, <1>14 DEF Next, Call, Configure, Handler

\* The callback table, the registers and the handler of the EXINT driver keep
\* their types: in particular the handler never leaves its range by more than
\* the one line the loop of at32_exint_isr takes too many, and calls back only
\* for lines that exist.
THEOREM TypeCorrect == Spec => []TypeOK
<1> QED BY InitType, NextType, PTL DEF Spec

-----------------------------------------------------------------------------
(* ArmedLinesWork is not inductive: it says nothing of the configuration   *)
(* that is under way.                                                      *)

\* gpio_at32_pin_interrupt_configure has registered, or has routed, its line.
Registered ==
  \/ pc \in {"clearsource", "setsource", "enable"}
  \/ pc \in {"rising", "falling"} /\ job.mode # "disabled"
Routed == Registered /\ pc \notin {"clearsource", "setsource"}

Underway ==
  /\ pc # "idle" => armed[job.line] = NoPort /\ cb[job.line] \in {NoPort, job.port}
  /\ Registered => cb[job.line] = job.port
  /\ Routed => src[job.line] = job.port
  /\ pc = "disable" => job.mode = "disabled"

IInv == TypeOK /\ ArmedLinesWork /\ Underway

\* Nothing is armed and no call is under way at the start.
LEMMA InitIInv == Init => IInv
BY InitType DEF Init, IInv, ArmedLinesWork, Underway, Registered, Routed, registers

\* A step that leaves the wiring, the call and the history alone.
LEMMA Undisturbed ==
  ASSUME ArmedLinesWork, Underway, UNCHANGED <<cb, src, inten, pc, job, armed>>
  PROVE  ArmedLinesWork' /\ Underway'
BY DEF ArmedLinesWork, Underway, Registered, Routed

\* Every step of a line's only user keeps the invariant.
LEMMA NextIInv ==
  ASSUME Exclusive, IInv, [Next]_vars
  PROVE  IInv'
<1> USE DEF IInv
<1>t. TypeOK'
  BY NextType
<1>0. /\ job.line \in Lines /\ job.port \in Ports
      /\ NoPort \notin Ports
      /\ cb \in [Lines -> Ports \cup {NoPort}]
      /\ src \in [Lines -> Ports]
      /\ armed \in [Lines -> Ports \cup {NoPort}]
      /\ inten \subseteq Lines
  BY PortsAssumption DEF TypeOK, Jobs
<1>1. ASSUME NEW j \in Jobs, Begin(j) PROVE IInv'
  <2>1. j.line \in Lines /\ cb[j.line] \in {NoPort, j.port}
    BY <1>1 DEF Begin, Jobs
  <2>2. ArmedLinesWork'
    BY <1>0, <1>1, <2>1 DEF Begin, ArmedLinesWork, registers
  <2>3. Underway'
    BY <1>0, <1>1, <2>1 DEF Begin, Underway, Registered, Routed, registers
  <2> QED BY <1>t, <2>2, <2>3
<1>2. CASE Register
  <2>1. armed[job.line] = NoPort /\ cb[job.line] \in {NoPort, job.port}
    BY <1>2 DEF Register, Underway
  <2>2. ArmedLinesWork'
    BY <1>0, <1>2, <2>1 DEF Register, ArmedLinesWork, registers
  <2>3. Underway'
    BY <1>0, <1>2, <2>1 DEF Register, Underway, Registered, Routed, registers
  <2> QED BY <1>t, <2>2, <2>3
<1>3. CASE ClearSource
  <2>2. ArmedLinesWork'
    BY <1>0, <1>3 DEF ClearSource, ArmedLinesWork, Underway
  <2>3. Underway'
    BY <1>0, <1>3 DEF ClearSource, Underway, Registered, Routed
  <2> QED BY <1>t, <2>2, <2>3
<1>4. CASE SetSource
  <2>2. ArmedLinesWork'
    BY <1>0, <1>4 DEF SetSource, ArmedLinesWork, Underway
  <2>3. Underway'
    BY <1>0, <1>4 DEF SetSource, Underway, Registered, Routed
  <2> QED BY <1>t, <2>2, <2>3
<1>5. CASE SelectRising
  BY <1>t, <1>5 DEF SelectRising, ArmedLinesWork, Underway, Registered, Routed
<1>6. CASE SelectFalling
  BY <1>t, <1>6 DEF SelectFalling, ArmedLinesWork, Underway, Registered, Routed
<1>7. CASE EnableLine
  <2>1. cb[job.line] = job.port /\ src[job.line] = job.port
    BY <1>7 DEF EnableLine, Underway, Registered, Routed
  <2>2. ArmedLinesWork'
    BY <1>0, <1>7, <2>1 DEF EnableLine, ArmedLinesWork
  <2>3. Underway'
    BY <1>7 DEF EnableLine, Underway, Registered, Routed
  <2> QED BY <1>t, <2>2, <2>3
<1>8. CASE DisableLine
  <2>1. armed[job.line] = NoPort
    BY <1>8 DEF DisableLine, Underway
  <2>2. ArmedLinesWork'
    BY <1>0, <1>8, <2>1 DEF DisableLine, ArmedLinesWork
  <2>3. Underway'
    BY <1>8 DEF DisableLine, Underway, Registered, Routed
  <2> QED BY <1>t, <2>2, <2>3
<1>9. CASE RemoveCallback
  <2>1. armed[job.line] = NoPort
    BY <1>9 DEF RemoveCallback, Underway
  <2>2. ArmedLinesWork'
    BY <1>0, <1>9, <2>1 DEF RemoveCallback, ArmedLinesWork, registers
  <2>3. Underway'
    BY <1>9 DEF RemoveCallback, Underway, Registered, Routed
  <2> QED BY <1>t, <2>2, <2>3
<1>10. ASSUME NEW r \in Ranges, Enter(r) PROVE IInv'
  BY <1>t, <1>10, Undisturbed DEF Enter, registers
<1>11. CASE CheckLine
  BY <1>t, <1>11, Undisturbed DEF CheckLine, registers
<1>12. CASE CallBack
  BY <1>t, <1>12, Undisturbed DEF CallBack, registers
<1>13. ASSUME NEW p \in Ports, NEW l \in Lines, NEW e \in Edges, ExtEdge(p, l, e)
       PROVE  IInv'
  BY <1>t, <1>13, Undisturbed DEF ExtEdge, registers
<1>14. CASE UNCHANGED vars
  BY <1>t, <1>14, Undisturbed DEF vars, registers
<1> QED BY <1>1, <1>2, <1>3, <1>4, <1>5, <1>6, <1>7, <1>8, <1>9, <1>10, <1>11,
           <1>12, <1>13, <1>14 DEF Next, Call, Configure, Handler

\* When every line is used by one port at a time, the port whose
\* gpio_pin_interrupt_configure returned 0 last stays the one the line listens
\* to and calls, whatever is done with the other lines.
THEOREM ArmedLinesStayWired ==
  ASSUME Exclusive
  PROVE  Spec => []ArmedLinesWork
<1>1. Init => IInv
  BY InitIInv
<1>2. IInv /\ [Next]_vars => IInv'
  BY NextIInv
<1>3. IInv => ArmedLinesWork
  BY DEF IInv
<1> QED BY <1>1, <1>2, <1>3, PTL DEF Spec

=============================================================================
