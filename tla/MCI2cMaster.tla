---------------------------- MODULE MCI2cMaster ----------------------------
(* Small instances of I2cMaster. *)
EXTENDS I2cMaster

Write(n)   == [read |-> FALSE, stop |-> FALSE, restart |-> FALSE, len |-> n]
Read(n)    == [read |-> TRUE, stop |-> FALSE, restart |-> FALSE, len |-> n]
Again(m)   == [m EXCEPT !.restart = TRUE]
Last(m)    == [m EXCEPT !.stop = TRUE]

\* A probe without data, a register read, a write longer than a chunk and a
\* write gathered from two buffers.
PlainPlans ==
  { <<Last(Write(0))>>,
    <<Write(1), Last(Again(Read(2)))>>,
    <<Last(Write(3))>>,
    <<Write(1), Last(Write(1))>> }

\* A gathered write followed by a read with a repeated start.
GatherThenRead == { <<Write(1), Write(1), Last(Again(Read(1)))>> }

RacyPlans == { <<Write(1), Last(Again(Read(1)))>> }
=============================================================================
