------------------------------- MODULE MCI2cV1 -------------------------------
(* Instances of I2cV1. *)
EXTENDS I2cV1

W(len, stop, restart) == [write |-> TRUE, len |-> len, stop |-> stop, restart |-> restart]
R(len, stop, restart) == [write |-> FALSE, len |-> len, stop |-> stop, restart |-> restart]

\* Reads of one to five bytes, the first four of them each on a path of its own;
\* writes; a write that goes on in further messages; a register read.
Single == { <<R(n, TRUE, FALSE)>> : n \in 1 .. 5 } \cup { <<W(n, TRUE, FALSE)>> : n \in 1 .. 3 }
Double == { <<W(1, FALSE, FALSE), W(2, TRUE, FALSE)>>, <<W(2, FALSE, FALSE), R(2, TRUE, TRUE)>>,
            <<W(1, FALSE, FALSE), W(1, TRUE, TRUE)>>, <<R(2, FALSE, FALSE), R(3, TRUE, TRUE)>>,
            <<R(4, FALSE, FALSE), W(1, TRUE, TRUE)>>,
            <<W(1, FALSE, FALSE), W(1, FALSE, FALSE), R(3, TRUE, TRUE)>> }
SoundTransfers == Single \cup Double

\* A single byte read before the last message; nothing to read; a read that goes on.
ByteFirst == { <<R(1, FALSE, FALSE), W(1, TRUE, TRUE)>> }
NoBytes   == { <<R(0, TRUE, FALSE)>> }
WroteNone == { <<W(0, TRUE, FALSE)>> }
ReadOn    == { <<R(2, FALSE, FALSE), R(2, TRUE, FALSE)>> }
=============================================================================
