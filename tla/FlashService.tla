---------------------------- MODULE FlashService ----------------------------
(***************************************************************************)
(* What a flash driver promises its callers: a write or an erase works     *)
(* through its range from the start, an item (a write block, a page) at a  *)
(* time; it may stop early with an error; it returns 0 only after the last *)
(* item; nothing outside the range changes; and a power loss spoils at     *)
(* most the item that is being worked on.  A range that does not lie in    *)
(* the flash is refused, one that does is not, except that a call of       *)
(* length 0 may be refused wherever it points.                             *)
(***************************************************************************)
EXTENDS Integers

CONSTANTS
  Threads,
  Size,       (* write blocks of the flash                                 *)
  PageBlocks, (* write blocks of a page                                    *)
  Values,     (* what a write block may be written with                    *)
  Calls       (* calls a thread may make                                   *)

\* Calls are records [op, first, len, value, aligned]: offsets and lengths count
\* write blocks, and a call that is not `aligned` has an offset or a length that
\* is no multiple of a block.
VARIABLES
  content,  (* of every block                                              *)
  job,      (* the call a thread is in, and how many items are done        *)
  result    (* its last call and what that returned                        *)

vars == <<content, job, result>>

Blocks   == 0 .. (Size - 1)
Contents == Values \cup {"erased", "torn"}
Idle     == [busy |-> FALSE]
Working(call, n) == [busy |-> TRUE, call |-> call, done |-> n]

\* What a thread has been told of its last call, or that it has been told nothing.
Told(call, r) == [call |-> call, code |-> r]
Nothing       == Told([op |-> "none"], "none")

Page(b) == b \div PageBlocks

\* The range of a call that can be done lies in the flash.
Within(call) == call.aligned /\ call.first + call.len <= Size

\* Items of a call, and the blocks of the n-th.
Items(call) ==
  IF call.op = "write" THEN call.len
  ELSE Page(call.first + call.len - 1) - Page(call.first) + 1
ItemBlocks(call, n) ==
  IF call.op = "write" THEN {call.first + n - 1}
  ELSE {b \in Blocks : Page(b) = Page(call.first) + n - 1}
Worked(c, call, n) ==
  [b \in Blocks |-> IF b \in ItemBlocks(call, n)
                    THEN IF call.op = "write" THEN call.value ELSE "erased"
                    ELSE c[b]]

Init ==
  /\ content \in [Blocks -> Contents]
  /\ job = [t \in Threads |-> Idle]
  /\ result = [t \in Threads |-> Nothing]

Begin(t, call) ==
  /\ ~job[t].busy
  /\ \/ /\ ~Within(call) \/ call.len = 0
        /\ result' = [result EXCEPT ![t] = Told(call, "einval")] /\ UNCHANGED job
     \/ /\ Within(call) /\ call.len = 0
        /\ result' = [result EXCEPT ![t] = Told(call, "ok")] /\ UNCHANGED job
     \/ /\ Within(call) /\ call.len > 0
        /\ job' = [job EXCEPT ![t] = Working(call, 0)]
        /\ result' = [result EXCEPT ![t] = Nothing]
  /\ UNCHANGED content

Work(t) ==
  /\ job[t].busy /\ job[t].done < Items(job[t].call)
  /\ content' = Worked(content, job[t].call, job[t].done + 1)
  /\ job' = [job EXCEPT ![t].done = @ + 1]
  /\ UNCHANGED result

Return(t, r) ==
  /\ job[t].busy /\ (r = "ok" => job[t].done = Items(job[t].call))
  /\ job' = [job EXCEPT ![t] = Idle]
  /\ result' = [result EXCEPT ![t] = Told(job[t].call, r)]
  /\ UNCHANGED content

PowerLoss ==
  /\ \E spoilt \in SUBSET {t \in Threads : job[t].busy /\ job[t].done < Items(job[t].call)} :
       content' = [b \in Blocks |->
                     IF \E t \in spoilt : b \in ItemBlocks(job[t].call, job[t].done + 1)
                     THEN "torn" ELSE content[b]]
  /\ job' = [t \in Threads |-> Idle]
  /\ result' = [t \in Threads |-> Nothing]

Next ==
  \/ \E t \in Threads : \/ \E call \in Calls : Begin(t, call)
                        \/ Work(t)
                        \/ \E r \in {"ok", "eio"} : Return(t, r)
  \/ PowerLoss

Spec == Init /\ [][Next]_vars
=============================================================================
