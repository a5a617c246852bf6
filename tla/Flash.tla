-------------------------------- MODULE Flash --------------------------------
(***************************************************************************)
(* drivers/flash: the calls of flash_at32.c and the register sequences of  *)
(* flash_at32_v1.c, over a controller with two banks.  The driver's        *)
(* semaphore macros are empty (flash_at32.h:107-109), so threads that call *)
(* at the same time interleave between any two register accesses.          *)
(***************************************************************************)
EXTENDS Integers

CONSTANTS
  Threads, Size, PageBlocks, Values, Calls,   (* as in FlashService        *)
  Wrap,       (* write blocks in 2^32 bytes: offsets and lengths are 32    *)
              (* bits wide                                                 *)
  Split,      (* the first block of bank 2                                 *)
  Protected,  (* write-protected pages                                     *)
  MaxLosses,  (* power losses                                              *)
  Hazards     (* what may happen:                                          *)
              (*   "share"  calls overlap                                  *)
              (*   "late"   the controller flags an error only when it is  *)
              (*            done                                           *)
              (*   "slow"   an operation outlasts AT32_FLASH_TIMEOUT       *)
              (*   "wrap"   an erase is asked for whose range goes on past  *)
              (*            2^32 to end inside the flash again             *)

ASSUME GeometryAssumption ==
  /\ Size \in Nat \ {0} /\ PageBlocks \in Nat \ {0} /\ Size % PageBlocks = 0
  /\ Wrap \in Nat /\ Size < Wrap
ASSUME ValuesAssumption   == "erased" \notin Values /\ "torn" \notin Values
\* What is written lies in memory, beside the flash.
ASSUME CallsAssumption    ==
  /\ Calls \subseteq [op: {"write", "erase"}, first: 0 .. (Wrap - 1), len: 0 .. (Wrap - 1),
                      value: Values, aligned: BOOLEAN]
  /\ \A c \in Calls : c.op = "write" => c.len <= Wrap - Size
ASSUME SplitAssumption  == Split \in Nat /\ Protected \subseteq Nat /\ MaxLosses \in Nat
ASSUME HazardAssumption == Hazards \subseteq {"share", "late", "slow", "wrap"}

VARIABLES
  content, result,
  pc, call, item, rc,  (* of each thread: where it is, its call, the item  *)
                       (* it works on (i, or a page), and the return code  *)
  bank,                (* registers of the two banks                       *)
  done,                (* history: items finished for each thread's call   *)
  losses

thread == <<pc, call, item, rc>>
vars   == <<content, result, thread, bank, done, losses>>

Banks  == {1, 2}
NoJob  == [busy |-> FALSE]
NoCall == [op |-> "none"]

job == [t \in Threads |->
          IF pc[t] = "idle" THEN [busy |-> FALSE]
          ELSE [busy |-> TRUE, call |-> call[t], done |-> done[t]]]
Service == INSTANCE FlashService

\* get_bank, get_page
BankOf(b) == IF b < Split THEN 1 ELSE 2
Page(b)   == b \div PageBlocks

\* The block whose bank an item of a call is in: the block that is written, or
\* the first of the page.
ItemBlock(c, i) ==
  IF c.op = "write" THEN c.first + i ELSE (Page(c.first) + i) * PageBlocks
ItemBank(t) == BankOf(ItemBlock(call[t], item[t]))

\* The controller after a reset: `keys` counts the right keys written so far, and
\* 3 stands for a wrong one, after which only a reset unlocks.
ResetBank == [keys |-> 0, locked |-> TRUE, prgm |-> FALSE, pgers |-> FALSE,
              error |-> FALSE, job |-> NoJob]

Init ==
  /\ content = [b \in 0 .. (Size - 1) |-> "erased"]
  /\ result = [t \in Threads |-> Service!Nothing]
  /\ pc = [t \in Threads |-> "idle"] /\ call = [t \in Threads |-> NoCall]
  /\ item = [t \in Threads |-> 0] /\ rc = [t \in Threads |-> "ok"]
  /\ bank = [k \in Banks |-> ResetBank]
  /\ done = [t \in Threads |-> 0] /\ losses = 0

Goto(t, l) == pc' = [pc EXCEPT ![t] = l]

-----------------------------------------------------------------------------
(* flash_at32_write, flash_at32_erase *)

\* flash_get_page_info_by_offs of the flash library finds the page of a block; the
\* block before the first is the last of the 32-bit range.
Exists(b) == b % Wrap < Size

\* flash_at32_valid_range, the same for an erase and a write, and
\* flash_at32_range_exists, which looks at the two ends of the range only: a length
\* of 0 has its end before its beginning, and a long range may end inside the flash
\* again (first a fault: the end looked for one block too far).
ValidRangeBeyond(c) == c.aligned /\ Exists(c.first) /\ Exists(c.first + c.len)
ValidRange(c) == c.aligned /\ Exists(c.first) /\ Exists(c.first + c.len - 1)

\* The page the loop of flash_at32_block_erase_loop ends with, counted from the first
\* one, get_page(offset + len - 1), and len / sizeof (first the faults of stopping
\* early and late where the range ends inside a page or at its end).
LastItemFloor(c) ==
  IF c.op = "write" THEN c.len - 1 ELSE Page((c.first + c.len) % Wrap) - Page(c.first) - 1
LastItemNext(c) ==
  IF c.op = "write" THEN c.len - 1 ELSE Page((c.first + c.len) % Wrap) - Page(c.first)
LastItem(c) ==
  IF c.op = "write" THEN c.len - 1 ELSE Page((c.first + c.len - 1) % Wrap) - Page(c.first)

Begin(t, c) ==
  /\ pc[t] = "idle"
  /\ (\E u \in Threads : pc[u] # "idle") => "share" \in Hazards
  /\ ValidRange(c) /\ c.first + c.len > Wrap => "wrap" \in Hazards
  /\ IF ValidRange(c) /\ c.len > 0
     THEN /\ Goto(t, IF c.op = "write" THEN "key1" ELSE "firstStatus")
          /\ call' = [call EXCEPT ![t] = c]
          /\ result' = [result EXCEPT ![t] = Service!Nothing]
     ELSE /\ result' = [result EXCEPT
                          ![t] = Service!Told(c, IF ValidRange(c) THEN "ok" ELSE "einval")]
          /\ UNCHANGED <<pc, call>>
  /\ UNCHANGED <<content, item, rc, bank, done, losses>>

Finish(t, r) ==
  /\ Goto(t, "idle")
  /\ result' = [result EXCEPT ![t] = Service!Told(call[t], r)]
  /\ call' = [call EXCEPT ![t] = NoCall]
  /\ item' = [item EXCEPT ![t] = 0] /\ rc' = [rc EXCEPT ![t] = "ok"]
  /\ done' = [done EXCEPT ![t] = 0]

-----------------------------------------------------------------------------
(* z_flash_unlock, the lock test, and waiting *)

Key(k, n) ==
  IF ~k.locked THEN k
  ELSE IF k.keys = n - 1 THEN [k EXCEPT !.keys = n, !.locked = (n # 2)]
  ELSE [k EXCEPT !.keys = 3]

Key1(t) ==
  /\ pc[t] = "key1"
  /\ bank' = [bank EXCEPT ![ItemBank(t)] = Key(@, 1)]
  /\ Goto(t, "key2")
  /\ UNCHANGED <<content, result, call, item, rc, done, losses>>

Key2(t) ==
  /\ pc[t] = "key2"
  /\ bank' = [bank EXCEPT ![ItemBank(t)] = Key(@, 2)]
  /\ Goto(t, IF call[t].op = "write" THEN "lockTest" ELSE "start")
  /\ UNCHANGED <<content, result, call, item, rc, done, losses>>

\* write_value: "do not fail silently".
LockTest(t) ==
  /\ pc[t] = "lockTest"
  /\ IF bank[ItemBank(t)].locked
     THEN Finish(t, "eio")
     ELSE Goto(t, "status") /\ UNCHANGED <<result, call, item, rc, done>>
  /\ UNCHANGED <<content, bank, losses>>

\* flash_at32_wait_flash_idle: flash_at32_check_status, which clears the error it
\* reports, and then the wait for BSY (first the fault of waiting until it is set).
Busy(k)      == bank[k].job.busy
Idle(k)      == ~bank[k].job.busy
TimesOut(k)  == bank[k].job.busy /\ "slow" \in Hazards
ErrorRead(k) == bank' = [bank EXCEPT ![k].error = FALSE]

\* write_value before the write, the erase loop before its first page: a failure
\* returns at once.
StatusBefore(t, k, ok) ==
  /\ ErrorRead(k)
  /\ IF bank[k].error THEN Finish(t, "eio")
     ELSE Goto(t, ok) /\ UNCHANGED <<result, call, item, rc, done>>

AwaitBefore(t, k, ok) ==
  \/ Idle(k) /\ Goto(t, ok) /\ UNCHANGED <<result, call, item, rc, done>>
  \/ TimesOut(k) /\ Finish(t, "eio")

Status(t) ==
  /\ \/ pc[t] = "status" /\ StatusBefore(t, ItemBank(t), "wait")
     \/ pc[t] = "firstStatus" /\ StatusBefore(t, BankOf(call[t].first), "firstWait")
  /\ UNCHANGED <<content, losses>>

Await(t) ==
  /\ \/ pc[t] = "wait" /\ AwaitBefore(t, ItemBank(t), "start")
     \/ pc[t] = "firstWait" /\ AwaitBefore(t, BankOf(call[t].first), "page")
  /\ UNCHANGED <<content, bank, losses>>

\* The erase loop, which has nothing to do where the range ends before it begins,
\* unlocks a bank that is locked.
NextPage(t) ==
  /\ pc[t] = "page"
  /\ IF item[t] > LastItem(call[t])
     THEN Finish(t, "ok")
     ELSE /\ Goto(t, IF bank[ItemBank(t)].locked THEN "key1" ELSE "start")
          /\ UNCHANGED <<result, call, item, rc, done>>
  /\ UNCHANGED <<content, bank, losses>>

-----------------------------------------------------------------------------
(* The operation *)

\* The controller takes a command on a bank that is not locked, refuses what is
\* protected or, for a write, not erased; and takes none while it is busy.
Refused(c, b) == Page(b) \in Protected \/ (c.op = "write" /\ content[b] # "erased")

Command(k, t) ==
  LET c == call[t]  b == ItemBlock(c, item[t]) IN
  IF k.locked \/ k.job.busy THEN [k EXCEPT !.error = @ \/ (k.locked /\ c.op = "write")]
  ELSE IF Refused(c, b) /\ "late" \notin Hazards THEN [k EXCEPT !.error = TRUE]
  ELSE [k EXCEPT !.job = [busy |-> TRUE, thread |-> t, call |-> c, item |-> item[t],
                          refused |-> Refused(c, b)]]

\* write_enable and the store, or erase_page_begin
Start(t) ==
  /\ pc[t] = "start"
  /\ bank' = [bank EXCEPT ![ItemBank(t)] =
                Command(IF call[t].op = "write" THEN [@ EXCEPT !.prgm = ~bank[ItemBank(t)].locked]
                        ELSE [@ EXCEPT !.pgers = ~bank[ItemBank(t)].locked], t)]
  /\ Goto(t, "endStatus")
  /\ UNCHANGED <<content, result, call, item, rc, done, losses>>

\* flash_at32_wait_flash_idle; whatever it says, the bank is cleaned up.
EndStatus(t) ==
  /\ pc[t] = "endStatus" /\ ErrorRead(ItemBank(t))
  /\ LET failed == bank[ItemBank(t)].error IN
     /\ Goto(t, IF failed THEN "end" ELSE "endWait")
     /\ rc' = [rc EXCEPT ![t] = IF failed THEN "eio" ELSE @]
  /\ UNCHANGED <<content, result, call, item, done, losses>>

EndAwait(t) ==
  /\ pc[t] = "endWait" /\ Goto(t, "end")
  /\ \/ Idle(ItemBank(t)) /\ UNCHANGED rc
     \/ TimesOut(ItemBank(t)) /\ rc' = [rc EXCEPT ![t] = "eio"]
  /\ UNCHANGED <<content, result, call, item, bank, done, losses>>

\* write_disable or erase_page_end (first the fault of forgetting z_flash_lock).
CleanedOnly(k) == [k EXCEPT !.prgm = FALSE, !.pgers = FALSE]
Cleaned(k)     == [k EXCEPT !.prgm = FALSE, !.pgers = FALSE, !.locked = TRUE,
                            !.keys = IF @ = 3 THEN 3 ELSE 0]

\* z_flash_lock, and on to the next item unless one failed.
End(t) ==
  /\ pc[t] = "end"
  /\ bank' = [bank EXCEPT ![ItemBank(t)] = Cleaned(@)]
  /\ IF rc[t] # "ok" \/ item[t] = LastItem(call[t])
     THEN Finish(t, rc[t])
     ELSE /\ item' = [item EXCEPT ![t] = @ + 1]
          /\ Goto(t, IF call[t].op = "write" THEN "key1" ELSE "page")
          /\ UNCHANGED <<result, call, rc, done>>
  /\ UNCHANGED <<content, losses>>

-----------------------------------------------------------------------------
(* The controller *)

Complete(k) ==
  LET j == bank[k].job IN
  /\ j.busy
  /\ bank' = [bank EXCEPT ![k].job = NoJob, ![k].error = @ \/ j.refused]
  /\ IF j.refused THEN UNCHANGED <<content, done>>
     ELSE /\ content' = Service!Worked(content, j.call, j.item + 1)
          /\ done' = [done EXCEPT ![j.thread] = IF call[j.thread] = j.call THEN @ + 1 ELSE @]
  /\ UNCHANGED <<result, thread, losses>>

\* Power is lost: what is being worked on may be spoilt, and after the reset
\* at32_flash_init has nothing to do.
PowerLoss ==
  /\ losses < MaxLosses /\ losses' = losses + 1
  /\ \E spoilt \in SUBSET {k \in Banks : bank[k].job.busy} :
       content' = [b \in 0 .. (Size - 1) |->
         IF \E k \in spoilt : b \in Service!ItemBlocks(bank[k].job.call, bank[k].job.item + 1)
         THEN "torn" ELSE content[b]]
  /\ bank' = [k \in Banks |-> ResetBank]
  /\ pc' = [t \in Threads |-> "idle"] /\ call' = [t \in Threads |-> NoCall]
  /\ item' = [t \in Threads |-> 0] /\ rc' = [t \in Threads |-> "ok"]
  /\ done' = [t \in Threads |-> 0] /\ result' = [t \in Threads |-> Service!Nothing]

-----------------------------------------------------------------------------

Step(t) ==
  \/ Key1(t) \/ Key2(t) \/ LockTest(t) \/ Status(t) \/ Await(t) \/ NextPage(t)
  \/ Start(t) \/ EndStatus(t) \/ EndAwait(t) \/ End(t)

Next ==
  \/ \E t \in Threads : Step(t) \/ \E c \in Calls : Begin(t, c)
  \/ \E k \in Banks : Complete(k)
  \/ PowerLoss

\* Threads run, and the controller finishes what it begins.
Fairness ==
  /\ \A t \in Threads : WF_vars(Step(t))
  /\ \A k \in Banks : WF_vars(Complete(k))

Spec == Init /\ [][Next]_vars /\ Fairness

-----------------------------------------------------------------------------

\* Every variable holds a value of its kind; a thread works within its range.
TypeOK ==
  /\ content \in [0 .. (Size - 1) -> Values \cup {"erased", "torn"}]
  /\ result \in [Threads -> [call: Calls \cup {NoCall}, code: {"none", "ok", "eio", "einval"}]]
  /\ pc \in [Threads -> {"idle", "key1", "key2", "lockTest", "status", "wait", "firstStatus",
                         "firstWait", "page", "start", "endStatus", "endWait", "end"}]
  /\ call \in [Threads -> Calls \cup {NoCall}] /\ rc \in [Threads -> {"ok", "eio"}]
  /\ \A t \in Threads : pc[t] # "idle" => item[t] \in 0 .. (Service!Items(call[t]) - 1)
  /\ \A k \in Banks :
       /\ bank[k].keys \in 0 .. 3
       /\ {bank[k].locked, bank[k].prgm, bank[k].pgers, bank[k].error, bank[k].job.busy} \subseteq BOOLEAN
  /\ losses \in 0 .. MaxLosses

\* Between calls both banks are locked and idle, no operation is selected, and
\* no error waits to be reported by a later call (write_value,
\* flash_at32_block_erase_loop on all their ways out).
QuietBetweenCalls ==
  (\A t \in Threads : pc[t] = "idle") =>
    \A k \in Banks : bank[k] = ResetBank

\* A call changes its range only, in order; it returns 0 only when every item
\* is done; and a power loss spoils at most one item.
ImplementsService == Service!Spec

\* A call comes to its end.
CallReturns == \A t \in Threads : pc[t] # "idle" ~> pc[t] = "idle"
=============================================================================
