----------------------------- MODULE FlashProofs -----------------------------
(***************************************************************************)
(* With calls that do not overlap, a controller that flags errors at once  *)
(* and operations that end in time, the driver leaves both banks as a      *)
(* reset does, on every way out of a call and after a loss of power.       *)
(***************************************************************************)
EXTENDS Flash, TLAPS

\* What the controller may be working on: a job it did not refuse.
Jobs == {NoJob} \cup
        [busy : {TRUE}, thread : Threads, call : Calls, item : Int, refused : {FALSE}]

\* A bank by its registers.
Regs(n, locked, p, q, e, j) ==
  [keys |-> n, locked |-> locked, prgm |-> p, pgers |-> q, error |-> e, job |-> j]

Bank ==
  [keys : Int, locked : BOOLEAN, prgm : BOOLEAN, pgers : BOOLEAN, error : BOOLEAN, job : Jobs]

\* A bank that has been unlocked and may be at work.
Open(k) ==
  \E p \in BOOLEAN, q \in BOOLEAN, e \in BOOLEAN, j \in Jobs : k = Regs(2, FALSE, p, q, e, j)

\* What the registers of the bank of a thread's item come to, step by step.
Stage(l, k) ==
  CASE l \in {"firstStatus", "firstWait", "page", "key1"} -> k = ResetBank
    [] l = "key2" -> k = Regs(1, TRUE, FALSE, FALSE, FALSE, NoJob)
    [] l \in {"lockTest", "status", "wait", "start"} ->
         k = Regs(2, FALSE, FALSE, FALSE, FALSE, NoJob)
    [] l = "endStatus" -> Open(k) /\ (k.error => k.job = NoJob)
    [] l = "endWait"   -> Open(k) /\ ~k.error
    [] l = "end"       -> Open(k) /\ ~k.error /\ k.job = NoJob
    [] OTHER -> FALSE

Places == {"idle", "key1", "key2", "lockTest", "status", "wait", "firstStatus",
           "firstWait", "page", "start", "endStatus", "endWait", "end"}

\* One call at a time, which touches one bank at a time.
Active(t) == pc[t] # "idle"

QuietInv ==
  /\ pc \in [Threads -> Places] /\ item \in [Threads -> Int]
  /\ call \in [Threads -> Calls \cup {NoCall}] /\ rc \in [Threads -> {"ok", "eio"}]
  /\ bank = [k \in Banks |-> bank[k]]
  /\ \A t, u \in Threads : Active(t) /\ Active(u) => t = u
  /\ \A t \in Threads : Active(t) =>
       /\ call[t] \in Calls
       /\ Stage(pc[t], bank[ItemBank(t)])
       /\ \A k \in Banks \ {ItemBank(t)} : bank[k] = ResetBank
  /\ QuietBetweenCalls

-----------------------------------------------------------------------------
(* The shapes of a step *)

\* The thread goes on to another place in its item, and the bank of the item is left
\* as that place expects it.
LEMMA StepOn ==
  ASSUME QuietInv, NEW t \in Threads, Active(t),
         NEW l \in Places, l # "idle", Goto(t, l),
         UNCHANGED <<call, item>>, rc' \in [Threads -> {"ok", "eio"}],
         NEW k, bank' = [bank EXCEPT ![ItemBank(t)] = k], Stage(l, k)
  PROVE  QuietInv'
<1>1. ItemBank(t)' = ItemBank(t) /\ ItemBank(t) \in Banks
  BY DEF ItemBank, ItemBlock, BankOf, Banks
<1>2. pc'[t] = l /\ \A u \in Threads : Active(u)' <=> u = t
  BY DEF QuietInv, Active, Goto
<1>3. bank' = [b \in Banks |-> bank'[b]] /\ bank'[ItemBank(t)] = k
  BY <1>1 DEF QuietInv
<1>4. \A b \in Banks \ {ItemBank(t)} : bank'[b] = ResetBank
  BY <1>1 DEF QuietInv
<1>6. QuietBetweenCalls'
  BY <1>2 DEF QuietBetweenCalls, Active
<1>7. Stage(pc[t], bank[ItemBank(t)])'
  BY <1>1, <1>2, <1>3
<1>8. pc' \in [Threads -> Places]
  BY DEF QuietInv, Goto
<1>. QED
  BY <1>1, <1>2, <1>3, <1>4, <1>6, <1>7, <1>8 DEF QuietInv

\* The thread returns, and the bank of its item is as after a reset.
LEMMA StepOut ==
  ASSUME QuietInv, NEW t \in Threads, Active(t), NEW r, Finish(t, r),
         bank' = [bank EXCEPT ![ItemBank(t)] = ResetBank]
  PROVE  QuietInv'
<1>1. ItemBank(t) \in Banks
  BY DEF ItemBank, ItemBlock, BankOf, Banks
<1>2. \A u \in Threads : ~Active(u)'
  BY DEF QuietInv, Active, Goto, Finish
<1>3. bank' = [b \in Banks |-> bank'[b]] /\ \A b \in Banks : bank'[b] = ResetBank
  BY <1>1 DEF QuietInv
<1>5. QuietBetweenCalls'
  BY <1>3 DEF QuietBetweenCalls
<1>6. pc' \in [Threads -> Places] /\ item' \in [Threads -> Int]
  BY DEF QuietInv, Finish, Goto, Places
<1>7. call' \in [Threads -> Calls \cup {NoCall}]
  BY DEF QuietInv, Finish
<1>8. rc' \in [Threads -> {"ok", "eio"}]
  BY DEF QuietInv, Finish
<1>. QED
  BY <1>2, <1>3, <1>5, <1>6, <1>7, <1>8 DEF QuietInv

\* A bank on which nothing changes is replaced by itself.
LEMMA SameBank ==
  ASSUME QuietInv, NEW t \in Threads, UNCHANGED bank
  PROVE  bank' = [bank EXCEPT ![ItemBank(t)] = bank[ItemBank(t)]]
BY DEF QuietInv

-----------------------------------------------------------------------------
(* One lemma for each kind of step *)

LEMMA RegsBank ==
  ASSUME NEW n \in Int, NEW l \in BOOLEAN, NEW p \in BOOLEAN, NEW q \in BOOLEAN,
         NEW e \in BOOLEAN, NEW j \in Jobs, NEW k, k = Regs(n, l, p, q, e, j)
  PROVE  /\ k \in Bank
         /\ k.keys = n /\ k.locked = l /\ k.prgm = p /\ k.pgers = q /\ k.error = e /\ k.job = j
BY DEF Regs, Bank

LEMMA ResetRegs ==
  /\ ResetBank = Regs(0, TRUE, FALSE, FALSE, FALSE, NoJob)
  /\ NoJob \in Jobs
BY DEF ResetBank, Regs, Jobs

\* The n-th right key, written when it is due, counts; the second one unlocks.
LEMMA KeyTaken ==
  ASSUME NEW n \in Int, NEW k \in Bank, k.locked = TRUE, k.keys = n - 1,
         NEW z, z = Key(k, n)
  PROVE  z = Regs(n, (n # 2), k.prgm, k.pgers, k.error, k.job)
<1>1. z = [k EXCEPT !.keys = n, !.locked = (n # 2)]
  BY DEF Key
<1>. QED
  BY <1>1 DEF Bank, Regs

\* An open bank with nothing at work and no error is cleaned up to what a reset
\* makes of it.
LEMMA CleanedUp ==
  ASSUME NEW k, Open(k), ~k.error, k.job = NoJob, NEW z, z = Cleaned(k)
  PROVE  z = ResetBank
<1>1. k \in Bank /\ k.keys = 2 /\ k.error = FALSE
  <2>1. PICK p \in BOOLEAN, q \in BOOLEAN, e \in BOOLEAN, j \in Jobs :
          k = Regs(2, FALSE, p, q, e, j)
    BY DEF Open
  <2>. QED
    BY <2>1 DEF Regs, Bank
<1>2. z = [k EXCEPT !.prgm = FALSE, !.pgers = FALSE, !.locked = TRUE, !.keys = 0]
  BY <1>1 DEF Cleaned
<1>3. z = Regs(0, TRUE, FALSE, FALSE, k.error, k.job)
  BY <1>1, <1>2 DEF Bank, Regs
<1>. QED
  BY <1>1, <1>3, ResetRegs

\* Reporting an error clears it, and nothing else.
LEMMA StatusRead ==
  ASSUME NEW k \in Bank, NEW z, z = [k EXCEPT !.error = FALSE]
  PROVE  z = Regs(k.keys, k.locked, k.prgm, k.pgers, FALSE, k.job)
BY DEF Bank, Regs

\* A command on an unlocked bank that is not at work is refused at once, or leads to
\* a job that is not refused.
LEMMA CommandTaken ==
  ASSUME "late" \notin Hazards, NEW t \in Threads, call[t] \in Calls, item[t] \in Int,
         NEW k \in Bank, k.keys = 2, k.locked = FALSE, k.error = FALSE, k.job = NoJob,
         NEW z, z = Command(k, t)
  PROVE  Open(z) /\ (z.error => z.job = NoJob)
<1> DEFINE j == [busy |-> TRUE, thread |-> t, call |-> call[t], item |-> item[t],
                 refused |-> Refused(call[t], ItemBlock(call[t], item[t]))]
<1>1. k.job.busy = FALSE /\ NoJob \in Jobs /\ k.prgm \in BOOLEAN /\ k.pgers \in BOOLEAN
  BY DEF NoJob, Jobs, Bank
<1>2. CASE Refused(call[t], ItemBlock(call[t], item[t]))
  <2>1. z = [k EXCEPT !.error = TRUE]
    BY <1>1, <1>2 DEF Command
  <2>2. z = Regs(2, FALSE, k.prgm, k.pgers, TRUE, NoJob)
    BY <2>1 DEF Regs, Bank
  <2>3. Open(z)
    BY <1>1, <2>2 DEF Open
  <2>. QED
    BY <2>2, <2>3 DEF Regs
<1>3. CASE ~Refused(call[t], ItemBlock(call[t], item[t]))
  <2>1. z = [k EXCEPT !.job = j]
    BY <1>1, <1>3 DEF Command
  <2>2. z = Regs(2, FALSE, k.prgm, k.pgers, FALSE, j)
    <3>. HIDE DEF j
    <3>. QED
      BY <2>1 DEF Regs, Bank
  <2>3. j \in Jobs
    <3>1. Refused(call[t], ItemBlock(call[t], item[t])) = FALSE
      BY <1>3, Zenon DEF Refused
    <3>. QED
      BY <3>1 DEF Jobs
  <2>4. Open(z)
    <3>. HIDE DEF j
    <3>. QED
      BY <1>1, <2>2, <2>3 DEF Open
  <2>. QED
    BY <2>2, <2>4 DEF Regs
<1>. QED
  BY <1>2, <1>3

-----------------------------------------------------------------------------
(* The invariant *)

\* A thread in a call finds the bank of its item as Stage says, and a bank is
\* always in Bank.
LEMMA InCall ==
  ASSUME QuietInv, NEW t \in Threads, Active(t)
  PROVE  /\ call[t] \in Calls /\ item[t] \in Int
         /\ Stage(pc[t], bank[ItemBank(t)])
         /\ \A k \in Banks \ {ItemBank(t)} : bank[k] = ResetBank
         /\ bank[ItemBank(t)] \in Bank
         /\ ItemBank(t) \in Banks
<1>1. /\ call[t] \in Calls /\ item[t] \in Int
      /\ Stage(pc[t], bank[ItemBank(t)])
      /\ \A k \in Banks \ {ItemBank(t)} : bank[k] = ResetBank
  BY DEF QuietInv
<1>2. ItemBank(t) \in Banks
  BY DEF ItemBank, ItemBlock, BankOf, Banks
<1>3. bank[ItemBank(t)] \in Bank
  <2> DEFINE k == bank[ItemBank(t)]
  <2>1. CASE k = ResetBank
    BY <2>1, ResetRegs DEF Regs, Bank
  <2>2. CASE k = Regs(1, TRUE, FALSE, FALSE, FALSE, NoJob)
    BY <2>2, ResetRegs DEF Regs, Bank
  <2>3. CASE k = Regs(2, FALSE, FALSE, FALSE, FALSE, NoJob)
    BY <2>3, ResetRegs DEF Regs, Bank
  <2>4. CASE Open(k)
    <3>1. PICK p \in BOOLEAN, q \in BOOLEAN, e \in BOOLEAN, j \in Jobs :
            k = Regs(2, FALSE, p, q, e, j)
      BY <2>4 DEF Open
    <3>. QED
      BY <3>1 DEF Regs, Bank
  <2>5. \/ k = ResetBank \/ k = Regs(1, TRUE, FALSE, FALSE, FALSE, NoJob)
        \/ k = Regs(2, FALSE, FALSE, FALSE, FALSE, NoJob) \/ Open(k)
    BY <1>1 DEF Stage
  <2>. QED
    BY <2>1, <2>2, <2>3, <2>4, <2>5
<1>. QED
  BY <1>1, <1>2, <1>3

LEMMA InitQuiet == Init => QuietInv
BY DEF Init, QuietInv, QuietBetweenCalls, Active, Banks, Places

LEMMA BeginQuiet ==
  ASSUME QuietInv, Hazards = {}, NEW t \in Threads, NEW c \in Calls, Begin(t, c)
  PROVE  QuietInv'
<1>1. \A u \in Threads : pc[u] = "idle"
  BY DEF Begin
<1>2. \A k \in Banks : bank[k] = ResetBank /\ bank'[k] = ResetBank
  BY <1>1 DEF QuietInv, QuietBetweenCalls, Begin
<1>3. CASE ValidRange(c) /\ c.len > 0
  <2> DEFINE l == IF c.op = "write" THEN "key1" ELSE "firstStatus"
  <2>1. pc' = [pc EXCEPT ![t] = l] /\ call' = [call EXCEPT ![t] = c]
        /\ UNCHANGED <<item, rc, bank>>
    BY <1>3 DEF Begin, Goto
  <2>2. pc'[t] = l /\ call'[t] = c /\ \A u \in Threads : Active(u)' <=> u = t
    BY <1>1, <2>1 DEF QuietInv, Active
  <2>3. ItemBank(t)' \in Banks
    BY DEF ItemBank, ItemBlock, BankOf, Banks
  <2>4. Stage(pc[t], bank[ItemBank(t)])'
    BY <1>2, <2>2, <2>3 DEF Stage
  <2>5. pc' \in [Threads -> Places] /\ call' \in [Threads -> Calls \cup {NoCall}]
    BY <2>1 DEF QuietInv, Places
  <2>6. QuietBetweenCalls'
    BY <1>2 DEF QuietBetweenCalls
  <2>. QED
    BY <1>2, <2>1, <2>2, <2>3, <2>4, <2>5, <2>6 DEF QuietInv
<1>4. CASE ~(ValidRange(c) /\ c.len > 0)
  <2>1. UNCHANGED <<pc, call, item, rc, bank>>
    BY <1>4 DEF Begin
  <2>. QED
    BY <2>1 DEF QuietInv, QuietBetweenCalls, Active, ItemBank, ItemBlock
<1>. QED
  BY <1>3, <1>4

\* The steps up to the command: keys, lock test, status and waiting.
LEMMA PrepareQuiet ==
  ASSUME QuietInv, Hazards = {}, NEW t \in Threads,
         \/ Key1(t) \/ Key2(t) \/ LockTest(t) \/ Status(t) \/ Await(t) \/ NextPage(t)
  PROVE  QuietInv'
<1> DEFINE b == ItemBank(t)
           k == bank[ItemBank(t)]
<1>1. Active(t) /\ pc[t] \in Places /\ rc \in [Threads -> {"ok", "eio"}]
  BY DEF Active, Key1, Key2, LockTest, Status, Await, NextPage, QuietInv
<1>2. /\ call[t] \in Calls /\ Stage(pc[t], k) /\ k \in Bank /\ b \in Banks
      /\ \A c \in Banks \ {b} : bank[c] = ResetBank
  BY <1>1, InCall
<1>3. CASE Key1(t)
  <2>1. bank' = [bank EXCEPT ![b] = Key(k, 1)]
    BY <1>3 DEF Key1
  <2>2. k = ResetBank
    BY <1>2, <1>3 DEF Key1, Stage
  <2>3. Key(k, 1) = Regs(1, TRUE, FALSE, FALSE, FALSE, NoJob)
    <3>1. /\ k.locked = TRUE /\ k.keys = 1 - 1 /\ k.prgm = FALSE /\ k.pgers = FALSE
          /\ k.error = FALSE /\ k.job = NoJob /\ (1 # 2) = TRUE
      BY <2>2 DEF ResetBank
    <3>2. Key(k, 1) = Regs(1, (1 # 2), k.prgm, k.pgers, k.error, k.job)
      <4>1. 1 \in Int /\ k.locked = TRUE /\ k.keys = 1 - 1
        BY <3>1
      <4>. QED
        BY <1>2, <4>1, KeyTaken
    <3>. QED
      BY <3>1, <3>2
  <2>4. Stage("key2", Key(k, 1))
    BY <2>3 DEF Stage
  <2>. QED
    BY <1>1, <1>3, <2>1, <2>4, StepOn DEF Key1, Places
<1>4. CASE Key2(t)
  <2>1. bank' = [bank EXCEPT ![b] = Key(k, 2)]
    BY <1>4 DEF Key2
  <2>2. k = Regs(1, TRUE, FALSE, FALSE, FALSE, NoJob)
    BY <1>2, <1>4 DEF Key2, Stage
  <2>3. Key(k, 2) = Regs(2, FALSE, FALSE, FALSE, FALSE, NoJob)
    <3>1. /\ k.locked = TRUE /\ k.keys = 2 - 1 /\ k.prgm = FALSE /\ k.pgers = FALSE
          /\ k.error = FALSE /\ k.job = NoJob /\ (2 # 2) = FALSE
      BY <2>2 DEF Regs
    <3>2. Key(k, 2) = Regs(2, (2 # 2), k.prgm, k.pgers, k.error, k.job)
      <4>1. 2 \in Int /\ k.locked = TRUE /\ k.keys = 2 - 1
        BY <3>1
      <4>2. PICK z : z = Key(k, 2)
        OBVIOUS
      <4>3. k \in Bank
        BY <1>2
      <4>4. z = Regs(2, (2 # 2), k.prgm, k.pgers, k.error, k.job)
        BY <4>1, <4>2, <4>3, KeyTaken, Zenon
      <4>. QED
        BY <4>2, <4>4
    <3>. QED
      BY <3>1, <3>2
  <2>4. Stage("lockTest", Key(k, 2)) /\ Stage("start", Key(k, 2))
    BY <2>3 DEF Stage
  <2>. QED
    BY <1>1, <1>4, <2>1, <2>4, StepOn DEF Key2, Places
<1>5. CASE LockTest(t)
  <2>1. k = Regs(2, FALSE, FALSE, FALSE, FALSE, NoJob)
    BY <1>2, <1>5 DEF LockTest, Stage
  <2>2. Goto(t, "status") /\ UNCHANGED <<call, item, rc, bank>>
    BY <1>5, <2>1 DEF LockTest, Regs
  <2>3. Stage("status", k)
    BY <2>1 DEF Stage
  <2>. QED
    BY <1>1, <2>2, <2>3, SameBank, StepOn DEF Places
<1>6. CASE Status(t)
  <2>1. CASE pc[t] = "status"
    <3>1. StatusBefore(t, b, "wait")
      BY <1>6, <2>1 DEF Status
    <3>2. k = Regs(2, FALSE, FALSE, FALSE, FALSE, NoJob)
      BY <1>2, <2>1 DEF Stage
    <3>3. [k EXCEPT !.error = FALSE] = k
      BY <1>2, <3>2, StatusRead DEF Regs
    <3>4. Goto(t, "wait") /\ bank' = [bank EXCEPT ![b] = k] /\ UNCHANGED <<call, item, rc>>
      BY <1>1, <3>1, <3>2, <3>3 DEF StatusBefore, ErrorRead, Regs
    <3>5. Stage("wait", k)
      BY <3>2 DEF Stage
    <3>. QED
      BY <1>1, <3>1, <3>4, <3>5, StepOn DEF Places
  <2>2. CASE pc[t] = "firstStatus"
    <3> DEFINE f == BankOf(call[t].first)
    <3>1. StatusBefore(t, f, "firstWait")
      BY <1>6, <2>2 DEF Status
    <3>2. bank[f] = ResetBank /\ k = ResetBank /\ f \in Banks
      BY <1>2, <2>2 DEF Stage, BankOf, Banks
    <3>3. [bank[f] EXCEPT !.error = FALSE] = bank[f]
      <4>1. k.keys = 0 /\ k.locked = TRUE /\ k.prgm = FALSE /\ k.pgers = FALSE /\ k.job = NoJob
        BY <3>2 DEF ResetBank
      <4>2. [k EXCEPT !.error = FALSE] = Regs(k.keys, k.locked, k.prgm, k.pgers, FALSE, k.job)
        BY <1>2, StatusRead
      <4>. QED
        BY <3>2, <4>1, <4>2, ResetRegs
    <3>4. Goto(t, "firstWait") /\ bank' = bank /\ UNCHANGED <<call, item, rc>>
      BY <1>1, <3>1, <3>2, <3>3 DEF StatusBefore, ErrorRead, ResetBank, QuietInv
    <3>5. Stage("firstWait", k)
      BY <3>2 DEF Stage
    <3>. QED
      BY <1>1, <3>1, <3>4, <3>5, SameBank, StepOn DEF Places
  <2>. QED
    BY <1>6, <2>1, <2>2 DEF Status
<1>7. CASE Await(t)
  <2>1. CASE pc[t] = "wait"
    <3>1. k.job.busy = FALSE
      BY <1>2, <2>1 DEF Stage, Regs, NoJob
    <3>2. Goto(t, "start") /\ UNCHANGED <<call, item, rc, bank>>
      BY <1>7, <2>1 DEF Await, AwaitBefore, TimesOut
    <3>3. Stage("start", k)
      BY <1>2, <2>1 DEF Stage
    <3>. QED
      BY <1>1, <3>2, <3>3, SameBank, StepOn DEF Places
  <2>2. CASE pc[t] = "firstWait"
    <3>1. Goto(t, "page") /\ UNCHANGED <<call, item, rc, bank>>
      BY <1>7, <2>2 DEF Await, AwaitBefore, TimesOut
    <3>2. Stage("page", k)
      BY <1>2, <2>2 DEF Stage
    <3>. QED
      BY <1>1, <3>1, <3>2, SameBank, StepOn DEF Places
  <2>. QED
    BY <1>7, <2>1, <2>2 DEF Await
<1>8. CASE NextPage(t)
  <2>1. k = ResetBank
    BY <1>2, <1>8 DEF NextPage, Stage
  <2>2. CASE item[t] > LastItem(call[t])
    <3>1. Finish(t, "ok") /\ UNCHANGED bank
      BY <1>8, <2>2 DEF NextPage
    <3>2. bank' = [bank EXCEPT ![b] = ResetBank]
      BY <2>1, <3>1, SameBank
    <3>. QED
      BY <1>1, <3>1, <3>2, StepOut
  <2>3. CASE ~(item[t] > LastItem(call[t]))
    <3>1. Goto(t, "key1") /\ UNCHANGED <<call, item, rc, bank>>
      BY <1>8, <2>1, <2>3 DEF NextPage, ResetBank
    <3>2. Stage("key1", k)
      BY <2>1 DEF Stage
    <3>. QED
      BY <1>1, <3>1, <3>2, SameBank, StepOn DEF Places
  <2>. QED
    BY <2>2, <2>3
<1>. QED
  BY <1>3, <1>4, <1>5, <1>6, <1>7, <1>8

\* The command, its end, and cleaning up.
LEMMA OperateQuiet ==
  ASSUME QuietInv, Hazards = {}, NEW t \in Threads,
         Start(t) \/ EndStatus(t) \/ EndAwait(t) \/ End(t)
  PROVE  QuietInv'
<1> DEFINE b == ItemBank(t)
           k == bank[ItemBank(t)]
<1>1. Active(t) /\ pc[t] \in Places /\ rc \in [Threads -> {"ok", "eio"}]
  BY DEF Active, Start, EndStatus, EndAwait, End, QuietInv
<1>2. /\ call[t] \in Calls /\ item[t] \in Int
      /\ Stage(pc[t], k) /\ k \in Bank /\ b \in Banks
      /\ \A c \in Banks \ {b} : bank[c] = ResetBank
  BY <1>1, InCall
<1>3. CASE Start(t)
  <2>1. k = Regs(2, FALSE, FALSE, FALSE, FALSE, NoJob)
    BY <1>2, <1>3 DEF Start, Stage
  <2>2. k.keys = 2 /\ k.locked = FALSE /\ k.error = FALSE /\ k.job = NoJob
    BY <2>1 DEF Regs
  <2> DEFINE e == IF call[t].op = "write" THEN [k EXCEPT !.prgm = ~k.locked]
                  ELSE [k EXCEPT !.pgers = ~k.locked]
  <2>3. /\ e \in Bank /\ e.keys = 2 /\ e.locked = FALSE /\ e.error = FALSE /\ e.job = NoJob
    BY <1>2, <2>2 DEF Bank
  <2>4. bank' = [bank EXCEPT ![b] = Command(e, t)] /\ Goto(t, "endStatus")
        /\ UNCHANGED <<call, item, rc>>
    BY <1>3 DEF Start
  <2>5. Stage("endStatus", Command(e, t))
    <3>. HIDE DEF e
    <3>. QED
      BY <1>2, <2>3, CommandTaken DEF Stage
  <2>. QED
    BY <1>1, <2>4, <2>5, StepOn DEF Places
<1>4. CASE EndStatus(t)
  <2>1. Open(k) /\ (k.error => k.job = NoJob)
    BY <1>2, <1>4 DEF EndStatus, Stage
  <2> DEFINE z == [k EXCEPT !.error = FALSE]
  <2>2. z = Regs(k.keys, k.locked, k.prgm, k.pgers, FALSE, k.job)
    BY <1>2, StatusRead
  <2>3. PICK p \in BOOLEAN, q \in BOOLEAN, e \in BOOLEAN, j \in Jobs :
          k = Regs(2, FALSE, p, q, e, j)
    BY <2>1 DEF Open
  <2>4. z = Regs(2, FALSE, p, q, FALSE, j) /\ k.job = j
    BY <2>2, <2>3 DEF Regs
  <2>5. Open(z) /\ ~z.error /\ z.job = k.job
    BY <2>4 DEF Open, Regs
  <2>6. /\ bank' = [bank EXCEPT ![b] = z] /\ UNCHANGED <<call, item>>
        /\ Goto(t, IF k.error THEN "end" ELSE "endWait")
        /\ rc' = [rc EXCEPT ![t] = IF k.error THEN "eio" ELSE @]
    BY <1>4 DEF EndStatus, ErrorRead
  <2>7. rc' \in [Threads -> {"ok", "eio"}]
    BY <1>1, <2>6
  <2>8. CASE k.error
    BY <1>1, <2>1, <2>5, <2>6, <2>7, <2>8, StepOn DEF Places, Stage
  <2>9. CASE ~k.error
    BY <1>1, <2>5, <2>6, <2>7, <2>9, StepOn DEF Places, Stage
  <2>. QED
    BY <2>8, <2>9
<1>5. CASE EndAwait(t)
  <2>1. Open(k) /\ ~k.error
    BY <1>2, <1>5 DEF EndAwait, Stage
  <2>2. k.job.busy = FALSE /\ Goto(t, "end") /\ UNCHANGED <<call, item, rc, bank>>
    BY <1>5 DEF EndAwait, Idle, TimesOut
  <2>3. k.job = NoJob
    BY <1>2, <2>2 DEF Bank, Jobs
  <2>4. Stage("end", k)
    BY <2>1, <2>3 DEF Stage
  <2>. QED
    BY <1>1, <2>2, <2>4, SameBank, StepOn DEF Places
<1>6. CASE End(t)
  <2>1. Cleaned(k) = ResetBank
    BY <1>2, <1>6, CleanedUp DEF End, Stage
  <2>2. bank' = [bank EXCEPT ![b] = ResetBank]
    BY <1>6, <2>1 DEF End
  <2>3. CASE rc[t] # "ok" \/ item[t] = LastItem(call[t])
    BY <1>1, <1>6, <2>2, <2>3, StepOut DEF End
  <2>4. CASE ~(rc[t] # "ok" \/ item[t] = LastItem(call[t]))
    <3> DEFINE l == IF call[t].op = "write" THEN "key1" ELSE "page"
    <3>1. /\ item' = [item EXCEPT ![t] = @ + 1] /\ pc' = [pc EXCEPT ![t] = l]
          /\ UNCHANGED <<call, rc>>
      BY <1>6, <2>4 DEF End, Goto
    <3>2. /\ pc' \in [Threads -> Places] /\ item' \in [Threads -> Int]
          /\ pc'[t] = l /\ \A u \in Threads : Active(u)' <=> u = t
      BY <1>1, <3>1 DEF QuietInv, Active, Places
    <3>3. /\ \A c \in Banks : bank'[c] = ResetBank
          /\ bank' = [c \in Banks |-> bank'[c]]
      BY <1>2, <2>2 DEF QuietInv
    <3>4. ItemBank(t)' \in Banks
      BY DEF ItemBank, ItemBlock, BankOf, Banks
    <3>5. Stage(pc[t], bank[ItemBank(t)])'
      BY <3>2, <3>3, <3>4 DEF Stage
    <3>6. QuietBetweenCalls'
      BY <3>3 DEF QuietBetweenCalls
    <3>. QED
      BY <1>2, <3>1, <3>2, <3>3, <3>4, <3>5, <3>6 DEF QuietInv
  <2>. QED
    BY <2>3, <2>4
<1>. QED
  BY <1>3, <1>4, <1>5, <1>6

\* The controller is done with a job that it did not refuse.
LEMMA CompleteQuiet ==
  ASSUME QuietInv, NEW c \in Banks, Complete(c)
  PROVE  QuietInv'
<1>1. bank[c].job.busy /\ UNCHANGED <<pc, call, item, rc>>
  BY DEF Complete, thread
<1>2. bank[c] # ResetBank
  BY <1>1 DEF ResetBank, NoJob
<1>3. PICK t \in Threads : Active(t) /\ c = ItemBank(t)
  BY <1>2 DEF QuietInv, QuietBetweenCalls, Active
<1> DEFINE k == bank[c]
           z == [k EXCEPT !.job = NoJob, !.error = @ \/ k.job.refused]
<1>4. /\ Stage(pc[t], k) /\ k \in Bank
      /\ \A d \in Banks \ {c} : bank[d] = ResetBank
  BY <1>3, InCall
<1>5. k.job \in Jobs /\ k.job # NoJob
  BY <1>1, <1>4 DEF Bank, NoJob
<1>6. k.job.refused = FALSE
  BY <1>5 DEF Jobs
<1>7. pc[t] \in {"endStatus", "endWait"} /\ Open(k) /\ ~k.error
  BY <1>4, <1>5 DEF Stage, Regs, ResetBank
<1>8. bank' = [bank EXCEPT ![c] = z]
  BY DEF Complete
<1>9. z = Regs(k.keys, k.locked, k.prgm, k.pgers, FALSE, NoJob)
  <2>1. (k.error \/ k.job.refused) = FALSE
    BY <1>6, <1>7
  <2>2. z = [k EXCEPT !.job = NoJob, !.error = FALSE]
    BY <2>1
  <2>3. k \in Bank /\ NoJob \in Jobs
    BY <1>4, ResetRegs
  <2>. HIDE DEF k, z
  <2>. QED
    BY <2>2, <2>3 DEF Bank, Regs
<1>10. Open(z) /\ ~z.error
  <2>1. PICK p \in BOOLEAN, q \in BOOLEAN, e \in BOOLEAN, j \in Jobs :
          k = Regs(2, FALSE, p, q, e, j)
    BY <1>7 DEF Open
  <2>2. z = Regs(2, FALSE, p, q, FALSE, NoJob)
    BY <1>9, <2>1 DEF Regs
  <2>. QED
    BY <2>2, ResetRegs DEF Open, Regs
<1>11. Stage(pc[t], z) /\ Goto(t, pc[t]) /\ pc[t] \in Places /\ pc[t] # "idle"
  BY <1>1, <1>7, <1>10 DEF Stage, Goto, Places, QuietInv
<1>12. rc' \in [Threads -> {"ok", "eio"}]
  BY <1>1 DEF QuietInv
<1>. QED
  BY <1>1, <1>3, <1>8, <1>11, <1>12, StepOn

\* A loss of power.
LEMMA PowerLossQuiet == PowerLoss => QuietInv'
BY DEF PowerLoss, QuietInv, QuietBetweenCalls, Active, Places, Banks

LEMMA NextQuiet ==
  ASSUME QuietInv, Hazards = {}, [Next]_vars
  PROVE  QuietInv'
<1>1. CASE \E t \in Threads : Step(t)
  BY <1>1, PrepareQuiet, OperateQuiet DEF Step
<1>2. CASE \E t \in Threads, c \in Calls : Begin(t, c)
  BY <1>2, BeginQuiet
<1>3. CASE \E k \in Banks : Complete(k)
  BY <1>3, CompleteQuiet
<1>4. CASE PowerLoss
  BY <1>4, PowerLossQuiet
<1>5. CASE UNCHANGED vars
  BY <1>5 DEF vars, thread, QuietInv, QuietBetweenCalls, Active, ItemBank, ItemBlock
<1>. QED
  BY <1>1, <1>2, <1>3, <1>4, <1>5 DEF Next

\* Without overlapping calls, late errors and slow operations, a bank is locked and
\* idle, with nothing selected and no error left, whenever no call is under way: on
\* the ways out of write_value and flash_at32_block_erase_loop, and after a reset.
THEOREM BanksQuiet ==
  ASSUME Hazards = {}
  PROVE  Spec => []QuietBetweenCalls
<1>1. Init => QuietInv
  BY InitQuiet
<1>2. QuietInv /\ [Next]_vars => QuietInv'
  BY NextQuiet
<1>3. QuietInv => QuietBetweenCalls
  BY DEF QuietInv
<1>. QED
  BY <1>1, <1>2, <1>3, PTL DEF Spec

-----------------------------------------------------------------------------
(* Under the same conditions the register sequences of Flash do what       *)
(* FlashService promises: every step of Flash is a step of the service on  *)
(* `content`, `job` and `result`, or leaves them alone; and every variable *)
(* keeps its type.                                                         *)

\* The items a thread's call has finished, at each place of the code.
Progress(t) ==
  CASE pc[t] \in {"endStatus", "endWait"} ->
         LET k == bank[ItemBank(t)] IN
         /\ rc[t] = "ok"
         /\ k.job.busy =>
              k.job.thread = t /\ k.job.call = call[t] /\ k.job.item = item[t]
         /\ done[t] = IF k.job.busy \/ k.error THEN item[t] ELSE item[t] + 1
    [] pc[t] = "end" -> done[t] = IF rc[t] = "ok" THEN item[t] + 1 ELSE item[t]
    [] OTHER -> rc[t] = "ok" /\ done[t] = item[t]

\* A call under way is for a range of the flash, and works on an item of it.
InRange(c, i) == Service!Within(c) /\ c.len > 0 /\ i \in 0 .. LastItem(c)

ServiceInv ==
  /\ QuietInv
  /\ done \in [Threads -> Int]
  /\ \A t \in Threads :
       /\ ~Active(t) => item[t] = 0
       /\ Active(t) => InRange(call[t], item[t])
       /\ Progress(t)

-----------------------------------------------------------------------------
(* Items of a call *)

LEMMA DivisionGrows ==
  ASSUME NEW a \in Nat, NEW b \in Nat, a <= b, NEW n \in Nat \ {0}
  PROVE  a \div n \in Int /\ b \div n \in Int /\ a \div n <= b \div n
<1> DEFINE p == a \div n
           q == b \div n
<1>1. p \in Int /\ q \in Int
  OBVIOUS
<1>2. n * p <= a /\ b < n * q + n
  OBVIOUS
<1>. HIDE DEF p, q
<1>3. p <= q
  <2>. SUFFICES ASSUME q + 1 <= p PROVE FALSE
    BY <1>1
  <2>1. n * (q + 1) <= n * p
    BY <1>1
  <2>2. n * (q + 1) = n * q + n
    BY <1>1
  <2>. QED
    BY <1>1, <1>2, <2>1, <2>2
<1>. QED
  BY <1>1, <1>3 DEF p, q

\* Inside the flash, 32 bits are enough.
LEMMA Unwrapped ==
  ASSUME NEW b \in Nat, b < Wrap
  PROVE  b % Wrap = b
<1>1. Wrap \in Nat \ {0} /\ b \in 0 .. (Wrap - 1)
  BY GeometryAssumption
<1>. QED
  BY <1>1

\* The two ends of a range say whether it lies in the flash, if it does not go round.
LEMMA RangeJudged ==
  ASSUME NEW c \in Calls, c.first + c.len <= Wrap
  PROVE  c.len > 0 => (ValidRange(c) <=> Service!Within(c))
<1>1. c.first \in 0 .. (Wrap - 1) /\ c.len \in 0 .. (Wrap - 1)
  BY CallsAssumption
<1>2. c.first % Wrap = c.first
  <2>1. c.first \in Nat /\ c.first < Wrap
    BY <1>1, GeometryAssumption
  <2>. QED
    BY <2>1, Unwrapped
<1>. SUFFICES ASSUME c.len > 0 PROVE ValidRange(c) <=> Service!Within(c)
  OBVIOUS
<1>3. c.first + c.len - 1 \in Nat /\ c.first + c.len - 1 < Wrap
  BY <1>1, GeometryAssumption
<1>4. (c.first + c.len - 1) % Wrap = c.first + c.len - 1
  BY <1>3, Unwrapped
<1>5. (c.first < Size /\ c.first + c.len - 1 < Size) <=> c.first + c.len <= Size
  BY <1>1, GeometryAssumption
<1>. QED
  BY <1>2, <1>4, <1>5 DEF ValidRange, Exists, Service!Within

\* A call of length 0 that is not refused points into the flash.
LEMMA NothingJudged ==
  ASSUME NEW c \in Calls, c.len = 0, ValidRange(c)
  PROVE  Service!Within(c)
<1>1. c.first \in 0 .. (Wrap - 1)
  BY CallsAssumption
<1>2. c.first % Wrap = c.first
  <2>1. c.first \in Nat /\ c.first < Wrap
    BY <1>1, GeometryAssumption
  <2>. QED
    BY <2>1, Unwrapped
<1>. QED
  BY <1>1, <1>2, GeometryAssumption DEF ValidRange, Exists, Service!Within

LEMMA ItemsCounted ==
  ASSUME NEW c \in Calls, Service!Within(c), c.len > 0
  PROVE  /\ LastItem(c) \in Int /\ Service!Items(c) = LastItem(c) + 1
         /\ LastItem(c) >= 0
<1>1. c.op \in {"write", "erase"} /\ c.first \in Nat /\ c.len \in Nat
  BY CallsAssumption
<1>2. CASE c.op = "write"
  BY <1>1, <1>2 DEF LastItem, Service!Items
<1>3. CASE c.op = "erase"
  <2>1. ~(c.op = "write")
    BY <1>3
  <2>2. c.first \in Nat /\ c.first + c.len - 1 \in Nat /\ c.first <= c.first + c.len - 1
    BY <1>1
  <2>3. c.first + c.len - 1 < Wrap
    BY <1>1, GeometryAssumption DEF Service!Within
  <2>4. (c.first + c.len - 1) % Wrap = c.first + c.len - 1
    BY <2>2, <2>3, Unwrapped
  <2>5. /\ Page(c.first) \in Int /\ Page(c.first + c.len - 1) \in Int
        /\ Page(c.first) <= Page(c.first + c.len - 1)
    BY <2>2, DivisionGrows, GeometryAssumption DEF Page
  <2>6. LastItem(c) = Page(c.first + c.len - 1) - Page(c.first)
    BY <2>1, <2>4 DEF LastItem
  <2>7. Service!Items(c) = Page(c.first + c.len - 1) - Page(c.first) + 1
    BY <2>1 DEF Service!Items, Page, Service!Page
  <2>. QED
    BY <2>5, <2>6, <2>7
<1>. QED
  BY <1>1, <1>2, <1>3

-----------------------------------------------------------------------------
(* The shapes of a step *)

\* The threads that are not in the call.
LEMMA OthersIdle ==
  ASSUME ServiceInv, NEW t \in Threads, Active(t), NEW u \in Threads, u # t
  PROVE  pc[u] = "idle" /\ item[u] = 0 /\ done[u] = 0 /\ rc[u] = "ok"
<1>1. pc[u] = "idle"
  BY DEF ServiceInv, QuietInv, Active
<1>. QED
  BY <1>1 DEF ServiceInv, Active, Progress

\* The thread goes on inside its item: the service does not see it.
LEMMA Onward ==
  ASSUME ServiceInv, QuietInv', NEW t \in Threads, Active(t),
         NEW l \in Places, l # "idle", Goto(t, l),
         NEW r \in {"ok", "eio"}, rc' = [rc EXCEPT ![t] = r],
         UNCHANGED <<call, item, done, content, result>>, Progress(t)'
  PROVE  ServiceInv' /\ UNCHANGED Service!vars
<1>1. pc \in [Threads -> Places] /\ pc' = [pc EXCEPT ![t] = l] /\ rc \in [Threads -> {"ok", "eio"}]
  BY DEF ServiceInv, QuietInv, Goto
<1>2. ASSUME NEW u \in Threads
      PROVE  /\ ~Active(u)' => item'[u] = 0
             /\ Active(u)' => InRange(call'[u], item'[u])
             /\ Progress(u)'
  <2>1. CASE u = t
    BY <1>1, <2>1 DEF ServiceInv, Active
  <2>2. CASE u # t
    <3>1. pc[u] = "idle" /\ item[u] = 0 /\ done[u] = 0 /\ rc[u] = "ok"
      BY <2>2, OthersIdle
    <3>2. pc'[u] = "idle" /\ item'[u] = 0 /\ done'[u] = 0 /\ rc'[u] = "ok"
      BY <1>1, <2>2, <3>1
    <3>. QED
      BY <3>2 DEF Active, Progress
  <2>. QED
    BY <2>1, <2>2
<1>3. ServiceInv'
  BY <1>2 DEF ServiceInv, InRange, LastItem, Page, Service!Within
<1>4. \A u \in Threads : pc'[u] = "idle" <=> pc[u] = "idle"
  BY <1>1 DEF Active
<1>5. job' = job
  BY <1>4 DEF job
<1>. QED
  BY <1>3, <1>5 DEF Service!vars

\* The call returns, with 0 only after its last item.
LEMMA Returned ==
  ASSUME ServiceInv, QuietInv', NEW t \in Threads, Active(t),
         NEW r \in {"ok", "eio"}, Finish(t, r), UNCHANGED content,
         r = "ok" => item[t] = LastItem(call[t]) /\ done[t] = item[t] + 1
  PROVE  ServiceInv' /\ Service!Return(t, r)
<1>1. /\ pc \in [Threads -> Places] /\ rc \in [Threads -> {"ok", "eio"}]
      /\ item \in [Threads -> Int] /\ done \in [Threads -> Int] /\ call[t] \in Calls
      /\ call \in [Threads -> Calls \cup {NoCall}]
  BY DEF ServiceInv, QuietInv
<1>2. /\ pc' = [pc EXCEPT ![t] = "idle"]
      /\ result' = [result EXCEPT ![t] = Service!Told(call[t], r)]
      /\ call' = [call EXCEPT ![t] = NoCall] /\ item' = [item EXCEPT ![t] = 0]
      /\ rc' = [rc EXCEPT ![t] = "ok"] /\ done' = [done EXCEPT ![t] = 0]
  BY DEF Finish, Goto
<1>3. ASSUME NEW u \in Threads
      PROVE  pc'[u] = "idle" /\ item'[u] = 0 /\ done'[u] = 0 /\ rc'[u] = "ok"
  <2>1. CASE u = t
    BY <1>1, <1>2, <2>1
  <2>2. CASE u # t
    BY <1>1, <1>2, <2>2, OthersIdle
  <2>. QED
    BY <2>1, <2>2
<1>4. done' \in [Threads -> Int]
  BY <1>1, <1>2
<1>5. ServiceInv'
  BY <1>3, <1>4 DEF ServiceInv, Active, Progress
<1>6. job[t] = [busy |-> TRUE, call |-> call[t], done |-> done[t]]
  BY DEF job, Active
<1>7. job[t].busy /\ (r = "ok" => job[t].done = Service!Items(job[t].call))
  <2>1. InRange(call[t], item[t])
    BY DEF ServiceInv
  <2>. QED
    BY <1>1, <1>6, <2>1, ItemsCounted DEF InRange
<1>8. job' = [job EXCEPT ![t] = Service!Idle]
  <2>1. ASSUME NEW u \in Threads
        PROVE  job'[u] = [job EXCEPT ![t] = Service!Idle][u]
    <3>1. job'[u] = [busy |-> FALSE]
      BY <1>3 DEF job
    <3>2. CASE u = t
      BY <3>1, <3>2 DEF job, Service!Idle
    <3>3. CASE u # t
      <4>1. pc[u] = "idle"
        BY <3>3, OthersIdle
      <4>. QED
        BY <3>1, <3>3, <4>1 DEF job
    <3>. QED
      BY <3>2, <3>3
  <2>. QED
    BY <2>1 DEF job
<1>. QED
  BY <1>2, <1>5, <1>6, <1>7, <1>8 DEF Service!Return

\* The thread goes on to its next item.
LEMMA NextItem ==
  ASSUME ServiceInv, QuietInv', NEW t \in Threads, Active(t),
         rc[t] = "ok", item[t] # LastItem(call[t]), done[t] = item[t] + 1,
         item' = [item EXCEPT ![t] = @ + 1],
         Goto(t, IF call[t].op = "write" THEN "key1" ELSE "page"),
         UNCHANGED <<content, result, call, rc, done>>
  PROVE  ServiceInv' /\ UNCHANGED Service!vars
<1>1. /\ pc \in [Threads -> Places] /\ item \in [Threads -> Int] /\ call[t] \in Calls
      /\ InRange(call[t], item[t])
  BY DEF ServiceInv, QuietInv
<1>2. LastItem(call[t]) \in Int
  BY <1>1, ItemsCounted DEF InRange
<1>3. /\ pc' = [pc EXCEPT ![t] = IF call[t].op = "write" THEN "key1" ELSE "page"]
      /\ pc'[t] \in {"key1", "page"}
  BY <1>1 DEF Goto
<1>4. ASSUME NEW u \in Threads
      PROVE  /\ pc'[u] = "idle" <=> pc[u] = "idle"
             /\ ~Active(u)' => item'[u] = 0
             /\ Active(u)' => InRange(call'[u], item'[u])
             /\ Progress(u)'
  <2>1. CASE u = t
    <3>1. item'[t] = item[t] + 1 /\ InRange(call[t], item'[t])
      BY <1>1, <1>2 DEF InRange
    <3>2. Progress(t)'
      BY <1>3, <3>1 DEF Progress
    <3>. QED
      BY <1>3, <2>1, <3>1, <3>2 DEF Active
  <2>2. CASE u # t
    <3>1. pc[u] = "idle" /\ item[u] = 0 /\ done[u] = 0 /\ rc[u] = "ok"
      BY <2>2, OthersIdle
    <3>2. pc'[u] = "idle" /\ item'[u] = 0 /\ done'[u] = 0 /\ rc'[u] = "ok"
      BY <1>1, <1>3, <2>2, <3>1
    <3>. QED
      BY <3>1, <3>2 DEF Active, Progress
  <2>. QED
    BY <2>1, <2>2
<1>5. ServiceInv'
  BY <1>4 DEF ServiceInv, InRange, LastItem, Page, Service!Within
<1>6. job' = job
  BY <1>4 DEF job
<1>. QED
  BY <1>5, <1>6 DEF Service!vars

-----------------------------------------------------------------------------
(* The steps *)

\* A place before the command: the thread goes on, or its call fails.
LEMMA Before ==
  ASSUME ServiceInv, QuietInv', NEW t \in Threads, Active(t),
         pc[t] \notin {"endStatus", "endWait", "end"}, UNCHANGED content,
         \/ Finish(t, "eio")
         \/ \E l \in Places \ {"idle", "endStatus", "endWait", "end"} :
              Goto(t, l) /\ UNCHANGED <<result, call, item, rc, done>>
  PROVE  ServiceInv' /\ (Service!Next \/ UNCHANGED Service!vars)
<1>1. CASE Finish(t, "eio")
  <2>1. ServiceInv' /\ Service!Return(t, "eio")
    BY <1>1, Returned
  <2>. QED
    BY <2>1 DEF Service!Next
<1>2. ASSUME NEW l \in Places \ {"idle", "endStatus", "endWait", "end"},
             Goto(t, l), UNCHANGED <<result, call, item, rc, done>>
      PROVE  ServiceInv' /\ UNCHANGED Service!vars
  <2>1. rc[t] = "ok" /\ done[t] = item[t] /\ pc \in [Threads -> Places] /\ rc \in [Threads -> {"ok", "eio"}]
    BY DEF ServiceInv, QuietInv, Progress
  <2>2. pc'[t] = l /\ rc'[t] = "ok" /\ done'[t] = item'[t] /\ rc' = [rc EXCEPT ![t] = "ok"]
    BY <1>2, <2>1 DEF Goto
  <2>3. Progress(t)'
    BY <2>2 DEF Progress
  <2>. QED
    BY <1>2, <2>2, <2>3, Onward
<1>. QED
  BY <1>1, <1>2

LEMMA PrepareServed ==
  ASSUME ServiceInv, QuietInv', NEW t \in Threads,
         \/ Key1(t) \/ Key2(t) \/ LockTest(t) \/ Status(t) \/ Await(t) \/ NextPage(t)
  PROVE  ServiceInv' /\ (Service!Next \/ UNCHANGED Service!vars)
<1>1. Active(t) /\ pc[t] \notin {"endStatus", "endWait", "end"} /\ UNCHANGED content
  BY DEF Active, Key1, Key2, LockTest, Status, Await, NextPage
<1>2. \/ Finish(t, "eio")
      \/ \E l \in Places \ {"idle", "endStatus", "endWait", "end"} :
           Goto(t, l) /\ UNCHANGED <<result, call, item, rc, done>>
  <2>1. CASE Key1(t)
    BY <2>1 DEF Key1, Places
  <2>2. CASE Key2(t)
    BY <2>2 DEF Key2, Places
  <2>3. CASE LockTest(t)
    BY <2>3 DEF LockTest, Places
  <2>4. CASE Status(t)
    BY <2>4 DEF Status, StatusBefore, Places
  <2>5. CASE Await(t)
    BY <2>5 DEF Await, AwaitBefore, Places
  <2>6. CASE NextPage(t)
    <3>1. InRange(call[t], item[t]) /\ call[t] \in Calls
      BY <1>1 DEF ServiceInv, QuietInv
    <3>2. ~(item[t] > LastItem(call[t]))
      BY <3>1, ItemsCounted DEF InRange
    <3>. QED
      BY <2>6, <3>2 DEF NextPage, Places
  <2>. QED
    BY <2>1, <2>2, <2>3, <2>4, <2>5, <2>6
<1>. QED
  BY <1>1, <1>2, Before

\* What a command that is taken, or refused, leaves of a bank.
LEMMA CommandJob ==
  ASSUME "late" \notin Hazards, NEW t \in Threads, NEW k \in Bank,
         k.locked = FALSE, k.job = NoJob, NEW z, z = Command(k, t)
  PROVE  /\ z.job.busy \/ z.error
         /\ z.job.busy => z.job.thread = t /\ z.job.call = call[t] /\ z.job.item = item[t]
<1> DEFINE j == [busy |-> TRUE, thread |-> t, call |-> call[t], item |-> item[t],
                 refused |-> Refused(call[t], ItemBlock(call[t], item[t]))]
<1>1. k.job.busy = FALSE
  BY DEF NoJob
<1>2. CASE Refused(call[t], ItemBlock(call[t], item[t]))
  <2>1. z = [k EXCEPT !.error = TRUE]
    BY <1>1, <1>2 DEF Command
  <2>. QED
    BY <1>1, <2>1 DEF Bank
<1>3. CASE ~Refused(call[t], ItemBlock(call[t], item[t]))
  <2>1. z = [k EXCEPT !.job = j]
    BY <1>1, <1>3 DEF Command
  <2>2. z.job = j
    <3>. HIDE DEF j
    <3>. QED
      BY <2>1 DEF Bank
  <2>. QED
    BY <2>2
<1>. QED
  BY <1>2, <1>3

LEMMA OperateServed ==
  ASSUME ServiceInv, QuietInv', Hazards = {}, NEW t \in Threads,
         Start(t) \/ EndStatus(t) \/ EndAwait(t) \/ End(t)
  PROVE  ServiceInv' /\ (Service!Next \/ UNCHANGED Service!vars)
<1> DEFINE b == ItemBank(t)
           k == bank[ItemBank(t)]
<1>1. Active(t)
  BY DEF Active, Start, EndStatus, EndAwait, End
<1>2. /\ pc \in [Threads -> Places] /\ rc \in [Threads -> {"ok", "eio"}]
      /\ item \in [Threads -> Int] /\ done \in [Threads -> Int]
      /\ bank = [c \in Banks |-> bank[c]] /\ Progress(t)
  BY DEF ServiceInv, QuietInv
<1>3. /\ call[t] \in Calls /\ item[t] \in Int
      /\ Stage(pc[t], k) /\ k \in Bank /\ b \in Banks
  BY <1>1, InCall DEF ServiceInv
<1>4. CASE Start(t)
  <2>1. k = Regs(2, FALSE, FALSE, FALSE, FALSE, NoJob)
    BY <1>3, <1>4 DEF Start, Stage
  <2>2. k.locked = FALSE /\ k.job = NoJob
    BY <2>1 DEF Regs
  <2> DEFINE e == IF call[t].op = "write" THEN [k EXCEPT !.prgm = ~k.locked]
                  ELSE [k EXCEPT !.pgers = ~k.locked]
             z == Command(e, t)
  <2>3. e \in Bank /\ e.locked = FALSE /\ e.job = NoJob
    BY <1>3, <2>2 DEF Bank
  <2>4. /\ z.job.busy \/ z.error
        /\ z.job.busy => z.job.thread = t /\ z.job.call = call[t] /\ z.job.item = item[t]
    <3>. HIDE DEF e
    <3>. QED
      BY <2>3, CommandJob, ZenonT(40)
  <2>5. /\ bank' = [bank EXCEPT ![b] = z] /\ Goto(t, "endStatus")
        /\ UNCHANGED <<content, result, call, item, rc, done>>
    BY <1>4 DEF Start
  <2>. HIDE DEF z
  <2>6. bank'[b] = z /\ ItemBank(t)' = b /\ pc'[t] = "endStatus"
    BY <1>2, <1>3, <2>5 DEF Goto, ItemBank, ItemBlock, BankOf, Page
  <2>7. rc[t] = "ok" /\ done[t] = item[t]
    BY <1>2, <1>4 DEF Start, Progress
  <2>8. Progress(t)'
    BY <2>4, <2>5, <2>6, <2>7 DEF Progress
  <2>9. rc' = [rc EXCEPT ![t] = "ok"]
    BY <1>2, <2>5, <2>7
  <2>. QED
    BY <1>1, <2>5, <2>8, <2>9, Onward DEF Places
<1>5. CASE EndStatus(t)
  <2>1. k.error => k.job = NoJob
    BY <1>3, <1>5 DEF EndStatus, Stage
  <2>2. /\ bank' = [bank EXCEPT ![b] = [k EXCEPT !.error = FALSE]]
        /\ Goto(t, IF k.error THEN "end" ELSE "endWait")
        /\ rc' = [rc EXCEPT ![t] = IF k.error THEN "eio" ELSE rc[t]]
        /\ UNCHANGED <<content, result, call, item, done>>
    BY <1>5 DEF EndStatus, ErrorRead
  <2>3. /\ rc[t] = "ok"
        /\ k.job.busy => k.job.thread = t /\ k.job.call = call[t] /\ k.job.item = item[t]
        /\ done[t] = IF k.job.busy \/ k.error THEN item[t] ELSE item[t] + 1
    BY <1>2, <1>5 DEF EndStatus, Progress
  <2>4. ItemBank(t)' = b /\ bank'[b] = [k EXCEPT !.error = FALSE]
    BY <1>2, <1>3, <2>2 DEF ItemBank, ItemBlock, BankOf, Page
  <2>5. CASE k.error
    <3>1. pc'[t] = "end" /\ rc'[t] = "eio" /\ done'[t] = item'[t]
      BY <1>2, <2>2, <2>3, <2>5 DEF Goto
    <3>2. Progress(t)'
      BY <3>1 DEF Progress
    <3>3. Goto(t, "end") /\ rc' = [rc EXCEPT ![t] = "eio"]
      BY <2>2, <2>5
    <3>. QED
      BY <1>1, <2>2, <3>2, <3>3, Onward DEF Places
  <2>6. CASE ~k.error
    <3>1. k.error = FALSE /\ bank'[b].job = k.job /\ bank'[b].error = FALSE
      BY <1>3, <2>4, <2>6 DEF Bank
    <3>2. pc'[t] = "endWait" /\ rc'[t] = "ok" /\ done'[t] = done[t]
      BY <1>2, <2>2, <2>3, <2>6 DEF Goto
    <3>3. Progress(t)'
      BY <2>2, <2>3, <2>4, <3>1, <3>2 DEF Progress
    <3>4. Goto(t, "endWait") /\ rc' = [rc EXCEPT ![t] = "ok"]
      BY <2>2, <2>3, <2>6
    <3>. QED
      BY <1>1, <2>2, <3>3, <3>4, Onward DEF Places
  <2>. QED
    BY <2>5, <2>6
<1>6. CASE EndAwait(t)
  <2>1. ~k.error
    BY <1>3, <1>6 DEF EndAwait, Stage
  <2>2. ~k.job.busy /\ Goto(t, "end") /\ UNCHANGED <<content, result, call, item, rc, done>>
    BY <1>6 DEF EndAwait, Idle, TimesOut
  <2>3. rc[t] = "ok" /\ done[t] = item[t] + 1
    BY <1>2, <1>6, <2>1, <2>2 DEF EndAwait, Progress
  <2>4. pc'[t] = "end" /\ rc'[t] = "ok" /\ done'[t] = item'[t] + 1
    BY <1>2, <2>2, <2>3 DEF Goto
  <2>5. Progress(t)'
    BY <2>4 DEF Progress
  <2>6. rc' = [rc EXCEPT ![t] = "ok"]
    BY <1>2, <2>2, <2>3
  <2>. QED
    BY <1>1, <2>2, <2>5, <2>6, Onward DEF Places
<1>7. CASE End(t)
  <2>1. done[t] = IF rc[t] = "ok" THEN item[t] + 1 ELSE item[t]
    BY <1>2, <1>7 DEF End, Progress
  <2>2. CASE rc[t] # "ok" \/ item[t] = LastItem(call[t])
    <3>1. Finish(t, rc[t]) /\ UNCHANGED content
      BY <1>7, <2>2 DEF End
    <3>2. ServiceInv' /\ Service!Return(t, rc[t])
      BY <1>1, <1>2, <2>1, <2>2, <3>1, Returned
    <3>. QED
      BY <1>2, <3>2 DEF Service!Next
  <2>3. CASE ~(rc[t] # "ok" \/ item[t] = LastItem(call[t]))
    <3>1. /\ item' = [item EXCEPT ![t] = @ + 1]
          /\ Goto(t, IF call[t].op = "write" THEN "key1" ELSE "page")
          /\ UNCHANGED <<content, result, call, rc, done>>
      BY <1>7, <2>3 DEF End
    <3>. QED
      BY <1>1, <2>1, <2>3, <3>1, NextItem
  <2>. QED
    BY <2>2, <2>3
<1>. QED
  BY <1>4, <1>5, <1>6, <1>7

LEMMA BeginServed ==
  ASSUME ServiceInv, QuietInv', Hazards = {}, NEW t \in Threads, NEW c \in Calls, Begin(t, c)
  PROVE  ServiceInv' /\ Service!Next
<1>1. \A u \in Threads : pc[u] = "idle"
  BY DEF Begin
<1>2. /\ pc \in [Threads -> Places] /\ call \in [Threads -> Calls \cup {NoCall}]
      /\ done \in [Threads -> Int]
      /\ \A u \in Threads : item[u] = 0 /\ done[u] = 0 /\ rc[u] = "ok"
  BY <1>1 DEF ServiceInv, QuietInv, Active, Progress
<1>3. job = [u \in Threads |-> [busy |-> FALSE]]
  BY <1>1 DEF job
<1>4. ~job[t].busy
  BY <1>3
<1>5. c.len \in Nat /\ c.first \in Nat /\ (ValidRange(c) => c.first + c.len <= Wrap)
  <2>1. c.len \in Nat /\ c.first \in Nat
    BY CallsAssumption
  <2>2. ValidRange(c) /\ c.first + c.len > Wrap => "wrap" \in Hazards
    BY DEF Begin
  <2>. QED
    BY <2>1, <2>2, GeometryAssumption
<1>6. /\ ValidRange(c) => Service!Within(c)
      /\ Service!Within(c) => ValidRange(c) \/ c.len = 0
  <2>1. Service!Within(c) => c.first + c.len <= Wrap
    BY <1>5, GeometryAssumption DEF Service!Within
  <2>. QED
    BY <1>5, <2>1, RangeJudged, NothingJudged
<1>7. CASE ValidRange(c) /\ c.len > 0
  <2>1. /\ pc' = [pc EXCEPT ![t] = IF c.op = "write" THEN "key1" ELSE "firstStatus"]
        /\ call' = [call EXCEPT ![t] = c] /\ result' = [result EXCEPT ![t] = Service!Nothing]
        /\ UNCHANGED <<content, item, rc, done>>
    BY <1>7 DEF Begin, Goto
  <2>2. pc'[t] \in {"key1", "firstStatus"} /\ call'[t] = c
    BY <1>2, <2>1
  <2>3. \A u \in Threads \ {t} : pc'[u] = "idle"
    BY <1>1, <1>2, <2>1
  <2>4. LastItem(c) \in Int /\ InRange(c, 0)
    BY <1>6, <1>7, ItemsCounted DEF InRange
  <2>5. ASSUME NEW u \in Threads
        PROVE  /\ ~Active(u)' => item'[u] = 0
               /\ Active(u)' => InRange(call'[u], item'[u])
               /\ Progress(u)'
    <3>1. item'[u] = 0 /\ done'[u] = 0 /\ rc'[u] = "ok"
      BY <1>2, <2>1
    <3>2. pc'[u] \notin {"endStatus", "endWait", "end"} /\ (pc'[u] # "idle" => u = t)
      BY <2>2, <2>3
    <3>. QED
      BY <2>2, <2>4, <3>1, <3>2 DEF Active, Progress
  <2>6. ServiceInv'
    BY <1>2, <2>1, <2>5 DEF ServiceInv, InRange, LastItem, Page, Service!Within
  <2>7. job' = [job EXCEPT ![t] = Service!Working(c, 0)]
    <3>1. ASSUME NEW u \in Threads
          PROVE  job'[u] = IF u = t THEN Service!Working(c, 0) ELSE job[u]
      <4>1. CASE u = t
        <5>1. job'[u] = [busy |-> TRUE, call |-> call'[t], done |-> done'[t]]
          BY <2>2, <4>1 DEF job
        <5>2. done'[t] = 0
          BY <1>2, <2>1
        <5>. QED
          BY <2>2, <4>1, <5>1, <5>2 DEF Service!Working
      <4>2. CASE u # t
        BY <1>3, <2>3, <4>2 DEF job
      <4>. QED
        BY <4>1, <4>2
    <3>. QED
      BY <3>1 DEF job
  <2>8. Service!Begin(t, c)
    BY <1>4, <1>6, <1>7, <2>1, <2>7 DEF Service!Begin
  <2>. QED
    BY <2>6, <2>8 DEF Service!Next
<1>8. CASE ~(ValidRange(c) /\ c.len > 0)
  <2>1. /\ result' = [result EXCEPT
                         ![t] = Service!Told(c, IF ValidRange(c) THEN "ok" ELSE "einval")]
        /\ UNCHANGED <<content, pc, call, item, rc, done>>
    BY <1>8 DEF Begin
  <2>2. ASSUME NEW u \in Threads
        PROVE  ~Active(u)' /\ item'[u] = 0 /\ Progress(u)'
    <3>1. pc'[u] = "idle" /\ item'[u] = 0 /\ done'[u] = 0 /\ rc'[u] = "ok"
      BY <1>1, <1>2, <2>1
    <3>. QED
      BY <3>1 DEF Active, Progress
  <2>3. ServiceInv'
    BY <1>2, <2>1, <2>2 DEF ServiceInv
  <2>4. job' = job
    BY <2>1 DEF job
  <2>5. CASE ValidRange(c)
    <3>1. c.len = 0
      BY <1>5, <1>8, <2>5
    <3>2. Service!Begin(t, c)
      BY <1>4, <1>6, <2>1, <2>4, <2>5, <3>1 DEF Service!Begin
    <3>. QED
      BY <2>3, <3>2 DEF Service!Next
  <2>6. CASE ~ValidRange(c)
    <3>1. Service!Begin(t, c)
      BY <1>4, <1>6, <2>1, <2>4, <2>6 DEF Service!Begin
    <3>. QED
      BY <2>3, <3>1 DEF Service!Next
  <2>. QED
    BY <2>5, <2>6
<1>. QED
  BY <1>7, <1>8

\* What a bank that is at work says of the call it works for.
LEMMA AtWork ==
  ASSUME ServiceInv, NEW c \in Banks, bank[c].job.busy
  PROVE  \E t \in Threads :
           /\ Active(t) /\ c = ItemBank(t) /\ pc[t] \in {"endStatus", "endWait"}
           /\ ~bank[c].error /\ bank[c].job.refused = FALSE
           /\ bank[c].job.thread = t /\ bank[c].job.call = call[t] /\ bank[c].job.item = item[t]
           /\ done[t] = item[t]
           /\ job[t] = [busy |-> TRUE, call |-> call[t], done |-> item[t]]
           /\ item[t] < Service!Items(call[t])
<1>1. bank[c] # ResetBank
  BY DEF ResetBank, NoJob
<1>2. PICK t \in Threads : Active(t) /\ c = ItemBank(t)
  BY <1>1 DEF ServiceInv, QuietInv, QuietBetweenCalls, Active
<1>3. Stage(pc[t], bank[c]) /\ bank[c] \in Bank /\ call[t] \in Calls /\ item[t] \in Int
  BY <1>2, InCall DEF ServiceInv
<1>4. bank[c].job \in Jobs /\ bank[c].job # NoJob
  BY <1>3 DEF Bank, NoJob
<1>5. pc[t] \in {"endStatus", "endWait"} /\ ~bank[c].error
  BY <1>3, <1>4 DEF Stage, Regs, ResetBank
<1>6. bank[c].job.refused = FALSE
  BY <1>4 DEF Jobs
<1>7. /\ bank[c].job.thread = t /\ bank[c].job.call = call[t] /\ bank[c].job.item = item[t]
      /\ done[t] = item[t]
  BY <1>2, <1>5 DEF ServiceInv, Progress
<1>8. item[t] < Service!Items(call[t])
  <2>1. InRange(call[t], item[t])
    BY <1>2 DEF ServiceInv
  <2>. QED
    BY <1>3, <2>1, ItemsCounted DEF InRange
<1>9. job[t] = [busy |-> TRUE, call |-> call[t], done |-> item[t]]
  BY <1>2, <1>7 DEF job, Active
<1>. QED
  BY <1>2, <1>5, <1>6, <1>7, <1>8, <1>9

\* One more item of a call is done.
LEMMA OneMoreDone ==
  ASSUME NEW z, NEW c, NEW n \in Int, z = [busy |-> TRUE, call |-> c, done |-> n]
  PROVE  [z EXCEPT !.done = @ + 1] = [busy |-> TRUE, call |-> c, done |-> n + 1]
<1> DEFINE more == [z EXCEPT !.done = z.done + 1]
<1>1. z \in [busy : BOOLEAN, call : {c}, done : {n}] /\ z.done + 1 = n + 1
  OBVIOUS
<1>2. /\ more \in [busy : BOOLEAN, call : {c}, done : {n + 1}]
      /\ more.busy = TRUE /\ more.call = c /\ more.done = n + 1
  BY <1>1
<1>. HIDE DEF more
<1>3. more = [busy |-> TRUE, call |-> c, done |-> n + 1]
  BY <1>2
<1>. QED
  BY <1>3 DEF more

LEMMA CompleteServed ==
  ASSUME ServiceInv, QuietInv', NEW c \in Banks, Complete(c)
  PROVE  ServiceInv' /\ Service!Next
<1> DEFINE j == bank[c].job
<1>1. j.busy /\ UNCHANGED <<result, pc, call, item, rc>>
  BY DEF Complete, thread
<1>2. PICK t \in Threads :
        /\ Active(t) /\ c = ItemBank(t) /\ pc[t] \in {"endStatus", "endWait"}
        /\ ~bank[c].error /\ j.refused = FALSE
        /\ j.thread = t /\ j.call = call[t] /\ j.item = item[t]
        /\ done[t] = item[t]
        /\ job[t] = [busy |-> TRUE, call |-> call[t], done |-> item[t]]
        /\ item[t] < Service!Items(call[t])
  BY <1>1, AtWork
<1>3. /\ done \in [Threads -> Int] /\ item \in [Threads -> Int] /\ pc \in [Threads -> Places]
      /\ rc[t] = "ok"
  BY <1>2 DEF ServiceInv, QuietInv, Progress
<1>4. /\ content' = Service!Worked(content, call[t], item[t] + 1)
      /\ done' = [done EXCEPT ![t] = @ + 1]
  BY <1>2 DEF Complete
<1>5. ~bank'[c].job.busy /\ bank'[c].error = FALSE
  <2>1. bank[c] \in Bank /\ bank = [k \in Banks |-> bank[k]]
    BY <1>2, InCall DEF ServiceInv, QuietInv
  <2>2. bank'[c] = [bank[c] EXCEPT !.job = NoJob, !.error = @ \/ j.refused]
    BY <2>1 DEF Complete
  <2>3. (bank[c].error \/ j.refused) = FALSE
    BY <1>2
  <2>4. bank'[c] = [bank[c] EXCEPT !.job = NoJob, !.error = FALSE]
    BY <2>2, <2>3
  <2>5. bank'[c].job = NoJob /\ bank'[c].error = FALSE
    BY <2>1, <2>4 DEF Bank
  <2>. QED
    BY <2>5 DEF NoJob
<1>6. ASSUME NEW u \in Threads
      PROVE  /\ ~Active(u)' => item'[u] = 0
             /\ Active(u)' => InRange(call'[u], item'[u])
             /\ Progress(u)'
  <2>1. CASE u = t
    <3>1. done'[t] = item'[t] + 1 /\ rc'[t] = "ok" /\ pc'[t] \in {"endStatus", "endWait"}
      BY <1>1, <1>2, <1>3, <1>4
    <3>2. ItemBank(t)' = c
      BY <1>1, <1>2 DEF ItemBank, ItemBlock, BankOf, Page
    <3>3. Progress(t)'
      BY <1>5, <3>1, <3>2 DEF Progress
    <3>. QED
      BY <1>1, <2>1, <3>3 DEF ServiceInv, Active
  <2>2. CASE u # t
    <3>1. pc[u] = "idle" /\ item[u] = 0 /\ done[u] = 0 /\ rc[u] = "ok"
      BY <1>2, <2>2, OthersIdle
    <3>2. pc'[u] = "idle" /\ item'[u] = 0 /\ done'[u] = 0 /\ rc'[u] = "ok"
      BY <1>1, <1>3, <1>4, <2>2, <3>1
    <3>. QED
      BY <3>2 DEF Active, Progress
  <2>. QED
    BY <2>1, <2>2
<1>7. ServiceInv'
  BY <1>3, <1>4, <1>6 DEF ServiceInv, InRange, LastItem, Page, Service!Within
<1>8. job' = [job EXCEPT ![t].done = @ + 1]
  <2>1. ASSUME NEW u \in Threads
        PROVE  job'[u] = IF u = t THEN [job[t] EXCEPT !.done = @ + 1] ELSE job[u]
    <3>1. CASE u = t
      <4>1. job'[t] = [busy |-> TRUE, call |-> call[t], done |-> item[t] + 1]
        BY <1>1, <1>2, <1>3, <1>4 DEF job, Active
      <4>2. item[t] \in Int /\ job[t] = [busy |-> TRUE, call |-> call[t], done |-> item[t]]
        BY <1>2, <1>3
      <4>3. [job[t] EXCEPT !.done = @ + 1] = [busy |-> TRUE, call |-> call[t], done |-> item[t] + 1]
        BY <4>2, OneMoreDone
      <4>4. job'[t] = [job[t] EXCEPT !.done = @ + 1]
        BY <4>1, <4>3
      <4>. QED
        BY <3>1, <4>4
    <3>2. CASE u # t
      <4>1. pc[u] = "idle" /\ pc'[u] = "idle"
        BY <1>1, <1>2, <3>2, OthersIdle
      <4>. QED
        BY <3>2, <4>1 DEF job
    <3>. QED
      BY <3>1, <3>2
  <2>. QED
    BY <2>1, ZenonT(30) DEF job
<1>9. Service!Work(t)
  BY <1>1, <1>2, <1>4, <1>8 DEF Service!Work
<1>. QED
  BY <1>7, <1>9 DEF Service!Next

\* The block or page each bank works on is the next item of a call.
LEMMA PowerLossServed ==
  ASSUME ServiceInv, QuietInv', PowerLoss
  PROVE  ServiceInv' /\ Service!Next
<1>1. /\ pc' = [u \in Threads |-> "idle"] /\ item' = [u \in Threads |-> 0]
      /\ rc' = [u \in Threads |-> "ok"] /\ done' = [u \in Threads |-> 0]
      /\ result' = [u \in Threads |-> Service!Nothing]
  BY DEF PowerLoss
<1>2. ServiceInv'
  BY <1>1 DEF ServiceInv, Active, Progress
<1>3. job' = [u \in Threads |-> Service!Idle]
  BY <1>1 DEF job, Service!Idle
<1>4. PICK spoilt \in SUBSET {k \in Banks : bank[k].job.busy} :
        content' = [b \in 0 .. (Size - 1) |->
          IF \E k \in spoilt : b \in Service!ItemBlocks(bank[k].job.call, bank[k].job.item + 1)
          THEN "torn" ELSE content[b]]
  BY DEF PowerLoss
<1> DEFINE threads == {t \in Threads : job[t].busy /\ job[t].done < Service!Items(job[t].call)}
           hit == {t \in threads : \E k \in spoilt : bank[k].job.thread = t}
<1>5. ASSUME NEW k \in spoilt
      PROVE  /\ bank[k].job.thread \in threads
             /\ job[bank[k].job.thread].call = bank[k].job.call
             /\ job[bank[k].job.thread].done = bank[k].job.item
  <2>1. k \in Banks /\ bank[k].job.busy
    BY <1>4
  <2>2. PICK t \in Threads :
          /\ bank[k].job.thread = t /\ bank[k].job.call = call[t] /\ bank[k].job.item = item[t]
          /\ job[t] = [busy |-> TRUE, call |-> call[t], done |-> item[t]]
          /\ item[t] < Service!Items(call[t])
    BY <2>1, AtWork
  <2>3. job[t].busy /\ job[t].call = call[t] /\ job[t].done = item[t]
    BY <2>2
  <2>4. job[t].done < Service!Items(job[t].call)
    BY <2>2, <2>3
  <2>5. t \in threads
    BY <2>3, <2>4
  <2>. QED
    BY <2>2, <2>3, <2>5
<1>6. ASSUME NEW b
      PROVE  (\E k \in spoilt : b \in Service!ItemBlocks(bank[k].job.call, bank[k].job.item + 1))
               <=> (\E t \in hit : b \in Service!ItemBlocks(job[t].call, job[t].done + 1))
  <2>1. ASSUME NEW k \in spoilt, b \in Service!ItemBlocks(bank[k].job.call, bank[k].job.item + 1)
        PROVE  \E t \in hit : b \in Service!ItemBlocks(job[t].call, job[t].done + 1)
    <3>1. bank[k].job.thread \in hit
      BY <1>5
    <3>. QED
      BY <1>5, <2>1, <3>1
  <2>2. ASSUME NEW t \in hit, b \in Service!ItemBlocks(job[t].call, job[t].done + 1)
        PROVE  \E k \in spoilt : b \in Service!ItemBlocks(bank[k].job.call, bank[k].job.item + 1)
    BY <1>5, <2>2
  <2>. QED
    BY <2>1, <2>2
<1>7. content' = [b \in Service!Blocks |->
                    IF \E t \in hit : b \in Service!ItemBlocks(job[t].call, job[t].done + 1)
                    THEN "torn" ELSE content[b]]
  BY <1>4, <1>6 DEF Service!Blocks
<1>8. hit \in SUBSET threads
  OBVIOUS
<1>9. Service!PowerLoss
  <2>. HIDE DEF hit
  <2>. QED
    BY <1>1, <1>3, <1>7, <1>8 DEF Service!PowerLoss
<1>. QED
  BY <1>2, <1>9 DEF Service!Next

-----------------------------------------------------------------------------

\* Every step keeps the invariant, and is a step of the service or a stutter.
LEMMA ServiceStep ==
  ASSUME Hazards = {}, ServiceInv, [Next]_vars
  PROVE  ServiceInv' /\ (Service!Next \/ UNCHANGED Service!vars)
<1>1. QuietInv'
  BY NextQuiet DEF ServiceInv
<1>2. CASE \E t \in Threads : Step(t)
  BY <1>1, <1>2, PrepareServed, OperateServed DEF Step
<1>3. CASE \E t \in Threads, c \in Calls : Begin(t, c)
  BY <1>1, <1>3, BeginServed
<1>4. CASE \E k \in Banks : Complete(k)
  BY <1>1, <1>4, CompleteServed
<1>5. CASE PowerLoss
  BY <1>1, <1>5, PowerLossServed
<1>6. CASE UNCHANGED vars
  <2>1. UNCHANGED <<content, result, pc, call, item, rc, bank, done>>
    BY <1>6 DEF vars, thread
  <2>2. job' = job
    BY <2>1 DEF job
  <2>3. \A t \in Threads : Progress(t)' <=> Progress(t)
    BY <2>1 DEF Progress, ItemBank, ItemBlock, BankOf, Page
  <2>4. ServiceInv'
    BY <1>1, <2>1, <2>3 DEF ServiceInv, Active, InRange, LastItem, Page, Service!Within
  <2>. QED
    BY <2>1, <2>2, <2>4 DEF Service!vars
<1>. QED
  BY <1>2, <1>3, <1>4, <1>5, <1>6 DEF Next

\* Flash implements FlashService: a call works through its range in order, item by
\* item, returns 0 only after the last one, changes nothing else, refuses a range that
\* does not lie in the flash, and a loss of power spoils at most the item in work
\* (flash_at32_write, flash_at32_erase and all below them), with calls that do not
\* overlap, errors flagged at once, operations in time, and no erase that goes round
\* the 32-bit range to end inside the flash again.
THEOREM ServiceImplemented ==
  ASSUME Hazards = {}
  PROVE  Spec => ImplementsService
<1>1. Init => ServiceInv /\ Service!Init
  <2> SUFFICES ASSUME Init
               PROVE  ServiceInv /\ Service!Init
    OBVIOUS
  <2>1. QuietInv
    BY InitQuiet
  <2>2. ServiceInv
    BY <2>1 DEF Init, ServiceInv, Active, Progress
  <2>3. Service!Init
    BY DEF Init, Service!Init, Service!Blocks, Service!Contents, Service!Idle, job
  <2>. QED
    BY <2>2, <2>3
<1>2. ServiceInv /\ [Next]_vars => ServiceInv' /\ [Service!Next]_(Service!vars)
  BY ServiceStep
<1>. QED
  BY <1>1, <1>2, PTL DEF Spec, ImplementsService, Service!Spec
-----------------------------------------------------------------------------
(* The types *)

\* What a thread may have been told.
Answers == [call : Calls \cup {NoCall}, code : {"none", "ok", "eio", "einval"}]

LEMMA AnswersTyped ==
  /\ Service!Nothing \in Answers
  /\ \A c \in Calls \cup {NoCall}, r \in {"ok", "eio", "einval"} : Service!Told(c, r) \in Answers
BY DEF Answers, NoCall, Service!Nothing, Service!Told

\* What the proofs above have no need to know: the values of the blocks, the results
\* and the count of the losses.
TypedInv ==
  /\ ServiceInv
  /\ content \in [0 .. (Size - 1) -> Values \cup {"erased", "torn"}]
  /\ result \in [Threads -> Answers]
  /\ losses \in 0 .. MaxLosses

\* Whichever thread is in a call, or none: the registers of every bank.
LEMMA BankTyped ==
  ASSUME QuietInv, NEW k \in Banks
  PROVE  /\ bank[k].keys \in 0 .. 3
         /\ {bank[k].locked, bank[k].prgm, bank[k].pgers, bank[k].error, bank[k].job.busy}
              \subseteq BOOLEAN
<1>1. bank[k] \in Bank /\ bank[k].keys \in 0 .. 3
  <2>1. CASE bank[k] = ResetBank
    BY <2>1, ResetRegs DEF Regs, Bank
  <2>2. CASE bank[k] # ResetBank
    <3>1. PICK t \in Threads : Active(t) /\ k = ItemBank(t)
      BY <2>2 DEF QuietInv, QuietBetweenCalls, Active
    <3>2. Stage(pc[t], bank[k]) /\ bank[k] \in Bank
      BY <3>1, InCall
    <3>3. bank[k].keys \in {0, 1, 2}
      <4>1. \/ bank[k] = ResetBank \/ bank[k] = Regs(1, TRUE, FALSE, FALSE, FALSE, NoJob)
            \/ bank[k] = Regs(2, FALSE, FALSE, FALSE, FALSE, NoJob) \/ Open(bank[k])
        BY <3>2 DEF Stage
      <4>2. CASE Open(bank[k])
        <5>1. PICK p \in BOOLEAN, q \in BOOLEAN, e \in BOOLEAN, j \in Jobs :
                bank[k] = Regs(2, FALSE, p, q, e, j)
          BY <4>2 DEF Open
        <5>. QED
          BY <5>1 DEF Regs
      <4>. QED
        BY <4>1, <4>2, ResetRegs DEF Regs
    <3>. QED
      BY <3>2, <3>3
  <2>. QED
    BY <2>1, <2>2
<1>2. /\ bank[k].locked \in BOOLEAN /\ bank[k].prgm \in BOOLEAN /\ bank[k].pgers \in BOOLEAN
      /\ bank[k].error \in BOOLEAN
  BY <1>1 DEF Bank
<1>3. bank[k].job.busy \in BOOLEAN
  <2>1. bank[k].job \in Jobs
    BY <1>1 DEF Bank
  <2>2. CASE bank[k].job = NoJob
    <3>1. bank[k].job.busy = FALSE
      BY <2>2 DEF NoJob
    <3>. QED
      BY <3>1
  <2>3. CASE bank[k].job # NoJob
    <3>1. bank[k].job.busy = TRUE
      BY <2>1, <2>3 DEF Jobs
    <3>. QED
      BY <3>1
  <2>. QED
    BY <2>2, <2>3
<1>. QED
  BY <1>1, <1>2, <1>3

\* A step of a thread leaves the blocks alone and returns a code of the list.
LEMMA ThreadTyped ==
  ASSUME TypedInv, NEW t \in Threads, Step(t) \/ \E c \in Calls : Begin(t, c)
  PROVE  /\ UNCHANGED <<content, losses>>
         /\ result' \in [Threads -> Answers]
<1>1. result \in [Threads -> Answers] /\ rc[t] \in {"ok", "eio"}
      /\ call[t] \in Calls \cup {NoCall}
  BY DEF TypedInv, ServiceInv, QuietInv
<1>2. CASE \E c \in Calls : Begin(t, c)
  <2>1. PICK c \in Calls : Begin(t, c)
    BY <1>2
  <2>2. \/ result' = [result EXCEPT ![t] = Service!Nothing]
        \/ \E r \in {"ok", "einval"} : result' = [result EXCEPT ![t] = Service!Told(c, r)]
    BY <2>1 DEF Begin
  <2>3. UNCHANGED <<content, losses>>
    BY <2>1 DEF Begin
  <2>. QED
    BY <1>1, <2>2, <2>3, AnswersTyped
<1>3. CASE Step(t)
  <2>1. UNCHANGED <<content, losses>>
    BY <1>3 DEF Step, Key1, Key2, LockTest, Status, Await, NextPage, Start, EndStatus,
                EndAwait, End
  <2>2. UNCHANGED result \/ \E r \in {"ok", "eio"} : Finish(t, r)
    BY <1>1, <1>3 DEF Step, Key1, Key2, LockTest, Status, StatusBefore, Await, AwaitBefore,
                      NextPage, Start, EndStatus, EndAwait, End
  <2>3. ASSUME NEW r \in {"ok", "eio"}, Finish(t, r)
        PROVE  result' = [result EXCEPT ![t] = Service!Told(call[t], r)]
    BY <2>3 DEF Finish
  <2>. QED
    BY <1>1, <2>1, <2>2, <2>3, AnswersTyped
<1>. QED
  BY <1>2, <1>3

\* A finished item leaves the value of its call, or erased blocks.
LEMMA CompleteTyped ==
  ASSUME TypedInv, NEW k \in Banks, Complete(k)
  PROVE  /\ UNCHANGED <<result, losses>>
         /\ content' \in [0 .. (Size - 1) -> Values \cup {"erased", "torn"}]
<1>1. bank[k].job.busy /\ UNCHANGED <<result, losses>>
  BY DEF Complete
<1>2. PICK t \in Threads : /\ Active(t) /\ bank[k].job.refused = FALSE
                           /\ bank[k].job.call = call[t] /\ bank[k].job.item = item[t]
  BY <1>1, AtWork DEF TypedInv
<1>3. call[t].value \in Values
  BY <1>2, CallsAssumption DEF TypedInv, ServiceInv, QuietInv
<1>4. content' = Service!Worked(content, call[t], item[t] + 1)
  BY <1>2 DEF Complete
<1>. QED
  BY <1>1, <1>3, <1>4 DEF TypedInv, Service!Worked, Service!Blocks

\* Every variable of Flash keeps its type, whatever the calls: a thread works on an
\* item of its range, a bank's registers hold what the hardware can, and the blocks
\* what was written, nothing or a half-done write (flash_at32_write,
\* flash_at32_erase, under the same conditions).
THEOREM TypeCorrect ==
  ASSUME Hazards = {}
  PROVE  Spec => []TypeOK
<1>1. Init => TypedInv
  <2> SUFFICES ASSUME Init PROVE TypedInv
    OBVIOUS
  <2>1. ServiceInv
    <3>1. QuietInv
      BY InitQuiet
    <3>. QED
      BY <3>1 DEF Init, ServiceInv, Active, Progress
  <2>. QED
    BY <2>1, SplitAssumption, AnswersTyped DEF Init, TypedInv
<1>2. TypedInv /\ [Next]_vars => TypedInv'
  <2> SUFFICES ASSUME TypedInv, [Next]_vars
               PROVE  TypedInv'
    OBVIOUS
  <2>1. ServiceInv'
    BY ServiceStep DEF TypedInv
  <2>2. CASE \E t \in Threads : Step(t) \/ \E c \in Calls : Begin(t, c)
    BY <2>1, <2>2, ThreadTyped DEF TypedInv
  <2>3. CASE \E k \in Banks : Complete(k)
    BY <2>1, <2>3, CompleteTyped DEF TypedInv
  <2>4. CASE PowerLoss
    <3>1. losses' \in 0 .. MaxLosses
      BY <2>4, SplitAssumption DEF PowerLoss, TypedInv
    <3>2. result' \in [Threads -> Answers]
      BY <2>4, AnswersTyped DEF PowerLoss
    <3>3. content' \in [0 .. (Size - 1) -> Values \cup {"erased", "torn"}]
      BY <2>4 DEF PowerLoss, TypedInv
    <3>. QED
      BY <2>1, <3>1, <3>2, <3>3 DEF TypedInv
  <2>5. CASE UNCHANGED vars
    BY <2>1, <2>5 DEF vars, TypedInv
  <2>. QED
    BY <2>2, <2>3, <2>4, <2>5 DEF Next
<1>3. TypedInv => TypeOK
  <2> SUFFICES ASSUME TypedInv PROVE TypeOK
    OBVIOUS
  <2>1. ServiceInv /\ QuietInv
    BY DEF TypedInv, ServiceInv
  <2>2. ASSUME NEW t \in Threads, pc[t] # "idle"
        PROVE  item[t] \in 0 .. (Service!Items(call[t]) - 1)
    <3>1. call[t] \in Calls /\ InRange(call[t], item[t])
      BY <2>1, <2>2 DEF ServiceInv, QuietInv, Active
    <3>2. LastItem(call[t]) \in Int /\ Service!Items(call[t]) - 1 = LastItem(call[t])
      BY <3>1, ItemsCounted DEF InRange
    <3>. QED
      BY <3>1, <3>2 DEF InRange
  <2>3. \A k \in Banks :
          /\ bank[k].keys \in 0 .. 3
          /\ {bank[k].locked, bank[k].prgm, bank[k].pgers, bank[k].error, bank[k].job.busy}
               \subseteq BOOLEAN
    BY <2>1, BankTyped
  <2>. QED
    BY <2>1, <2>2, <2>3 DEF TypedInv, QuietInv, Places, Answers, TypeOK
<1>. QED
  BY <1>1, <1>2, <1>3, PTL DEF Spec
=============================================================================
