------------------------------ MODULE I2cMaster ------------------------------
(***************************************************************************)
(* The interrupt-driven master transfers of drivers/i2c/i2c_at32.c for the *)
(* V2 peripheral (compatible artery,at32-i2c, CONFIG_I2C_AT32_INTERRUPT).  *)
(*                                                                         *)
(* Threads call i2c_at32_transfer and i2c_at32_configure.  They serialise  *)
(* on bus_mutex, program the controller one chunk at a time and sleep on   *)
(* sync_sem until the event or the error interrupt gives it, or 500 ms     *)
(* pass.  The two interrupts have the same NVIC priority, so neither       *)
(* handler preempts the other and each handler is one action; a thread is  *)
(* preempted between any two of its actions.                               *)
(*                                                                         *)
(* The controller itself (ExtAddrAck ... ExtBusError) is not in the        *)
(* repository: it is modelled from how the handlers use its flags.         *)
(***************************************************************************)
EXTENDS Integers, Sequences

CONSTANTS
  Threads,    (* the threads that use the bus                              *)
  NoThread,   (* current.msg is NULL                                       *)
  Plans,      (* the message arrays a caller may pass to i2c_transfer      *)
  MaxChunk,   (* i2c_at32_maxchunk: bytes one programming can move (255)   *)
  SemLimit,   (* K_SEM_MAX_LIMIT                                           *)
  Faults,     (* what the bus may do wrong: "nack", "arlo", "buserr"       *)
  LateIrq     (* may interrupts overlap each other and a fired timeout?    *)

Message == [read: BOOLEAN, stop: BOOLEAN, restart: BOOLEAN, len: Nat]

ASSUME ThreadAssumption  == NoThread \notin Threads
ASSUME PlansAssumption   == Plans \subseteq Seq(Message) \ {<<>>}
ASSUME ChunkAssumption   == MaxChunk \in Nat \ {0}
ASSUME SemAssumption     == SemLimit \in Nat \ {0}
ASSUME FaultsAssumption  == Faults \subseteq {"nack", "arlo", "buserr"}
ASSUME LateIrqAssumption == LateIrq \in BOOLEAN

VARIABLES
  \* i2c_at32_data and the power-management lock
  bus_mutex,   (* count of the bus_mutex semaphore                         *)
  sync_sem,    (* count of the sync_sem semaphore                          *)
  pm_locks,    (* PM_STATE_SUSPEND_TO_IDLE locks held by the driver        *)
  current,     (* data->current: whose msg, len, !is_write, msg->flags & STOP  *)
  is_nack, is_err, is_arlo,
  \* the threads: locals of i2c_at32_transfer and at32_i2c_transaction
  pc,
  todo,        (* the messages from `current` to the end of the array      *)
  rest,        (* bytes of the head message not yet acknowledged           *)
  is_timeout,
  ret,
  \* the controller
  ie,          (* enabled interrupts: "ctl", "td", "rd"                    *)
  rlden,       (* reload mode                                              *)
  cnt,         (* bytes the controller will still ask for                  *)
  reading,     (* the direction bit                                        *)
  bus,         (* what the controller does on the wire                     *)
  flags,       (* status flags                                             *)
  pend,        (* interrupts latched pending by the NVIC                   *)
  \* history
  left         (* bytes of a thread's message that have not crossed the wire *)

driver  == <<bus_mutex, sync_sem, pm_locks, current, is_nack, is_err, is_arlo>>
locals  == <<pc, todo, rest, is_timeout, ret>>
chip    == <<ie, rlden, cnt, reading, bus, flags, pend>>
vars    == <<driver, locals, chip, left>>

MinOf(a, b) == IF a <= b THEN a ELSE b

\* k_sem_give: the count saturates at the limit.
Given(count) == IF count < SemLimit THEN count + 1 ELSE count

-----------------------------------------------------------------------------
(* The message array. *)

\* What the validation loop of i2c_at32_transfer tests: it never advances `current`,
\* so it compares the first two messages in every round.
Malformed(p) ==
  /\ Len(p) > 1
  /\ \/ p[1].read # p[2].read /\ ~p[2].restart
     \/ p[1].stop

\* The chunk at32_i2c_transaction cuts from the head message of thread t.
Chunk(t)     == MinOf(rest[t], MaxChunk)
LastChunk(t) == rest[t] <= MaxChunk
ChunkStop(t) == LastChunk(t) /\ Head(todo[t]).stop

\* Seeded fault: the RESTART flag of the next message is not looked at.
NextContinuesAlways(t) == ~LastChunk(t) \/ Len(todo[t]) > 1

\* The flags word behind flagsp lets the message go on under reload.
NextContinues(t) ==
  IF LastChunk(t) THEN Len(todo[t]) > 1 /\ ~todo[t][2].restart ELSE TRUE

-----------------------------------------------------------------------------
(* Where a thread is.                                                      *)
(*   idle      outside the driver                                          *)
(*   lock      waiting for bus_mutex in i2c_at32_transfer                  *)
(*   setup     at the head of the loop of at32_i2c_transaction             *)
(*   enable    msg_init done, transfer interrupts still off                *)
(*   arm       about to enable the data interrupt                          *)
(*   wait      in k_sem_take(sync_sem, 500 ms)                             *)
(*   timedout  that take failed, at32_i2c_master_mode_end not yet entered  *)
(*   drain     in k_sem_take(sync_sem, K_FOREVER)                          *)
(*   check     looking at is_nack, is_err, is_arlo, is_timeout             *)
(*   release   after the message loop                                      *)
(*   cfglock, cfg   waiting for, holding bus_mutex in i2c_at32_configure   *)

InMsg      == {"enable", "arm", "wait", "timedout", "drain", "check"}
InTransfer == InMsg \cup {"setup", "release"}
Holding    == InTransfer \cup {"cfg"}
Labels     == Holding \cup {"idle", "lock", "cfglock"}

\* The stack frame that current.msg points into still exists.
FrameLive == current.owner # NoThread /\ pc[current.owner] \in InMsg

Goto(t, label) == pc' = [pc EXCEPT ![t] = label]

EventFlags == {"TDBE", "RDBF", "ACKFAIL", "STOPF", "TDC", "TCRLD"}
ErrorFlags == {"ARLOST", "BUSERR"}

EventLine ==
  \/ "ctl" \in ie /\ flags \cap {"ACKFAIL", "STOPF", "TDC", "TCRLD"} # {}
  \/ "td" \in ie /\ "TDBE" \in flags
  \/ "rd" \in ie /\ "RDBF" \in flags

ErrorLine == "ctl" \in ie /\ flags \cap ErrorFlags # {}

\* One core: an asserted or latched interrupt is handled before any thread runs.
ThreadsRun == ~EventLine /\ ~ErrorLine /\ pend = {}

Init ==
  /\ bus_mutex = 1
  /\ sync_sem = 0
  /\ pm_locks = 0
  /\ current = [owner |-> NoThread, len |-> 0, read |-> FALSE, stop |-> FALSE]
  /\ is_nack = FALSE /\ is_err = FALSE /\ is_arlo = FALSE
  /\ pc = [t \in Threads |-> "idle"]
  /\ todo = [t \in Threads |-> <<>>]
  /\ rest = [t \in Threads |-> 0]
  /\ is_timeout = [t \in Threads |-> FALSE]
  /\ ret = [t \in Threads |-> "none"]
  /\ ie = {} /\ rlden = FALSE /\ cnt = 0 /\ reading = FALSE
  /\ bus = "off" /\ flags = {} /\ pend = {}
  /\ left = [t \in Threads |-> 0]

-----------------------------------------------------------------------------
(* i2c_at32_transfer *)

\* Entry: the first message is made a RESTART and the array is validated.  The
\* loop sets ret and leaves the loop, but not the function.
Submit(t, p) ==
  /\ pc[t] = "idle"
  /\ Goto(t, "lock")
  /\ todo' = [todo EXCEPT ![t] = [p EXCEPT ![1].restart = TRUE]]
  /\ rest' = [rest EXCEPT ![t] = p[1].len]
  /\ ret' = [ret EXCEPT ![t] = IF Malformed(p) THEN "einval" ELSE "ok"]
  /\ left' = [left EXCEPT ![t] = p[1].len]
  /\ UNCHANGED <<driver, chip, is_timeout>>

TakeBus(t) ==
  /\ pc[t] = "lock"
  /\ bus_mutex > 0
  /\ bus_mutex' = bus_mutex - 1
  /\ pm_locks' = pm_locks + 1
  /\ Goto(t, "setup")
  /\ UNCHANGED <<sync_sem, current, is_nack, is_err, is_arlo, todo, rest,
                 is_timeout, ret, chip, left>>

\* The power lock and the bus are given back; with CONFIG_PM_DEVICE_RUNTIME also the
\* device, whose clock no property is about.
Release(t) ==
  /\ pc[t] = "release"
  /\ pm_locks' = pm_locks - 1
  /\ bus_mutex' = MinOf(bus_mutex + 1, 1)
  /\ Goto(t, "idle")
  /\ todo' = [todo EXCEPT ![t] = <<>>]
  /\ rest' = [rest EXCEPT ![t] = 0]
  /\ left' = [left EXCEPT ![t] = 0]
  /\ UNCHANGED <<sync_sem, current, is_nack, is_err, is_arlo, is_timeout, ret,
                 chip>>

-----------------------------------------------------------------------------
(* at32_i2c_msg_write, at32_i2c_msg_read: program the chunk and wait. *)

\* msg_init: under reload only the count is set, otherwise a START is sent.
MsgInit(t) ==
  /\ cnt' = Chunk(t)
  /\ \/ /\ rlden
        /\ bus' = IF "TCRLD" \in flags THEN "data" ELSE bus
        /\ flags' = flags \ {"TCRLD"}
        /\ UNCHANGED <<rlden, reading>>
     \/ /\ ~rlden
        /\ rlden' = (~ChunkStop(t) /\ NextContinues(t))
        /\ reading' = Head(todo[t]).read
        /\ bus' = "addr"
        /\ flags' = flags \ {"TDC", "TCRLD"}

StartChunk(t) ==
  /\ pc[t] = "setup"
  /\ current' = [owner |-> t, len |-> Chunk(t), read |-> Head(todo[t]).read,
                 stop |-> ChunkStop(t)]
  /\ is_nack' = FALSE /\ is_err' = FALSE
  /\ is_arlo' = (is_arlo /\ ~Head(todo[t]).read)   \* a write keeps is_arlo
  /\ is_timeout' = [is_timeout EXCEPT ![t] = FALSE]
  /\ MsgInit(t)
  /\ Goto(t, "enable")
  /\ UNCHANGED <<bus_mutex, sync_sem, pm_locks, todo, rest, ret, ie, pend, left>>

EnableTransfer(t) ==
  /\ pc[t] = "enable"
  /\ ie' = ie \cup {"ctl"}
  /\ Goto(t, "arm")
  /\ UNCHANGED <<driver, todo, rest, is_timeout, ret, rlden, cnt, reading, bus,
                 flags, pend, left>>

EnableData(t) ==
  /\ pc[t] = "arm"
  /\ ie' = ie \cup {IF Head(todo[t]).read THEN "rd" ELSE "td"}
  /\ Goto(t, "wait")
  /\ UNCHANGED <<driver, todo, rest, is_timeout, ret, rlden, cnt, reading, bus,
                 flags, pend, left>>

TakeSync(t) ==
  /\ pc[t] = "wait"
  /\ sync_sem > 0
  /\ sync_sem' = sync_sem - 1
  /\ Goto(t, "check")
  /\ UNCHANGED <<bus_mutex, pm_locks, current, is_nack, is_err, is_arlo, todo,
                 rest, is_timeout, ret, chip, left>>

\* 500 ms passed and nobody gave the semaphore.
TimeOut(t) ==
  /\ pc[t] = "wait"
  /\ sync_sem = 0
  /\ Goto(t, "timedout")
  /\ UNCHANGED <<driver, todo, rest, is_timeout, ret, chip, left>>

-----------------------------------------------------------------------------
\* Seeded fault: the give forgotten.
MasterModeEndSilent ==
  /\ ie' = {} /\ rlden' = FALSE /\ bus' = "off" /\ flags' = {}
  /\ UNCHANGED <<sync_sem, cnt, reading>>

(* at32_i2c_master_mode_end: interrupts off, reload off, peripheral off --  *)
(* which clears its flags -- and one give.                                  *)
MasterModeEnd ==
  /\ ie' = {}
  /\ rlden' = FALSE
  /\ bus' = "off"
  /\ flags' = {}
  /\ sync_sem' = Given(sync_sem)
  /\ UNCHANGED <<cnt, reading>>

EndOnTimeout(t) ==
  /\ pc[t] = "timedout"
  /\ MasterModeEnd
  /\ Goto(t, "drain")
  /\ UNCHANGED <<bus_mutex, pm_locks, current, is_nack, is_err, is_arlo, todo,
                 rest, is_timeout, ret, pend, left>>

\* The second take, K_FOREVER.
Drain(t) ==
  /\ pc[t] = "drain"
  /\ sync_sem > 0
  /\ sync_sem' = sync_sem - 1
  /\ is_timeout' = [is_timeout EXCEPT ![t] = TRUE]
  /\ Goto(t, "check")
  /\ UNCHANGED <<bus_mutex, pm_locks, current, is_nack, is_err, is_arlo, todo,
                 rest, ret, chip, left>>

\* Seeded faults: one outcome is not looked at.
FailedUnlessTimeout(t) == is_nack \/ is_err \/ is_arlo
FailedUnlessError(t)   == is_nack \/ is_arlo \/ is_timeout[t]

Failed(t) == is_nack \/ is_err \/ is_arlo \/ is_timeout[t]

\* Seeded fault: an error returns at once and leaves the clocks locked.
FailReturning(t) ==
  /\ pc[t] = "check"
  /\ Failed(t)
  /\ is_nack' = FALSE /\ is_err' = FALSE /\ is_arlo' = FALSE
  /\ ret' = [ret EXCEPT ![t] = "eio"]
  /\ bus_mutex' = 1
  /\ Goto(t, "idle")
  /\ UNCHANGED <<sync_sem, pm_locks, current, todo, rest, is_timeout, chip, left>>

\* The error label: clear what was seen, return -EIO, leave both loops.
Fail(t) ==
  /\ pc[t] = "check"
  /\ Failed(t)
  /\ is_nack' = FALSE /\ is_err' = FALSE /\ is_arlo' = FALSE
  /\ ret' = [ret EXCEPT ![t] = "eio"]
  /\ Goto(t, "release")
  /\ UNCHANGED <<bus_mutex, sync_sem, pm_locks, current, todo, rest, is_timeout,
                 chip, left>>

\* Return 0: the next chunk, the next message, or the end of the array.
Advance(t) ==
  /\ pc[t] = "check"
  /\ ~Failed(t)
  /\ ret' = [ret EXCEPT ![t] = "ok"]
  /\ \/ /\ ~LastChunk(t)
        /\ rest' = [rest EXCEPT ![t] = @ - Chunk(t)]
        /\ Goto(t, "setup")
        /\ UNCHANGED <<todo, left>>
     \/ /\ LastChunk(t)
        /\ Len(todo[t]) > 1
        /\ todo' = [todo EXCEPT ![t] = Tail(@)]
        /\ rest' = [rest EXCEPT ![t] = todo[t][2].len]
        /\ left' = [left EXCEPT ![t] = todo[t][2].len]
        /\ Goto(t, "setup")
     \/ /\ LastChunk(t)
        /\ Len(todo[t]) = 1
        /\ Goto(t, "release")
        /\ UNCHANGED <<todo, rest, left>>
  /\ UNCHANGED <<driver, is_timeout, chip>>

-----------------------------------------------------------------------------
(* i2c_at32_configure: reset the controller under bus_mutex. *)

Reconfigure(t) ==
  /\ pc[t] = "idle"
  /\ Goto(t, "cfglock")
  /\ UNCHANGED <<driver, todo, rest, is_timeout, ret, chip, left>>

\* Seeded fault: the controller is reset without waiting for the bus.
TakeBusToConfigureAnyway(t) ==
  /\ pc[t] = "cfglock"
  /\ Goto(t, "cfg")
  /\ UNCHANGED <<driver, todo, rest, is_timeout, ret, chip, left>>

TakeBusToConfigure(t) ==
  /\ pc[t] = "cfglock"
  /\ bus_mutex > 0
  /\ bus_mutex' = bus_mutex - 1
  /\ Goto(t, "cfg")
  /\ UNCHANGED <<sync_sem, pm_locks, current, is_nack, is_err, is_arlo, todo,
                 rest, is_timeout, ret, chip, left>>

ApplyConfiguration(t) ==
  /\ pc[t] = "cfg"
  /\ ie' = {} /\ rlden' = FALSE /\ cnt' = 0 /\ reading' = FALSE
  /\ bus' = "off" /\ flags' = {}
  /\ bus_mutex' = MinOf(bus_mutex + 1, 1)
  /\ ret' = [ret EXCEPT ![t] = "ok"]
  /\ Goto(t, "idle")
  /\ UNCHANGED <<sync_sem, pm_locks, current, is_nack, is_err, is_arlo, todo,
                 rest, is_timeout, pend, left>>

-----------------------------------------------------------------------------
(* The interrupt handlers.  A line that is asserted while the other        *)
(* handler runs stays latched in the NVIC when that handler masks it.      *)

\* The data part of at32_i2c_event: the byte the flags ask for moves, and
\* buf and len advance whether or not one did.
DataFlags    == flags \cap {"TDBE", "RDBF"}
Served       == IF current.len > 0 THEN DataFlags ELSE {}
ByteCrossed  == Served # {} /\ current.read = reading

\* Seeded fault: len is counted down without if (data->current.len).
ServeDataUnguarded ==
  /\ current' = [current EXCEPT !.len = @ - 1]
  /\ left' = [t \in Threads |->
                IF ByteCrossed /\ t = current.owner /\ left[t] > 0
                THEN left[t] - 1 ELSE left[t]]

ServeData ==
  /\ current' = [current EXCEPT !.len = IF @ > 0 THEN @ - 1 ELSE 0]
  /\ left' = [t \in Threads |->
                IF ByteCrossed /\ t = current.owner /\ left[t] > 0
                THEN left[t] - 1 ELSE left[t]]

\* msg->flags & I2C_MSG_STOP; anything, when the stack frame has gone.
StopWanted == IF FrameLive THEN {current.stop} ELSE BOOLEAN

\* Seeded fault: a NACK wakes the caller before the STOP condition is out.
OnNackEarly(f) ==
  /\ "ACKFAIL" \in f
  /\ is_nack' = TRUE
  /\ flags' = f \ {"ACKFAIL"}
  /\ bus' = "stop"
  /\ sync_sem' = Given(sync_sem)
  /\ UNCHANGED <<ie, rlden, cnt, reading>>

OnNack(f) ==
  /\ "ACKFAIL" \in f
  /\ is_nack' = TRUE
  /\ flags' = f \ {"ACKFAIL"}
  /\ bus' = "stop"
  /\ UNCHANGED <<sync_sem, ie, rlden, cnt, reading>>

OnStop(f) ==
  /\ "ACKFAIL" \notin f
  /\ "STOPF" \in f
  /\ MasterModeEnd
  /\ UNCHANGED is_nack

\* Seeded fault: the interrupts stay enabled when the caller is woken.
OnCompleteArmed(f) ==
  /\ f \cap {"ACKFAIL", "STOPF"} = {}
  /\ f \cap {"TDC", "TCRLD"} # {}
  /\ \/ /\ TRUE \in StopWanted
        /\ bus' = "stop"
        /\ flags' = f \ {"TDC", "TCRLD"}
        /\ UNCHANGED sync_sem
     \/ /\ FALSE \in StopWanted
        /\ sync_sem' = Given(sync_sem)
        /\ flags' = f
        /\ UNCHANGED bus
  /\ UNCHANGED <<is_nack, ie, rlden, cnt, reading>>

OnComplete(f) ==
  /\ f \cap {"ACKFAIL", "STOPF"} = {}
  /\ f \cap {"TDC", "TCRLD"} # {}
  /\ \/ /\ TRUE \in StopWanted
        /\ bus' = "stop"
        /\ flags' = f \ {"TDC", "TCRLD"}
        /\ UNCHANGED <<sync_sem, ie>>
     \/ /\ FALSE \in StopWanted
        /\ ie' = {}
        /\ sync_sem' = Given(sync_sem)
        /\ flags' = f
        /\ UNCHANGED bus
  /\ UNCHANGED <<is_nack, rlden, cnt, reading>>

OnDataOnly(f) ==
  /\ f \cap {"ACKFAIL", "STOPF", "TDC", "TCRLD"} = {}
  /\ flags' = f
  /\ UNCHANGED <<is_nack, sync_sem, ie, rlden, cnt, reading, bus>>

EventIsr ==
  /\ EventLine \/ "event" \in pend
  /\ pend' = (pend \ {"event"}) \cup (IF ErrorLine THEN {"error"} ELSE {})
  /\ ServeData
  /\ LET f == flags \ Served
     IN  OnNack(f) \/ OnStop(f) \/ OnComplete(f) \/ OnDataOnly(f)
  /\ UNCHANGED <<bus_mutex, pm_locks, is_err, is_arlo, locals>>

ErrorIsr ==
  /\ ErrorLine \/ "error" \in pend
  /\ pend' = (pend \ {"error"}) \cup (IF EventLine THEN {"event"} ELSE {})
  /\ \/ /\ "ARLOST" \in flags
        /\ is_arlo' = TRUE
        /\ MasterModeEnd
        /\ UNCHANGED is_err
     \/ /\ "ARLOST" \notin flags
        /\ "BUSERR" \in flags
        /\ is_err' = TRUE
        /\ MasterModeEnd
        /\ UNCHANGED is_arlo
     \/ /\ flags \cap ErrorFlags = {}
        /\ UNCHANGED <<is_arlo, is_err, sync_sem, ie, rlden, cnt, reading, bus,
                       flags>>
  /\ UNCHANGED <<bus_mutex, pm_locks, current, is_nack, locals, left>>

-----------------------------------------------------------------------------
(* The controller on the wire (external). *)

ExtOnly == UNCHANGED <<driver, locals, ie, rlden, reading, pend, left>>

ExtAddrAck ==
  /\ bus = "addr"
  /\ bus' = "data"
  /\ UNCHANGED <<cnt, flags>>
  /\ ExtOnly

\* The target does not acknowledge its address, or a byte written to it.
ExtNack ==
  /\ "nack" \in Faults
  /\ bus = "addr" \/ (bus = "data" /\ ~reading /\ "TDBE" \notin flags)
  /\ bus' = "held"
  /\ flags' = flags \cup {"ACKFAIL"}
  /\ UNCHANGED cnt
  /\ ExtOnly

\* The controller wants the next byte to send, or has received one.
ExtByte ==
  /\ bus = "data"
  /\ cnt > 0
  /\ DataFlags = {}
  /\ flags' = flags \cup {IF reading THEN "RDBF" ELSE "TDBE"}
  /\ cnt' = cnt - 1
  /\ UNCHANGED bus
  /\ ExtOnly

ExtCountDone ==
  /\ bus = "data"
  /\ cnt = 0
  /\ DataFlags = {}
  /\ flags' = flags \cup {IF rlden THEN "TCRLD" ELSE "TDC"}
  /\ bus' = "held"
  /\ UNCHANGED cnt
  /\ ExtOnly

ExtStopDone ==
  /\ bus = "stop"
  /\ bus' = "idle"
  /\ flags' = flags \cup {"STOPF"}
  /\ UNCHANGED cnt
  /\ ExtOnly

\* Without LateIrq a fault is raised only while no other flag is up.
ExtArbitrationLost ==
  /\ "arlo" \in Faults
  /\ bus \in {"addr", "data"}
  /\ LateIrq \/ flags = {}
  /\ bus' = "lost"
  /\ flags' = flags \cup {"ARLOST"}
  /\ UNCHANGED cnt
  /\ ExtOnly

ExtBusError ==
  /\ "buserr" \in Faults
  /\ bus \in {"addr", "data", "held", "stop"}
  /\ LateIrq \/ flags = {}
  /\ bus' = "lost"
  /\ flags' = flags \cup {"BUSERR"}
  /\ UNCHANGED cnt
  /\ ExtOnly

-----------------------------------------------------------------------------
InCall(t) ==
  /\ ThreadsRun
  /\ \/ TakeBus(t) \/ StartChunk(t) \/ EnableTransfer(t) \/ EnableData(t)
     \/ TakeSync(t) \/ TimeOut(t) \/ EndOnTimeout(t) \/ Drain(t)
     \/ Fail(t) \/ Advance(t) \/ Release(t)
     \/ TakeBusToConfigure(t) \/ ApplyConfiguration(t)

Enter(t) ==
  /\ ThreadsRun
  /\ Reconfigure(t) \/ \E p \in Plans : Submit(t, p)

\* Without LateIrq the controller stays silent between a timeout and the
\* disabling of its interrupts.
Controller ==
  /\ LateIrq \/ \A t \in Threads : pc[t] # "timedout"
  /\ \/ ExtAddrAck \/ ExtNack \/ ExtByte \/ ExtCountDone \/ ExtStopDone
     \/ ExtArbitrationLost \/ ExtBusError

Next ==
  \/ \E t \in Threads : InCall(t) \/ Enter(t)
  \/ EventIsr
  \/ ErrorIsr
  \/ Controller

Spec == Init /\ [][Next]_vars

\* The NVIC delivers an asserted interrupt and the scheduler runs every ready
\* thread in the end; nothing is assumed of the bus or of callers.
FairSpec ==
  /\ Spec
  /\ WF_vars(EventIsr) /\ WF_vars(ErrorIsr)
  /\ \A t \in Threads : WF_vars(InCall(t))

-----------------------------------------------------------------------------
(* Properties *)

\* Every variable keeps its C type; the semaphores stay within their limits.
TypeOK ==
  /\ bus_mutex \in {0, 1}
  /\ sync_sem \in 0 .. SemLimit
  /\ pm_locks \in Int
  /\ current \in [owner: Threads \cup {NoThread}, len: Nat, read: BOOLEAN,
                  stop: BOOLEAN]
  /\ is_nack \in BOOLEAN /\ is_err \in BOOLEAN /\ is_arlo \in BOOLEAN
  /\ pc \in [Threads -> Labels]
  /\ todo \in [Threads -> Seq(Message)]
  /\ rest \in [Threads -> Nat]
  /\ is_timeout \in [Threads -> BOOLEAN]
  /\ ret \in [Threads -> {"none", "ok", "eio", "einval"}]
  /\ ie \subseteq {"ctl", "td", "rd"}
  /\ rlden \in BOOLEAN
  /\ cnt \in Nat
  /\ reading \in BOOLEAN
  /\ bus \in {"off", "addr", "data", "held", "stop", "idle", "lost"}
  /\ flags \subseteq EventFlags \cup ErrorFlags
  /\ pend \subseteq {"event", "error"}
  /\ left \in [Threads -> Nat]

\* i2c_at32_transfer and i2c_at32_configure keep bus_mutex around everything
\* they do to the controller: no two threads are inside, and the semaphore is
\* free exactly when none is.
BusExclusive ==
  /\ \A t, u \in Threads : pc[t] \in Holding /\ pc[u] \in Holding => t = u
  /\ bus_mutex = 0 <=> \E t \in Threads : pc[t] \in Holding

\* Every path out of i2c_at32_transfer, error paths included, gives back the
\* power-management lock it took, and no other.
PmBalanced ==
  pm_locks = IF \E t \in Threads : pc[t] \in InTransfer THEN 1 ELSE 0

\* The take with K_FOREVER that follows a timeout always finds the give of
\* at32_i2c_master_mode_end, however the interrupts raced with the timeout.
DrainNeverBlocks == \A t \in Threads : pc[t] = "drain" => sync_sem > 0

\* A thread that got the bus returns from the call, whatever the bus does.
CallReturns ==
  \A t \in Threads : pc[t] \in Holding ~> pc[t] = "idle"

\* A handler that is about to run finds current.msg and current.buf pointing
\* into the frame of a thread that is still in the message call.
IsrOwnsCurrent == EventLine \/ ErrorLine \/ pend # {} => FrameLive

\* A message with I2C_MSG_RESTART goes out after a START, in its own direction.
RestartHonoured ==
  [][\A t \in Threads :
       /\ pc[t] = "setup" /\ pc'[t] = "enable"
       /\ Head(todo[t]).restart /\ rest[t] = Head(todo[t]).len
       => bus' = "addr" /\ reading' = Head(todo[t]).read]_vars

\* A message is reported as done, and the transfer moves on or returns 0, only
\* when every byte of it has crossed the wire.
SuccessMeansDone ==
  [][\A t \in Threads :
       pc[t] = "check" /\ LastChunk(t) /\ pc'[t] # "check" /\ ret'[t] = "ok"
       => left[t] = 0]_vars

\* The driver implements I2cService: one request at a time, no success with
\* bytes left.  A reconfiguration is a request without bytes.
Stage(t) ==
  CASE pc[t] = "idle"               -> "idle"
    [] pc[t] \in {"lock", "cfglock"} -> "waiting"
    [] OTHER                        -> "serving"

Service ==
  INSTANCE I2cService WITH
    stage  <- [t \in Threads |-> Stage(t)],
    result <- [t \in Threads |-> IF pc[t] = "idle" THEN ret[t] ELSE "pending"]

ImplementsService == Service!ServiceSpec

=============================================================================
