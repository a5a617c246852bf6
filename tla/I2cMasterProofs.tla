--------------------------- MODULE I2cMasterProofs ---------------------------
(***************************************************************************)
(* Safety of I2cMaster for any set of threads, any message arrays, any     *)
(* chunk size and with every fault and interrupt race: type correctness,   *)
(* exclusive use of the bus, balance of the power-management lock, and     *)
(* that the K_FOREVER take after a timeout never blocks.  Where no         *)
(* interrupt is late and the arrays are Orderly: the bytes a call reports  *)
(* as moved have moved, a RESTART comes where it was asked for, handlers   *)
(* see only live messages, and the whole implements I2cService.            *)
(***************************************************************************)
EXTENDS I2cMaster, TLAPS

\* Inside a transfer there is a message to look at.
TodoOK ==
  \A t \in Threads : pc[t] \in InTransfer \cup {"lock"} => todo[t] # <<>>

TypeInv == TypeOK /\ TodoOK

-----------------------------------------------------------------------------
(* Messages and chunks. *)

\* The array of a plan, its first message made a RESTART, is again a non-empty
\* array of messages (i2c_at32_transfer's current->flags |= I2C_MSG_RESTART).
LEMMA FirstRestart ==
  ASSUME NEW p \in Plans
  PROVE  /\ [p EXCEPT ![1].restart = TRUE] \in Seq(Message)
         /\ [p EXCEPT ![1].restart = TRUE] # <<>>
         /\ p[1].len \in Nat
<1> DEFINE q == [p EXCEPT ![1].restart = TRUE]
<1>1. p \in Seq(Message) /\ p # <<>>
  BY PlansAssumption
<1>2. Len(p) \in Nat /\ Len(p) # 0 /\ p \in [1 .. Len(p) -> Message]
  BY <1>1
<1>3. p[1] \in Message
  BY <1>2
<1>4. [p[1] EXCEPT !.restart = TRUE] \in Message /\ p[1].len \in Nat
  BY <1>3 DEF Message
<1>5. q \in [1 .. Len(p) -> Message]
  BY <1>2, <1>4
<1>6. q \in Seq(Message) /\ Len(q) = Len(p)
  BY <1>2, <1>5
<1>7. q # <<>>
  BY <1>2, <1>6
<1>. QED
  BY <1>4, <1>6, <1>7

\* What the head of a non-empty array and the rest of it are.
LEMMA HeadTail ==
  ASSUME NEW q \in Seq(Message), q # <<>>
  PROVE  /\ Head(q) \in Message
         /\ Head(q).read \in BOOLEAN /\ Head(q).stop \in BOOLEAN
         /\ Tail(q) \in Seq(Message)
         /\ Len(q) > 1 => /\ Tail(q) # <<>>
                          /\ q[2] \in Message /\ q[2].len \in Nat
                          /\ q[2].restart \in BOOLEAN
<1>1. Len(q) \in Nat /\ Len(q) # 0 /\ q \in [1 .. Len(q) -> Message]
  OBVIOUS
<1>2. q[1] \in Message /\ Head(q) = q[1]
  BY <1>1
<1>3. Tail(q) \in Seq(Message) /\ Len(Tail(q)) = Len(q) - 1
  BY <1>1
<1>4. Len(q) > 1 => q[2] \in Message
  BY <1>1
<1>5. ASSUME Len(q) > 1, Tail(q) = <<>>
      PROVE  FALSE
  <2>1. Len(<<>>) = 0
    OBVIOUS
  <2>. QED
    BY <2>1, <1>1, <1>3, <1>5
<1>6. Len(q) > 1 => Tail(q) # <<>>
  BY <1>5
<1>. QED
  BY <1>2, <1>3, <1>4, <1>6 DEF Message

-----------------------------------------------------------------------------
(* Type correctness. *)

\* Every variable starts with a value of its type.
LEMMA TypeInit == Init => TypeInv
<1> SUFFICES ASSUME Init PROVE TypeInv
  OBVIOUS
<1> USE DEF Init
<1>1. sync_sem \in 0 .. SemLimit
  BY SemAssumption
<1>2. <<>> \in Seq(Message)
  OBVIOUS
<1>3. todo \in [Threads -> Seq(Message)]
  BY <1>2
<1>4. pc \in [Threads -> Labels]
  BY DEF InTransfer, InMsg, Labels, Holding
<1>6. current \in [owner: Threads \cup {NoThread}, len: Nat, read: BOOLEAN,
                   stop: BOOLEAN]
  OBVIOUS
<1>7. /\ rest \in [Threads -> Nat] /\ left \in [Threads -> Nat]
      /\ is_timeout \in [Threads -> BOOLEAN]
      /\ ret \in [Threads -> {"none", "ok", "eio", "einval"}]
  OBVIOUS
<1>8. pm_locks \in Int /\ cnt \in Nat /\ bus_mutex \in {0, 1}
  OBVIOUS
<1>9. /\ is_nack \in BOOLEAN /\ is_err \in BOOLEAN /\ is_arlo \in BOOLEAN
      /\ rlden \in BOOLEAN /\ reading \in BOOLEAN
  OBVIOUS
<1>10. TypeOK
  BY <1>1, <1>3, <1>4, <1>6, <1>7, <1>8, <1>9 DEF TypeOK
<1>5. TodoOK
  BY DEF TodoOK, InTransfer, InMsg
<1>. QED
  BY <1>5, <1>10 DEF TypeInv

\* A thread enters the driver.
LEMMA TypeEnter ==
  ASSUME TypeInv, NEW t \in Threads, Enter(t)
  PROVE  TypeInv'
<1> USE DEF TypeInv, TypeOK, TodoOK, Labels, Holding, InTransfer, InMsg, Goto,
            driver, locals, chip
<1>1. CASE Reconfigure(t)
  BY <1>1 DEF Reconfigure
<1>2. ASSUME NEW p \in Plans, Submit(t, p)
      PROVE  TypeInv'
  <2> DEFINE q == [p EXCEPT ![1].restart = TRUE]
  <2>1. q \in Seq(Message) /\ q # <<>> /\ p[1].len \in Nat
    BY FirstRestart
  <2> HIDE DEF q
  <2>2. /\ todo' = [todo EXCEPT ![t] = q]
        /\ rest' = [rest EXCEPT ![t] = p[1].len]
        /\ left' = [left EXCEPT ![t] = p[1].len]
        /\ pc' = [pc EXCEPT ![t] = "lock"]
        /\ UNCHANGED <<driver, chip, is_timeout>>
    BY <1>2 DEF Submit, q
  <2>3. ret' \in [Threads -> {"none", "ok", "eio", "einval"}]
    BY <1>2 DEF Submit
  <2>4. /\ todo' \in [Threads -> Seq(Message)] /\ pc' \in [Threads -> Labels]
        /\ rest' \in [Threads -> Nat] /\ left' \in [Threads -> Nat]
    BY <2>1, <2>2
  <2>6. TypeOK'
    BY <2>2, <2>3, <2>4
  <2>5. TodoOK'
    BY <2>1, <2>2
  <2>. QED
    BY <2>5, <2>6
<1>. QED
  BY <1>1, <1>2 DEF Enter

\* The chunk of a message is no larger than the message.
LEMMA ChunkBound ==
  ASSUME TypeInv, NEW t \in Threads
  PROVE  Chunk(t) \in Nat /\ rest[t] - Chunk(t) \in Nat
  BY ChunkAssumption DEF TypeInv, TypeOK, Chunk, MinOf

\* A thread programs a chunk.
LEMMA TypeStartChunk ==
  ASSUME TypeInv, NEW t \in Threads, StartChunk(t)
  PROVE  TypeInv'
<1> USE DEF TypeInv, TypeOK, TodoOK, Labels, Holding, InTransfer, InMsg, Goto
<1>1. todo[t] \in Seq(Message) /\ todo[t] # <<>>
  BY DEF StartChunk
<1>2. /\ Head(todo[t]).read \in BOOLEAN
      /\ ChunkStop(t) \in BOOLEAN
      /\ Chunk(t) \in Nat
  BY <1>1, HeadTail, ChunkBound DEF ChunkStop, LastChunk
<1>3. current' \in [owner: Threads \cup {NoThread}, len: Nat, read: BOOLEAN,
                    stop: BOOLEAN]
  BY <1>2 DEF StartChunk
<1>4. NextContinues(t) \in BOOLEAN
  BY <1>1, HeadTail DEF NextContinues
<1>5. /\ cnt' \in Nat /\ rlden' \in BOOLEAN /\ reading' \in BOOLEAN
      /\ bus' \in {"off", "addr", "data", "held", "stop", "idle", "lost"}
      /\ flags' \subseteq EventFlags \cup ErrorFlags
  BY <1>2, <1>4 DEF StartChunk, MsgInit
<1>. QED
  BY <1>2, <1>3, <1>5 DEF StartChunk

\* The other steps of a thread inside the driver.
LEMMA TypeInCall ==
  ASSUME TypeInv, NEW t \in Threads, InCall(t)
  PROVE  TypeInv'
<1> USE DEF TypeInv, TypeOK, TodoOK, Labels, Holding, InTransfer, InMsg, Goto,
            driver, locals, chip
<1>1. CASE TakeBus(t)
  BY <1>1 DEF TakeBus
<1>2. CASE StartChunk(t)
  BY <1>2, TypeStartChunk
<1>3. CASE EnableTransfer(t)
  BY <1>3 DEF EnableTransfer
<1>4. CASE EnableData(t)
  BY <1>4 DEF EnableData
<1>5. CASE TakeSync(t)
  BY <1>5, SemAssumption DEF TakeSync
<1>6. CASE TimeOut(t)
  BY <1>6 DEF TimeOut
<1>7. CASE EndOnTimeout(t)
  <2>1. sync_sem' \in 0 .. SemLimit
    BY <1>7, SemAssumption DEF EndOnTimeout, MasterModeEnd, Given
  <2>2. TypeOK'
    BY <1>7, <2>1 DEF EndOnTimeout, MasterModeEnd
  <2>3. TodoOK'
    BY <1>7 DEF EndOnTimeout
  <2>. QED
    BY <2>2, <2>3
<1>8. CASE Drain(t)
  BY <1>8, SemAssumption DEF Drain
<1>9. CASE Fail(t)
  <2>1. TypeOK'
    BY <1>9 DEF Fail
  <2>2. TodoOK'
    BY <1>9 DEF Fail
  <2>. QED
    BY <2>1, <2>2
<1>10. CASE Advance(t)
  <2>1. todo[t] \in Seq(Message) /\ todo[t] # <<>>
    BY <1>10 DEF Advance
  <2>2. CASE ~LastChunk(t) /\ pc' = [pc EXCEPT ![t] = "setup"]
             /\ rest' = [rest EXCEPT ![t] = @ - Chunk(t)]
             /\ UNCHANGED <<todo, left>>
    BY <2>1, <2>2, <1>10, ChunkBound DEF Advance
  <2>3. CASE /\ Len(todo[t]) > 1
             /\ todo' = [todo EXCEPT ![t] = Tail(@)]
             /\ rest' = [rest EXCEPT ![t] = todo[t][2].len]
             /\ left' = [left EXCEPT ![t] = todo[t][2].len]
             /\ pc' = [pc EXCEPT ![t] = "setup"]
    <3>1. /\ Tail(todo[t]) \in Seq(Message) /\ Tail(todo[t]) # <<>>
          /\ todo[t][2].len \in Nat
      BY <2>1, <2>3, HeadTail
    <3>2. /\ todo' \in [Threads -> Seq(Message)]
          /\ rest' \in [Threads -> Nat] /\ left' \in [Threads -> Nat]
      BY <3>1, <2>3
    <3>4. /\ ret' \in [Threads -> {"none", "ok", "eio", "einval"}]
          /\ pc' \in [Threads -> Labels]
          /\ UNCHANGED <<driver, is_timeout, chip>>
      BY <2>3, <1>10 DEF Advance
    <3>5. TypeOK'
      <4>. HIDE DEF TodoOK, Labels, Holding, InTransfer, InMsg
      <4>1. /\ UNCHANGED <<bus_mutex, sync_sem, current, is_nack, is_err, is_arlo>>
            /\ UNCHANGED <<is_timeout, pm_locks>>
        BY <3>4
      <4>2. UNCHANGED chip
        BY <3>4
      <4>3. /\ bus_mutex' \in {0, 1} /\ sync_sem' \in 0 .. SemLimit /\ pm_locks' \in Int
            /\ current' \in [owner: Threads \cup {NoThread}, len: Nat, read: BOOLEAN,
                             stop: BOOLEAN]
            /\ is_nack' \in BOOLEAN /\ is_err' \in BOOLEAN /\ is_arlo' \in BOOLEAN
            /\ is_timeout' \in [Threads -> BOOLEAN]
        BY <4>1
      <4>4. /\ ie' \subseteq {"ctl", "td", "rd"} /\ rlden' \in BOOLEAN /\ cnt' \in Nat
            /\ reading' \in BOOLEAN
            /\ bus' \in {"off", "addr", "data", "held", "stop", "idle", "lost"}
            /\ flags' \subseteq EventFlags \cup ErrorFlags /\ pend' \subseteq {"event", "error"}
        BY <4>2
      <4>. HIDE DEF TypeInv
      <4>. QED
        BY <3>2, <3>4, <4>3, <4>4, Zenon
    <3>3. TodoOK'
      BY <3>1, <2>3, <1>10 DEF Advance
    <3>. QED
      BY <3>3, <3>5
  <2>4. CASE pc' = [pc EXCEPT ![t] = "release"] /\ UNCHANGED <<todo, rest, left>>
    BY <2>1, <2>4, <1>10 DEF Advance
  <2>. QED
    BY <1>10, <2>2, <2>3, <2>4 DEF Advance
<1>11. CASE Release(t)
  <2>1. <<>> \in Seq(Message)
    OBVIOUS
  <2>. QED
    BY <1>11, <2>1 DEF Release, MinOf
<1>12. CASE TakeBusToConfigure(t)
  BY <1>12 DEF TakeBusToConfigure
<1>13. CASE ApplyConfiguration(t)
  <2>1. bus_mutex' \in {0, 1}
    BY <1>13 DEF ApplyConfiguration, MinOf
  <2>2. TypeOK'
    BY <1>13, <2>1 DEF ApplyConfiguration
  <2>3. TodoOK'
    BY <1>13 DEF ApplyConfiguration
  <2>. QED
    BY <2>2, <2>3
<1>. QED
  BY <1>1, <1>2, <1>3, <1>4, <1>5, <1>6, <1>7, <1>8, <1>9, <1>10, <1>11, <1>12,
     <1>13 DEF InCall

\* A give keeps the count within the limit.
LEMMA TypeGiven ==
  ASSUME TypeInv
  PROVE  Given(sync_sem) \in 0 .. SemLimit
  BY SemAssumption DEF TypeInv, TypeOK, Given

\* The end of master mode keeps the types.
LEMMA TypeModeEnd ==
  ASSUME TypeInv, MasterModeEnd
  PROVE  /\ sync_sem' \in 0 .. SemLimit /\ ie' \subseteq {"ctl", "td", "rd"}
         /\ rlden' \in BOOLEAN /\ cnt' \in Nat /\ reading' \in BOOLEAN
         /\ bus' \in {"off", "addr", "data", "held", "stop", "idle", "lost"}
         /\ flags' \subseteq EventFlags \cup ErrorFlags
<1>1. sync_sem' \in 0 .. SemLimit
  BY TypeGiven DEF MasterModeEnd
<1>. QED
  BY <1>1 DEF TypeInv, TypeOK, MasterModeEnd

\* The event handler keeps the types.
LEMMA TypeEventIsr ==
  ASSUME TypeInv, EventIsr
  PROVE  TypeInv'
<1> USE DEF TypeInv, TypeOK
<1> DEFINE f == flags \ Served
<1>1. f \subseteq EventFlags \cup ErrorFlags
  OBVIOUS
<1>2. current' \in [owner: Threads \cup {NoThread}, len: Nat, read: BOOLEAN,
                    stop: BOOLEAN]
  <2> DEFINE n == IF current.len > 0 THEN current.len - 1 ELSE 0
  <2>1. n \in Nat
    OBVIOUS
  <2>2. current' = [current EXCEPT !.len = n]
    BY DEF EventIsr, ServeData
  <2> HIDE DEF n
  <2>. QED
    BY <2>1, <2>2
<1>3. left' \in [Threads -> Nat]
  BY DEF EventIsr, ServeData
<1>4. /\ sync_sem' \in 0 .. SemLimit /\ ie' \subseteq {"ctl", "td", "rd"}
      /\ rlden' \in BOOLEAN /\ cnt' \in Nat /\ reading' \in BOOLEAN
      /\ bus' \in {"off", "addr", "data", "held", "stop", "idle", "lost"}
      /\ flags' \subseteq EventFlags \cup ErrorFlags
      /\ is_nack' \in BOOLEAN
  <2>1. CASE OnNack(f)
    BY <1>1, <2>1 DEF OnNack
  <2>2. CASE OnStop(f)
    BY <2>2, TypeModeEnd DEF OnStop
  <2>3. CASE OnComplete(f)
    <3>1. sync_sem' \in 0 .. SemLimit
      BY <2>3, TypeGiven DEF OnComplete
    <3>. QED
      BY <1>1, <2>3, <3>1 DEF OnComplete
  <2>4. CASE OnDataOnly(f)
    BY <1>1, <2>4 DEF OnDataOnly
  <2>. QED
    BY <2>1, <2>2, <2>3, <2>4 DEF EventIsr
<1>5. pend' \subseteq {"event", "error"}
  BY DEF EventIsr
<1>6. UNCHANGED <<bus_mutex, pm_locks, is_err, is_arlo, pc, todo, rest, is_timeout,
                  ret>>
  BY DEF EventIsr, locals
<1>7. TypeOK'
  BY <1>2, <1>3, <1>4, <1>5, <1>6
<1>8. TodoOK'
  BY <1>6 DEF TodoOK
<1>. QED
  BY <1>7, <1>8

\* The error handler keeps the types.
LEMMA TypeErrorIsr ==
  ASSUME TypeInv, ErrorIsr
  PROVE  TypeInv'
<1> USE DEF TypeInv, TypeOK
<1>1. /\ sync_sem' \in 0 .. SemLimit /\ ie' \subseteq {"ctl", "td", "rd"}
      /\ rlden' \in BOOLEAN /\ cnt' \in Nat /\ reading' \in BOOLEAN
      /\ bus' \in {"off", "addr", "data", "held", "stop", "idle", "lost"}
      /\ flags' \subseteq EventFlags \cup ErrorFlags
      /\ is_arlo' \in BOOLEAN /\ is_err' \in BOOLEAN
  BY TypeModeEnd DEF ErrorIsr
<1>2. pend' \subseteq {"event", "error"}
  BY DEF ErrorIsr
<1>3. UNCHANGED <<bus_mutex, pm_locks, current, is_nack, pc, todo, rest, is_timeout,
                  ret, left>>
  BY DEF ErrorIsr, locals
<1>4. TypeOK'
  BY <1>1, <1>2, <1>3
<1>5. TodoOK'
  BY <1>3 DEF TodoOK
<1>. QED
  BY <1>4, <1>5

\* The controller, which only changes its registers, keeps the types.
LEMMA TypeController ==
  ASSUME TypeInv, Controller
  PROVE  TypeInv'
<1> USE DEF TypeInv, TypeOK
<1>1. UNCHANGED <<driver, locals, ie, rlden, reading, pend, left>>
  BY DEF Controller, ExtOnly, ExtAddrAck, ExtNack, ExtByte, ExtCountDone,
         ExtStopDone, ExtArbitrationLost, ExtBusError
<1>2. /\ cnt' \in Nat
      /\ bus' \in {"off", "addr", "data", "held", "stop", "idle", "lost"}
      /\ flags' \subseteq EventFlags \cup ErrorFlags
  <2> USE DEF EventFlags, ErrorFlags
  <2>1. CASE ExtAddrAck BY <2>1 DEF ExtAddrAck
  <2>2. CASE ExtNack BY <2>2 DEF ExtNack
  <2>3. CASE ExtByte BY <2>3 DEF ExtByte
  <2>4. CASE ExtCountDone BY <2>4 DEF ExtCountDone
  <2>5. CASE ExtStopDone BY <2>5 DEF ExtStopDone
  <2>6. CASE ExtArbitrationLost BY <2>6 DEF ExtArbitrationLost
  <2>7. CASE ExtBusError BY <2>7 DEF ExtBusError
  <2>. QED
    BY <2>1, <2>2, <2>3, <2>4, <2>5, <2>6, <2>7 DEF Controller
<1>3. TypeOK'
  BY <1>1, <1>2 DEF driver, locals
<1>4. TodoOK'
  BY <1>1 DEF TodoOK, locals
<1>. QED
  BY <1>3, <1>4

\* Every variable of the driver model keeps its type, and a thread inside a
\* transfer always has a message to work on.
LEMMA TypeInvariant == Spec => []TypeInv
<1>1. Init => TypeInv
  BY TypeInit
<1>2. TypeInv /\ [Next]_vars => TypeInv'
  <2> SUFFICES ASSUME TypeInv, [Next]_vars
               PROVE  TypeInv'
    OBVIOUS
  <2>1. ASSUME NEW t \in Threads, InCall(t) PROVE TypeInv'
    BY <2>1, TypeInCall
  <2>2. ASSUME NEW t \in Threads, Enter(t) PROVE TypeInv'
    BY <2>2, TypeEnter
  <2>3. CASE EventIsr
    BY <2>3, TypeEventIsr
  <2>4. CASE ErrorIsr
    BY <2>4, TypeErrorIsr
  <2>5. CASE Controller
    BY <2>5, TypeController
  <2>6. CASE UNCHANGED vars
    BY <2>6 DEF vars, driver, locals, chip, TypeInv, TypeOK, TodoOK
  <2>. QED
    BY <2>1, <2>2, <2>3, <2>4, <2>5, <2>6 DEF Next
<1>. QED
  BY <1>1, <1>2, PTL DEF Spec

\* The variables of the driver keep their C types and the two semaphores their
\* limits, for every array of messages and whatever the interrupts do.
THEOREM TypeCorrect == Spec => []TypeOK
  BY TypeInvariant, PTL DEF TypeInv

-----------------------------------------------------------------------------
(* Exclusive use of the bus.  The three properties are inductive together: *)
(* the give found by the drain cannot be taken by another thread, because  *)
(* only the holder of bus_mutex takes sync_sem.                            *)

BusInv == BusExclusive /\ PmBalanced /\ DrainNeverBlocks

\* A step inside a transfer keeps the mutex and the lock.
LEMMA BusInside ==
  ASSUME TypeInv, BusInv, NEW t \in Threads, NEW l \in InTransfer,
         pc[t] \in InTransfer, pc' = [pc EXCEPT ![t] = l],
         UNCHANGED <<bus_mutex, pm_locks>>, l = "drain" => sync_sem' > 0
  PROVE  BusInv'
<1>1. pc \in [Threads -> Labels]
  BY DEF TypeInv, TypeOK
<1>2. \A u \in Threads : u # t => pc[u] \notin Holding /\ pc'[u] = pc[u]
  BY <1>1 DEF BusInv, BusExclusive, Holding
<1>3. pc'[t] = l /\ l \in Holding /\ pc[t] \in Holding
  BY <1>1 DEF Holding
<1>4. BusExclusive'
  BY <1>2, <1>3 DEF BusInv, BusExclusive
<1>5. PmBalanced'
  BY <1>2, <1>3 DEF BusInv, PmBalanced
<1>6. DrainNeverBlocks'
  BY <1>2, <1>3 DEF DrainNeverBlocks, Holding, InTransfer, InMsg
<1>. QED
  BY <1>4, <1>5, <1>6 DEF BusInv

\* Taking bus_mutex.
LEMMA BusAcquire ==
  ASSUME TypeInv, BusInv, NEW t \in Threads, NEW l \in {"setup", "cfg"},
         pc[t] \notin Holding, bus_mutex > 0, bus_mutex' = bus_mutex - 1,
         pc' = [pc EXCEPT ![t] = l],
         pm_locks' = IF l = "setup" THEN pm_locks + 1 ELSE pm_locks
  PROVE  BusInv'
<1>1. pc \in [Threads -> Labels] /\ bus_mutex \in {0, 1}
  BY DEF TypeInv, TypeOK
<1>2. \A u \in Threads : pc[u] \notin Holding /\ (u # t => pc'[u] = pc[u])
  BY <1>1 DEF BusInv, BusExclusive
<1>3. pc'[t] = l /\ l \in Holding /\ l # "drain" /\ bus_mutex' = 0
  BY <1>1 DEF Holding, InTransfer, InMsg
<1>4. BusExclusive'
  BY <1>2, <1>3 DEF BusExclusive
<1>5. pm_locks = 0
  BY <1>2 DEF BusInv, PmBalanced, Holding
<1>7. PmBalanced'
  <2>1. (\E u \in Threads : pc'[u] \in InTransfer) <=> l = "setup"
    BY <1>2, <1>3 DEF Holding, InTransfer, InMsg
  <2>. QED
    BY <2>1, <1>5 DEF PmBalanced
<1>8. DrainNeverBlocks'
  BY <1>2, <1>3 DEF DrainNeverBlocks, Holding, InTransfer, InMsg
<1>. QED
  BY <1>4, <1>7, <1>8 DEF BusInv

\* Giving it back.
LEMMA BusLeave ==
  ASSUME TypeInv, BusInv, NEW t \in Threads, pc[t] \in {"release", "cfg"},
         bus_mutex' = MinOf(bus_mutex + 1, 1), pc' = [pc EXCEPT ![t] = "idle"],
         pm_locks' = IF pc[t] = "release" THEN pm_locks - 1 ELSE pm_locks
  PROVE  BusInv'
<1>1. pc \in [Threads -> Labels] /\ bus_mutex \in {0, 1}
  BY DEF TypeInv, TypeOK
<1>2. pc[t] \in Holding
  BY DEF Holding, InTransfer
<1>3. \A u \in Threads : u # t => pc[u] \notin Holding /\ pc'[u] = pc[u]
  BY <1>1, <1>2 DEF BusInv, BusExclusive
<1>4. pc'[t] = "idle" /\ bus_mutex' = 1
  BY <1>1 DEF MinOf
<1>5. \A u \in Threads : pc'[u] \notin Holding
  BY <1>3, <1>4 DEF Holding, InTransfer, InMsg
<1>6. BusExclusive'
  BY <1>4, <1>5 DEF BusExclusive
<1>7. (\E u \in Threads : pc[u] \in InTransfer) <=> pc[t] = "release"
  BY <1>3 DEF Holding, InTransfer, InMsg
<1>8. pm_locks' = 0
  BY <1>7 DEF BusInv, PmBalanced
<1>9. PmBalanced'
  BY <1>5, <1>8 DEF PmBalanced, Holding
<1>10. DrainNeverBlocks'
  BY <1>5 DEF DrainNeverBlocks, Holding, InTransfer, InMsg
<1>. QED
  BY <1>6, <1>9, <1>10 DEF BusInv

\* Moving outside, or not at all.
LEMMA BusOutside ==
  ASSUME TypeInv, BusInv, NEW t \in Threads, NEW l \in Labels \ Holding,
         pc[t] \notin Holding, pc' = [pc EXCEPT ![t] = l],
         UNCHANGED <<bus_mutex, pm_locks, sync_sem>>
  PROVE  BusInv'
<1>1. pc \in [Threads -> Labels]
  BY DEF TypeInv, TypeOK
<1>2. \A u \in Threads : /\ pc'[u] \in Holding <=> pc[u] \in Holding
                         /\ pc'[u] \in Holding => pc'[u] = pc[u]
  BY <1>1
<1>3. BusExclusive'
  BY <1>2 DEF BusInv, BusExclusive
<1>4. PmBalanced'
  BY <1>2 DEF BusInv, PmBalanced, Holding
<1>5. DrainNeverBlocks'
  BY <1>2 DEF BusInv, DrainNeverBlocks, Holding, InTransfer, InMsg
<1>. QED
  BY <1>3, <1>4, <1>5 DEF BusInv

\* A step that leaves the mutex, the lock and the program counters alone, and
\* takes nothing from sync_sem, keeps the bus invariant.
LEMMA BusStill ==
  ASSUME BusInv, UNCHANGED <<pc, bus_mutex, pm_locks>>,
         sync_sem > 0 => sync_sem' > 0
  PROVE  BusInv'
  BY DEF BusInv, BusExclusive, PmBalanced, DrainNeverBlocks

\* One step of a thread.
LEMMA BusInCall ==
  ASSUME TypeInv, BusInv, NEW t \in Threads, InCall(t)
  PROVE  BusInv'
<1> USE DEF Goto, InTransfer, InMsg, driver, chip
<1>1. CASE TakeBus(t)
  <2>1. pc[t] \notin Holding
    BY <1>1 DEF TakeBus, Holding
  <2>. QED
    BY <1>1, <2>1, BusAcquire DEF TakeBus
<1>2. CASE TakeBusToConfigure(t)
  <2>1. pc[t] \notin Holding
    BY <1>2 DEF TakeBusToConfigure, Holding
  <2>. QED
    BY <1>2, <2>1, BusAcquire DEF TakeBusToConfigure
<1>3. CASE Release(t)
  BY <1>3, BusLeave DEF Release
<1>4. CASE ApplyConfiguration(t)
  BY <1>4, BusLeave DEF ApplyConfiguration
<1>5. CASE StartChunk(t)
  BY <1>5, BusInside DEF StartChunk
<1>6. CASE EnableTransfer(t)
  BY <1>6, BusInside DEF EnableTransfer
<1>7. CASE EnableData(t)
  BY <1>7, BusInside DEF EnableData
<1>8. CASE TakeSync(t)
  BY <1>8, BusInside DEF TakeSync
<1>9. CASE TimeOut(t)
  BY <1>9, BusInside DEF TimeOut
<1>10. CASE EndOnTimeout(t)
  <2>1. sync_sem' > 0
    BY <1>10, SemAssumption DEF EndOnTimeout, MasterModeEnd, Given, TypeInv, TypeOK
  <2>. QED
    BY <1>10, <2>1, BusInside DEF EndOnTimeout
<1>11. CASE Drain(t)
  BY <1>11, BusInside DEF Drain
<1>12. CASE Fail(t)
  BY <1>12, BusInside DEF Fail
<1>13. CASE Advance(t)
  <2>1. \E l \in {"setup", "release"} : pc' = [pc EXCEPT ![t] = l]
    BY <1>13 DEF Advance
  <2>. QED
    BY <1>13, <2>1, BusInside DEF Advance
<1>. QED
  BY <1>1, <1>2, <1>3, <1>4, <1>5, <1>6, <1>7, <1>8, <1>9, <1>10, <1>11, <1>12,
     <1>13 DEF InCall

\* Every step keeps the bus invariant.
LEMMA BusNext == TypeInv /\ BusInv /\ [Next]_vars => BusInv'
<1> SUFFICES ASSUME TypeInv, BusInv, [Next]_vars
             PROVE  BusInv'
  OBVIOUS
<1>1. ASSUME NEW t \in Threads, InCall(t) PROVE BusInv'
  BY <1>1, BusInCall
<1>2. ASSUME NEW t \in Threads, Enter(t) PROVE BusInv'
  <2>1. \E l \in {"lock", "cfglock"} :
           pc[t] = "idle" /\ pc' = [pc EXCEPT ![t] = l]
    BY <1>2 DEF Enter, Reconfigure, Submit, Goto
  <2>2. UNCHANGED <<bus_mutex, pm_locks, sync_sem>>
    BY <1>2 DEF Enter, Reconfigure, Submit, driver
  <2>. QED
    BY <2>1, <2>2, BusOutside DEF Labels, Holding, InTransfer, InMsg
<1>3. CASE EventIsr
  <2>1. UNCHANGED <<pc, bus_mutex, pm_locks>>
    BY <1>3 DEF EventIsr, locals
  <2>2. sync_sem' \in {sync_sem, Given(sync_sem)}
    BY <1>3 DEF EventIsr, OnNack, OnStop, OnComplete, OnDataOnly, MasterModeEnd
  <2>3. sync_sem > 0 => sync_sem' > 0
    BY <2>2, SemAssumption DEF Given, TypeInv, TypeOK
  <2>. QED
    BY <2>1, <2>3, BusStill
<1>4. CASE ErrorIsr
  <2>1. UNCHANGED <<pc, bus_mutex, pm_locks>>
    BY <1>4 DEF ErrorIsr, locals
  <2>2. sync_sem > 0 => sync_sem' > 0
    BY <1>4, SemAssumption DEF ErrorIsr, MasterModeEnd, Given, TypeInv, TypeOK
  <2>. QED
    BY <2>1, <2>2, BusStill
<1>5. CASE Controller
  <2>1. UNCHANGED <<driver, locals>>
    BY <1>5 DEF Controller, ExtOnly, ExtAddrAck, ExtNack, ExtByte, ExtCountDone,
         ExtStopDone, ExtArbitrationLost, ExtBusError
  <2>. QED
    BY <2>1, BusStill DEF driver, locals
<1>6. CASE UNCHANGED vars
  BY <1>6, BusStill DEF vars, driver, locals
<1>. QED
  BY <1>1, <1>2, <1>3, <1>4, <1>5, <1>6 DEF Next

\* The mutex, the lock and the drain are right in every reachable state.
LEMMA BusInvariant == Spec => []BusInv
<1>1. Init => BusInv
  BY DEF Init, BusInv, BusExclusive, PmBalanced, DrainNeverBlocks, Holding,
         InTransfer, InMsg
<1>. QED
  BY <1>1, TypeInvariant, BusNext, PTL DEF Spec

\* No two threads are ever inside the bus section of the driver together, and
\* bus_mutex is taken exactly when one is.
THEOREM MutualExclusion == Spec => []BusExclusive
  BY BusInvariant, PTL DEF BusInv

\* The driver's power-management lock is held once during a transfer and not
\* at all outside, on every error path.
THEOREM PmLockBalance == Spec => []PmBalanced
  BY BusInvariant, PTL DEF BusInv

\* The K_FOREVER take after a timeout finds the semaphore given, whatever the
\* interrupts do between the timeout and the take.
THEOREM DrainSafe == Spec => []DrainNeverBlocks
  BY BusInvariant, PTL DEF BusInv

-----------------------------------------------------------------------------
(* What a transfer does on the bus, where no interrupt is late.            *)

\* The arrays msg_init treats as they ask: the last message ends in STOP, as
\* i2c_transfer sees to, a message that goes on without START keeps the direction,
\* and a START that is asked for comes after a STOP or after a message of one
\* chunk that began with a START itself.
Orderly(p) ==
  /\ p[Len(p)].stop
  /\ \A i \in 1 .. Len(p) - 1 :
       \/ p[i].stop
       \/ ~p[i + 1].restart /\ p[i + 1].read = p[i].read
       \/ /\ p[i + 1].restart /\ p[i].len <= MaxChunk
          /\ i = 1 \/ p[i].restart \/ p[i - 1].stop

OnTime == ~LateIrq /\ \A p \in Plans : Orderly(p)

Inside == InMsg \cup {"setup"}

\* What the controller signals at each point on the wire.
Wire ==
  /\ pend = {}
  /\ \/ bus = "off" /\ flags = {} /\ ~rlden
     \/ bus \in {"addr", "stop"} /\ flags = {}
     \/ bus = "data" /\ flags \in {{}, {IF reading THEN "RDBF" ELSE "TDBE"}}
     \/ bus = "held" /\ flags \in {{"ACKFAIL"}, {IF rlden THEN "TCRLD" ELSE "TDC"}}
     \/ bus = "idle" /\ flags = {"STOPF"}
     \/ bus = "lost" /\ flags \in {{"ARLOST"}, {"BUSERR"}}

\* Nothing more comes of the controller before the next chunk.
Done    == "ctl" \notin ie /\ bus \in {"off", "held"} /\ "ACKFAIL" \notin flags
NoError == ~is_nack /\ ~is_err /\ ~is_arlo

\* Where the bus is whose nobody's.
Free ==
  (\A t \in Threads : pc[t] \notin Inside) =>
     bus = "off" /\ sync_sem = 0 /\ "ctl" \notin ie /\ NoError

\* A thread's own accounts.
Local(t) ==
  /\ pc[t] \in {"idle", "cfglock", "cfg"} => left[t] = 0
  /\ pc[t] \in {"lock"} \cup Inside => Orderly(todo[t]) /\ rest[t] <= Head(todo[t]).len
  /\ pc[t] \in {"lock", "setup"} => left[t] = rest[t]
  /\ pc[t] = "release" => ret[t] = "eio" \/ (ret[t] = "ok" /\ left[t] = 0)

\* Under reload the message may go on without a START.
Continued(t) ==
  rlden => /\ reading = Head(todo[t]).read
           /\ Len(todo[t]) > 1 /\ ~Head(todo[t]).stop => ~todo[t][2].restart

Between(t) ==
  pc[t] = "setup" =>
    /\ sync_sem = 0 /\ Done /\ NoError /\ Continued(t)
    /\ rlden => ~(Head(todo[t]).restart /\ rest[t] = Head(todo[t]).len)

\* The bytes the controller, the handler and the thread count are the same.
Counted(t) ==
  /\ left[t] = rest[t] - Chunk(t) + current.len
  /\ bus \in {"addr", "data"} => current.len = cnt + (IF flags = {} THEN 0 ELSE 1)
  /\ bus \in {"off", "held", "stop", "idle"} => current.len = 0
  /\ current.read = reading

Fouled == ~NoError \/ bus = "lost" \/ "ACKFAIL" \in flags

InFlight(t) ==
  pc[t] \in InMsg =>
    /\ current.owner = t /\ current.read = Head(todo[t]).read /\ current.stop = ChunkStop(t)
    /\ Continued(t)
    /\ sync_sem \in {0, 1}
    /\ sync_sem = 1 => Done /\ (bus = "held" => ~current.stop)
    /\ is_nack => bus \in {"stop", "idle", "lost", "off"}
    /\ is_err \/ is_arlo => bus = "off"
    /\ pc[t] = "enable" => sync_sem = 0 /\ "ctl" \notin ie
    /\ pc[t] \in {"enable", "arm", "wait"} => ~is_timeout[t] /\ (Fouled \/ Counted(t))
    /\ pc[t] = "timedout" => sync_sem = 0 /\ ~EventLine /\ ~ErrorLine
    /\ pc[t] = "drain" => sync_sem = 1 /\ bus = "off"
    /\ pc[t] = "check" =>
         /\ sync_sem = 0 /\ Done /\ (bus = "held" => ~current.stop)
         /\ IF Failed(t) THEN bus = "off" ELSE left[t] = rest[t] - Chunk(t)

Flow == Wire /\ Free /\ \A t \in Threads : Local(t) /\ Between(t) /\ InFlight(t)

-----------------------------------------------------------------------------
(* Frames: what a step that leaves parts alone keeps of Flow.              *)

\* While a thread holds the bus every other thread is outside.
LEMMA OthersOut ==
  ASSUME BusInv, NEW t \in Threads, pc[t] \in Holding
  PROVE  \A u \in Threads : u # t => pc[u] \notin Holding
  BY DEF BusInv, BusExclusive

LEMMA InsideHolds == Inside \subseteq Holding /\ InMsg \subseteq Inside
  BY DEF Inside, Holding, InTransfer

\* A step of the holder: only the wire and its own accounts are to be looked at.
LEMMA FlowAlone ==
  ASSUME BusInv, Flow, NEW t \in Threads, pc[t] \in Holding,
         \A u \in Threads : u # t =>
            /\ pc'[u] = pc[u] /\ todo'[u] = todo[u] /\ rest'[u] = rest[u]
            /\ left'[u] = left[u] /\ ret'[u] = ret[u],
         Wire', Free', Local(t)', Between(t)', InFlight(t)'
  PROVE  Flow'
<1>1. ASSUME NEW u \in Threads, u # t
      PROVE  Local(u)' /\ Between(u)' /\ InFlight(u)'
  <2>1. pc[u] \notin Holding /\ pc'[u] = pc[u]
    BY <1>1, OthersOut
  <2>2. pc'[u] \notin InMsg /\ pc'[u] # "setup"
    BY <2>1 DEF Holding, InTransfer
  <2>3. Local(u) /\ todo'[u] = todo[u] /\ rest'[u] = rest[u]
        /\ left'[u] = left[u] /\ ret'[u] = ret[u]
    BY <1>1 DEF Flow
  <2>4. Local(u)'
    BY <2>1, <2>3 DEF Local
  <2>5. Between(u)' /\ InFlight(u)'
    BY <2>2 DEF Between, InFlight
  <2>. QED
    BY <2>4, <2>5
<1>. QED
  BY <1>1 DEF Flow

\* A step of a thread that stays outside, or leaves the bus as free as it was.
LEMMA FlowOutside ==
  ASSUME TypeInv, BusInv, Flow, NEW t \in Threads, pc[t] \notin Inside,
         NEW l \in Labels \ Inside, pc' = [pc EXCEPT ![t] = l],
         \A u \in Threads : u # t =>
            /\ todo'[u] = todo[u] /\ rest'[u] = rest[u]
            /\ left'[u] = left[u] /\ ret'[u] = ret[u],
         UNCHANGED <<sync_sem, current, is_nack, is_err, is_arlo, is_timeout>>,
         UNCHANGED <<ie, rlden, cnt, reading, bus, flags, pend>>,
         Local(t)'
  PROVE  Flow'
<1>1. pc \in [Threads -> Labels]
  BY DEF TypeInv, TypeOK
<1>2. pc'[t] = l /\ \A u \in Threads : u # t => pc'[u] = pc[u]
  BY <1>1
<1>3. Wire'
  BY DEF Flow, Wire
<1>4. Free'
  <2>1. (\A u \in Threads : pc'[u] \notin Inside)
           <=> (\A u \in Threads : pc[u] \notin Inside)
    BY <1>2
  <2>. QED
    BY <2>1 DEF Flow, Free, NoError
<1>5. ASSUME NEW u \in Threads, u # t
      PROVE  Local(u)' /\ Between(u)' /\ InFlight(u)'
  <2>1. pc'[u] = pc[u] /\ todo'[u] = todo[u] /\ rest'[u] = rest[u]
        /\ left'[u] = left[u] /\ ret'[u] = ret[u]
    BY <1>2, <1>5
  <2>2. Local(u) /\ Between(u) /\ InFlight(u)
    BY DEF Flow
  <2>3. Local(u)'
    BY <2>1, <2>2 DEF Local
  <2>4. Between(u)'
    BY <2>1, <2>2 DEF Between, Done, NoError, Continued
  <2>5. (Chunk(u))' = Chunk(u) /\ ((LastChunk(u))' <=> LastChunk(u))
    BY <2>1 DEF Chunk, LastChunk, MinOf
  <2>6. (ChunkStop(u))' = ChunkStop(u) /\ (Continued(u))' = Continued(u)
        /\ (Counted(u))' = Counted(u)
    BY <2>1, <2>5 DEF ChunkStop, Continued, Counted
  <2>7. (Fouled' <=> Fouled) /\ (Done' <=> Done) /\ (EventLine' <=> EventLine)
        /\ (ErrorLine' <=> ErrorLine) /\ (Failed(u)' <=> Failed(u))
    BY DEF Fouled, Done, EventLine, ErrorLine, Failed, NoError
  <2>8. InFlight(u)'
    BY <2>1, <2>2, <2>5, <2>6, <2>7 DEF InFlight
  <2>. QED
    BY <2>3, <2>4, <2>8
<1>6. Between(t)' /\ InFlight(t)'
  BY <1>2 DEF Between, InFlight, Inside
<1>. QED
  BY <1>3, <1>4, <1>5, <1>6 DEF Flow

\* A step of the controller or of a handler while the holder t waits for it.
LEMMA FlowChip ==
  ASSUME BusInv, Flow, NEW t \in Threads, pc[t] \in {"enable", "arm", "wait"},
         UNCHANGED locals,
         \A u \in Threads : u # t => left'[u] = left[u],
         Wire', rlden' => rlden, reading' = reading,
         current'.owner = current.owner, current'.read = current.read,
         current'.stop = current.stop,
         sync_sem' \in {0, 1},
         sync_sem' = 1 => Done' /\ (bus' = "held" => ~current'.stop),
         is_nack' => bus' \in {"stop", "idle", "lost", "off"},
         is_err' \/ is_arlo' => bus' = "off",
         pc[t] = "enable" => sync_sem' = 0 /\ "ctl" \notin ie',
         Fouled' \/ Counted(t)'
  PROVE  Flow'
<1>1. pc[t] \in Holding /\ pc[t] \in InMsg /\ pc[t] \in Inside
  BY DEF Inside, Holding, InTransfer, InMsg
<1>2. UNCHANGED <<pc, todo, rest, is_timeout, ret>>
  BY DEF locals
<1>3. Free'
  BY <1>1, <1>2 DEF Free
<1>4. Local(t)'
  <2>1. Local(t)
    BY DEF Flow
  <2>. QED
    BY <1>2, <2>1 DEF Local, Inside, InMsg
<1>5. Between(t)'
  BY <1>2 DEF Between
<1>6. InFlight(t)'
  <2>1. InFlight(t)
    BY DEF Flow
  <2>2. Continued(t)'
    BY <1>1, <1>2, <2>1 DEF InFlight, Continued
  <2>3. (ChunkStop(t))' = ChunkStop(t)
    BY <1>2 DEF ChunkStop, LastChunk
  <2>. QED
    BY <1>1, <1>2, <2>1, <2>2, <2>3 DEF InFlight
<1>. QED
  BY <1>1, <1>2, <1>3, <1>4, <1>5, <1>6, FlowAlone

-----------------------------------------------------------------------------
(* The controller and the handlers.                                        *)

\* A flag that is up belongs to where the wire is.
LEMMA WireFlags ==
  ASSUME Wire
  PROVE  /\ bus \in {"off", "addr", "data", "held", "stop", "idle", "lost"}
         /\ flags = {} \/ \E f \in EventFlags \cup ErrorFlags : flags = {f}
         /\ "ACKFAIL" \in flags => bus = "held"
         /\ flags \cap {"TDC", "TCRLD"} # {} => bus = "held"
         /\ "STOPF" \in flags => bus = "idle"
         /\ flags \cap {"TDBE", "RDBF"} # {} => bus = "data"
         /\ flags \cap ErrorFlags # {} => bus = "lost"
  BY DEF Wire, EventFlags, ErrorFlags

\* Where somebody waits for the controller: the thread in the message call, with
\* no give pending and the interrupts still wanted.
Awaited(t) ==
  /\ pc[t] \in {"enable", "arm", "wait"}
  /\ current.owner = t /\ current.stop = ChunkStop(t)
  /\ sync_sem = 0
  /\ is_nack => bus \in {"stop", "idle", "lost"}
  /\ ~is_err /\ ~is_arlo
  /\ pc[t] = "enable" => "ctl" \notin ie
  /\ Fouled \/ Counted(t)

\* An asserted line belongs to the chunk of a thread that waits: nothing is
\* pending, nobody is between two chunks and nobody has been woken.
LEMMA LineAwaited ==
  ASSUME TypeInv, BusInv, Flow, EventLine \/ ErrorLine
  PROVE  \E t \in Threads : Awaited(t)
<1>1. Wire /\ Free
  BY DEF Flow
<1>2. ie \subseteq {"ctl", "td", "rd"}
  BY DEF TypeInv, TypeOK
<1>3. bus # "off" /\ flags # {}
  BY <1>1 DEF Wire, EventLine, ErrorLine
<1>4. ~Done
  BY <1>1, <1>3, WireFlags DEF Wire, Done, EventLine, ErrorLine
<1>5. PICK t \in Threads : pc[t] \in Inside
  BY <1>1, <1>3 DEF Free
<1>6. Between(t) /\ InFlight(t)
  BY DEF Flow
<1>7. pc[t] \in InMsg
  BY <1>4, <1>5, <1>6 DEF Inside, Between
<1>8. sync_sem = 0
  BY <1>4, <1>6, <1>7 DEF InFlight
<1>9. pc[t] \notin {"timedout", "drain", "check"}
  BY <1>3, <1>4, <1>6, <1>7 DEF InFlight
<1>10. pc[t] \in {"enable", "arm", "wait"}
  BY <1>7, <1>9 DEF InMsg
<1>11. Awaited(t)
  BY <1>3, <1>6, <1>7, <1>8, <1>10 DEF InFlight, Awaited
<1>. QED
  BY <1>11

\* Where interrupts are not late the controller moves only while its thread
\* waits.
LEMMA MoveAwaited ==
  ASSUME TypeInv, BusInv, Flow, OnTime, Controller
  PROVE  /\ \E t \in Threads : Awaited(t)
         /\ bus = "held" => ~ExtBusError
<1>1. Wire /\ Free
  BY DEF Flow
<1>2. ~LateIrq /\ \A t \in Threads : pc[t] # "timedout"
  BY DEF OnTime, Controller
<1>3. bus = "held" => flags # {}
  BY <1>1 DEF Wire
<1>4. bus = "held" => ~ExtBusError
  BY <1>2, <1>3 DEF ExtBusError
<1>5. bus \in {"addr", "data", "stop"}
  BY <1>4 DEF Controller, ExtAddrAck, ExtNack, ExtByte, ExtCountDone, ExtStopDone,
              ExtArbitrationLost, ExtBusError
<1>6. PICK t \in Threads : pc[t] \in Inside
  BY <1>1, <1>5 DEF Free
<1>7. Between(t) /\ InFlight(t)
  BY DEF Flow
<1>8. ~Done
  BY <1>5 DEF Done
<1>9. pc[t] \in InMsg
  BY <1>6, <1>7, <1>8 DEF Inside, Between
<1>10. sync_sem = 0
  BY <1>7, <1>8, <1>9 DEF InFlight
<1>11. pc[t] \notin {"timedout", "drain", "check"}
  BY <1>2, <1>5, <1>7, <1>8, <1>9 DEF InFlight
<1>12. pc[t] \in {"enable", "arm", "wait"}
  BY <1>9, <1>11 DEF InMsg
<1>13. Awaited(t)
  BY <1>5, <1>7, <1>9, <1>10, <1>12 DEF InFlight, Awaited
<1>. QED
  BY <1>4, <1>13

\* While somebody waits, an unfouled chunk is one whose bytes are all accounted for.
LEMMA AwaitedCounted ==
  ASSUME Flow, NEW t \in Threads, Awaited(t), bus \in {"data", "held", "idle", "addr"},
         "ACKFAIL" \notin flags, bus = "idle" => ~is_nack
  PROVE  Counted(t) /\ NoError
  BY DEF Awaited, Fouled, NoError

\* A step of the controller keeps Flow.
LEMMA FlowController ==
  ASSUME TypeInv, BusInv, Flow, OnTime, Controller
  PROVE  Flow'
<1>1. PICK t \in Threads : Awaited(t)
  BY MoveAwaited
<1>2. Wire /\ pend = {}
  BY DEF Flow, Wire
<1>3. UNCHANGED <<driver, locals, ie, rlden, reading, pend, left>>
  BY DEF Controller, ExtOnly, ExtAddrAck, ExtNack, ExtByte, ExtCountDone,
         ExtStopDone, ExtArbitrationLost, ExtBusError
<1>4. UNCHANGED <<bus_mutex, sync_sem, pm_locks, current, is_nack, is_err, is_arlo,
                  pc, todo, rest, is_timeout, ret>>
  BY <1>3 DEF driver, locals
<1>5. cnt \in Nat /\ current.len \in Nat /\ reading \in BOOLEAN /\ rlden \in BOOLEAN
  BY DEF TypeInv, TypeOK
<1>6. /\ Chunk(t)' = Chunk(t)
  BY <1>4 DEF Chunk
<1>7. Wire' /\ (Fouled' \/ Counted(t)') /\ (is_nack' => bus' \in {"stop", "idle", "lost"})
  <2>1. CASE ExtAddrAck
    <3>1. bus = "addr" /\ bus' = "data" /\ flags = {} /\ UNCHANGED <<cnt, flags>>
      BY <2>1, <1>2 DEF ExtAddrAck, Wire
    <3>2. Counted(t) /\ NoError
      BY <1>1, <3>1, AwaitedCounted
    <3>3. Wire'
      BY <3>1, <1>2, <1>3 DEF Wire
    <3>4. Counted(t)'
      BY <3>1, <3>2, <1>3, <1>4, <1>6 DEF Counted
    <3>. QED
      BY <3>2, <3>3, <3>4, <1>4 DEF NoError
  <2>2. CASE ExtNack
    <3>1. bus \in {"addr", "data"} /\ bus' = "held" /\ flags' = flags \cup {"ACKFAIL"}
      BY <2>2 DEF ExtNack
    <3>2. flags = {}
      BY <2>2, <1>2 DEF ExtNack, Wire
    <3>3. ~is_nack
      BY <1>1, <3>1 DEF Awaited
    <3>4. Wire'
      BY <3>1, <3>2, <1>2, <1>3 DEF Wire
    <3>5. Fouled'
      BY <3>1 DEF Fouled
    <3>. QED
      BY <3>3, <3>4, <3>5, <1>4
  <2>3. CASE ExtByte
    <3>1. /\ bus = "data" /\ bus' = "data" /\ cnt > 0 /\ cnt' = cnt - 1
          /\ DataFlags = {} /\ flags' = flags \cup {IF reading THEN "RDBF" ELSE "TDBE"}
      BY <2>3 DEF ExtByte
    <3>2. flags = {} /\ "ACKFAIL" \notin flags
      BY <3>1, <1>2 DEF Wire, DataFlags
    <3>3. Counted(t) /\ NoError
      BY <1>1, <3>1, <3>2, AwaitedCounted
    <3>4. Wire'
      BY <3>1, <3>2, <1>2, <1>3 DEF Wire
    <3>5. current.len = cnt' + 1 /\ flags' # {}
      BY <3>1, <3>2, <3>3, <1>5 DEF Counted
    <3>6. Counted(t)'
      BY <3>1, <3>3, <3>5, <1>3, <1>4, <1>6 DEF Counted
    <3>. QED
      BY <3>3, <3>4, <3>6, <1>4 DEF NoError
  <2>4. CASE ExtCountDone
    <3>1. /\ bus = "data" /\ bus' = "held" /\ cnt = 0 /\ UNCHANGED cnt
          /\ DataFlags = {} /\ flags' = flags \cup {IF rlden THEN "TCRLD" ELSE "TDC"}
      BY <2>4 DEF ExtCountDone
    <3>2. flags = {} /\ "ACKFAIL" \notin flags
      BY <3>1, <1>2 DEF Wire, DataFlags
    <3>3. Counted(t) /\ NoError
      BY <1>1, <3>1, <3>2, AwaitedCounted
    <3>4. Wire'
      BY <3>1, <3>2, <1>2, <1>3 DEF Wire
    <3>5. current.len = 0
      BY <3>1, <3>2, <3>3 DEF Counted
    <3>6. Counted(t)'
      BY <3>1, <3>3, <3>5, <1>3, <1>4, <1>6 DEF Counted
    <3>. QED
      BY <3>3, <3>4, <3>6, <1>4 DEF NoError
  <2>5. CASE ExtStopDone
    <3>1. bus = "stop" /\ bus' = "idle" /\ flags' = flags \cup {"STOPF"} /\ flags = {}
      BY <2>5, <1>2 DEF ExtStopDone, Wire
    <3>2. Wire'
      BY <3>1, <1>2, <1>3 DEF Wire
    <3>3. Fouled => Fouled'
      BY <3>1, <1>4 DEF Fouled, NoError
    <3>4. Counted(t) => Counted(t)'
      BY <3>1, <1>3, <1>4, <1>6 DEF Counted
    <3>. QED
      BY <3>1, <3>2, <3>3, <3>4, <1>1 DEF Awaited
  <2>6. CASE ExtArbitrationLost \/ ExtBusError
    <3>1. flags = {} /\ bus' = "lost" /\ \E e \in {"ARLOST", "BUSERR"} : flags' = flags \cup {e}
      BY <2>6 DEF OnTime, ExtArbitrationLost, ExtBusError
    <3>2. Wire'
      BY <3>1, <1>2, <1>3 DEF Wire
    <3>. QED
      BY <3>1, <3>2 DEF Fouled
  <2>. QED
    BY <2>1, <2>2, <2>3, <2>4, <2>5, <2>6 DEF Controller
<1>8. /\ pc[t] \in {"enable", "arm", "wait"} /\ sync_sem' = 0
      /\ ~is_err' /\ ~is_arlo' /\ (pc[t] = "enable" => "ctl" \notin ie')
  BY <1>1, <1>3, <1>4 DEF Awaited
<1>. QED
  BY <1>3, <1>4, <1>7, <1>8, FlowChip

\* The end of master mode finds the semaphore taken and leaves one give.
LEMMA ModeEnds ==
  ASSUME MasterModeEnd, sync_sem = 0, UNCHANGED pend, pend = {}
  PROVE  /\ sync_sem' = 1 /\ Done' /\ bus' = "off" /\ flags' = {} /\ ~rlden'
         /\ "ctl" \notin ie' /\ reading' = reading /\ Wire'
<1>1. sync_sem' = 1
  BY SemAssumption DEF MasterModeEnd, Given
<1>. QED
  BY <1>1 DEF MasterModeEnd, Done, Wire

\* A run of the event handler keeps Flow.
LEMMA FlowEventIsr ==
  ASSUME TypeInv, BusInv, Flow, EventIsr
  PROVE  Flow'
<1>1. Wire /\ pend = {}
  BY DEF Flow, Wire
<1>2. EventLine
  BY <1>1 DEF EventIsr
<1>3. PICK t \in Threads : Awaited(t)
  BY <1>2, LineAwaited
<1>4. ~ErrorLine /\ bus \in {"data", "held", "idle"}
      /\ (bus # "data" => flags \cap {"TDBE", "RDBF"} = {} /\ "ctl" \in ie)
      /\ flags # {}
  BY <1>1, <1>2 DEF Wire, EventLine, ErrorLine, ErrorFlags
<1>5. pend' = {}
  BY <1>1, <1>4 DEF EventIsr
<1>6. /\ UNCHANGED locals
      /\ \A u \in Threads : u # t => left'[u] = left[u]
      /\ current'.owner = current.owner /\ current'.read = current.read
      /\ current'.stop = current.stop
      /\ current'.len = IF current.len > 0 THEN current.len - 1 ELSE 0
      /\ UNCHANGED <<is_err, is_arlo>>
  BY <1>3 DEF EventIsr, ServeData, TypeInv, TypeOK, Awaited
<1>7. Chunk(t)' = Chunk(t)
  BY <1>6 DEF Chunk, locals
<1>8. /\ rest[t] \in Nat /\ Chunk(t) \in Nat /\ rest[t] - Chunk(t) \in Nat
      /\ current.len \in Nat /\ left[t] \in Nat /\ cnt \in Nat
  BY ChunkBound DEF TypeInv, TypeOK
<1>9. /\ pc[t] \in {"enable", "arm", "wait"} /\ current.owner = t
      /\ sync_sem = 0 /\ ~is_err /\ ~is_arlo
      /\ pc[t] = "enable" => "ctl" \notin ie
  BY <1>3 DEF Awaited
<1>10. StopWanted = {current.stop} /\ current.stop \in BOOLEAN
  <2>1. FrameLive
    BY <1>9, ThreadAssumption DEF FrameLive, InMsg
  <2>2. current.stop \in BOOLEAN
    BY DEF TypeInv, TypeOK
  <2>. QED
    BY <2>1, <2>2 DEF StopWanted
<1> DEFINE f == flags \ Served
<1>11. OnNack(f) \/ OnStop(f) \/ OnComplete(f) \/ OnDataOnly(f)
  BY DEF EventIsr
<1>12. CASE bus = "data"
  <2>1. flags = {IF reading THEN "RDBF" ELSE "TDBE"}
    BY <1>1, <1>4, <1>12 DEF Wire
  <2>2. Counted(t) /\ NoError
    BY <1>3, <1>12, <2>1, AwaitedCounted
  <2>3. current.len = cnt + 1 /\ left[t] = rest[t] - Chunk(t) + current.len
        /\ current.read = reading
    BY <1>12, <2>1, <2>2 DEF Counted
  <2>4. Served = flags /\ f = {} /\ ByteCrossed
    <3>1. current.len > 0
      BY <1>8, <2>3
    <3>2. DataFlags = flags
      BY <2>1 DEF DataFlags
    <3>. QED
      BY <2>1, <2>3, <3>1, <3>2 DEF Served, ByteCrossed
  <2>5. OnDataOnly({})
    BY <1>11, <2>4 DEF OnNack, OnStop, OnComplete
  <2>6. flags' = {} /\ UNCHANGED <<is_nack, sync_sem, ie, rlden, cnt, reading, bus>>
    BY <2>5 DEF OnDataOnly
  <2>7. left[t] > 0
    BY <1>8, <2>3
  <2>8. left'[t] = left[t] - 1
    BY <1>9, <2>4, <2>7 DEF EventIsr, ServeData
  <2>9. current'.len = cnt
    BY <1>6, <1>8, <2>3
  <2>10. left'[t] = rest[t] - Chunk(t) + current'.len
    BY <1>8, <2>3, <2>8, <2>9
  <2>11. Counted(t)'
    <3>1. UNCHANGED rest /\ current'.read = reading' /\ bus' = "data"
          /\ current'.len = cnt' + 0
      BY <1>6, <1>8, <1>12, <2>3, <2>6, <2>9 DEF locals
    <3>. QED
      BY <1>7, <2>6, <2>10, <3>1 DEF Counted
  <2>12. Wire'
    BY <1>5, <1>12, <2>6 DEF Wire
  <2>13. ~is_nack'
    BY <2>2, <2>6 DEF NoError
  <2>. QED
    BY <1>6, <1>9, <2>6, <2>11, <2>12, <2>13, FlowChip
<1>13. CASE bus # "data"
  <2>1. DataFlags = {} /\ Served = {} /\ f = flags /\ ~ByteCrossed
    BY <1>4, <1>13 DEF DataFlags, Served, ByteCrossed
  <2>2. left'[t] = left[t]
    BY <2>1 DEF EventIsr, ServeData
  <2>3. pc[t] # "enable"
    BY <1>4, <1>9, <1>13
  <2>4. CASE OnNack(flags)
    <3>1. is_nack' /\ bus' = "stop" /\ flags' = flags \ {"ACKFAIL"}
          /\ "ACKFAIL" \in flags /\ UNCHANGED <<sync_sem, ie, rlden, cnt, reading>>
      BY <2>4 DEF OnNack
    <3>2. flags' = {}
      BY <1>1, <3>1, WireFlags
    <3>3. Wire'
      BY <1>5, <3>1, <3>2 DEF Wire
    <3>4. Fouled'
      BY <3>1 DEF Fouled, NoError
    <3>. QED
      BY <1>6, <1>9, <2>3, <3>1, <3>3, <3>4, FlowChip
  <2>5. CASE OnStop(flags)
    <3>1. MasterModeEnd /\ UNCHANGED is_nack /\ "STOPF" \in flags /\ bus = "idle"
      BY <1>1, <2>5, WireFlags DEF OnStop
    <3>2. /\ sync_sem' = 1 /\ Done' /\ bus' = "off" /\ flags' = {} /\ ~rlden'
          /\ "ctl" \notin ie' /\ reading' = reading /\ Wire'
      BY <1>1, <1>5, <1>9, <3>1, ModeEnds
    <3>3. ASSUME ~is_nack
          PROVE  Counted(t)'
      <4>1. Counted(t)
        BY <1>1, <1>3, <3>1, <3>3, AwaitedCounted, WireFlags
      <4>2. current'.len = 0
        BY <1>6, <3>1, <4>1 DEF Counted
      <4>. QED
        BY <1>6, <1>7, <2>2, <3>1, <3>2, <4>1, <4>2 DEF Counted, locals
    <3>4. Fouled' \/ Counted(t)'
      BY <3>1, <3>3 DEF Fouled, NoError
    <3>. QED
      BY <1>6, <1>9, <2>3, <3>1, <3>2, <3>4, FlowChip
  <2>6. CASE OnComplete(flags)
    <3>1. bus = "held" /\ "ACKFAIL" \notin flags
      BY <1>1, <2>6, WireFlags DEF OnComplete
    <3>2. Counted(t) /\ NoError
      BY <1>3, <3>1, AwaitedCounted
    <3>3. current'.len = 0
      BY <1>6, <3>1, <3>2 DEF Counted
    <3>4. UNCHANGED <<is_nack, rlden, cnt, reading>> /\ ~is_nack'
      BY <2>6, <3>2 DEF OnComplete, NoError
    <3>5. Counted(t)' \/ bus' \notin {"stop", "held"}
      <4>1. UNCHANGED rest /\ current'.read = reading' /\ current'.len = current.len
        BY <1>6, <3>1, <3>2, <3>3, <3>4 DEF Counted, locals
      <4>2. left'[t] = rest'[t] - Chunk(t)' + current'.len
        BY <1>7, <2>2, <3>2, <4>1 DEF Counted
      <4>. QED
        BY <3>3, <4>1, <4>2 DEF Counted
    <3>6. CASE current.stop
      <4>1. bus' = "stop" /\ flags' = flags \ {"TDC", "TCRLD"} /\ UNCHANGED <<sync_sem, ie>>
        BY <1>10, <2>6, <3>6 DEF OnComplete
      <4>2. flags' = {}
        BY <1>1, <2>6, <4>1, WireFlags DEF OnComplete
      <4>3. Wire'
        BY <1>5, <4>1, <4>2 DEF Wire
      <4>. QED
        BY <1>6, <1>9, <2>3, <3>4, <3>5, <4>1, <4>3, FlowChip
    <3>7. CASE ~current.stop
      <4>1. /\ ie' = {} /\ sync_sem' = Given(sync_sem) /\ flags' = flags
            /\ UNCHANGED bus
        BY <1>10, <2>6, <3>7 DEF OnComplete
      <4>2. sync_sem' = 1
        BY <1>9, <4>1, SemAssumption DEF Given
      <4>3. Wire'
        BY <1>1, <1>5, <3>1, <3>4, <4>1 DEF Wire
      <4>4. Done'
        BY <3>1, <4>1 DEF Done
      <4>. QED
        BY <1>6, <1>9, <2>3, <3>1, <3>4, <3>5, <3>7, <4>1, <4>2, <4>3, <4>4, FlowChip
    <3>. QED
      BY <3>6, <3>7
  <2>7. CASE OnDataOnly(flags)
    <3>1. FALSE
      BY <1>1, <1>2, <1>4, <1>13, <2>7 DEF OnDataOnly, EventLine
    <3>. QED
      BY <3>1
  <2>. QED
    BY <1>11, <2>1, <2>4, <2>5, <2>6, <2>7
<1>. QED
  BY <1>12, <1>13

\* A run of the error handler keeps Flow.
LEMMA FlowErrorIsr ==
  ASSUME TypeInv, BusInv, Flow, ErrorIsr
  PROVE  Flow'
<1>1. Wire /\ pend = {}
  BY DEF Flow, Wire
<1>2. ErrorLine
  BY <1>1 DEF ErrorIsr
<1>3. PICK t \in Threads : Awaited(t)
  BY <1>2, LineAwaited
<1>4. ~EventLine /\ bus = "lost" /\ "ctl" \in ie
  BY <1>1, <1>2 DEF Wire, EventLine, ErrorLine, ErrorFlags
<1>5. pend' = {}
  BY <1>1, <1>4 DEF ErrorIsr
<1>6. UNCHANGED <<current, is_nack, left>> /\ UNCHANGED locals
  BY DEF ErrorIsr
<1>7. MasterModeEnd /\ (is_err' \/ is_arlo')
  BY <1>2 DEF ErrorIsr, ErrorLine, ErrorFlags
<1>8. /\ pc[t] \in {"arm", "wait"} /\ current.owner = t /\ sync_sem = 0
  BY <1>3, <1>4 DEF Awaited
<1>9. /\ sync_sem' = 1 /\ Done' /\ bus' = "off" /\ flags' = {} /\ ~rlden'
      /\ "ctl" \notin ie' /\ reading' = reading /\ Wire'
  BY <1>1, <1>5, <1>7, <1>8, ModeEnds
<1>10. Fouled'
  BY <1>7 DEF Fouled, NoError
<1>. QED
  BY <1>6, <1>8, <1>9, <1>10, FlowChip

-----------------------------------------------------------------------------
(* Orderly arrays. *)

\* i2c_at32_transfer's RESTART on the first message keeps an array orderly.
LEMMA OrderlyFirst ==
  ASSUME NEW p \in Plans, Orderly(p)
  PROVE  /\ Orderly([p EXCEPT ![1].restart = TRUE])
         /\ Head([p EXCEPT ![1].restart = TRUE]).len = p[1].len
<1>1. p \in Seq(Message) /\ p # <<>>
  BY PlansAssumption
<1>2. Len(p) \in Nat \ {0} /\ p \in [1 .. Len(p) -> Message]
  BY <1>1
<1>3. PICK q : q = [p EXCEPT ![1].restart = TRUE]
  OBVIOUS
<1>4. p[1] \in Message
  BY <1>2
<1>5. [p[1] EXCEPT !.restart = TRUE] \in Message
      /\ [p[1] EXCEPT !.restart = TRUE].len = p[1].len
      /\ [p[1] EXCEPT !.restart = TRUE].read = p[1].read
      /\ [p[1] EXCEPT !.restart = TRUE].stop = p[1].stop
      /\ [p[1] EXCEPT !.restart = TRUE].restart
  BY <1>4 DEF Message
<1>6. q \in [1 .. Len(p) -> Message] /\ Len(q) = Len(p) /\ q # <<>>
  BY <1>1, <1>3, FirstRestart, <1>2, <1>5
<1>7. q[1] = [p[1] EXCEPT !.restart = TRUE]
      /\ \A i \in 1 .. Len(p) : i # 1 => q[i] = p[i]
  <2>1. PICK r : r = [p[1] EXCEPT !.restart = TRUE]
    OBVIOUS
  <2>2. q = [p EXCEPT ![1] = r]
    BY <1>3, <2>1
  <2>3. 1 \in DOMAIN p /\ DOMAIN p = 1 .. Len(p)
    BY <1>2
  <2>4. q[1] = r /\ \A i \in 1 .. Len(p) : i # 1 => q[i] = p[i]
    BY <2>2, <2>3
  <2>. QED
    BY <2>1, <2>4
<1>8. \A i \in 1 .. Len(p) :
         /\ q[i].read = p[i].read /\ q[i].len = p[i].len
         /\ (q[i].stop <=> p[i].stop) /\ (p[i].restart => q[i].restart)
  BY <1>2, <1>5, <1>7
<1>9. Orderly(q)
  <2>1. q[Len(q)].stop
    BY <1>2, <1>6, <1>8 DEF Orderly
  <2>2. ASSUME NEW i \in 1 .. Len(q) - 1
        PROVE  \/ q[i].stop
               \/ ~q[i + 1].restart /\ q[i + 1].read = q[i].read
               \/ /\ q[i + 1].restart /\ q[i].len <= MaxChunk
                  /\ i = 1 \/ q[i].restart \/ q[i - 1].stop
    <3>1. i \in 1 .. Len(p) /\ i + 1 \in 1 .. Len(p) /\ i + 1 # 1
          /\ (i # 1 => i - 1 \in 1 .. Len(p))
      BY <1>2, <1>6
    <3>2. q[i + 1] = p[i + 1]
      BY <1>7, <3>1
    <3>3. \/ p[i].stop
          \/ ~p[i + 1].restart /\ p[i + 1].read = p[i].read
          \/ /\ p[i + 1].restart /\ p[i].len <= MaxChunk
             /\ i = 1 \/ p[i].restart \/ p[i - 1].stop
      BY <1>6 DEF Orderly
    <3>4. /\ q[i].read = p[i].read /\ q[i].len = p[i].len
          /\ (q[i].stop <=> p[i].stop) /\ (p[i].restart => q[i].restart)
          /\ i # 1 => (q[i - 1].stop <=> p[i - 1].stop)
      BY <1>8, <3>1
    <3>. QED
      BY <3>2, <3>3, <3>4
  <2>. QED
    BY <2>1, <2>2 DEF Orderly
<1>10. Head(q) = q[1]
  BY <1>6
<1>. QED
  BY <1>3, <1>5, <1>7, <1>9, <1>10

\* The rest of an orderly array is orderly.
LEMMA OrderlyTail ==
  ASSUME NEW p \in Seq(Message), Orderly(p), Len(p) > 1
  PROVE  /\ Orderly(Tail(p)) /\ Head(Tail(p)) = p[2] /\ Len(Tail(p)) = Len(p) - 1
         /\ Len(p) > 2 => Tail(p)[2] = p[3]
<1>1. Len(p) \in Nat /\ p \in [1 .. Len(p) -> Message]
  OBVIOUS
<1>2. PICK q : q = Tail(p)
  OBVIOUS
<1>3. q \in Seq(Message) /\ Len(q) = Len(p) - 1
      /\ \A i \in 1 .. Len(q) : q[i] = p[i + 1]
  BY <1>1, <1>2
<1>4. Len(q) \in Nat \ {0} /\ q # <<>>
  BY <1>1, <1>3, <1>2, HeadTail
<1>5. q[Len(q)].stop
  BY <1>1, <1>3, <1>4 DEF Orderly
<1>6. ASSUME NEW i \in 1 .. Len(q) - 1
      PROVE  \/ q[i].stop
             \/ ~q[i + 1].restart /\ q[i + 1].read = q[i].read
             \/ /\ q[i + 1].restart /\ q[i].len <= MaxChunk
                /\ i = 1 \/ q[i].restart \/ q[i - 1].stop
  <2>1. PICK j : j = i + 1
    OBVIOUS
  <2>2. j \in 1 .. Len(p) - 1 /\ i \in 1 .. Len(q) /\ i + 1 \in 1 .. Len(q) /\ j # 1
        /\ (i # 1 => i - 1 \in 1 .. Len(q)) /\ (i - 1) + 1 = j - 1 /\ i \in Int
    BY <1>1, <1>3, <2>1
  <2>3. q[i] = p[j] /\ q[i + 1] = p[j + 1] /\ (i # 1 => q[i - 1] = p[j - 1])
    <3>1. q[i + 1] = p[(i + 1) + 1]
      BY <1>3, <2>2
    <3>2. i # 1 => q[i - 1] = p[(i - 1) + 1]
      BY <1>3, <2>2
    <3>3. q[i] = p[i + 1]
      BY <1>3, <2>2
    <3>. QED
      BY <2>1, <2>2, <3>1, <3>2, <3>3
  <2>4. \/ p[j].stop
        \/ ~p[j + 1].restart /\ p[j + 1].read = p[j].read
        \/ /\ p[j + 1].restart /\ p[j].len <= MaxChunk
           /\ j = 1 \/ p[j].restart \/ p[j - 1].stop
    BY <2>2 DEF Orderly
  <2>. QED
    BY <2>2, <2>3, <2>4
<1>7. Orderly(q)
  BY <1>5, <1>6 DEF Orderly
<1>8. Head(q) = p[2] /\ (Len(p) > 2 => q[2] = p[3])
  BY <1>1, <1>3, <1>4
<1>. QED
  BY <1>2, <1>3, <1>7, <1>8

\* What an orderly array says of its first two messages.
LEMMA OrderlyHead ==
  ASSUME NEW p \in Seq(Message), p # <<>>, Orderly(p)
  PROVE  /\ Len(p) = 1 => Head(p).stop
         /\ Len(p) > 1 =>
              \/ Head(p).stop
              \/ ~p[2].restart /\ p[2].read = Head(p).read
              \/ p[2].restart /\ Head(p).len <= MaxChunk
         /\ Len(p) > 2 =>
              p[2].stop \/ ~p[3].restart \/ p[2].restart \/ Head(p).stop
<1>1. Len(p) \in Nat \ {0} /\ p \in [1 .. Len(p) -> Message] /\ Head(p) = p[1]
  OBVIOUS
<1>2. Len(p) > 1 =>
        \/ p[1].stop
        \/ ~p[1 + 1].restart /\ p[1 + 1].read = p[1].read
        \/ p[1 + 1].restart /\ p[1].len <= MaxChunk
  BY <1>1 DEF Orderly
<1>3. ASSUME Len(p) > 2
      PROVE  p[2].stop \/ ~p[2 + 1].restart \/ p[2].restart \/ p[2 - 1].stop
  <2>1. 2 \in 1 .. Len(p) - 1
    BY <1>1, <1>3
  <2>. QED
    BY <2>1 DEF Orderly
<1>4. 1 + 1 = 2 /\ 2 + 1 = 3 /\ 2 - 1 = 1
  OBVIOUS
<1>. QED
  BY <1>1, <1>2, <1>3, <1>4 DEF Orderly

-----------------------------------------------------------------------------
(* The steps of the threads.                                               *)

\* Before the first call nothing moves.
LEMMA FlowInit == Init => Flow
<1> SUFFICES ASSUME Init PROVE Flow
  OBVIOUS
<1>1. Wire
  BY DEF Init, Wire
<1>2. Free
  BY DEF Init, Free, NoError
<1>3. ASSUME NEW t \in Threads PROVE Local(t) /\ Between(t) /\ InFlight(t)
  <2>1. pc[t] = "idle" /\ left[t] = 0
    BY DEF Init
  <2>. QED
    BY <2>1 DEF Local, Between, InFlight, Inside, InMsg
<1>. QED
  BY <1>1, <1>2, <1>3 DEF Flow

\* A call of i2c_transfer or i2c_configure.
LEMMA FlowEnter ==
  ASSUME TypeInv, BusInv, Flow, OnTime, NEW t \in Threads, Enter(t)
  PROVE  Flow'
<1>1. pc[t] = "idle" /\ pc[t] \notin Inside
      /\ "lock" \in Labels \ Inside /\ "cfglock" \in Labels \ Inside
  BY DEF Enter, Reconfigure, Submit, Inside, InMsg, Labels
<1>2. pc \in [Threads -> Labels] /\ todo \in [Threads -> Seq(Message)]
      /\ rest \in [Threads -> Nat] /\ left \in [Threads -> Nat]
      /\ ret \in [Threads -> {"none", "ok", "eio", "einval"}]
  BY DEF TypeInv, TypeOK
<1>3. CASE Reconfigure(t)
  <2>1. pc' = [pc EXCEPT ![t] = "cfglock"] /\ UNCHANGED <<driver, chip>>
        /\ UNCHANGED <<todo, rest, left, ret, is_timeout>>
    BY <1>3 DEF Reconfigure, Goto
  <2>2. Local(t)
    BY DEF Flow
  <2>3. Local(t)'
    BY <1>1, <1>2, <2>1, <2>2 DEF Local, Inside, InMsg
  <2>. QED
    BY <1>1, <2>1, <2>3, FlowOutside DEF driver, chip
<1>4. ASSUME NEW p \in Plans, Submit(t, p)
      PROVE  Flow'
  <2>1. PICK q : q = [p EXCEPT ![1].restart = TRUE]
    OBVIOUS
  <2>2. /\ pc' = [pc EXCEPT ![t] = "lock"] /\ UNCHANGED <<driver, chip, is_timeout>>
        /\ todo' = [todo EXCEPT ![t] = q] /\ rest' = [rest EXCEPT ![t] = p[1].len]
        /\ left' = [left EXCEPT ![t] = p[1].len]
        /\ \A u \in Threads : u # t => ret'[u] = ret[u]
    BY <1>2, <1>4, <2>1 DEF Submit, Goto
  <2>3. Orderly(q) /\ Head(q).len = p[1].len /\ p[1].len \in Nat
    BY <2>1, OrderlyFirst, FirstRestart DEF OnTime
  <2>4. pc'[t] = "lock" /\ todo'[t] = q /\ rest'[t] = p[1].len /\ left'[t] = p[1].len
    BY <1>2, <2>2
  <2>5. Local(t)'
    BY <2>3, <2>4 DEF Local
  <2>6. \A u \in Threads : u # t => todo'[u] = todo[u] /\ rest'[u] = rest[u]
                                    /\ left'[u] = left[u] /\ ret'[u] = ret[u]
    BY <2>2
  <2>. QED
    BY <1>1, <2>2, <2>5, <2>6, FlowOutside DEF driver, chip
<1>. QED
  BY <1>3, <1>4 DEF Enter

\* bus_mutex is taken: the controller is at rest.
LEMMA FlowTakeBus ==
  ASSUME TypeInv, BusInv, Flow, NEW t \in Threads,
         TakeBus(t) \/ TakeBusToConfigure(t)
  PROVE  Flow'
<1>1. pc \in [Threads -> Labels]
  BY DEF TypeInv, TypeOK
<1>2. bus_mutex > 0 /\ UNCHANGED <<sync_sem, current, is_nack, is_err, is_arlo, todo,
                                   rest, is_timeout, ret, chip, left>>
  BY DEF TakeBus, TakeBusToConfigure
<1>3. \A u \in Threads : pc[u] \notin Holding
  BY <1>2 DEF BusInv, BusExclusive
<1>4. bus = "off" /\ sync_sem = 0 /\ "ctl" \notin ie /\ NoError
  BY <1>3, InsideHolds DEF Flow, Free
<1>5. flags = {} /\ ~rlden /\ Wire /\ Local(t)
  BY <1>4 DEF Flow, Wire
<1>6. UNCHANGED <<ie, rlden, cnt, reading, bus, flags, pend>>
  BY <1>2 DEF chip
<1>7. CASE TakeBus(t)
  <2>1. pc[t] = "lock" /\ pc' = [pc EXCEPT ![t] = "setup"]
    BY <1>7 DEF TakeBus, Goto
  <2>2. pc'[t] = "setup" /\ \A u \in Threads : u # t => pc'[u] = pc[u]
    BY <1>1, <2>1
  <2>3. Wire'
    BY <1>5, <1>6 DEF Wire
  <2>4. Free'
    BY <2>2 DEF Free, Inside
  <2>5. Local(t)'
    BY <1>2, <1>5, <2>1, <2>2 DEF Local
  <2>6. Between(t)'
    BY <1>2, <1>4, <1>5, <1>6 DEF Between, Done, NoError, Continued
  <2>7. InFlight(t)'
    BY <2>2 DEF InFlight, InMsg
  <2>8. ASSUME NEW u \in Threads, u # t
        PROVE  Local(u)' /\ Between(u)' /\ InFlight(u)'
    <3>1. pc'[u] = pc[u] /\ pc'[u] \notin Inside
      BY <1>3, <2>2, <2>8, InsideHolds
    <3>2. Local(u)
      BY DEF Flow
    <3>3. Local(u)'
      BY <1>2, <3>1, <3>2 DEF Local
    <3>. QED
      BY <3>1, <3>3 DEF Between, InFlight, Inside
  <2>. QED
    BY <2>3, <2>4, <2>5, <2>6, <2>7, <2>8 DEF Flow
<1>8. CASE TakeBusToConfigure(t)
  <2>1. pc[t] = "cfglock" /\ pc' = [pc EXCEPT ![t] = "cfg"]
    BY <1>8 DEF TakeBusToConfigure, Goto
  <2>2. pc[t] \notin Inside /\ "cfg" \in Labels \ Inside
    BY <2>1 DEF Labels, Holding, InTransfer, Inside, InMsg
  <2>3. Local(t)'
    BY <1>1, <1>2, <1>5, <2>1 DEF Local, Inside, InMsg
  <2>. QED
    BY <1>2, <1>6, <2>1, <2>2, <2>3, FlowOutside
<1>. QED
  BY <1>7, <1>8

\* Leaving: the end of a transfer, and of a reconfiguration.
LEMMA FlowLeave ==
  ASSUME TypeInv, BusInv, Flow, NEW t \in Threads,
         Release(t) \/ ApplyConfiguration(t)
  PROVE  Flow'
<1>1. pc \in [Threads -> Labels] /\ todo \in [Threads -> Seq(Message)]
      /\ rest \in [Threads -> Nat] /\ left \in [Threads -> Nat]
      /\ ret \in [Threads -> {"none", "ok", "eio", "einval"}]
  BY DEF TypeInv, TypeOK
<1>2. pc[t] \in {"release", "cfg"} /\ pc' = [pc EXCEPT ![t] = "idle"]
      /\ UNCHANGED <<sync_sem, current, is_nack, is_err, is_arlo, is_timeout, pend>>
      /\ \A u \in Threads : u # t => todo'[u] = todo[u] /\ rest'[u] = rest[u]
                                     /\ left'[u] = left[u] /\ ret'[u] = ret[u]
  BY <1>1 DEF Release, ApplyConfiguration, Goto, chip
<1>3. pc[t] \notin Inside /\ pc[t] \in Holding /\ "idle" \in Labels \ Inside
  BY <1>2 DEF Labels, Holding, InTransfer, Inside, InMsg
<1>4. Local(t) /\ pc'[t] = "idle"
  BY <1>1, <1>2 DEF Flow
<1>5. left'[t] = 0
  BY <1>1, <1>2, <1>4 DEF Release, ApplyConfiguration, Local
<1>6. Local(t)'
  BY <1>4, <1>5 DEF Local, Inside, InMsg
<1>7. CASE Release(t)
  BY <1>2, <1>3, <1>6, <1>7, FlowOutside DEF Release, chip
<1>8. CASE ApplyConfiguration(t)
  <2>1. \A u \in Threads : pc[u] \notin Inside
    BY <1>3, OthersOut, InsideHolds
  <2>2. bus = "off" /\ sync_sem = 0 /\ "ctl" \notin ie /\ NoError /\ pend = {}
    BY <2>1 DEF Flow, Free, Wire
  <2>3. Wire'
    BY <1>2, <1>8, <2>2 DEF ApplyConfiguration, Wire
  <2>4. Free'
    BY <1>2, <1>8, <2>2 DEF ApplyConfiguration, Free, NoError
  <2>5. Between(t)' /\ InFlight(t)'
    BY <1>4 DEF Between, InFlight, InMsg
  <2>6. \A u \in Threads : u # t => pc'[u] = pc[u]
    BY <1>1, <1>2
  <2>. QED
    BY <1>2, <1>3, <1>6, <2>3, <2>4, <2>5, <2>6, FlowAlone
<1>. QED
  BY <1>7, <1>8

\* The holder moves on inside a transfer: what the others see does not change.
LEMMA FlowInside ==
  ASSUME TypeInv, BusInv, Flow, NEW t \in Threads, pc[t] \in Inside,
         NEW l \in Labels, pc' = [pc EXCEPT ![t] = l],
         \A u \in Threads : u # t =>
            /\ todo'[u] = todo[u] /\ rest'[u] = rest[u]
            /\ left'[u] = left[u] /\ ret'[u] = ret[u],
         Wire', Free', Local(t)', Between(t)', InFlight(t)'
  PROVE  Flow'
<1>1. \A u \in Threads : u # t => pc'[u] = pc[u]
  BY DEF TypeInv, TypeOK
<1>. QED
  BY <1>1, InsideHolds, FlowAlone

\* A chunk is programmed.
LEMMA FlowStartChunk ==
  ASSUME TypeInv, BusInv, Flow, NEW t \in Threads, StartChunk(t)
  PROVE  Flow'
<1>1. /\ pc \in [Threads -> Labels] /\ todo \in [Threads -> Seq(Message)]
      /\ rest \in [Threads -> Nat] /\ left \in [Threads -> Nat]
      /\ is_timeout \in [Threads -> BOOLEAN] /\ rlden \in BOOLEAN
  BY DEF TypeInv, TypeOK
<1>2. /\ pc[t] = "setup" /\ pc' = [pc EXCEPT ![t] = "enable"]
      /\ current' = [owner |-> t, len |-> Chunk(t), read |-> Head(todo[t]).read,
                     stop |-> ChunkStop(t)]
      /\ MsgInit(t) /\ ~is_nack' /\ ~is_err' /\ (is_arlo' => is_arlo)
      /\ is_timeout' = [is_timeout EXCEPT ![t] = FALSE]
      /\ UNCHANGED <<bus_mutex, sync_sem, pm_locks, todo, rest, ret, ie, pend, left>>
  BY DEF StartChunk, Goto
<1>3. pc'[t] = "enable" /\ ~is_timeout'[t] /\ pc[t] \in Inside /\ "enable" \in Labels
  BY <1>1, <1>2 DEF Inside, Labels, Holding, InTransfer, InMsg
<1>4. Wire /\ Local(t) /\ Between(t)
  BY DEF Flow
<1>5. /\ sync_sem = 0 /\ Done /\ NoError /\ Continued(t)
      /\ "ctl" \notin ie /\ pend = {}
      /\ Orderly(todo[t]) /\ rest[t] <= Head(todo[t]).len /\ left[t] = rest[t]
  BY <1>2, <1>3, <1>4 DEF Between, Done, Wire, Local
<1>6. todo[t] # <<>> /\ Head(todo[t]).read \in BOOLEAN /\ Head(todo[t]).len \in Nat
  BY <1>1, <1>2, HeadTail DEF TypeInv, TodoOK, InTransfer, Message
<1>7. Chunk(t) \in Nat /\ rest[t] \in Nat /\ rest[t] - Chunk(t) \in Nat
  BY <1>1, ChunkBound
<1>8. (Chunk(t))' = Chunk(t) /\ ((LastChunk(t))' <=> LastChunk(t))
  BY <1>2 DEF Chunk, LastChunk
<1>9. (ChunkStop(t))' = ChunkStop(t)
  BY <1>2, <1>8 DEF ChunkStop
<1>10. /\ bus' \in {"addr", "data"} /\ flags' = {} /\ reading' = Head(todo[t]).read
       /\ rlden' => (Len(todo[t]) > 1 /\ ~Head(todo[t]).stop => ~todo[t][2].restart)
  <2>1. CASE rlden
    <3>1. bus = "held" /\ flags = {"TCRLD"}
      BY <1>4, <1>5, <2>1 DEF Wire, Done
    <3>2. bus' = "data" /\ flags' = {} /\ UNCHANGED <<rlden, reading>>
      BY <1>2, <2>1, <3>1 DEF MsgInit
    <3>. QED
      BY <1>5, <2>1, <3>2 DEF Continued
  <2>2. CASE ~rlden
    <3>1. /\ rlden' <=> ~ChunkStop(t) /\ NextContinues(t)
          /\ reading' = Head(todo[t]).read /\ bus' = "addr"
          /\ flags' = flags \ {"TDC", "TCRLD"}
      BY <1>2, <2>2 DEF MsgInit
    <3>2. flags \subseteq {"TDC"}
      BY <1>4, <1>5, <2>2 DEF Wire, Done
    <3>3. ASSUME rlden', Len(todo[t]) > 1, ~Head(todo[t]).stop
          PROVE  ~todo[t][2].restart
      <4>1. CASE LastChunk(t)
        BY <3>1, <3>3, <4>1 DEF NextContinues
      <4>2. CASE ~LastChunk(t)
        <5>1. ~(Head(todo[t]).len <= MaxChunk)
          BY <1>5, <1>6, <1>7, <4>2, ChunkAssumption DEF LastChunk
        <5>. QED
          BY <1>1, <1>5, <1>6, <3>3, <5>1, OrderlyHead
      <4>. QED
        BY <4>1, <4>2
    <3>. QED
      BY <3>1, <3>2, <3>3
  <2>. QED
    BY <2>1, <2>2
<1>11. cnt' = Chunk(t)
  BY <1>2 DEF MsgInit
<1>12. Wire'
  BY <1>2, <1>5, <1>10 DEF Wire
<1>13. Free'
  BY <1>3 DEF Free, Inside, InMsg
<1>14. Local(t)'
  <2>1. pc'[t] \notin {"idle", "cfglock", "cfg", "lock", "setup", "release"}
    BY <1>3
  <2>. QED
    BY <1>2, <1>5, <2>1 DEF Local
<1>15. Between(t)'
  BY <1>3 DEF Between
<1>16. Continued(t)'
  BY <1>2, <1>10 DEF Continued
<1>17. NoError' /\ sync_sem' = 0
  BY <1>2, <1>5 DEF NoError
<1>18. Counted(t)'
  <2>1. current'.len = Chunk(t) /\ current'.read = reading'
    BY <1>2, <1>10
  <2>2. left'[t] = rest'[t] - Chunk(t) + current'.len
    BY <1>2, <1>5, <1>7, <2>1
  <2>3. current'.len = cnt' + 0
    BY <1>7, <1>11, <2>1
  <2>. QED
    BY <1>8, <1>10, <2>1, <2>2, <2>3 DEF Counted
<1>19. InFlight(t)'
  <2>1. /\ current'.owner = t /\ current'.read = Head(todo'[t]).read
        /\ current'.stop = ChunkStop(t)'
    BY <1>2, <1>9
  <2>2. "ctl" \notin ie' /\ ~is_nack' /\ ~is_err' /\ ~is_arlo'
    BY <1>2, <1>5, <1>17 DEF NoError
  <2>. QED
    BY <1>3, <1>16, <1>17, <1>18, <2>1, <2>2 DEF InFlight
<1>. QED
  BY <1>2, <1>3, <1>12, <1>13, <1>14, <1>15, <1>19, FlowInside

\* A step of the thread in its message call that only moves on.
LEMMA FlowStep ==
  ASSUME TypeInv, BusInv, Flow, NEW t \in Threads, pc[t] \in InMsg,
         NEW l \in InMsg, pc' = [pc EXCEPT ![t] = l],
         UNCHANGED <<todo, rest, left, ret>>, Wire', InFlight(t)'
  PROVE  Flow'
<1>1. pc'[t] = l /\ l \in Inside /\ pc[t] \in Inside /\ l \in Labels
  BY DEF TypeInv, TypeOK, Inside, Labels, Holding, InTransfer
<1>2. Free'
  BY <1>1 DEF Free
<1>3. Local(t)'
  <2>1. Local(t)
    BY DEF Flow
  <2>2. Orderly(todo[t]) /\ rest[t] <= Head(todo[t]).len
    BY <1>1, <2>1 DEF Local
  <2>3. pc'[t] \notin {"idle", "cfglock", "cfg", "lock", "setup", "release"}
    BY <1>1 DEF InMsg
  <2>. QED
    BY <2>2, <2>3 DEF Local
<1>4. Between(t)'
  BY <1>1 DEF Between, InMsg
<1>. QED
  BY <1>1, <1>2, <1>3, <1>4, FlowInside

\* What InFlight says of the chunk itself, apart from where its thread is.
Programmed(t) ==
  /\ current.owner = t /\ current.read = Head(todo[t]).read /\ current.stop = ChunkStop(t)
  /\ Continued(t)
  /\ is_nack => bus \in {"stop", "idle", "lost", "off"}
  /\ is_err \/ is_arlo => bus = "off"

LEMMA ProgrammedStays ==
  ASSUME NEW t \in Threads, Programmed(t),
         UNCHANGED <<current, is_nack, is_err, is_arlo, todo, rest, reading>>,
         rlden' => rlden, bus' \in {bus, "off"}
  PROVE  Programmed(t)' /\ Chunk(t)' = Chunk(t)
<1>1. Chunk(t)' = Chunk(t) /\ (LastChunk(t)' <=> LastChunk(t))
  BY DEF Chunk, LastChunk
<1>2. ChunkStop(t)' = ChunkStop(t)
  BY <1>1 DEF ChunkStop
<1>. QED
  BY <1>1, <1>2 DEF Programmed, Continued

\* The interrupts of a chunk are enabled.
LEMMA FlowEnable ==
  ASSUME TypeInv, BusInv, Flow, NEW t \in Threads,
         EnableTransfer(t) \/ EnableData(t)
  PROVE  Flow'
<1>1. pc[t] \in {"enable", "arm"} /\ pc[t] \in InMsg
  BY DEF EnableTransfer, EnableData, InMsg
<1>2. PICK l \in {"arm", "wait"} :
         /\ pc' = [pc EXCEPT ![t] = l]
         /\ l = "arm" => pc[t] = "enable"
         /\ l = "wait" => ("ctl" \in ie' <=> "ctl" \in ie)
  BY DEF EnableTransfer, EnableData, Goto
<1>3. UNCHANGED <<driver, todo, rest, is_timeout, ret, rlden, cnt, reading, bus, flags,
                  pend, left>>
  BY DEF EnableTransfer, EnableData
<1>4. UNCHANGED <<sync_sem, current, is_nack, is_err, is_arlo>>
  BY <1>3 DEF driver
<1>5. pc'[t] = l /\ l \in InMsg
  BY <1>2 DEF TypeInv, TypeOK, InMsg
<1>6. Wire /\ InFlight(t)
  BY DEF Flow
<1>7. Wire'
  BY <1>3, <1>6 DEF Wire
<1>8. Programmed(t)
  BY <1>1, <1>6 DEF InFlight, Programmed
<1>9. Programmed(t)' /\ Chunk(t)' = Chunk(t)
  BY <1>3, <1>4, <1>8, ProgrammedStays
<1>10. ~is_timeout'[t] /\ (Fouled' \/ Counted(t)')
  <2>1. ~is_timeout[t] /\ (Fouled \/ Counted(t))
    BY <1>1, <1>6 DEF InFlight
  <2>2. Fouled => Fouled'
    BY <1>3, <1>4 DEF Fouled, NoError
  <2>3. Counted(t) => Counted(t)'
    BY <1>3, <1>4, <1>9 DEF Counted
  <2>. QED
    BY <1>3, <2>1, <2>2, <2>3
<1>11. /\ sync_sem' \in {0, 1}
       /\ sync_sem' = 1 => Done' /\ (bus' = "held" => ~current'.stop)
  <2>1. /\ sync_sem \in {0, 1}
        /\ sync_sem = 1 => Done /\ (bus = "held" => ~current.stop)
        /\ pc[t] = "enable" => sync_sem = 0
    BY <1>1, <1>6 DEF InFlight
  <2>2. sync_sem = 1 => l = "wait"
    BY <1>2, <2>1
  <2>. QED
    BY <1>2, <1>3, <1>4, <2>1, <2>2 DEF Done
<1>12. InFlight(t)'
  BY <1>2, <1>5, <1>9, <1>10, <1>11 DEF InFlight, Programmed
<1>. QED
  BY <1>1, <1>2, <1>3, <1>5, <1>7, <1>12, FlowStep

\* The thread wakes: by the give of a handler, or by the clock.
LEMMA FlowWake ==
  ASSUME TypeInv, BusInv, Flow, ThreadsRun, NEW t \in Threads,
         TakeSync(t) \/ TimeOut(t)
  PROVE  Flow'
<1>1. pc[t] = "wait" /\ pc[t] \in InMsg
  BY DEF TakeSync, TimeOut, InMsg
<1>2. UNCHANGED <<bus_mutex, pm_locks, current, is_nack, is_err, is_arlo, todo, rest,
                  is_timeout, ret, chip, left>>
  BY DEF TakeSync, TimeOut, driver
<1>3. UNCHANGED <<ie, rlden, cnt, reading, bus, flags, pend>>
  BY <1>2 DEF chip
<1>4. Wire /\ InFlight(t)
  BY DEF Flow
<1>5. Wire'
  BY <1>3, <1>4 DEF Wire
<1>6. Programmed(t) /\ sync_sem \in {0, 1} /\ ~is_timeout[t] /\ (Fouled \/ Counted(t))
      /\ (sync_sem = 1 => Done /\ (bus = "held" => ~current.stop))
  BY <1>1, <1>4 DEF InFlight, Programmed
<1>7. Programmed(t)' /\ Chunk(t)' = Chunk(t)
  BY <1>2, <1>3, <1>6, ProgrammedStays
<1>8. CASE TakeSync(t)
  <2>1. sync_sem = 1 /\ sync_sem' = 0 /\ pc' = [pc EXCEPT ![t] = "check"]
    BY <1>6, <1>8 DEF TakeSync, Goto
  <2>2. pc'[t] = "check" /\ "check" \in InMsg
    BY <2>1 DEF TypeInv, TypeOK, InMsg
  <2>3. Done' /\ (bus' = "held" => ~current'.stop) /\ Done
    BY <1>2, <1>3, <1>6, <2>1 DEF Done
  <2>4. CASE Failed(t)
    <3>1. bus = "off"
      BY <1>6, <2>3, <2>4 DEF Failed, Done, Programmed
    <3>2. bus' = "off" /\ Failed(t)'
      BY <1>2, <1>3, <2>4, <3>1 DEF Failed
    <3>3. InFlight(t)'
      BY <1>7, <2>1, <2>2, <2>3, <3>2 DEF InFlight, Programmed
    <3>. QED
      BY <1>1, <1>2, <1>5, <2>1, <2>2, <3>3, FlowStep
  <2>5. CASE ~Failed(t)
    <3>1. ~Fouled
      BY <2>3, <2>5 DEF Failed, Fouled, NoError, Done
    <3>2. left[t] = rest[t] - Chunk(t) + current.len /\ current.len = 0
      BY <1>6, <2>3, <3>1 DEF Counted, Done
    <3>3. rest[t] - Chunk(t) \in Nat
      BY ChunkBound
    <3>4. left[t] = rest[t] - Chunk(t)
      BY <3>2, <3>3
    <3>5. left'[t] = rest'[t] - Chunk(t)' /\ ~Failed(t)'
      BY <1>2, <1>7, <2>5, <3>4 DEF Failed
    <3>6. InFlight(t)'
      BY <1>7, <2>1, <2>2, <2>3, <3>5 DEF InFlight, Programmed
    <3>. QED
      BY <1>1, <1>2, <1>5, <2>1, <2>2, <3>6, FlowStep
  <2>. QED
    BY <2>4, <2>5
<1>9. CASE TimeOut(t)
  <2>1. sync_sem = 0 /\ sync_sem' = 0 /\ pc' = [pc EXCEPT ![t] = "timedout"]
    BY <1>9 DEF TimeOut, Goto, driver
  <2>2. pc'[t] = "timedout" /\ "timedout" \in InMsg
    BY <2>1 DEF TypeInv, TypeOK, InMsg
  <2>3. ~EventLine' /\ ~ErrorLine'
    BY <1>3 DEF ThreadsRun, EventLine, ErrorLine
  <2>4. InFlight(t)'
    BY <1>7, <2>1, <2>2, <2>3 DEF InFlight, Programmed
  <2>. QED
    BY <1>1, <1>2, <1>5, <2>1, <2>2, <2>4, FlowStep
<1>. QED
  BY <1>8, <1>9

\* The end of master mode after a timeout, and the second take.
LEMMA FlowDrain ==
  ASSUME TypeInv, BusInv, Flow, NEW t \in Threads,
         EndOnTimeout(t) \/ Drain(t)
  PROVE  Flow'
<1>1. pc[t] \in {"timedout", "drain"} /\ pc[t] \in InMsg
      /\ UNCHANGED <<current, is_nack, is_err, is_arlo, todo, rest, ret, pend, left>>
  BY DEF EndOnTimeout, Drain, InMsg, chip
<1>2. InFlight(t) /\ Wire /\ pend = {}
  BY DEF Flow, Wire
<1>3. Programmed(t)
  BY <1>1, <1>2 DEF InFlight, Programmed
<1>4. CASE EndOnTimeout(t)
  <2>1. sync_sem = 0 /\ MasterModeEnd /\ pc' = [pc EXCEPT ![t] = "drain"]
    BY <1>1, <1>2, <1>4 DEF EndOnTimeout, InFlight, Goto
  <2>2. pc'[t] = "drain" /\ "drain" \in InMsg
    BY <2>1 DEF TypeInv, TypeOK, InMsg
  <2>3. /\ sync_sem' = 1 /\ Done' /\ bus' = "off" /\ flags' = {} /\ ~rlden'
        /\ "ctl" \notin ie' /\ reading' = reading /\ Wire'
    BY <1>1, <1>2, <2>1, ModeEnds
  <2>4. Programmed(t)'
    BY <1>1, <1>3, <2>3, ProgrammedStays
  <2>5. InFlight(t)'
    BY <2>2, <2>3, <2>4 DEF InFlight, Programmed
  <2>. QED
    BY <1>1, <2>1, <2>2, <2>3, <2>5, FlowStep
<1>5. CASE Drain(t)
  <2>1. sync_sem = 1 /\ bus = "off" /\ Done
    BY <1>2, <1>5, <1>1 DEF Drain, InFlight, InMsg
  <2>2. sync_sem' = 0 /\ pc' = [pc EXCEPT ![t] = "check"]
        /\ UNCHANGED <<ie, rlden, cnt, reading, bus, flags>>
    BY <1>5, <2>1 DEF Drain, Goto, chip
  <2>3. is_timeout'[t]
    BY <1>5 DEF Drain, TypeInv, TypeOK
  <2>4. pc'[t] = "check" /\ "check" \in InMsg
    BY <2>2 DEF TypeInv, TypeOK, InMsg
  <2>5. Wire' /\ Done' /\ bus' = "off" /\ Failed(t)'
    BY <1>1, <1>2, <2>1, <2>2, <2>3 DEF Wire, Done, Failed
  <2>6. Programmed(t)'
    BY <1>1, <1>3, <2>2, ProgrammedStays
  <2>7. InFlight(t)'
    BY <2>2, <2>4, <2>5, <2>6 DEF InFlight, Programmed
  <2>. QED
    BY <1>1, <2>2, <2>4, <2>5, <2>7, FlowStep
<1>. QED
  BY <1>4, <1>5

\* A failed chunk: the flags are cleared and the transfer left.
LEMMA FlowFail ==
  ASSUME TypeInv, BusInv, Flow, NEW t \in Threads, Fail(t)
  PROVE  Flow'
<1>1. /\ pc[t] = "check" /\ Failed(t) /\ pc' = [pc EXCEPT ![t] = "release"]
      /\ ~is_nack' /\ ~is_err' /\ ~is_arlo' /\ ret' = [ret EXCEPT ![t] = "eio"]
      /\ UNCHANGED <<sync_sem, todo, rest, left>>
      /\ UNCHANGED <<ie, rlden, cnt, reading, bus, flags, pend>>
  BY DEF Fail, Goto, chip
<1>2. pc[t] \in Inside /\ pc[t] \in Holding /\ "release" \in Labels
  BY <1>1 DEF Inside, InMsg, Labels, Holding, InTransfer
<1>3. pc'[t] = "release" /\ ret'[t] = "eio"
      /\ \A u \in Threads : u # t => pc'[u] = pc[u] /\ ret'[u] = ret[u]
  BY <1>1 DEF TypeInv, TypeOK
<1>4. Wire /\ InFlight(t)
  BY DEF Flow
<1>5. sync_sem = 0 /\ Done /\ bus = "off"
  BY <1>1, <1>4 DEF InFlight, InMsg
<1>6. Wire'
  BY <1>1, <1>4 DEF Wire
<1>7. Free'
  BY <1>1, <1>5 DEF Free, NoError, Done
<1>8. Local(t)'
  BY <1>3 DEF Local, Inside, InMsg
<1>9. Between(t)' /\ InFlight(t)'
  BY <1>3 DEF Between, InFlight, InMsg
<1>. QED
  BY <1>1, <1>2, <1>3, <1>6, <1>7, <1>8, <1>9, FlowInside

\* A chunk that went well: its bytes are all across.
LEMMA CheckedChunk ==
  ASSUME TypeInv, Flow, NEW t \in Threads, pc[t] = "check", ~Failed(t)
  PROVE  /\ sync_sem = 0 /\ Done /\ NoError /\ Continued(t)
         /\ bus = "held" => ~ChunkStop(t)
         /\ left[t] = rest[t] - Chunk(t)
         /\ LastChunk(t) => left[t] = 0
<1>1. InFlight(t) /\ pc[t] \in InMsg
  BY DEF Flow, InMsg
<1>2. /\ sync_sem = 0 /\ Done /\ Continued(t) /\ (bus = "held" => ~ChunkStop(t))
      /\ left[t] = rest[t] - Chunk(t)
  BY <1>1 DEF InFlight
<1>3. LastChunk(t) => left[t] = 0
  BY <1>2 DEF LastChunk, Chunk, MinOf, TypeInv, TypeOK
<1>. QED
  BY <1>2, <1>3 DEF Failed, NoError

\* A chunk that went well is followed by the next chunk, the next message or the
\* end of the array.
LEMMA FlowAdvance ==
  ASSUME TypeInv, BusInv, Flow, NEW t \in Threads, Advance(t)
  PROVE  Flow'
<1>1. /\ pc \in [Threads -> Labels] /\ todo \in [Threads -> Seq(Message)]
      /\ rest \in [Threads -> Nat] /\ left \in [Threads -> Nat]
      /\ ret \in [Threads -> {"none", "ok", "eio", "einval"}]
  BY DEF TypeInv, TypeOK
<1>2. /\ pc[t] = "check" /\ ~Failed(t) /\ ret' = [ret EXCEPT ![t] = "ok"]
      /\ UNCHANGED <<driver, is_timeout, chip>>
  BY DEF Advance
<1>3. /\ UNCHANGED <<sync_sem, current, is_nack, is_err, is_arlo>>
      /\ UNCHANGED <<ie, rlden, cnt, reading, bus, flags, pend>>
  BY <1>2 DEF driver, chip
<1>4. pc[t] \in Inside /\ "setup" \in Labels /\ "release" \in Labels
  BY <1>2 DEF Inside, InMsg, Labels, Holding, InTransfer
<1>5. Wire /\ Local(t)
  BY DEF Flow
<1>6. Wire'
  BY <1>3, <1>5 DEF Wire
<1>7. /\ sync_sem = 0 /\ Done /\ NoError /\ Continued(t)
      /\ bus = "held" => ~ChunkStop(t)
      /\ left[t] = rest[t] - Chunk(t)
      /\ LastChunk(t) => left[t] = 0
  BY <1>2, CheckedChunk
<1>8. sync_sem' = 0 /\ Done' /\ NoError'
  BY <1>3, <1>7 DEF Done, NoError
<1>9. PICK p : p = todo[t]
  OBVIOUS
<1>10. p \in Seq(Message) /\ p # <<>> /\ Orderly(p) /\ rest[t] <= Head(p).len
       /\ Head(p).len \in Nat
  BY <1>1, <1>2, <1>4, <1>5, <1>9, HeadTail
     DEF TypeInv, TodoOK, InTransfer, InMsg, Local, Message
<1>11. Len(p) \in Nat \ {0}
  BY <1>10
<1>12. CASE /\ ~LastChunk(t)
            /\ rest' = [rest EXCEPT ![t] = @ - Chunk(t)]
            /\ pc' = [pc EXCEPT ![t] = "setup"]
            /\ UNCHANGED <<todo, left>>
  <2>1. pc'[t] = "setup" /\ rest'[t] = left[t] /\ left'[t] = left[t] /\ todo'[t] = p
    BY <1>1, <1>7, <1>9, <1>12
  <2>2. rest'[t] < rest[t] /\ rest'[t] \in Nat
    <3>1. rest[t] \in Nat /\ ~(rest[t] <= MaxChunk) /\ MaxChunk \in Nat \ {0}
      BY <1>1, <1>12, ChunkAssumption DEF LastChunk
    <3>2. Chunk(t) = MaxChunk
      BY <3>1 DEF Chunk, MinOf
    <3>3. left[t] = rest[t] - MaxChunk
      BY <1>7, <3>2
    <3>. QED
      BY <2>1, <3>1, <3>3
  <2>3. rest'[t] < Head(p).len
    BY <1>1, <1>10, <2>2
  <2>4. Local(t)'
    BY <1>10, <2>1, <2>2, <2>3 DEF Local, Inside, InMsg
  <2>5. Between(t)'
    <3>1. Continued(t)'
      BY <1>3, <1>7, <1>9, <2>1 DEF Continued
    <3>2. rest'[t] # Head(todo'[t]).len
      BY <1>10, <2>1, <2>2, <2>3
    <3>. QED
      BY <1>8, <3>1, <3>2 DEF Between
  <2>6. Free' /\ InFlight(t)'
    BY <2>1 DEF Free, Inside, InFlight, InMsg
  <2>7. \A u \in Threads : u # t => todo'[u] = todo[u] /\ rest'[u] = rest[u]
                                    /\ left'[u] = left[u] /\ ret'[u] = ret[u]
    BY <1>2, <1>12
  <2>. QED
    BY <1>4, <1>6, <1>12, <2>4, <2>5, <2>6, <2>7, FlowInside
<1>13. CASE /\ LastChunk(t) /\ Len(todo[t]) > 1
            /\ todo' = [todo EXCEPT ![t] = Tail(@)]
            /\ rest' = [rest EXCEPT ![t] = todo[t][2].len]
            /\ left' = [left EXCEPT ![t] = todo[t][2].len]
            /\ pc' = [pc EXCEPT ![t] = "setup"]
  <2>1. pc'[t] = "setup" /\ rest'[t] = p[2].len /\ left'[t] = p[2].len
        /\ todo'[t] = Tail(p) /\ Len(p) > 1
    BY <1>1, <1>9, <1>13
  <2>2. /\ Orderly(Tail(p)) /\ Head(Tail(p)) = p[2] /\ Len(Tail(p)) = Len(p) - 1
        /\ Len(p) > 2 => Tail(p)[2] = p[3]
    BY <1>10, <2>1, OrderlyTail
  <2>3. p[2].len \in Nat /\ p[2].restart \in BOOLEAN
    BY <1>10, <2>1, HeadTail
  <2>4. Local(t)'
    <3>1. rest'[t] <= Head(todo'[t]).len
      BY <2>1, <2>2, <2>3
    <3>. QED
      BY <2>1, <2>2, <3>1 DEF Local, Inside, InMsg
  <2>5. rlden => ~Head(p).stop
    BY <1>5, <1>7, <1>9, <1>13 DEF Wire, Done, ChunkStop
  <2>6. rlden => ~p[2].restart /\ p[2].read = reading
    <3>1. rlden => reading = Head(p).read /\ ~p[2].restart
      BY <1>7, <1>9, <2>1, <2>5 DEF Continued
    <3>. QED
      BY <1>10, <2>1, <2>5, <3>1, OrderlyHead
  <2>7. Continued(t)'
    <3>1. ASSUME rlden', Len(Tail(p)) > 1, ~p[2].stop
          PROVE  ~Tail(p)[2].restart
      <4>1. Len(p) > 2
        BY <1>11, <2>2, <3>1
      <4>2. rlden
        BY <1>3, <3>1
      <4>. QED
        BY <1>10, <2>2, <2>5, <2>6, <3>1, <4>1, <4>2, OrderlyHead
    <3>2. rlden' => reading' = Head(Tail(p)).read
      BY <1>3, <2>2, <2>6
    <3>. QED
      BY <2>1, <2>2, <3>1, <3>2 DEF Continued
  <2>8. Between(t)'
    BY <1>3, <1>8, <2>1, <2>2, <2>6, <2>7 DEF Between
  <2>9. Free' /\ InFlight(t)'
    BY <2>1 DEF Free, Inside, InFlight, InMsg
  <2>10. \A u \in Threads : u # t => todo'[u] = todo[u] /\ rest'[u] = rest[u]
                                     /\ left'[u] = left[u] /\ ret'[u] = ret[u]
    BY <1>2, <1>13
  <2>. QED
    BY <1>4, <1>6, <1>13, <2>4, <2>8, <2>9, <2>10, FlowInside
<1>14. CASE /\ LastChunk(t) /\ Len(todo[t]) = 1
            /\ pc' = [pc EXCEPT ![t] = "release"]
            /\ UNCHANGED <<todo, rest, left>>
  <2>1. pc'[t] = "release" /\ ret'[t] = "ok" /\ left'[t] = 0
    BY <1>1, <1>2, <1>7, <1>14
  <2>2. bus' = "off"
    <3>1. ChunkStop(t)
      BY <1>9, <1>10, <1>14, OrderlyHead DEF ChunkStop
    <3>. QED
      BY <1>3, <1>7, <3>1 DEF Done
  <2>3. Local(t)'
    BY <2>1 DEF Local, Inside, InMsg
  <2>4. Free'
    BY <1>8, <2>2 DEF Free, Done
  <2>5. Between(t)' /\ InFlight(t)'
    BY <2>1 DEF Between, InFlight, InMsg
  <2>6. \A u \in Threads : u # t => todo'[u] = todo[u] /\ rest'[u] = rest[u]
                                    /\ left'[u] = left[u] /\ ret'[u] = ret[u]
    BY <1>2, <1>14
  <2>. QED
    BY <1>4, <1>6, <1>14, <2>3, <2>4, <2>5, <2>6, FlowInside
<1>. QED
  BY <1>12, <1>13, <1>14 DEF Advance, Goto

\* Every step keeps Flow.
LEMMA FlowNext ==
  ASSUME OnTime, TypeInv, BusInv, Flow, [Next]_vars
  PROVE  Flow'
<1>1. ASSUME NEW t \in Threads, InCall(t) PROVE Flow'
  <2>1. CASE TakeBus(t) \/ TakeBusToConfigure(t)
    BY <2>1, FlowTakeBus
  <2>2. CASE StartChunk(t)
    BY <2>2, FlowStartChunk
  <2>3. CASE EnableTransfer(t) \/ EnableData(t)
    BY <2>3, FlowEnable
  <2>4. CASE TakeSync(t) \/ TimeOut(t)
    BY <1>1, <2>4, FlowWake DEF InCall
  <2>5. CASE EndOnTimeout(t) \/ Drain(t)
    BY <2>5, FlowDrain
  <2>6. CASE Fail(t)
    BY <2>6, FlowFail
  <2>7. CASE Advance(t)
    BY <2>7, FlowAdvance
  <2>8. CASE Release(t) \/ ApplyConfiguration(t)
    BY <2>8, FlowLeave
  <2>. QED
    BY <1>1, <2>1, <2>2, <2>3, <2>4, <2>5, <2>6, <2>7, <2>8 DEF InCall
<1>2. ASSUME NEW t \in Threads, Enter(t) PROVE Flow'
  BY <1>2, FlowEnter
<1>3. CASE EventIsr
  BY <1>3, FlowEventIsr
<1>4. CASE ErrorIsr
  BY <1>4, FlowErrorIsr
<1>5. CASE Controller
  BY <1>5, FlowController
<1>6. CASE UNCHANGED vars
  BY <1>6 DEF vars, driver, locals, chip, Flow, Wire, Free, Local, Between, InFlight,
              Done, NoError, Continued, Counted, Fouled, Chunk, LastChunk, ChunkStop,
              EventLine, ErrorLine, Failed
<1>. QED
  BY <1>1, <1>2, <1>3, <1>4, <1>5, <1>6 DEF Next

-----------------------------------------------------------------------------
(* The theorems. *)

\* The wire, the counts and the semaphore are right in every reachable state.
LEMMA FlowInvariant ==
  ASSUME OnTime
  PROVE  Spec => [](TypeInv /\ BusInv /\ Flow)
<1>1. TypeInv /\ BusInv /\ Flow /\ [Next]_vars => Flow'
  BY FlowNext
<1>. QED
  BY <1>1, FlowInit, TypeInvariant, BusInvariant, PTL DEF Spec

\* A handler never runs with a current.msg whose stack frame has gone
\* (at32_i2c_event, at32_i2c_error), for any threads and message arrays; where no
\* interrupt comes between a timeout and the disabling of the interrupts, and the
\* arrays are ones msg_init treats as they ask.
THEOREM HandlersOwnMessage ==
  ASSUME OnTime
  PROVE  Spec => []IsrOwnsCurrent
<1>1. TypeInv /\ BusInv /\ Flow => IsrOwnsCurrent
  <2> SUFFICES ASSUME TypeInv, BusInv, Flow, EventLine \/ ErrorLine \/ pend # {}
               PROVE  FrameLive
    BY DEF IsrOwnsCurrent
  <2>1. pend = {}
    BY DEF Flow, Wire
  <2>2. PICK t \in Threads : Awaited(t)
    BY <2>1, LineAwaited
  <2>. QED
    BY <2>2, ThreadAssumption DEF Awaited, FrameLive, InMsg
<1>. QED
  BY <1>1, FlowInvariant, PTL

\* at32_i2c_transaction goes on to the next message, or returns 0, only when every
\* byte of the message has crossed the wire, for messages of any length, any chunk
\* size and any faults of the bus; under the same conditions.
THEOREM SuccessTrue ==
  ASSUME OnTime
  PROVE  Spec => SuccessMeansDone
<1>1. TypeInv /\ BusInv /\ Flow /\ [Next]_vars =>
        [\A t \in Threads :
           pc[t] = "check" /\ LastChunk(t) /\ pc'[t] # "check" /\ ret'[t] = "ok"
           => left[t] = 0]_vars
  <2> SUFFICES ASSUME TypeInv, BusInv, Flow, Next, NEW t \in Threads,
                      pc[t] = "check", LastChunk(t), pc'[t] # "check", ret'[t] = "ok"
               PROVE  left[t] = 0
    OBVIOUS
  <2>1. ~(EventIsr \/ ErrorIsr \/ Controller)
    BY DEF EventIsr, ErrorIsr, Controller, ExtOnly, ExtAddrAck, ExtNack, ExtByte,
           ExtCountDone, ExtStopDone, ExtArbitrationLost, ExtBusError, locals
  <2>2. PICK u \in Threads : InCall(u) \/ Enter(u)
    BY <2>1 DEF Next
  <2>3. pc \in [Threads -> Labels] /\ ret \in [Threads -> {"none", "ok", "eio", "einval"}]
    BY DEF TypeInv, TypeOK
  <2>4. u = t
    <3>1. \E l \in Labels : pc' = [pc EXCEPT ![u] = l]
      BY <2>2 DEF InCall, Enter, Goto, Labels, Holding, InTransfer, InMsg,
            TakeBus, StartChunk, EnableTransfer, EnableData, TakeSync, TimeOut,
            EndOnTimeout, Drain, Fail, Advance, Release, TakeBusToConfigure,
            ApplyConfiguration, Reconfigure, Submit
    <3>. QED
      BY <2>3, <3>1
  <2>5. Fail(t) \/ Advance(t)
    BY <2>2, <2>4 DEF InCall, Enter, TakeBus, StartChunk, EnableTransfer, EnableData,
          TakeSync, TimeOut, EndOnTimeout, Drain, Release, TakeBusToConfigure,
          ApplyConfiguration, Reconfigure, Submit
  <2>6. ~Fail(t)
    BY <2>3 DEF Fail
  <2>7. ~Failed(t)
    BY <2>5, <2>6 DEF Advance
  <2>. QED
    BY <2>7, CheckedChunk
<1>. QED
  BY <1>1, FlowInvariant, PTL DEF Spec, SuccessMeansDone

\* A message with I2C_MSG_RESTART goes out after a START and in its own direction
\* (at32_i2c_msg_init); under the same conditions.
THEOREM RestartsHonoured ==
  ASSUME OnTime
  PROVE  Spec => RestartHonoured
<1>1. TypeInv /\ BusInv /\ Flow /\ [Next]_vars =>
        [\A t \in Threads :
           /\ pc[t] = "setup" /\ pc'[t] = "enable"
           /\ Head(todo[t]).restart /\ rest[t] = Head(todo[t]).len
           => bus' = "addr" /\ reading' = Head(todo[t]).read]_vars
  <2> SUFFICES ASSUME TypeInv, BusInv, Flow, Next, NEW t \in Threads,
                      pc[t] = "setup", pc'[t] = "enable",
                      Head(todo[t]).restart, rest[t] = Head(todo[t]).len
               PROVE  bus' = "addr" /\ reading' = Head(todo[t]).read
    OBVIOUS
  <2>1. ~(EventIsr \/ ErrorIsr \/ Controller)
    BY DEF EventIsr, ErrorIsr, Controller, ExtOnly, ExtAddrAck, ExtNack, ExtByte,
           ExtCountDone, ExtStopDone, ExtArbitrationLost, ExtBusError, locals
  <2>2. PICK u \in Threads : InCall(u) \/ Enter(u)
    BY <2>1 DEF Next
  <2>3. pc \in [Threads -> Labels]
    BY DEF TypeInv, TypeOK
  <2>4. u = t
    <3>1. \E l \in Labels : pc' = [pc EXCEPT ![u] = l]
      BY <2>2 DEF InCall, Enter, Goto, Labels, Holding, InTransfer, InMsg,
            TakeBus, StartChunk, EnableTransfer, EnableData, TakeSync, TimeOut,
            EndOnTimeout, Drain, Fail, Advance, Release, TakeBusToConfigure,
            ApplyConfiguration, Reconfigure, Submit
    <3>. QED
      BY <2>3, <3>1
  <2>5. StartChunk(t)
    BY <2>2, <2>4 DEF InCall, Enter, TakeBus, EnableTransfer, EnableData, TakeSync,
          TimeOut, EndOnTimeout, Drain, Fail, Advance, Release, TakeBusToConfigure,
          ApplyConfiguration, Reconfigure, Submit
  <2>6. ~rlden
    BY DEF Flow, Between
  <2>. QED
    BY <2>5, <2>6 DEF StartChunk, MsgInit
<1>. QED
  BY <1>1, FlowInvariant, PTL DEF Spec, RestartHonoured

-----------------------------------------------------------------------------
(* The driver implements I2cService: Submit and Reconfigure are requests,  *)
(* taking bus_mutex grants them, a byte served for the owner moves, going  *)
(* on to the next message is NextMessage, giving the bus back finishes.    *)

StageBar  == [t \in Threads |-> Stage(t)]
ResultBar == [t \in Threads |-> IF pc[t] = "idle" THEN ret[t] ELSE "pending"]

\* What the service sees of a thread.
LEMMA SeenAs ==
  ASSUME NEW t \in Threads
  PROVE  /\ pc[t] = "idle" => Stage(t) = "idle"
         /\ pc[t] \in {"lock", "cfglock"} => Stage(t) = "waiting"
         /\ pc[t] \in Holding => Stage(t) = "serving"
  BY DEF Stage, Holding, InTransfer, InMsg

\* A step at which nobody enters or leaves a stage is not seen.
LEMMA Unseen ==
  ASSUME \A u \in Threads :
            \/ pc'[u] = pc[u] /\ ret'[u] = ret[u]
            \/ pc[u] \in Holding /\ pc'[u] \in Holding
  PROVE  UNCHANGED <<StageBar, ResultBar>>
<1>1. ASSUME NEW u \in Threads PROVE Stage(u)' = Stage(u)
  BY DEF Stage, Holding, InTransfer, InMsg
<1>2. ASSUME NEW u \in Threads
      PROVE  (IF pc[u] = "idle" THEN ret[u] ELSE "pending")'
               = (IF pc[u] = "idle" THEN ret[u] ELSE "pending")
  BY DEF Holding, InTransfer, InMsg
<1>. QED
  BY <1>1, <1>2 DEF StageBar, ResultBar

\* One thread goes to another stage.
LEMMA Seen ==
  ASSUME NEW t \in Threads,
         \A u \in Threads : u # t => pc'[u] = pc[u] /\ ret'[u] = ret[u]
  PROVE  /\ StageBar' = [StageBar EXCEPT ![t] = Stage(t)']
         /\ ResultBar' = [ResultBar EXCEPT ![t] =
                            IF pc'[t] = "idle" THEN ret'[t] ELSE "pending"]
<1>1. ASSUME NEW u \in Threads, u # t PROVE Stage(u)' = Stage(u)
  BY <1>1 DEF Stage
<1>. QED
  BY <1>1 DEF StageBar, ResultBar

\* The initial states are initial for the service.
LEMMA ServiceInit == Init => Service!Init
<1> SUFFICES ASSUME Init PROVE Service!Init
  OBVIOUS
<1>1. \A t \in Threads : pc[t] = "idle" /\ ret[t] = "none" /\ Stage(t) = "idle"
  BY DEF Init, Stage
<1>2. left = [t \in Threads |-> 0]
  BY DEF Init
<1>. QED
  BY <1>1, <1>2 DEF Service!Init

\* A request enters.
LEMMA ServiceEnter ==
  ASSUME TypeInv, NEW t \in Threads, Enter(t)
  PROVE  Service!Request(t)
<1>1. pc \in [Threads -> Labels] /\ left \in [Threads -> Nat]
      /\ ret \in [Threads -> {"none", "ok", "eio", "einval"}]
  BY DEF TypeInv, TypeOK
<1>2. pc[t] = "idle" /\ pc'[t] \in {"lock", "cfglock"}
      /\ \A u \in Threads : u # t => pc'[u] = pc[u] /\ ret'[u] = ret[u]
  BY <1>1 DEF Enter, Reconfigure, Submit, Goto
<1>3. left'[t] \in Nat /\ left' = [left EXCEPT ![t] = left'[t]]
  <2>1. CASE Reconfigure(t)
    BY <1>1, <2>1 DEF Reconfigure
  <2>2. ASSUME NEW p \in Plans, Submit(t, p)
        PROVE  left'[t] \in Nat /\ left' = [left EXCEPT ![t] = left'[t]]
    BY <1>1, <2>2, FirstRestart DEF Submit
  <2>. QED
    BY <2>1, <2>2 DEF Enter
<1>4. Stage(t) = "idle" /\ Stage(t)' = "waiting"
  BY <1>2 DEF Stage
<1>5. StageBar' = [StageBar EXCEPT ![t] = "waiting"]
      /\ ResultBar' = [ResultBar EXCEPT ![t] = "pending"]
  BY <1>2, <1>4, Seen
<1>. QED
  BY <1>3, <1>4, <1>5 DEF Service!Request, StageBar, ResultBar

\* The bus is granted.
LEMMA ServiceGrant ==
  ASSUME TypeInv, BusInv, NEW t \in Threads, TakeBus(t) \/ TakeBusToConfigure(t)
  PROVE  Service!Grant(t)
<1>1. pc \in [Threads -> Labels]
  BY DEF TypeInv, TypeOK
<1>2. pc[t] \in {"lock", "cfglock"} /\ pc'[t] \in {"setup", "cfg"} /\ UNCHANGED <<left, ret>>
      /\ bus_mutex > 0 /\ \A u \in Threads : u # t => pc'[u] = pc[u]
  BY <1>1 DEF TakeBus, TakeBusToConfigure, Goto
<1>3. ASSUME NEW u \in Threads PROVE Stage(u) # "serving"
  <2>1. pc[u] \in {"idle", "lock", "cfglock"}
    BY <1>1, <1>2 DEF BusInv, BusExclusive, Labels
  <2>. QED
    BY <2>1 DEF Stage
<1>4. Stage(t) = "waiting" /\ Stage(t)' = "serving" /\ pc'[t] # "idle" /\ pc[t] # "idle"
  BY <1>2 DEF Stage
<1>5. StageBar' = [StageBar EXCEPT ![t] = "serving"]
      /\ ResultBar' = [ResultBar EXCEPT ![t] = "pending"]
  BY <1>2, <1>4, Seen
<1>6. ResultBar' = ResultBar
  BY <1>4, <1>5 DEF ResultBar
<1>. QED
  BY <1>2, <1>3, <1>4, <1>5, <1>6 DEF Service!Grant, StageBar, ResultBar

\* The request is answered.
LEMMA ServiceFinish ==
  ASSUME TypeInv, Flow, NEW t \in Threads, Release(t) \/ ApplyConfiguration(t)
  PROVE  Service!Finish(t)
<1>1. pc \in [Threads -> Labels] /\ left \in [Threads -> Nat]
      /\ ret \in [Threads -> {"none", "ok", "eio", "einval"}]
  BY DEF TypeInv, TypeOK
<1>2. pc[t] \in {"release", "cfg"} /\ pc'[t] = "idle"
      /\ \A u \in Threads : u # t => pc'[u] = pc[u] /\ ret'[u] = ret[u]
  BY <1>1 DEF Release, ApplyConfiguration, Goto
<1>3. Local(t)
  BY DEF Flow
<1>4. ret'[t] = "eio" \/ (ret'[t] = "ok" /\ left[t] = 0)
  BY <1>1, <1>2, <1>3 DEF Release, ApplyConfiguration, Local
<1>5. left' = [left EXCEPT ![t] = 0]
  BY <1>1, <1>3 DEF Release, ApplyConfiguration, Local
<1>6. Stage(t) = "serving" /\ Stage(t)' = "idle"
  BY <1>2 DEF Stage
<1>7. StageBar' = [StageBar EXCEPT ![t] = "idle"]
      /\ ResultBar' = [ResultBar EXCEPT ![t] = ret'[t]]
  BY <1>2, <1>6, Seen
<1>. QED
  BY <1>4, <1>5, <1>6, <1>7 DEF Service!Finish, StageBar, ResultBar

\* Going on after a chunk.
LEMMA ServiceAdvance ==
  ASSUME TypeInv, Flow, NEW t \in Threads, Advance(t)
  PROVE  Service!NextMessage(t) \/ UNCHANGED <<StageBar, left, ResultBar>>
<1>1. pc \in [Threads -> Labels] /\ left \in [Threads -> Nat]
      /\ todo \in [Threads -> Seq(Message)]
  BY DEF TypeInv, TypeOK
<1>2. pc[t] = "check" /\ ~Failed(t) /\ pc[t] \in Holding /\ ret' = [ret EXCEPT ![t] = "ok"]
  BY DEF Advance, Holding, InTransfer, InMsg
<1>3. \E l \in {"setup", "release"} : pc' = [pc EXCEPT ![t] = l]
  BY DEF Advance, Goto
<1>4. UNCHANGED <<StageBar, ResultBar>>
  <2>1. pc'[t] \in Holding
    BY <1>1, <1>3 DEF Holding, InTransfer
  <2>2. \A u \in Threads : u # t => pc'[u] = pc[u] /\ ret'[u] = ret[u]
    BY <1>1, <1>2, <1>3
  <2>. QED
    BY <1>2, <2>1, <2>2, Unseen
<1>5. CASE UNCHANGED left
  BY <1>4, <1>5
<1>6. CASE LastChunk(t) /\ Len(todo[t]) > 1 /\ left' = [left EXCEPT ![t] = todo[t][2].len]
  <2>1. left[t] = 0
    BY <1>2, <1>6, CheckedChunk
  <2>2. todo[t] # <<>>
    BY <1>2 DEF TypeInv, TodoOK, InTransfer, InMsg
  <2>3. todo[t][2].len \in Nat
    BY <1>1, <1>6, <2>2, HeadTail
  <2>4. left'[t] \in Nat /\ left' = [left EXCEPT ![t] = left'[t]]
    BY <1>1, <1>6, <2>3
  <2>5. Stage(t) = "serving"
    BY <1>2 DEF Stage
  <2>. QED
    BY <1>4, <2>1, <2>4, <2>5 DEF Service!NextMessage, StageBar, ResultBar
<1>. QED
  BY <1>5, <1>6 DEF Advance

\* A run of the event handler moves at most one byte, of the request it serves.
LEMMA ServiceMove ==
  ASSUME TypeInv, BusInv, Flow, EventIsr
  PROVE  (\E t \in Threads : Service!Move(t)) \/ UNCHANGED <<StageBar, left, ResultBar>>
<1>1. EventLine
  BY DEF EventIsr, Flow, Wire
<1>2. PICK t \in Threads : Awaited(t)
  BY <1>1, LineAwaited
<1>3. pc[t] \in {"enable", "arm", "wait"} /\ current.owner = t /\ left \in [Threads -> Nat]
  BY <1>2 DEF Awaited, TypeInv, TypeOK
<1>4. UNCHANGED <<pc, ret>>
  BY DEF EventIsr, locals
<1>5. UNCHANGED <<StageBar, ResultBar>>
  BY <1>4, Unseen
<1>6. CASE ByteCrossed /\ left[t] > 0
  <2>1. left' = [left EXCEPT ![t] = @ - 1]
    BY <1>3, <1>6 DEF EventIsr, ServeData
  <2>2. Stage(t) = "serving"
    BY <1>3 DEF Stage
  <2>. QED
    BY <1>5, <1>6, <2>1, <2>2 DEF Service!Move, StageBar, ResultBar
<1>7. CASE ~(ByteCrossed /\ left[t] > 0)
  <2>1. left' = left
    BY <1>3, <1>7 DEF EventIsr, ServeData
  <2>. QED
    BY <1>5, <2>1
<1>. QED
  BY <1>6, <1>7

\* Every step is a step of the service or is not seen by it.
LEMMA ServiceStep ==
  ASSUME OnTime, TypeInv, BusInv, Flow, [Next]_vars
  PROVE  [Service!Next]_<<StageBar, left, ResultBar>>
<1>1. ASSUME NEW t \in Threads, InCall(t)
      PROVE  [Service!Next]_<<StageBar, left, ResultBar>>
  <2>1. CASE TakeBus(t) \/ TakeBusToConfigure(t)
    BY <2>1, ServiceGrant DEF Service!Next
  <2>2. CASE Release(t) \/ ApplyConfiguration(t)
    BY <2>2, ServiceFinish DEF Service!Next
  <2>3. CASE Advance(t)
    BY <2>3, ServiceAdvance DEF Service!Next
  <2>4. CASE \/ StartChunk(t) \/ EnableTransfer(t) \/ EnableData(t) \/ TakeSync(t)
             \/ TimeOut(t) \/ EndOnTimeout(t) \/ Drain(t) \/ Fail(t)
    <3>1. pc \in [Threads -> Labels] /\ ret \in [Threads -> {"none", "ok", "eio", "einval"}]
      BY DEF TypeInv, TypeOK
    <3>2. left' = left /\ pc[t] \in Holding
          /\ \A u \in Threads : u # t => ret'[u] = ret[u]
      BY <2>4, <3>1 DEF StartChunk, EnableTransfer, EnableData, TakeSync, TimeOut,
            EndOnTimeout, Drain, Fail, Holding, InTransfer, InMsg
    <3>3. \E l \in InTransfer : pc' = [pc EXCEPT ![t] = l]
      BY <2>4 DEF StartChunk, EnableTransfer, EnableData, TakeSync, TimeOut,
            EndOnTimeout, Drain, Fail, Goto, InTransfer, InMsg
    <3>4. pc'[t] \in Holding /\ \A u \in Threads : u # t => pc'[u] = pc[u]
      BY <3>1, <3>3 DEF Holding
    <3>. QED
      BY <3>2, <3>4, Unseen
  <2>. QED
    BY <1>1, <2>1, <2>2, <2>3, <2>4 DEF InCall
<1>2. ASSUME NEW t \in Threads, Enter(t)
      PROVE  [Service!Next]_<<StageBar, left, ResultBar>>
  BY <1>2, ServiceEnter DEF Service!Next
<1>3. CASE EventIsr
  BY <1>3, ServiceMove DEF Service!Next
<1>4. CASE ErrorIsr \/ Controller \/ UNCHANGED vars
  <2>1. UNCHANGED <<pc, ret, left>>
    BY <1>4 DEF ErrorIsr, Controller, ExtOnly, ExtAddrAck, ExtNack, ExtByte,
           ExtCountDone, ExtStopDone, ExtArbitrationLost, ExtBusError, locals, vars
  <2>. QED
    BY <2>1, Unseen
<1>. QED
  BY <1>1, <1>2, <1>3, <1>4 DEF Next

\* The transfers do what I2cService promises their callers, for any threads,
\* messages, chunk size and faults: one request at a time, bytes moved only for it,
\* no success with bytes left; under the same conditions.
THEOREM DoesTheService ==
  ASSUME OnTime
  PROVE  Spec => ImplementsService
<1>1. TypeInv /\ BusInv /\ Flow /\ [Next]_vars => [Service!Next]_(Service!serviceVars)
  <2> SUFFICES ASSUME TypeInv, BusInv, Flow, [Next]_vars
               PROVE  [Service!Next]_(Service!serviceVars)
    OBVIOUS
  <2>. QED
    BY ServiceStep DEF Service!serviceVars, StageBar, ResultBar
<1>. QED
  BY <1>1, ServiceInit, FlowInvariant, PTL DEF Spec, ImplementsService, Service!ServiceSpec

=============================================================================
