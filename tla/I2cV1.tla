--------------------------------- MODULE I2cV1 ---------------------------------
(***************************************************************************)
(* drivers/i2c, V1 peripheral: transfers of i2c_at32.c in its two builds,  *)
(* with interrupts and polling, over a bus that moves a byte at a time.    *)
(* The peripheral stretches the clock while a start or an address waits to *)
(* be answered, and while both its data and its shift register are full    *)
(* (receiving) or empty (sending).  An interrupt handler is one step, and  *)
(* the thread does not run while an interrupt is pending.                  *)
(***************************************************************************)
EXTENDS Integers, Sequences

CONSTANTS
  Transfers,   (* sequences of messages [write, len, stop, restart]        *)
  Builds,      (* of "interrupt", "polling"                                *)
  Addressing,  (* values of I2C_ADDR_10_BITS                               *)
  Hazards      (* what may happen:                                         *)
               (*   "fast"     a transfer begins before the STOP of the    *)
               (*              last one is on the bus                      *)
               (*   "early"    the data interrupt of a message is taken    *)
               (*              before its START is on the bus              *)
               (*   "between"  an error is flagged between two messages    *)
               (*   "buserr"   the bus fails while a byte waits to be read *)
               (*              or a START to be made                       *)
               (*   "overrun"  the peripheral flags an overrun             *)
               (*   "preempt"  a byte comes in between clearing the        *)
               (*              address and setting the ack (polling)       *)

ASSUME TransferAssumption ==
  Transfers \subseteq
    Seq([write : BOOLEAN, len : Nat, stop : BOOLEAN, restart : BOOLEAN]) \ {<<>>}
ASSUME BuildAssumption ==
  /\ Builds \subseteq {"interrupt", "polling"} /\ Addressing \subseteq BOOLEAN
  /\ Hazards \subseteq {"fast", "early", "between", "buserr", "overrun", "preempt"}

VARIABLES
  build, tenBit,
  pc, msgs, result,  (* the thread, the messages left, the last result       *)
  cur, sem,          (* data->current (and the locals of the polling build), *)
                     (* data->sync_sem, counted up to SemBound               *)
  irq,               (* interrupt enables: all, and I2C_DATA_INT             *)
  i2c,               (* ctrl1 and ctrl2                                      *)
  bus, errors,       (* the bus and the data registers; the error flags      *)
  moved, clocked,    (* history: bytes of the message that reached the       *)
                     (* other side, and bytes the target was clocked for     *)
  owed               (* history: a STOP asked for is not on the bus yet      *)

config == <<build, tenBit>>
caller == <<pc, msgs, result>>
hist   == <<moved, clocked, owed>>
vars   == <<config, caller, cur, sem, irq, i2c, bus, errors, hist>>

SemBound == 3
NoMsg    == [len |-> 0, full |-> 0, write |-> FALSE, stop |-> FALSE, restart |-> FALSE,
             nack |-> FALSE, err |-> FALSE, arlo |-> FALSE]
IdleI2c  == [en |-> FALSE, ack |-> FALSE, pos |-> "current", start |-> FALSE, stop |-> FALSE]
FreeBus  == [phase |-> "free", read |-> FALSE, dr |-> 0, sh |-> 0, btf |-> FALSE, pend |-> FALSE]
IrqOff   == [all |-> FALSE, data |-> FALSE]

Init ==
  /\ build \in Builds /\ tenBit \in Addressing
  /\ pc = "idle" /\ msgs = <<>> /\ result = "none"
  /\ cur = NoMsg /\ sem = 0 /\ irq = IrqOff /\ i2c = IdleI2c
  /\ bus = FreeBus /\ errors = {}
  /\ moved = 0 /\ clocked = 0 /\ owed = FALSE

-----------------------------------------------------------------------------
(* Flags and interrupts of the peripheral *)

TDC  == IF bus.read THEN bus.dr = 1 /\ bus.sh = 1 ELSE bus.btf
TDBE == bus.phase = "tx" /\ bus.dr = 0 /\ (i2c.start => "early" \in Hazards)
RDBF == bus.read /\ bus.dr = 1

ErrorPending == irq.all /\ errors # {}
EventPending ==
  irq.all /\ (bus.phase \in {"sb", "header", "addr"} \/ TDC \/ (irq.data /\ (TDBE \/ RDBF)))
IrqPending   == ErrorPending \/ EventPending

\* i2c_data_send while sending, i2c_data_receive, and clearing I2C_ADDR7F_FLAG
DataSent(b)     == IF b.phase # "tx" THEN b
                   ELSE IF b.sh = 0 THEN [b EXCEPT !.sh = 1, !.btf = FALSE]
                   ELSE [b EXCEPT !.dr = 1, !.btf = FALSE]
DataReceived(b) == [b EXCEPT !.dr = b.sh, !.sh = 0, !.btf = FALSE]
AddrCleared(b)  == [b EXCEPT !.phase = IF b.read THEN "rx" ELSE "tx"]

\* at32_i2c_generate_start_condition
Started(r) == [r EXCEPT !.stop = FALSE, !.start = TRUE]
\* i2c_stop_generate if the message ends in one (first the fault of not asking)
StopAlways(r)  == [r EXCEPT !.stop = TRUE]
StopIfAsked(r) == [r EXCEPT !.stop = @ \/ cur.stop]

\* k_sem_give
Give == sem' = IF sem < SemBound THEN sem + 1 ELSE sem

-----------------------------------------------------------------------------
(* i2c_at32_transfer and at32_i2c_transaction *)

\* The first message always begins with a START; what the validation finds is
\* overwritten, so that every array is sent.
Call(ms) ==
  /\ pc = "idle" /\ (i2c.stop => "fast" \in Hazards)
  /\ msgs' = [ms EXCEPT ![1].restart = TRUE]
  /\ pc' = "init" /\ result' = "none"
  /\ UNCHANGED <<config, cur, sem, irq, i2c, bus, errors, hist>>

\* i2c_at32_configure
Configure(ten) ==
  /\ pc = "idle" /\ ten \in Addressing
  /\ tenBit' = ten
  /\ i2c' = IdleI2c /\ bus' = FreeBus /\ errors' = {} /\ irq' = IrqOff
  /\ owed' = FALSE
  /\ UNCHANGED <<build, caller, cur, sem, moved, clocked>>

-----------------------------------------------------------------------------
(* msg_init *)

SemReset ==
  /\ pc = "init" /\ ~IrqPending
  /\ sem' = 0 /\ pc' = "setup"
  /\ UNCHANGED <<config, msgs, result, cur, irq, i2c, bus, errors, hist>>

\* (first the fault of leaving current.msg as it was)
OpenedShort(m) == [NoMsg EXCEPT !.len = m.len, !.write = m.write, !.stop = m.stop]
Opened(m)      == [NoMsg EXCEPT !.len = m.len, !.full = m.len, !.write = m.write, !.stop = m.stop]

\* The rest of msg_init, and then the build's own way on.
Setup ==
  LET m == Head(msgs)
      e == [i2c EXCEPT !.en = TRUE, !.pos = "current", !.ack = TRUE] IN
  /\ pc = "setup" /\ ~IrqPending
  /\ cur' = Opened(m)
  /\ i2c' = IF m.restart THEN Started(e) ELSE e
  /\ moved' = 0 /\ clocked' = 0
  /\ pc' = IF build = "interrupt" THEN "enable"
           ELSE IF m.restart THEN "pSb" ELSE "pData"
  /\ UNCHANGED <<config, msgs, result, sem, irq, bus, errors, owed>>

(* at32_i2c_msg_write, at32_i2c_msg_read of the interrupt build *)

Enable ==
  /\ pc = "enable" /\ ~IrqPending
  /\ irq' = [all |-> TRUE, data |-> TRUE] /\ pc' = "wait"
  /\ UNCHANGED <<config, msgs, result, cur, sem, i2c, bus, errors, hist>>

Take ==
  /\ pc = "wait" /\ ~IrqPending /\ sem > 0
  /\ sem' = sem - 1 /\ pc' = "end"
  /\ UNCHANGED <<config, msgs, result, cur, irq, i2c, bus, errors, hist>>

TimedOut ==
  /\ pc = "wait" /\ ~IrqPending /\ sem = 0
  /\ pc' = "reset" /\ result' = "eio"
  /\ UNCHANGED <<config, msgs, cur, sem, irq, i2c, bus, errors, hist>>

\* i2c_at32_reset; ctrl1 is saved with the peripheral off and put back.
Reset ==
  /\ pc = "reset" /\ ~IrqPending
  /\ irq' = IrqOff
  /\ i2c' = [i2c EXCEPT !.en = FALSE, !.start = FALSE, !.stop = FALSE]
  /\ bus' = FreeBus /\ errors' = {} /\ owed' = FALSE
  /\ pc' = "idle" /\ msgs' = <<>>
  /\ UNCHANGED <<config, result, cur, sem, moved, clocked>>

\* at32_i2c_master_finish.  What a disabled peripheral has pending, or has not been
\* read, goes when the bus is free.
Finish ==
  /\ irq' = IrqOff
  /\ i2c' = IF bus.phase = "free" THEN [i2c EXCEPT !.en = FALSE, !.start = FALSE, !.stop = FALSE]
            ELSE [i2c EXCEPT !.en = FALSE]
  /\ bus' = IF bus.phase = "free" THEN FreeBus ELSE bus

Failed(c) == c.nack \/ c.err \/ c.arlo

\* msg_end, and the loop of i2c_at32_transfer.  A failure in the polling build
\* resets the peripheral too (first the fault of ignoring a nack).
Refused(c)  == c.err \/ c.arlo
FailedAt(c) == Failed(c)

EndMsg ==
  /\ pc = "end" /\ ~IrqPending
  /\ IF FailedAt(cur)
     THEN /\ Finish /\ result' = "eio"
          /\ pc' = IF build = "polling" THEN "reset" ELSE "idle"
          /\ cur' = [cur EXCEPT !.nack = FALSE, !.err = FALSE, !.arlo = FALSE]
          /\ msgs' = <<>> /\ UNCHANGED owed
     ELSE /\ msgs' = Tail(msgs)
          /\ IF Len(msgs) > 1 THEN pc' = "init" /\ UNCHANGED <<result, irq, i2c, bus>>
             ELSE pc' = "idle" /\ result' = "ok" /\ Finish
          /\ owed' = (cur.stop /\ bus.phase # "free")
          /\ UNCHANGED cur
  /\ UNCHANGED <<config, sem, errors, moved, clocked>>

-----------------------------------------------------------------------------
(* at32_i2c_event *)

Isr == /\ EventPending /\ UNCHANGED <<config, caller, errors, clocked, owed>>

\* A 10-bit address is sent in two parts, each read in the second header: but
\* handle_addr has undone is_restart by then.
HandleSb ==
  /\ Isr /\ bus.phase = "sb"
  /\ IF tenBit
     THEN /\ cur' = [cur EXCEPT !.restart = ~@]
          /\ bus' = [bus EXCEPT !.phase = IF cur.restart THEN "address" ELSE "head",
                                !.read = cur.restart]
          /\ UNCHANGED i2c
     ELSE /\ bus' = [bus EXCEPT !.phase = "address", !.read = ~cur.write]
          /\ i2c' = IF ~cur.write /\ cur.len = 2 THEN [i2c EXCEPT !.pos = "next"] ELSE i2c
          /\ UNCHANGED cur
  /\ UNCHANGED <<sem, irq, moved>>

HandleHeader ==
  /\ Isr /\ bus.phase = "header"
  /\ bus' = [bus EXCEPT !.phase = "address"]
  /\ UNCHANGED <<cur, sem, irq, i2c, moved>>

\* (first the fault of leaving the ack on for a single byte)
AddrReadAcked(r) == [r EXCEPT !.stop = @ \/ cur.len < 2, !.pos = IF cur.len = 2 THEN "next" ELSE @]
AddrRead(r) ==
  [r EXCEPT !.ack  = @ /\ cur.len \notin {1, 2},
            !.stop = @ \/ cur.len < 2,
            !.pos  = IF cur.len = 2 THEN "next" ELSE @]

HandleAddr ==
  /\ Isr /\ bus.phase = "addr"
  /\ bus' = AddrCleared(bus)
  /\ IF tenBit /\ ~cur.write /\ cur.restart
     THEN cur' = [cur EXCEPT !.restart = FALSE] /\ i2c' = Started(i2c)
     ELSE i2c' = (IF cur.write THEN i2c ELSE AddrRead(i2c)) /\ UNCHANGED cur
  /\ UNCHANGED <<sem, irq, moved>>

Txe ==
  IF cur.len > 0
  THEN /\ cur' = [cur EXCEPT !.len = @ - 1]
       /\ irq' = [irq EXCEPT !.data = @ /\ cur.len > 1]
       /\ bus' = DataSent(bus)
       /\ UNCHANGED <<i2c, sem>>
  ELSE /\ i2c' = StopIfAsked(i2c)
       /\ bus' = IF TDC THEN DataReceived(bus) ELSE bus
       /\ Give
       /\ UNCHANGED <<cur, irq>>

HandleTxe ==
  /\ Isr /\ ~TDC /\ TDBE /\ cur.write
  /\ Txe /\ UNCHANGED moved

\* Reads n bytes into the buffer.
Stored(n) ==
  /\ cur' = [cur EXCEPT !.len = @ - n]
  /\ bus' = IF n = 1 THEN DataReceived(bus) ELSE DataReceived(DataReceived(bus))
  /\ moved' = moved + (IF n = 1 THEN bus.dr ELSE bus.dr + bus.sh)

Rxne ==
  CASE cur.len = 1 ->
         /\ i2c' = StopIfAsked([i2c EXCEPT !.ack = FALSE, !.pos = "current"])
         /\ irq' = [irq EXCEPT !.data = FALSE]
         /\ Stored(1) /\ Give
    [] cur.len = 2 /\ cur.full > 2 -> UNCHANGED <<cur, sem, irq, i2c, bus, moved>>
    [] cur.len = 3 \/ (cur.len = 2 /\ cur.full = 2) ->
         /\ i2c' = IF cur.len = 2 THEN [i2c EXCEPT !.ack = FALSE, !.pos = "next"] ELSE i2c
         /\ irq' = [irq EXCEPT !.data = FALSE]
         /\ UNCHANGED <<cur, sem, bus, moved>>
    [] cur.len > 3 -> Stored(1) /\ UNCHANGED <<sem, irq, i2c>>
    [] cur.len = 0 ->
         i2c' = StopIfAsked(i2c) /\ Give /\ UNCHANGED <<cur, irq, bus, moved>>

HandleRxne == Isr /\ ~TDC /\ RDBF /\ ~cur.write /\ Rxne

HandleBtf ==
  /\ Isr /\ TDC /\ bus.phase # "addr"
  /\ CASE cur.write -> Txe /\ UNCHANGED moved
       [] ~cur.write /\ cur.len = 2 ->
            i2c' = StopIfAsked(i2c) /\ Stored(2) /\ Give /\ UNCHANGED irq
       [] ~cur.write /\ cur.len = 3 ->
            i2c' = [i2c EXCEPT !.ack = FALSE] /\ Stored(1) /\ UNCHANGED <<sem, irq>>
       [] ~cur.write /\ cur.len \notin {2, 3} -> Rxne

\* at32_i2c_error: one flag a run, in this order; an overrun is no error.
ErrorOrder == <<"ackfail", "arlost", "buserr", "ouf">>
\* (first the fault of leaving the flag set)
FlagKept(e)    == errors
FlagCleared(e) == errors \ {e}
FirstError(order) ==
  LET n == CHOOSE n \in 1 .. 4 : order[n] \in errors /\ \A k \in 1 .. (n - 1) : order[k] \notin errors
  IN order[n]

HandleError ==
  /\ ErrorPending
  /\ LET e == FirstError(ErrorOrder) IN
     /\ errors' = FlagCleared(e)
     /\ i2c' = IF e = "ackfail" THEN [i2c EXCEPT !.stop = TRUE] ELSE i2c
     /\ cur' = [cur EXCEPT !.nack = @ \/ e = "ackfail", !.arlo = @ \/ e = "arlost",
                           !.err = @ \/ e = "buserr"]
  /\ Give
  /\ UNCHANGED <<config, caller, irq, bus, hist>>

-----------------------------------------------------------------------------
(* at32_i2c_msg_write, at32_i2c_msg_read of the polling build *)

Poll(l, next) == /\ pc = l /\ pc' = next /\ UNCHANGED <<config, msgs, result, sem, irq, owed>>

\* The second START of a 10-bit read is the one after is_restart.
PollSb ==
  /\ Poll("pSb", IF tenBit /\ ~cur.restart THEN "pHeader" ELSE "pAddr")
  /\ bus.phase = "sb"
  /\ bus' = [bus EXCEPT !.phase = IF tenBit /\ ~cur.restart THEN "head" ELSE "address",
                        !.read = ~cur.write /\ (tenBit => cur.restart)]
  /\ UNCHANGED <<cur, i2c, errors, moved, clocked>>

PollHeader ==
  /\ Poll("pHeader", "pAddr") /\ bus.phase = "header"
  /\ bus' = [bus EXCEPT !.phase = "address"]
  /\ UNCHANGED <<cur, i2c, errors, moved, clocked>>

PollAddr ==
  LET again == tenBit /\ ~cur.write /\ ~cur.restart IN
  /\ Poll("pAddr", IF again THEN "pSb" ELSE IF cur.write THEN "pData" ELSE "pAck")
  /\ bus.phase = "addr"
  /\ bus' = AddrCleared(bus)
  /\ cur' = [cur EXCEPT !.restart = again]
  /\ i2c' = IF again THEN Started(i2c) ELSE i2c
  /\ UNCHANGED <<errors, moved, clocked>>

PollAck ==
  /\ Poll("pAck", "pData")
  /\ i2c' = [i2c EXCEPT !.ack = @ /\ cur.len \notin {1, 2},
                        !.pos = IF cur.len = 2 THEN "next" ELSE @]
  /\ UNCHANGED <<cur, bus, errors, moved, clocked>>

PollTx ==
  /\ Poll("pData", "pData") /\ cur.write /\ cur.len > 0 /\ TDBE
  /\ bus' = DataSent(bus) /\ cur' = [cur EXCEPT !.len = @ - 1]
  /\ UNCHANGED <<i2c, errors, moved, clocked>>

PollRx ==
  /\ Poll("pData", "pData") /\ ~cur.write /\ cur.len > 0 /\ RDBF
  /\ cur.len \in {2, 3} => TDC
  /\ i2c' = CASE cur.len \in {1, 2} -> StopIfAsked(i2c)
             [] cur.len = 3 -> [i2c EXCEPT !.ack = FALSE]
             [] OTHER -> i2c
  /\ Stored(IF cur.len = 2 THEN 2 ELSE 1)
  /\ UNCHANGED <<errors, clocked>>

\* The end of the data: a write waits for its last byte first.
PollDone ==
  /\ Poll("pData", "check") /\ cur.len = 0
  /\ cur.write => TDC
  /\ i2c' = IF cur.write THEN StopIfAsked(i2c) ELSE i2c
  /\ UNCHANGED <<cur, bus, errors, moved, clocked>>

\* What the thread waits for has not come in I2C_AT32_TIMEOUT_USEC, or, where
\* nacks are watched for, it was refused.
Awaited ==
  CASE pc = "pSb"     -> bus.phase = "sb"
    [] pc = "pHeader" -> bus.phase = "header"
    [] pc = "pAddr"   -> bus.phase = "addr"
    [] pc = "pData"   -> IF cur.write THEN (IF cur.len > 0 THEN TDBE ELSE TDC)
                         ELSE cur.len = 0 \/ (RDBF /\ (cur.len \in {2, 3} => TDC))
NackWatched ==
  \/ pc = "pAddr" /\ (tenBit /\ ~cur.write => cur.restart)
  \/ pc = "pData" /\ cur.write /\ cur.len > 0

PollFails ==
  /\ pc \in {"pSb", "pHeader", "pAddr", "pData"} /\ ~Awaited
  /\ Poll(pc, "check")
  /\ i2c' = [i2c EXCEPT !.stop = TRUE]
  /\ IF NackWatched
     THEN errors' = errors \ {"ackfail"} /\ cur' = [cur EXCEPT !.nack = TRUE]
     ELSE cur' = [cur EXCEPT !.err = TRUE] /\ UNCHANGED errors
  /\ UNCHANGED <<bus, moved, clocked>>

\* check_errors
CheckOrder == <<"ackfail", "arlost", "ouf", "buserr">>

CheckErrors ==
  /\ Poll("check", "end")
  /\ IF errors = {} THEN UNCHANGED <<errors, cur>>
     ELSE LET e == FirstError(CheckOrder) IN
          /\ errors' = FlagCleared(e)
          /\ cur' = [cur EXCEPT !.nack = @ \/ e = "ackfail", !.arlo = @ \/ e = "arlost",
                                !.err = @ \/ e \in {"ouf", "buserr"}]
  /\ UNCHANGED <<i2c, bus, moved, clocked>>

-----------------------------------------------------------------------------
(* The bus *)

Bus == UNCHANGED <<config, caller, cur, sem, irq>>

\* The bus is left.
Released(b) ==
  IF i2c.en THEN [b EXCEPT !.phase = "free", !.btf = FALSE, !.dr = IF b.read THEN @ ELSE 0]
  ELSE FreeBus
StopDone(r) == [r EXCEPT !.stop = FALSE, !.start = @ /\ r.en]

BusStart ==
  /\ Bus /\ i2c.en /\ i2c.start
  /\ bus.phase \in {"free", "nacked"} \/ (bus.phase = "tx" /\ bus.dr = 0 /\ bus.sh = 0)
  /\ bus' = [FreeBus EXCEPT !.phase = "sb"]
  /\ i2c' = [i2c EXCEPT !.start = FALSE]
  /\ moved' = 0 /\ clocked' = 0 /\ UNCHANGED <<errors, owed>>

BusStop ==
  /\ Bus /\ i2c.stop
  /\ \/ bus.phase = "nacked" \/ (bus.phase = "tx" /\ bus.sh = 0)
     \/ bus.phase = "rx" /\ TDC
  /\ bus' = Released(bus) /\ i2c' = StopDone(i2c) /\ owed' = FALSE
  /\ UNCHANGED <<errors, moved, clocked>>

\* The target answers a header or an address.
AddressSent(acked) ==
  /\ Bus /\ bus.phase \in {"head", "address"}
  /\ IF acked
     THEN bus' = [bus EXCEPT !.phase = IF @ = "head" THEN "header" ELSE "addr", !.pend = i2c.ack]
          /\ UNCHANGED errors
     ELSE bus' = [bus EXCEPT !.phase = "nacked"] /\ errors' = errors \cup {"ackfail"}
  /\ UNCHANGED <<i2c, hist>>

\* The target takes a byte, or refuses it.
ShiftOut(acked) ==
  /\ Bus /\ bus.phase = "tx" /\ bus.sh = 1
  /\ IF acked
     THEN /\ bus' = [bus EXCEPT !.sh = bus.dr, !.dr = 0, !.btf = (bus.dr = 0)]
          /\ moved' = moved + 1 /\ UNCHANGED errors
     ELSE /\ bus' = [bus EXCEPT !.sh = 0, !.dr = 0, !.phase = "nacked"]
          /\ errors' = errors \cup {"ackfail"} /\ UNCHANGED moved
  /\ UNCHANGED <<i2c, clocked, owed>>

\* A byte comes in, and is acked by the bit for this byte or for the next one.
ShiftIn ==
  LET acked == IF i2c.pos = "next" THEN bus.pend ELSE i2c.ack
      b == [bus EXCEPT !.dr = 1, !.sh = bus.dr, !.pend = i2c.ack]
  IN
  /\ Bus /\ bus.phase = "rx" /\ ~TDC /\ (pc = "pAck" => "preempt" \in Hazards)
  /\ clocked' = clocked + 1
  /\ IF i2c.stop
     THEN bus' = Released(b) /\ i2c' = StopDone(i2c) /\ owed' = FALSE
     ELSE bus' = (IF acked THEN b ELSE [b EXCEPT !.phase = "nacked"]) /\ UNCHANGED <<i2c, owed>>
  /\ UNCHANGED <<errors, moved>>

Fault(e) ==
  /\ Bus /\ (pc \notin {"wait", "pSb", "pHeader", "pAddr", "pData"} => "between" \in Hazards)
  /\ CASE e = "arlost" -> bus.phase \in {"head", "address"} \/ (bus.phase = "tx" /\ bus.sh = 1)
       [] e = "buserr" -> bus.phase # "free" /\ (i2c.start \/ (irq.data /\ RDBF) => "buserr" \in Hazards)
       [] e = "ouf"    -> bus.phase = "rx" /\ "overrun" \in Hazards
  /\ errors' = errors \cup {e}
  /\ bus' = IF e = "ouf" THEN bus ELSE Released(bus)
  /\ i2c' = IF e = "ouf" THEN i2c ELSE StopDone(i2c)
  /\ owed' = FALSE
  /\ UNCHANGED <<moved, clocked>>

-----------------------------------------------------------------------------

Thread ==
  \/ SemReset \/ Setup \/ Enable \/ Take \/ TimedOut \/ Reset \/ EndMsg
  \/ PollSb \/ PollHeader \/ PollAddr \/ PollAck \/ PollTx \/ PollRx \/ PollDone \/ PollFails
  \/ CheckErrors

Event ==
  HandleSb \/ HandleHeader \/ HandleAddr \/ HandleTxe \/ HandleRxne \/ HandleBtf

Data == BusStop \/ ShiftIn \/ \E acked \in BOOLEAN : ShiftOut(acked)

Hardware ==
  \/ BusStart \/ Data
  \/ \E acked \in BOOLEAN : AddressSent(acked)
  \/ \E e \in {"arlost", "buserr", "ouf"} : Fault(e)

Next ==
  \/ \E ms \in Transfers : Call(ms)
  \/ \E ten \in BOOLEAN : Configure(ten)
  \/ Thread \/ Event \/ HandleError \/ Hardware

\* Both interrupt lines are served, and the thread runs if they let it now and then.  A
\* target may leave an address without an answer, but does not stop inside the data.
Fairness ==
  SF_vars(Thread) /\ WF_vars(Event) /\ WF_vars(HandleError)
  /\ WF_vars(Data)

Spec == Init /\ [][Next]_vars /\ Fairness

-----------------------------------------------------------------------------

\* Every variable holds a value of its kind; a message has no more bytes left
\* than it had.
TypeOK ==
  /\ build \in Builds /\ tenBit \in BOOLEAN
  /\ pc \in {"idle", "init", "setup", "enable", "wait", "end", "reset",
             "pSb", "pHeader", "pAddr", "pAck", "pData", "check"}
  /\ result \in {"none", "ok", "eio"} /\ sem \in 0 .. SemBound
  /\ cur.len \in 0 .. cur.full
  /\ DOMAIN cur = DOMAIN NoMsg /\ irq \in [all : BOOLEAN, data : BOOLEAN]
  /\ i2c \in [en : BOOLEAN, ack : BOOLEAN, pos : {"current", "next"}, start : BOOLEAN, stop : BOOLEAN]
  /\ bus.phase \in {"free", "sb", "head", "header", "address", "addr", "tx", "rx", "nacked"}
  /\ {bus.read, bus.btf, bus.pend, owed} \subseteq BOOLEAN /\ {bus.dr, bus.sh} \subseteq {0, 1}
  /\ errors \subseteq {"ackfail", "arlost", "buserr", "ouf"}
  /\ pc \notin {"idle", "reset"} => msgs # <<>>

\* Where the thread is while its message is on the bus.
Working == {"enable", "wait", "end", "pSb", "pHeader", "pAddr", "pAck", "pData", "check"}

\* A message ends without an error only when the target has taken every byte of
\* it, or every byte asked for is in the buffer (msg_end; handle_txe,
\* handle_rxne, handle_btf and the polling loops).
SuccessMeansDone ==
  [][pc = "end" /\ pc' \in {"init", "idle"} /\ result' # "eio"
       => moved = cur.full /\ cur.len = 0]_vars

\* A target is clocked for the bytes that were asked for and no more, and the last
\* of them is the one that is not acked (handle_addr, handle_rxne, handle_btf:
\* "we need to handle these corner cases in specific way").
LastByteNacked ==
  pc \in {"wait", "pAck", "pData", "check", "end"} /\ bus.read /\ ~cur.write /\ ~i2c.start =>
    /\ clocked <= cur.full
    /\ bus.phase = "nacked" /\ errors = {} /\ ~Failed(cur) => clocked = cur.full

\* The bus is given up after a message that asks for it, or one that failed, and
\* after no other; and a START does not take the place of a STOP that was asked
\* for.
StopsAsAsked ==
  [][/\ bus.phase # "free" /\ bus'.phase = "free" =>
         cur.stop \/ Failed(cur) \/ errors' # {} \/ pc \notin Working
     /\ bus.phase # "sb" /\ bus'.phase = "sb" => ~owed]_vars

\* A transfer comes back: it waits for ever neither for the bus nor behind an
\* interrupt that is not turned off.
TransferReturns == pc # "idle" ~> pc = "idle"
=============================================================================
