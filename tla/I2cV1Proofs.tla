------------------------------ MODULE I2cV1Proofs ------------------------------
(***************************************************************************)
(* Safety of I2cV1 for any set of message arrays, in both builds, with     *)
(* 7-bit and 10-bit addresses: type correctness with every hazard; that a  *)
(* transfer which ends well has moved every byte; that the last byte of a  *)
(* read, and no other, is refused; that a STOP comes where it was asked    *)
(* for and is never cancelled by a START.  The last three name the         *)
(* hazards they exclude, as the run of the module does.                    *)
(*                                                                         *)
(* First the effect of each operator and action on the fields of cur, irq, *)
(* i2c and bus, one lemma each; then the parts of the invariant IInv, one  *)
(* lemma for each part that says every step preserves it.                  *)
(***************************************************************************)
EXTENDS I2cV1, TLAPS

\* The kind of each variable. For cur and bus it says more than TypeOK: every field is
\* there and has its kind.
Message == [write : BOOLEAN, len : Nat, stop : BOOLEAN, restart : BOOLEAN]
Labels  == {"idle", "init", "setup", "enable", "wait", "end", "reset",
            "pSb", "pHeader", "pAddr", "pAck", "pData", "check"}
Phases  == {"free", "sb", "head", "header", "address", "addr", "tx", "rx", "nacked"}
Currents == [len : Nat, full : Nat, write : BOOLEAN, stop : BOOLEAN, restart : BOOLEAN,
             nack : BOOLEAN, err : BOOLEAN, arlo : BOOLEAN]
Controls == [en : BOOLEAN, ack : BOOLEAN, pos : {"current", "next"}, start : BOOLEAN,
             stop : BOOLEAN]
Lines    == [phase : Phases, read : BOOLEAN, dr : {0, 1}, sh : {0, 1}, btf : BOOLEAN,
             pend : BOOLEAN]
Enables  == [all : BOOLEAN, data : BOOLEAN]
Flags    == {"ackfail", "arlost", "buserr", "ouf"}

Kinds ==
  /\ build \in Builds /\ tenBit \in BOOLEAN
  /\ pc \in Labels /\ msgs \in Seq(Message) /\ (pc \notin {"idle", "reset"} => msgs # <<>>)
  /\ result \in {"none", "ok", "eio"} /\ sem \in 0 .. SemBound
  /\ cur \in Currents /\ cur.len <= cur.full
  /\ irq \in Enables /\ i2c \in Controls /\ bus \in Lines
  /\ errors \subseteq Flags
  /\ moved \in Nat /\ clocked \in Nat /\ owed \in BOOLEAN

LEMMA KindsTypes == Kinds => TypeOK
<1> SUFFICES ASSUME Kinds PROVE TypeOK
  OBVIOUS
<1>1. cur.len \in 0 .. cur.full /\ DOMAIN cur = DOMAIN NoMsg
  BY DEF Kinds, Currents, NoMsg
<1>2. /\ bus.phase \in Phases /\ {bus.read, bus.btf, bus.pend, owed} \subseteq BOOLEAN
      /\ {bus.dr, bus.sh} \subseteq {0, 1}
  BY DEF Kinds, Lines
<1>. QED
  BY <1>1, <1>2 DEF Kinds, TypeOK, Labels, Phases, Enables, Controls, Flags

-----------------------------------------------------------------------------
(* The operators. *)

LEMMA Sent ==
  ASSUME NEW b \in Lines, NEW z, z = DataSent(b)
  PROVE  /\ z \in Lines /\ z.phase = b.phase /\ z.read = b.read /\ z.pend = b.pend
         /\ b.phase # "tx" => z = b
         /\ b.phase = "tx" => ~z.btf /\ z.sh = 1 /\ z.dr = IF b.sh = 0 THEN b.dr ELSE 1
BY DEF DataSent, Lines

LEMMA Received ==
  ASSUME NEW b \in Lines, NEW z, z = DataReceived(b)
  PROVE  /\ z \in Lines /\ z.phase = b.phase /\ z.read = b.read /\ z.pend = b.pend
         /\ z.dr = b.sh /\ z.sh = 0 /\ z.btf = FALSE
BY DEF DataReceived, Lines

LEMMA Left ==
  ASSUME NEW b \in Lines, NEW z, z = Released(b)
  PROVE  /\ z \in Lines /\ z.phase = "free" /\ z.btf = FALSE
         /\ i2c.en => /\ z.read = b.read /\ z.sh = b.sh /\ z.pend = b.pend
                      /\ z.dr = IF b.read THEN b.dr ELSE 0
         /\ ~i2c.en => z = FreeBus
BY DEF Released, Lines, FreeBus, Phases

LEMMA Free == FreeBus \in Lines /\ FreeBus.phase = "free" /\ FreeBus.read = FALSE
              /\ FreeBus.dr = 0 /\ FreeBus.sh = 0 /\ FreeBus.btf = FALSE /\ FreeBus.pend = FALSE
BY DEF FreeBus, Lines, Phases

LEMMA Off == IrqOff \in Enables /\ IrqOff.all = FALSE /\ IrqOff.data = FALSE
BY DEF IrqOff, Enables

\* What a step does to a record, field by field.
Less(n)  == /\ cur' \in Currents /\ cur'.len = cur.len - n /\ cur'.full = cur.full
            /\ cur'.write = cur.write /\ cur'.stop = cur.stop /\ cur'.restart = cur.restart
            /\ cur'.nack = cur.nack /\ cur'.err = cur.err /\ cur'.arlo = cur.arlo
LineKept == /\ bus' \in Lines /\ bus'.phase = bus.phase /\ bus'.read = bus.read
            /\ bus'.pend = bus.pend
Taken    == LineKept /\ bus'.dr = bus.sh /\ bus'.sh = 0 /\ bus'.btf = FALSE
Stopping == /\ i2c' \in Controls /\ i2c'.stop = (i2c.stop \/ cur.stop) /\ i2c'.en = i2c.en
            /\ i2c'.ack = i2c.ack /\ i2c'.pos = i2c.pos /\ i2c'.start = i2c.start
DataOff  == irq' \in Enables /\ irq'.all = irq.all /\ irq'.data = FALSE
Given    == sem' \in 0 .. SemBound /\ sem' > 0

LEMMA GiveEffect == ASSUME Kinds, Give PROVE Given
BY DEF Kinds, Give, Given, SemBound

LEMMA StopEffect ==
  ASSUME Kinds, i2c' = StopIfAsked(i2c)
  PROVE  Stopping
BY DEF Kinds, StopIfAsked, Stopping, Controls, Currents

LEMMA StoredEffect ==
  ASSUME Kinds, NEW n \in {1, 2}, n <= cur.len, Stored(n)
  PROVE  /\ Less(n) /\ moved' \in Nat
         /\ n = 1 => Taken /\ moved' = moved + bus.dr
         /\ n = 2 => /\ LineKept /\ bus'.dr = 0 /\ bus'.sh = 0 /\ bus'.btf = FALSE
                     /\ moved' = moved + (bus.dr + bus.sh)
<1>1. cur \in Currents /\ bus \in Lines /\ moved \in Nat
  BY DEF Kinds
<1>2. Less(n)
  BY <1>1 DEF Stored, Less, Currents
<1>3. bus.dr \in {0, 1} /\ bus.sh \in {0, 1}
  BY <1>1 DEF Lines
<1>4. CASE n = 1
  <2>1. bus' = DataReceived(bus) /\ moved' = moved + bus.dr
    BY <1>4 DEF Stored
  <2>. QED
    <3>1. Taken
      BY <1>1, <2>1, Received DEF Taken, LineKept
    <3>2. moved' \in Nat
      BY <1>1, <1>3, <2>1
    <3>. QED
      BY <1>2, <1>4, <2>1, <3>1, <3>2
<1>5. CASE n = 2
  <2>1. bus' = DataReceived(DataReceived(bus)) /\ moved' = moved + (bus.dr + bus.sh)
    BY <1>5 DEF Stored
  <2>2. PICK y : y = DataReceived(bus)
    OBVIOUS
  <2>3. bus' = DataReceived(y)
    BY <2>1, <2>2
  <2>4. /\ y \in Lines /\ y.phase = bus.phase /\ y.read = bus.read /\ y.pend = bus.pend
        /\ y.sh = 0
    BY <1>1, <2>2, Received
  <2>5. LineKept /\ bus'.dr = 0 /\ bus'.sh = 0 /\ bus'.btf = FALSE
    BY <2>3, <2>4, Received DEF LineKept
  <2>. QED
    BY <1>2, <1>3, <1>1, <1>5, <2>1, <2>5
<1>. QED
  BY <1>4, <1>5

\* handle_txe.
TxeSends ==
  /\ cur.len > 0 /\ Less(1)
  /\ irq' \in Enables /\ irq'.all = irq.all /\ irq'.data = (irq.data /\ cur.len > 1)
  /\ LineKept
  /\ bus.phase # "tx" => bus' = bus
  /\ bus.phase = "tx" => ~bus'.btf /\ bus'.sh = 1 /\ bus'.dr = IF bus.sh = 0 THEN bus.dr ELSE 1
  /\ UNCHANGED <<i2c, sem>>
TxeEnds ==
  /\ cur.len = 0 /\ Stopping /\ Given
  /\ LineKept /\ (TDC => Taken) /\ (~TDC => bus' = bus)
  /\ UNCHANGED <<cur, irq>>

LEMMA TxeEffect ==
  ASSUME Kinds, Txe
  PROVE  TxeSends \/ TxeEnds
<1>1. cur \in Currents /\ bus \in Lines /\ irq \in Enables /\ cur.len \in Nat
  BY DEF Kinds, Currents
<1>2. CASE cur.len > 0
  <2>1. /\ cur' = [cur EXCEPT !.len = @ - 1]
        /\ irq' = [irq EXCEPT !.data = @ /\ cur.len > 1]
        /\ bus' = DataSent(bus) /\ UNCHANGED <<i2c, sem>>
    BY <1>2 DEF Txe
  <2>2. Less(1)
    BY <1>1, <1>2, <2>1 DEF Less, Currents
  <2>3. irq' \in Enables /\ irq'.all = irq.all /\ irq'.data = (irq.data /\ cur.len > 1)
    BY <1>1, <2>1 DEF Enables
  <2>. QED
    BY <1>1, <1>2, <2>1, <2>2, <2>3, Sent DEF TxeSends, LineKept
<1>3. CASE cur.len = 0
  <2>1. /\ i2c' = StopIfAsked(i2c) /\ Give /\ UNCHANGED <<cur, irq>>
        /\ bus' = IF TDC THEN DataReceived(bus) ELSE bus
    BY <1>3 DEF Txe
  <2>2. CASE TDC
    BY <1>1, <1>3, <2>1, <2>2, GiveEffect, StopEffect, Received DEF TxeEnds, Taken, LineKept
  <2>3. CASE ~TDC
    BY <1>1, <1>3, <2>1, <2>3, GiveEffect, StopEffect DEF TxeEnds, LineKept
  <2>. QED
    BY <2>2, <2>3
<1>. QED
  BY <1>1, <1>2, <1>3

\* handle_rxne.
RxneLast ==
  /\ cur.len = 1 /\ Less(1) /\ Taken /\ moved' \in Nat /\ moved' = moved + bus.dr
  /\ i2c' \in Controls /\ i2c'.stop = (i2c.stop \/ cur.stop) /\ i2c'.en = i2c.en
  /\ i2c'.ack = FALSE /\ i2c'.pos = "current" /\ i2c'.start = i2c.start
  /\ DataOff /\ Given
RxneWaits == UNCHANGED <<cur, sem, irq, i2c, bus, moved>>
RxneLeaves ==
  /\ cur.len = 3 \/ (cur.len = 2 /\ cur.full = 2)
  /\ DataOff /\ UNCHANGED <<cur, sem, bus, moved>>
  /\ cur.len = 3 => i2c' = i2c
  /\ cur.len = 2 => /\ i2c' \in Controls /\ i2c'.ack = FALSE /\ i2c'.pos = "next"
                    /\ i2c'.en = i2c.en /\ i2c'.start = i2c.start /\ i2c'.stop = i2c.stop
RxneReads ==
  /\ cur.len > 3 /\ Less(1) /\ Taken /\ moved' \in Nat /\ moved' = moved + bus.dr
  /\ UNCHANGED <<sem, irq, i2c>>
RxneEnds == cur.len = 0 /\ Stopping /\ Given /\ UNCHANGED <<cur, irq, bus, moved>>

LEMMA RxneEffect ==
  ASSUME Kinds, Rxne
  PROVE  RxneLast \/ RxneWaits \/ RxneLeaves \/ RxneReads \/ RxneEnds
<1>1. /\ cur \in Currents /\ irq \in Enables /\ i2c \in Controls
      /\ cur.len \in Nat /\ cur.full \in Nat /\ cur.len <= cur.full
  BY DEF Kinds, Currents
<1>2. CASE cur.len = 1
  <2>1. /\ i2c' = StopIfAsked([i2c EXCEPT !.ack = FALSE, !.pos = "current"])
        /\ irq' = [irq EXCEPT !.data = FALSE] /\ Stored(1) /\ Give
    BY <1>2 DEF Rxne
  <2>2. DataOff
    BY <1>1, <2>1 DEF DataOff, Enables
  <2>3. /\ i2c' \in Controls /\ i2c'.stop = (i2c.stop \/ cur.stop) /\ i2c'.en = i2c.en
        /\ i2c'.ack = FALSE /\ i2c'.pos = "current" /\ i2c'.start = i2c.start
    BY <1>1, <2>1 DEF StopIfAsked, Controls, Currents
  <2>. QED
    BY <1>1, <1>2, <2>1, <2>2, <2>3, GiveEffect, StoredEffect DEF RxneLast
<1>3. CASE cur.len = 2 /\ cur.full > 2
  <2>0. ~(cur.len = 1) /\ (cur.len = 2 /\ cur.full > 2) /\ ~(cur.len = 3 \/ (cur.len = 2 /\ cur.full = 2)) /\ ~(cur.len > 3) /\ ~(cur.len = 0)
    BY <1>1, <1>3
  <2>1. RxneWaits
    BY <2>0, Zenon DEF Rxne, RxneWaits
  <2>. QED
    BY <2>1
<1>4. CASE cur.len = 3 \/ (cur.len = 2 /\ cur.full = 2)
  <2>0. ~(cur.len = 1) /\ ~(cur.len = 2 /\ cur.full > 2) /\ (cur.len = 3 \/ (cur.len = 2 /\ cur.full = 2)) /\ ~(cur.len > 3) /\ ~(cur.len = 0)
    BY <1>1, <1>4
  <2>1. /\ i2c' = IF cur.len = 2 THEN [i2c EXCEPT !.ack = FALSE, !.pos = "next"] ELSE i2c
        /\ irq' = [irq EXCEPT !.data = FALSE] /\ UNCHANGED <<cur, sem, bus, moved>>
    BY <2>0, Zenon DEF Rxne
  <2>2. DataOff
    BY <1>1, <2>1 DEF DataOff, Enables
  <2>. QED
    <3>1. cur.len = 2 => /\ i2c' \in Controls /\ i2c'.ack = FALSE /\ i2c'.pos = "next"
                         /\ i2c'.en = i2c.en /\ i2c'.start = i2c.start /\ i2c'.stop = i2c.stop
      BY <1>1, <2>1 DEF Controls
    <3>. QED
      BY <1>1, <1>4, <2>1, <2>2, <3>1 DEF RxneLeaves
<1>5. CASE cur.len > 3
  <2>0. ~(cur.len = 1) /\ ~(cur.len = 2 /\ cur.full > 2) /\ ~(cur.len = 3 \/ (cur.len = 2 /\ cur.full = 2)) /\ (cur.len > 3) /\ ~(cur.len = 0)
    BY <1>1, <1>5
  <2>1. Stored(1) /\ UNCHANGED <<sem, irq, i2c>>
    BY <2>0, Zenon DEF Rxne
  <2>. QED
    BY <1>1, <1>5, <2>1, StoredEffect DEF RxneReads
<1>6. CASE cur.len = 0
  <2>1. i2c' = StopIfAsked(i2c) /\ Give /\ UNCHANGED <<cur, irq, bus, moved>>
    BY <1>6 DEF Rxne
  <2>. QED
    BY <1>6, <2>1, GiveEffect, StopEffect DEF RxneEnds
<1>. QED
  BY <1>1, <1>2, <1>3, <1>4, <1>5, <1>6

\* handle_btf.
BtfLast ==
  /\ ~cur.write /\ cur.len = 2 /\ Less(2) /\ Stopping /\ Given /\ UNCHANGED irq
  /\ LineKept /\ bus'.dr = 0 /\ bus'.sh = 0 /\ bus'.btf = FALSE
  /\ moved' \in Nat /\ moved' = moved + (bus.dr + bus.sh)
BtfThird ==
  /\ ~cur.write /\ cur.len = 3 /\ Less(1) /\ Taken /\ moved' \in Nat /\ moved' = moved + bus.dr
  /\ i2c' \in Controls /\ i2c'.ack = FALSE /\ i2c'.en = i2c.en /\ i2c'.start = i2c.start
  /\ i2c'.pos = i2c.pos /\ i2c'.stop = i2c.stop
  /\ UNCHANGED <<sem, irq>>

LEMMA BtfEffect ==
  ASSUME Kinds, HandleBtf
  PROVE  \/ cur.write /\ (TxeSends \/ TxeEnds) /\ UNCHANGED moved
         \/ BtfLast \/ BtfThird
         \/ /\ ~cur.write /\ cur.len \notin {2, 3}
            /\ RxneLast \/ RxneWaits \/ RxneLeaves \/ RxneReads \/ RxneEnds
<1>1. cur \in Currents /\ cur.len \in Nat /\ cur.write \in BOOLEAN /\ i2c \in Controls
  BY DEF Kinds, Currents
<1>2. CASE cur.write
  <2>1. Txe /\ UNCHANGED moved
    BY <1>2 DEF HandleBtf
  <2>. QED
    BY <1>2, <2>1, TxeEffect
<1>3. CASE ~cur.write /\ cur.len = 2
  <2>0. ~(cur.write) /\ (~cur.write /\ cur.len = 2) /\ ~(~cur.write /\ cur.len = 3)
        /\ ~(~cur.write /\ cur.len \notin {2, 3})
    BY <1>1, <1>3
  <2>1. i2c' = StopIfAsked(i2c) /\ Stored(2) /\ Give /\ UNCHANGED irq
    BY <2>0, Zenon DEF HandleBtf
  <2>. QED
    <3>1. Stopping /\ Given
      BY <2>1, StopEffect, GiveEffect
    <3>2. 2 <= cur.len /\ 2 \in {1, 2}
      BY <1>3
    <3>3. /\ Less(2) /\ LineKept /\ bus'.dr = 0 /\ bus'.sh = 0 /\ bus'.btf = FALSE
          /\ moved' \in Nat /\ moved' = moved + (bus.dr + bus.sh)
      BY <2>1, <3>2, StoredEffect
    <3>. QED
      BY <1>3, <2>1, <3>1, <3>3 DEF BtfLast
<1>4. CASE ~cur.write /\ cur.len = 3
  <2>0. ~(cur.write) /\ ~(~cur.write /\ cur.len = 2) /\ (~cur.write /\ cur.len = 3)
        /\ ~(~cur.write /\ cur.len \notin {2, 3})
    BY <1>1, <1>4
  <2>1. i2c' = [i2c EXCEPT !.ack = FALSE] /\ Stored(1) /\ UNCHANGED <<sem, irq>>
    BY <2>0, Zenon DEF HandleBtf
  <2>2. /\ i2c' \in Controls /\ i2c'.ack = FALSE /\ i2c'.en = i2c.en /\ i2c'.start = i2c.start
        /\ i2c'.pos = i2c.pos /\ i2c'.stop = i2c.stop
    BY <1>1, <2>1 DEF Controls
  <2>. QED
    BY <1>1, <1>4, <2>1, <2>2, StoredEffect DEF BtfThird
<1>5. CASE ~cur.write /\ cur.len \notin {2, 3}
  <2>0. ~(cur.write) /\ ~(~cur.write /\ cur.len = 2) /\ ~(~cur.write /\ cur.len = 3)
        /\ (~cur.write /\ cur.len \notin {2, 3})
    BY <1>1, <1>5
  <2>1. Rxne
    BY <2>0, Zenon DEF HandleBtf
  <2>. QED
    BY <1>5, <2>1, RxneEffect
<1>. QED
  BY <1>2, <1>3, <1>4, <1>5

\* Everything of the message but its error flags.
Blamed == /\ cur' \in Currents /\ cur'.len = cur.len /\ cur'.full = cur.full
          /\ cur'.write = cur.write /\ cur'.stop = cur.stop /\ cur'.restart = cur.restart

\* The first flagged error of an order.
LEMMA FirstIsFlagged ==
  ASSUME errors \subseteq Flags, errors # {}, NEW order, order \in {ErrorOrder, CheckOrder}
  PROVE  FirstError(order) \in errors
<1> DEFINE P(n) == order[n] \in errors /\ \A k \in 1 .. (n - 1) : order[k] \notin errors
<1>1. \A e \in Flags : \E n \in 1 .. 4 : order[n] = e
  BY DEF Flags, ErrorOrder, CheckOrder
<1>2. \E n \in 1 .. 4 : order[n] \in errors
  BY <1>1
<1>3. \E n \in 1 .. 4 : P(n)
  <2>1. CASE order[1] \in errors
    BY <2>1
  <2>2. CASE order[1] \notin errors /\ order[2] \in errors
    BY <2>2
  <2>3. CASE order[1] \notin errors /\ order[2] \notin errors /\ order[3] \in errors
    BY <2>3
  <2>4. CASE order[1] \notin errors /\ order[2] \notin errors /\ order[3] \notin errors
    <3>1. order[4] \in errors
      BY <1>2, <2>4
    <3>. QED
      BY <2>4, <3>1
  <2>. QED
    BY <2>1, <2>2, <2>3, <2>4
<1>4. PICK m : m = CHOOSE n \in 1 .. 4 : P(n)
  OBVIOUS
<1>5. P(m)
  BY <1>3, <1>4
<1>. QED
  BY <1>4, <1>5 DEF FirstError

\* at32_i2c_error.
LEMMA ErrorEffect ==
  ASSUME Kinds, HandleError
  PROVE  /\ ErrorPending /\ Blamed /\ errors' \subseteq errors /\ Given
         /\ i2c' \in Controls /\ i2c'.en = i2c.en /\ i2c'.ack = i2c.ack /\ i2c'.pos = i2c.pos
         /\ i2c'.start = i2c.start
         /\ errors \subseteq {"ackfail", "arlost", "buserr"} => Failed(cur')
<1>1. cur \in Currents /\ i2c \in Controls /\ errors \subseteq Flags
  BY DEF Kinds
<1>2. PICK e : e = FirstError(ErrorOrder)
  OBVIOUS
<1>3. /\ errors' = errors \ {e} /\ ErrorPending
      /\ i2c' = IF e = "ackfail" THEN [i2c EXCEPT !.stop = TRUE] ELSE i2c
      /\ cur' = [cur EXCEPT !.nack = @ \/ e = "ackfail", !.arlo = @ \/ e = "arlost",
                            !.err = @ \/ e = "buserr"]
      /\ Give
  BY <1>2 DEF HandleError, FlagCleared
<1>4. e \in errors
  BY <1>1, <1>2, <1>3, FirstIsFlagged DEF ErrorPending
<1>5. /\ Blamed /\ cur'.nack = (cur.nack \/ e = "ackfail")
      /\ cur'.arlo = (cur.arlo \/ e = "arlost") /\ cur'.err = (cur.err \/ e = "buserr")
  <2>1. PICK x \in BOOLEAN : x = (cur.nack \/ e = "ackfail")
    OBVIOUS
  <2>2. PICK y \in BOOLEAN : y = (cur.arlo \/ e = "arlost")
    OBVIOUS
  <2>3. PICK z \in BOOLEAN : z = (cur.err \/ e = "buserr")
    OBVIOUS
  <2>4. cur' = [cur EXCEPT !.nack = x, !.arlo = y, !.err = z]
    BY <1>3, <2>1, <2>2, <2>3
  <2>5. Blamed /\ cur'.nack = x /\ cur'.arlo = y /\ cur'.err = z
    BY <1>1, <2>4 DEF Blamed, Currents
  <2>. QED
    BY <2>1, <2>2, <2>3, <2>5
<1>6. errors \subseteq {"ackfail", "arlost", "buserr"} => Failed(cur')
  BY <1>4, <1>5 DEF Failed
<1>7. /\ i2c' \in Controls /\ i2c'.en = i2c.en /\ i2c'.ack = i2c.ack /\ i2c'.pos = i2c.pos
      /\ i2c'.start = i2c.start
  BY <1>1, <1>3 DEF Controls
<1>. QED
  BY <1>3, <1>5, <1>6, <1>7, GiveEffect

\* What the address handlers keep, and what a START and the ack bits become.
LineData == bus'.dr = bus.dr /\ bus'.sh = bus.sh /\ bus'.btf = bus.btf
NoFault  == cur'.nack = cur.nack /\ cur'.err = cur.err /\ cur'.arlo = cur.arlo
Restarts(v) == /\ cur' \in Currents /\ cur'.len = cur.len /\ cur'.full = cur.full
               /\ cur'.write = cur.write /\ cur'.stop = cur.stop /\ cur'.restart = v /\ NoFault
Starting == /\ i2c' \in Controls /\ i2c'.en = i2c.en /\ i2c'.ack = i2c.ack
            /\ i2c'.pos = i2c.pos /\ i2c'.start = TRUE /\ i2c'.stop = FALSE
Positioned(a, s, p) ==
  /\ i2c' \in Controls /\ i2c'.en = i2c.en /\ i2c'.start = i2c.start
  /\ i2c'.ack = a /\ i2c'.stop = s /\ i2c'.pos = p

LEMMA StartEffect == ASSUME Kinds, i2c' = Started(i2c) PROVE Starting
BY DEF Kinds, Started, Controls, Starting

\* handle_sb.
LEMMA SbEffect ==
  ASSUME Kinds, HandleSb
  PROVE  /\ bus.phase = "sb" /\ bus' \in Lines /\ LineData /\ bus'.pend = bus.pend
         /\ tenBit => /\ Restarts(~cur.restart) /\ i2c' = i2c
                      /\ bus'.phase = IF cur.restart THEN "address" ELSE "head"
                      /\ bus'.read = cur.restart
         /\ ~tenBit => /\ cur' = cur /\ bus'.phase = "address" /\ bus'.read = ~cur.write
                       /\ Positioned(i2c.ack, i2c.stop, IF ~cur.write /\ cur.len = 2 THEN "next" ELSE i2c.pos)
<1>1. cur \in Currents /\ i2c \in Controls /\ bus \in Lines /\ tenBit \in BOOLEAN
  BY DEF Kinds
<1>2. CASE tenBit
  <2>1. /\ bus.phase = "sb" /\ i2c' = i2c /\ cur' = [cur EXCEPT !.restart = ~@]
        /\ bus' = [bus EXCEPT !.phase = IF cur.restart THEN "address" ELSE "head",
                              !.read = cur.restart]
    BY <1>2 DEF HandleSb
  <2>2. Restarts(~cur.restart)
    BY <1>1, <2>1 DEF Restarts, NoFault, Currents
  <2>3. cur.restart \in BOOLEAN
    BY <1>1 DEF Currents
  <2>. QED
    BY <1>1, <1>2, <2>1, <2>2, <2>3 DEF Lines, Phases, LineData
<1>3. CASE ~tenBit
  <2>1. /\ bus.phase = "sb" /\ cur' = cur
        /\ bus' = [bus EXCEPT !.phase = "address", !.read = ~cur.write]
        /\ i2c' = IF ~cur.write /\ cur.len = 2 THEN [i2c EXCEPT !.pos = "next"] ELSE i2c
    BY <1>3 DEF HandleSb
  <2>2. bus' \in Lines /\ LineData /\ bus'.pend = bus.pend /\ bus'.phase = "address"
        /\ bus'.read = ~cur.write
    BY <1>1, <2>1 DEF Lines, Phases, LineData
  <2>3. Positioned(i2c.ack, i2c.stop, IF ~cur.write /\ cur.len = 2 THEN "next" ELSE i2c.pos)
    BY <1>1, <2>1 DEF Positioned, Controls
  <2>. QED
    BY <1>3, <2>1, <2>2, <2>3
<1>. QED
  BY <1>2, <1>3

\* handle_addr.
LEMMA AddrEffect ==
  ASSUME Kinds, HandleAddr
  PROVE  /\ bus.phase = "addr" /\ bus' \in Lines /\ LineData /\ bus'.pend = bus.pend
         /\ bus'.read = bus.read /\ bus'.phase = IF bus.read THEN "rx" ELSE "tx"
         /\ \/ tenBit /\ ~cur.write /\ cur.restart /\ Restarts(FALSE) /\ Starting
            \/ /\ ~(tenBit /\ ~cur.write /\ cur.restart) /\ cur' = cur
               /\ cur.write => i2c' = i2c
               /\ ~cur.write => Positioned(i2c.ack /\ cur.len \notin {1, 2}, i2c.stop \/ cur.len < 2,
                                           IF cur.len = 2 THEN "next" ELSE i2c.pos)
<1>1. cur \in Currents /\ i2c \in Controls /\ bus \in Lines
  BY DEF Kinds
<1>2. /\ bus.phase = "addr" /\ bus' \in Lines /\ LineData /\ bus'.pend = bus.pend
      /\ bus'.read = bus.read /\ bus'.phase = IF bus.read THEN "rx" ELSE "tx"
  BY <1>1 DEF HandleAddr, AddrCleared, Lines, Phases, LineData
<1>3. CASE tenBit /\ ~cur.write /\ cur.restart
  <2>1. cur' = [cur EXCEPT !.restart = FALSE] /\ i2c' = Started(i2c)
    BY <1>3 DEF HandleAddr
  <2>2. Restarts(FALSE)
    BY <1>1, <2>1 DEF Restarts, NoFault, Currents
  <2>. QED
    BY <1>2, <1>3, <2>1, <2>2, StartEffect
<1>4. CASE ~(tenBit /\ ~cur.write /\ cur.restart)
  <2>1. cur' = cur /\ i2c' = IF cur.write THEN i2c ELSE AddrRead(i2c)
    BY <1>4 DEF HandleAddr
  <2>2. ~cur.write => Positioned(i2c.ack /\ cur.len \notin {1, 2}, i2c.stop \/ cur.len < 2,
                                 IF cur.len = 2 THEN "next" ELSE i2c.pos)
    BY <1>1, <2>1 DEF Positioned, AddrRead, Controls
  <2>. QED
    BY <1>2, <1>4, <2>1, <2>2
<1>. QED
  BY <1>3, <1>4
-----------------------------------------------------------------------------
(* The thread. *)

\* msg_init.
LEMMA SetupEffect ==
  ASSUME Kinds, Setup, NEW m, m = Head(msgs)
  PROVE  /\ m \in Message /\ pc = "setup" /\ ~IrqPending
         /\ cur' \in Currents /\ cur'.len = m.len /\ cur'.full = m.len /\ cur'.write = m.write
         /\ cur'.stop = m.stop /\ cur'.restart = FALSE /\ ~Failed(cur')
         /\ i2c' \in Controls /\ i2c'.en = TRUE /\ i2c'.pos = "current" /\ i2c'.ack = TRUE
         /\ i2c'.start = (i2c.start \/ m.restart) /\ i2c'.stop = (i2c.stop /\ ~m.restart)
<1>1. msgs \in Seq(Message) /\ msgs # <<>> /\ i2c \in Controls
  BY DEF Kinds, Setup
<1>2. m \in Message
  BY <1>1
<1>3. /\ pc = "setup" /\ ~IrqPending /\ cur' = Opened(m)
      /\ i2c' = IF m.restart THEN Started([i2c EXCEPT !.en = TRUE, !.pos = "current", !.ack = TRUE])
                ELSE [i2c EXCEPT !.en = TRUE, !.pos = "current", !.ack = TRUE]
  BY DEF Setup
<1>4. /\ cur' \in Currents /\ cur'.len = m.len /\ cur'.full = m.len /\ cur'.write = m.write
      /\ cur'.stop = m.stop /\ cur'.restart = FALSE /\ ~Failed(cur')
  BY <1>2, <1>3 DEF Opened, NoMsg, Message, Currents, Failed
<1>5. /\ i2c' \in Controls /\ i2c'.en = TRUE /\ i2c'.pos = "current" /\ i2c'.ack = TRUE
      /\ i2c'.start = (i2c.start \/ m.restart) /\ i2c'.stop = (i2c.stop /\ ~m.restart)
  BY <1>1, <1>2, <1>3 DEF Started, Controls, Message
<1>. QED
  BY <1>2, <1>3, <1>4, <1>5

\* at32_i2c_master_finish.
LEMMA FinishEffect ==
  ASSUME Kinds, Finish
  PROVE  /\ irq' = IrqOff /\ bus' = IF bus.phase = "free" THEN FreeBus ELSE bus
         /\ i2c' \in Controls /\ i2c'.en = FALSE /\ i2c'.ack = i2c.ack /\ i2c'.pos = i2c.pos
         /\ i2c'.start = (i2c.start /\ bus.phase # "free")
         /\ i2c'.stop = (i2c.stop /\ bus.phase # "free")
<1>1. i2c \in Controls /\ bus.phase \in Phases
  BY DEF Kinds, Lines
<1>. QED
  BY <1>1 DEF Finish, Controls

\* msg_end after a failure.
EndsFailed ==
  /\ Failed(cur) /\ Finish /\ result' = "eio" /\ msgs' = <<>> /\ UNCHANGED owed
  /\ pc' = IF build = "polling" THEN "reset" ELSE "idle"
  /\ Blamed /\ ~Failed(cur')
\* msg_end before another message.
EndsNext ==
  /\ ~Failed(cur) /\ Len(msgs) > 1 /\ msgs' = Tail(msgs) /\ pc' = "init"
  /\ owed' = (cur.stop /\ bus.phase # "free")
  /\ UNCHANGED <<result, irq, i2c, bus, cur>>
\* The last msg_end.
EndsLast ==
  /\ ~Failed(cur) /\ Len(msgs) <= 1 /\ msgs' = Tail(msgs) /\ pc' = "idle" /\ result' = "ok" /\ Finish
  /\ owed' = (cur.stop /\ bus.phase # "free")
  /\ UNCHANGED cur

LEMMA EndEffect ==
  ASSUME Kinds, EndMsg
  PROVE  EndsFailed \/ EndsNext \/ EndsLast
<1>1. cur \in Currents /\ Len(msgs) \in Nat
  BY DEF Kinds
<1>2. CASE Failed(cur)
  <2>1. /\ Finish /\ result' = "eio" /\ msgs' = <<>> /\ UNCHANGED owed
        /\ pc' = IF build = "polling" THEN "reset" ELSE "idle"
        /\ cur' = [cur EXCEPT !.nack = FALSE, !.err = FALSE, !.arlo = FALSE]
    BY <1>2 DEF EndMsg, FailedAt
  <2>2. Blamed /\ ~Failed(cur')
    BY <1>1, <2>1 DEF Blamed, Failed, Currents
  <2>. QED
    BY <1>2, <2>1, <2>2 DEF EndsFailed
<1>3. CASE ~Failed(cur) /\ Len(msgs) > 1
  BY <1>3 DEF EndMsg, FailedAt, EndsNext
<1>4. CASE ~Failed(cur) /\ Len(msgs) <= 1
  BY <1>1, <1>4 DEF EndMsg, FailedAt, EndsLast
<1>. QED
  BY <1>1, <1>2, <1>3, <1>4

-----------------------------------------------------------------------------
(* The polling build. *)

LEMMA PollSbEffect ==
  ASSUME Kinds, PollSb
  PROVE  /\ bus.phase = "sb" /\ bus' \in Lines /\ LineData /\ bus'.pend = bus.pend
         /\ bus'.phase = IF tenBit /\ ~cur.restart THEN "head" ELSE "address"
         /\ bus'.read = (~cur.write /\ (tenBit => cur.restart))
<1>1. bus \in Lines /\ cur.write \in BOOLEAN /\ cur.restart \in BOOLEAN /\ tenBit \in BOOLEAN
  BY DEF Kinds, Currents
<1>. QED
  BY <1>1 DEF PollSb, Lines, Phases, LineData

LEMMA HeaderEffect ==
  ASSUME Kinds, HandleHeader \/ PollHeader
  PROVE  /\ bus.phase = "header" /\ bus' \in Lines /\ LineData /\ bus'.pend = bus.pend
         /\ bus'.phase = "address" /\ bus'.read = bus.read
<1>1. bus \in Lines
  BY DEF Kinds
<1>2. bus.phase = "header" /\ bus' = [bus EXCEPT !.phase = "address"]
  BY DEF HandleHeader, PollHeader
<1>. QED
  BY <1>1, <1>2 DEF Lines, Phases, LineData

LEMMA PollAddrEffect ==
  ASSUME Kinds, PollAddr
  PROVE  /\ bus.phase = "addr" /\ bus' \in Lines /\ LineData /\ bus'.pend = bus.pend
         /\ bus'.read = bus.read /\ bus'.phase = IF bus.read THEN "rx" ELSE "tx"
         /\ Restarts(tenBit /\ ~cur.write /\ ~cur.restart)
         /\ IF tenBit /\ ~cur.write /\ ~cur.restart THEN Starting /\ pc' = "pSb"
            ELSE i2c' = i2c /\ pc' = IF cur.write THEN "pData" ELSE "pAck"
<1>1. /\ bus \in Lines /\ cur \in Currents /\ tenBit \in BOOLEAN
      /\ cur.write \in BOOLEAN /\ cur.restart \in BOOLEAN
  BY DEF Kinds, Currents
<1>2. /\ bus.phase = "addr" /\ bus' = AddrCleared(bus)
      /\ cur' = [cur EXCEPT !.restart = (tenBit /\ ~cur.write /\ ~cur.restart)]
      /\ IF tenBit /\ ~cur.write /\ ~cur.restart THEN i2c' = Started(i2c) /\ pc' = "pSb"
         ELSE i2c' = i2c /\ pc' = IF cur.write THEN "pData" ELSE "pAck"
  BY DEF PollAddr, Poll
<1>3. Restarts(tenBit /\ ~cur.write /\ ~cur.restart)
  BY <1>1, <1>2 DEF Restarts, NoFault, Currents
<1>4. /\ bus' \in Lines /\ LineData /\ bus'.pend = bus.pend
      /\ bus'.read = bus.read /\ bus'.phase = IF bus.read THEN "rx" ELSE "tx"
  BY <1>1, <1>2 DEF AddrCleared, Lines, Phases, LineData
<1>. QED
  BY <1>2, <1>3, <1>4, StartEffect

LEMMA PollAckEffect ==
  ASSUME Kinds, PollAck
  PROVE  Positioned(i2c.ack /\ cur.len \notin {1, 2}, i2c.stop, IF cur.len = 2 THEN "next" ELSE i2c.pos)
<1>1. i2c \in Controls
  BY DEF Kinds
<1>. QED
  BY <1>1 DEF PollAck, Positioned, Controls

LEMMA PollTxEffect ==
  ASSUME Kinds, PollTx
  PROVE  /\ cur.write /\ cur.len > 0 /\ TDBE /\ Less(1)
         /\ LineKept /\ ~bus'.btf /\ bus'.sh = 1 /\ bus'.dr = IF bus.sh = 0 THEN bus.dr ELSE 1
<1>1. bus \in Lines /\ cur \in Currents /\ cur.len \in Nat
  BY DEF Kinds, Currents
<1>2. /\ cur.write /\ cur.len > 0 /\ TDBE /\ bus' = DataSent(bus) /\ cur' = [cur EXCEPT !.len = @ - 1]
  BY DEF PollTx
<1>3. Less(1)
  <2>1. cur' = [cur EXCEPT !.len = @ - 1] /\ cur.len - 1 \in Nat
    BY <1>1, <1>2
  <2>. QED
    BY <1>1, <2>1 DEF Less, Currents
<1>4. bus.phase = "tx"
  BY <1>2 DEF TDBE
<1>. QED
  BY <1>1, <1>2, <1>3, <1>4, Sent DEF LineKept

\* The read loop takes a byte, or the last two of three and more.
LEMMA PollRxEffect ==
  ASSUME Kinds, PollRx
  PROVE  /\ ~cur.write /\ cur.len > 0 /\ RDBF /\ (cur.len \in {2, 3} => TDC) /\ moved' \in Nat
         /\ cur.len # 2 => Less(1) /\ Taken /\ moved' = moved + bus.dr
         /\ cur.len = 2 => /\ Less(2) /\ LineKept /\ bus'.dr = 0 /\ bus'.sh = 0 /\ bus'.btf = FALSE
                           /\ moved' = moved + (bus.dr + bus.sh)
         /\ cur.len \in {1, 2} => Stopping
         /\ cur.len = 3 => Positioned(FALSE, i2c.stop, i2c.pos)
         /\ cur.len > 3 => i2c' = i2c
<1>1. cur \in Currents /\ cur.len \in Nat /\ i2c \in Controls
  BY DEF Kinds, Currents
<1>2. /\ ~cur.write /\ cur.len > 0 /\ RDBF /\ (cur.len \in {2, 3} => TDC)
      /\ Stored(IF cur.len = 2 THEN 2 ELSE 1)
      /\ i2c' = CASE cur.len \in {1, 2} -> StopIfAsked(i2c)
                  [] cur.len = 3 -> [i2c EXCEPT !.ack = FALSE]
                  [] OTHER -> i2c
  BY DEF PollRx
<1>3. cur.len \in {1, 2} => Stopping
  <2>1. SUFFICES ASSUME cur.len \in {1, 2} PROVE i2c' = StopIfAsked(i2c)
    BY StopEffect
  <2>2. ~(cur.len = 3)
    BY <2>1
  <2>. QED
    BY <1>2, <2>1, <2>2, Zenon
<1>4. cur.len = 3 => Positioned(FALSE, i2c.stop, i2c.pos)
  <2>1. SUFFICES ASSUME cur.len = 3 PROVE i2c' = [i2c EXCEPT !.ack = FALSE]
    BY <1>1 DEF Positioned, Controls
  <2>2. ~(cur.len \in {1, 2})
    BY <2>1
  <2>. QED
    BY <1>2, <2>1, <2>2, Zenon
<1>5. cur.len > 3 => i2c' = i2c
  <2>1. SUFFICES ASSUME cur.len > 3 PROVE i2c' = i2c
    OBVIOUS
  <2>2. ~(cur.len \in {1, 2}) /\ ~(cur.len = 3)
    BY <1>1, <2>1
  <2>. QED
    BY <1>2, <2>2, Zenon
<1>6. CASE cur.len = 2
  <2>1. Stored(2) /\ 2 <= cur.len /\ 2 \in {1, 2}
    BY <1>2, <1>6
  <2>2. /\ Less(2) /\ LineKept /\ bus'.dr = 0 /\ bus'.sh = 0 /\ bus'.btf = FALSE
        /\ moved' \in Nat /\ moved' = moved + (bus.dr + bus.sh)
    BY <2>1, StoredEffect
  <2>. QED
    BY <1>2, <1>3, <1>4, <1>5, <1>6, <2>2
<1>7. CASE cur.len # 2
  <2>1. Stored(1) /\ 1 <= cur.len
    BY <1>1, <1>2, <1>7
  <2>. QED
    BY <1>1, <1>2, <1>3, <1>4, <1>5, <1>7, <2>1, StoredEffect
<1>. QED
  BY <1>6, <1>7

LEMMA PollDoneEffect ==
  ASSUME Kinds, PollDone
  PROVE  /\ pc = "pData" /\ cur.len = 0 /\ (cur.write => TDC /\ Stopping) /\ (~cur.write => i2c' = i2c)
         /\ i2c' \in Controls /\ i2c'.start = i2c.start /\ i2c'.en = i2c.en
<1>1. i2c \in Controls
  BY DEF Kinds
<1>2. /\ pc = "pData" /\ cur.len = 0 /\ (cur.write => TDC)
      /\ i2c' = IF cur.write THEN StopIfAsked(i2c) ELSE i2c
  BY DEF PollDone, Poll
<1>3. cur.write => Stopping
  BY <1>2, StopEffect
<1>. QED
  BY <1>1, <1>2, <1>3 DEF Stopping

LEMMA PollFailsEffect ==
  ASSUME Kinds, PollFails
  PROVE  /\ Positioned(i2c.ack, TRUE, i2c.pos) /\ errors' \subseteq errors
         /\ Blamed /\ Failed(cur')
<1>1. i2c \in Controls /\ cur \in Currents
  BY DEF Kinds
<1>2. /\ i2c' = [i2c EXCEPT !.stop = TRUE] /\ errors' \subseteq errors
      /\ cur' = [cur EXCEPT !.nack = TRUE] \/ cur' = [cur EXCEPT !.err = TRUE]
  BY DEF PollFails
<1>3. Blamed /\ Failed(cur')
  BY <1>1, <1>2 DEF Blamed, Failed, Currents
<1>. QED
  BY <1>1, <1>2, <1>3 DEF Positioned, Controls

LEMMA CheckEffect ==
  ASSUME Kinds, CheckErrors
  PROVE  /\ Blamed /\ errors' \subseteq errors
         /\ Failed(cur') <=> Failed(cur) \/ errors # {}
<1>1. cur \in Currents /\ errors \subseteq Flags
  BY DEF Kinds
<1>2. CASE errors = {}
  BY <1>1, <1>2 DEF CheckErrors, Blamed, Currents
<1>3. CASE errors # {}
  <2>1. PICK e : e = FirstError(CheckOrder)
    OBVIOUS
  <2>2. /\ errors' = errors \ {e}
        /\ cur' = [cur EXCEPT !.nack = @ \/ e = "ackfail", !.arlo = @ \/ e = "arlost",
                              !.err = @ \/ e \in {"ouf", "buserr"}]
    BY <1>3, <2>1 DEF CheckErrors, FlagCleared
  <2>3. e \in Flags
    BY <1>1, <1>3, <2>1, FirstIsFlagged
  <2>4. Blamed
    <3>1. PICK x \in BOOLEAN : x = (cur.nack \/ e = "ackfail")
      OBVIOUS
    <3>2. PICK y \in BOOLEAN : y = (cur.arlo \/ e = "arlost")
      OBVIOUS
    <3>3. PICK z \in BOOLEAN : z = (cur.err \/ e \in {"ouf", "buserr"})
      OBVIOUS
    <3>4. cur' = [cur EXCEPT !.nack = x, !.arlo = y, !.err = z]
      BY <2>2, <3>1, <3>2, <3>3
    <3>. QED
      BY <1>1, <3>4 DEF Blamed, Currents
  <2>5. cur'.nack = (cur.nack \/ e = "ackfail") /\ cur'.arlo = (cur.arlo \/ e = "arlost")
    BY <1>1, <2>2 DEF Currents
  <2>6. cur'.err = (cur.err \/ e \in {"ouf", "buserr"})
    BY <1>1, <2>2 DEF Currents
  <2>. QED
    BY <1>3, <2>2, <2>3, <2>4, <2>5, <2>6 DEF Failed, Flags
<1>. QED
  BY <1>2, <1>3

-----------------------------------------------------------------------------
(* The bus. *)

LEMMA StopDoneEffect ==
  ASSUME Kinds, i2c' = StopDone(i2c)
  PROVE  /\ i2c' \in Controls /\ i2c'.stop = FALSE /\ i2c'.en = i2c.en /\ i2c'.ack = i2c.ack
         /\ i2c'.pos = i2c.pos /\ i2c'.start = (i2c.start /\ i2c.en)
<1>1. i2c \in Controls
  BY DEF Kinds
<1>. QED
  BY <1>1 DEF StopDone, Controls

LEMMA BusStartEffect ==
  ASSUME Kinds, BusStart
  PROVE  /\ bus' \in Lines /\ bus'.phase = "sb" /\ bus'.read = FALSE /\ bus'.dr = 0 /\ bus'.sh = 0
         /\ bus'.btf = FALSE
         /\ i2c' \in Controls /\ i2c'.start = FALSE /\ i2c'.stop = i2c.stop /\ i2c'.en = i2c.en
         /\ i2c'.ack = i2c.ack /\ i2c'.pos = i2c.pos
<1>1. i2c \in Controls
  BY DEF Kinds
<1>2. bus' = [FreeBus EXCEPT !.phase = "sb"] /\ i2c' = [i2c EXCEPT !.start = FALSE]
  BY DEF BusStart
<1>3. /\ bus' \in Lines /\ bus'.phase = "sb" /\ bus'.read = FALSE /\ bus'.dr = 0 /\ bus'.sh = 0
      /\ bus'.btf = FALSE
  BY <1>2 DEF FreeBus, Lines, Phases
<1>. QED
  BY <1>1, <1>2, <1>3 DEF Controls

LEMMA AddressEffect ==
  ASSUME Kinds, NEW acked \in BOOLEAN, AddressSent(acked)
  PROVE  /\ bus.phase \in {"head", "address"} /\ bus' \in Lines /\ LineData /\ bus'.read = bus.read
         /\ acked => /\ bus'.phase = (IF bus.phase = "head" THEN "header" ELSE "addr")
                     /\ bus'.pend = i2c.ack /\ errors' = errors
         /\ ~acked => /\ bus'.phase = "nacked" /\ bus'.pend = bus.pend
                      /\ errors' = errors \cup {"ackfail"}
<1>1. bus \in Lines /\ i2c.ack \in BOOLEAN
  BY DEF Kinds, Controls
<1>2. CASE acked
  <2>1. /\ bus' = [bus EXCEPT !.phase = IF bus.phase = "head" THEN "header" ELSE "addr",
                             !.pend = i2c.ack]
        /\ bus.phase \in {"head", "address"} /\ errors' = errors
    BY <1>1, <1>2 DEF AddressSent, Lines
  <2>. QED
    BY <1>1, <1>2, <2>1 DEF Lines, Phases, LineData
<1>3. CASE ~acked
  <2>1. /\ bus' = [bus EXCEPT !.phase = "nacked"] /\ bus.phase \in {"head", "address"}
        /\ errors' = errors \cup {"ackfail"}
    BY <1>3 DEF AddressSent
  <2>. QED
    BY <1>1, <1>3, <2>1 DEF Lines, Phases, LineData
<1>. QED
  BY <1>2, <1>3

LEMMA ShiftOutEffect ==
  ASSUME Kinds, NEW acked \in BOOLEAN, ShiftOut(acked)
  PROVE  /\ bus.phase = "tx" /\ bus.sh = 1 /\ bus' \in Lines /\ bus'.dr = 0 /\ bus'.read = bus.read
         /\ bus'.pend = bus.pend
         /\ acked => /\ bus'.phase = "tx" /\ bus'.sh = bus.dr /\ bus'.btf = (bus.dr = 0)
                     /\ moved' = moved + 1 /\ errors' = errors
         /\ ~acked => /\ bus'.phase = "nacked" /\ bus'.sh = 0 /\ bus'.btf = bus.btf /\ moved' = moved
                      /\ errors' = errors \cup {"ackfail"}
<1>1. bus \in Lines
  BY DEF Kinds
<1>2. CASE acked
  <2>1. /\ bus' = [bus EXCEPT !.sh = bus.dr, !.dr = 0, !.btf = (bus.dr = 0)]
        /\ bus.phase = "tx" /\ bus.sh = 1 /\ moved' = moved + 1 /\ errors' = errors
    BY <1>2 DEF ShiftOut
  <2>. QED
    BY <1>1, <1>2, <2>1 DEF Lines, Phases
<1>3. CASE ~acked
  <2>1. /\ bus' = [bus EXCEPT !.sh = 0, !.dr = 0, !.phase = "nacked"]
        /\ bus.phase = "tx" /\ bus.sh = 1 /\ moved' = moved
        /\ errors' = errors \cup {"ackfail"}
    BY <1>3 DEF ShiftOut
  <2>. QED
    BY <1>1, <1>3, <2>1 DEF Lines, Phases
<1>. QED
  BY <1>2, <1>3

\* The ack a byte shifted in gets: the bit of the byte before where POS is set.
ShiftAcked == IF i2c.pos = "next" THEN bus.pend ELSE i2c.ack

LEMMA ShiftInEffect ==
  ASSUME Kinds, ShiftIn
  PROVE  /\ bus.phase = "rx" /\ ~TDC /\ (pc = "pAck" => "preempt" \in Hazards)
         /\ clocked' = clocked + 1 /\ bus' \in Lines
         /\ i2c.stop => /\ bus'.phase = "free" /\ bus'.btf = FALSE
                        /\ i2c.en /\ bus.read => bus'.dr = 1 /\ bus'.sh = bus.dr /\ bus'.read = bus.read
                        /\ ~i2c.en => bus' = FreeBus
                        /\ i2c' = StopDone(i2c) /\ owed' = FALSE
         /\ ~i2c.stop => /\ bus'.phase = IF ShiftAcked THEN "rx" ELSE "nacked"
                         /\ bus'.dr = 1 /\ bus'.sh = bus.dr /\ bus'.read = bus.read
                         /\ bus'.pend = i2c.ack /\ bus'.btf = bus.btf
                         /\ UNCHANGED <<i2c, owed>>
<1>1. bus \in Lines /\ i2c \in Controls /\ i2c.ack \in BOOLEAN /\ bus.dr \in {0, 1}
  BY DEF Kinds, Controls, Lines
<1>2. PICK y : y = [bus EXCEPT !.dr = 1, !.sh = bus.dr, !.pend = i2c.ack]
  OBVIOUS
<1>3. /\ y \in Lines /\ y.phase = bus.phase /\ y.read = bus.read /\ y.btf = bus.btf
      /\ y.dr = 1 /\ y.sh = bus.dr /\ y.pend = i2c.ack
  BY <1>1, <1>2 DEF Lines
<1>4. /\ bus.phase = "rx" /\ ~TDC /\ (pc = "pAck" => "preempt" \in Hazards) /\ clocked' = clocked + 1
  BY DEF ShiftIn
<1>5. CASE i2c.stop
  <2>1. bus' = Released(y) /\ i2c' = StopDone(i2c) /\ owed' = FALSE
    BY <1>2, <1>5 DEF ShiftIn
  <2>. QED
    BY <1>3, <1>4, <1>5, <2>1, Left
<1>6. CASE ~i2c.stop
  <2>1. /\ bus' = (IF ShiftAcked THEN y ELSE [y EXCEPT !.phase = "nacked"]) /\ UNCHANGED <<i2c, owed>>
    BY <1>2, <1>6 DEF ShiftIn, ShiftAcked
  <2>2. CASE ShiftAcked
    BY <1>3, <1>4, <1>6, <2>1, <2>2
  <2>3. CASE ~ShiftAcked
    BY <1>3, <1>4, <1>6, <2>1, <2>3 DEF Lines, Phases
  <2>. QED
    BY <2>2, <2>3
<1>. QED
  BY <1>5, <1>6

LEMMA FaultEffect ==
  ASSUME Kinds, NEW e \in {"arlost", "buserr", "ouf"}, Fault(e)
  PROVE  /\ pc \notin {"wait", "pSb", "pHeader", "pAddr", "pData"} => "between" \in Hazards
         /\ errors' = errors \cup {e} /\ owed' = FALSE
         /\ e = "arlost" => bus.phase \in {"head", "address"} \/ (bus.phase = "tx" /\ bus.sh = 1)
         /\ e = "buserr" => bus.phase # "free" /\ (i2c.start => "buserr" \in Hazards)
         /\ e = "ouf" => "overrun" \in Hazards /\ bus' = bus /\ i2c' = i2c
         /\ e # "ouf" => bus' = Released(bus) /\ i2c' = StopDone(i2c)
<1>1. /\ pc \notin {"wait", "pSb", "pHeader", "pAddr", "pData"} => "between" \in Hazards
      /\ errors' = errors \cup {e} /\ owed' = FALSE
      /\ bus' = IF e = "ouf" THEN bus ELSE Released(bus)
      /\ i2c' = IF e = "ouf" THEN i2c ELSE StopDone(i2c)
      /\ CASE e = "arlost" -> bus.phase \in {"head", "address"} \/ (bus.phase = "tx" /\ bus.sh = 1)
           [] e = "buserr" -> bus.phase # "free" /\ (i2c.start \/ (irq.data /\ RDBF) => "buserr" \in Hazards)
           [] e = "ouf"    -> bus.phase = "rx" /\ "overrun" \in Hazards
  BY DEF Fault
<1>2. CASE e = "arlost"
  <2>1. (e = "arlost") /\ ~(e = "buserr") /\ ~(e = "ouf")
    BY <1>2
  <2>2. bus.phase \in {"head", "address"} \/ (bus.phase = "tx" /\ bus.sh = 1)
    BY <1>1, <2>1, Zenon
  <2>. QED
    BY <1>1, <2>1, <2>2
<1>3. CASE e = "buserr"
  <2>1. ~(e = "arlost") /\ (e = "buserr") /\ ~(e = "ouf")
    BY <1>3
  <2>2. bus.phase # "free" /\ (i2c.start \/ (irq.data /\ RDBF) => "buserr" \in Hazards)
    BY <1>1, <2>1, Zenon
  <2>. QED
    BY <1>1, <2>1, <2>2
<1>4. CASE e = "ouf"
  <2>1. ~(e = "arlost") /\ ~(e = "buserr") /\ (e = "ouf")
    BY <1>4
  <2>2. bus.phase = "rx" /\ "overrun" \in Hazards
    BY <1>1, <2>1, Zenon
  <2>. QED
    BY <1>1, <2>1, <2>2
<1>. QED
  BY <1>2, <1>3, <1>4
-----------------------------------------------------------------------------
(* Type correctness. *)

\* q is ms with its first message made a RESTART.
OnlyRestarted(q, ms) ==
  \A n \in 1 .. Len(q) : /\ q[n].len = ms[n].len /\ q[n].write = ms[n].write
                         /\ q[n].stop = ms[n].stop
                         /\ q[n].restart = (n = 1 \/ ms[n].restart)

\* The array a caller passes, its first message made to begin with a START.
LEMMA FirstRestart ==
  ASSUME NEW ms \in Transfers, NEW q, q = [ms EXCEPT ![1].restart = TRUE]
  PROVE  /\ q \in Seq(Message) /\ q # <<>> /\ Len(q) = Len(ms) /\ ms \in Seq(Message)
         /\ OnlyRestarted(q, ms)
<1>1. ms \in Seq(Message) /\ ms # <<>>
  BY TransferAssumption DEF Message
<1>2. Len(ms) \in Nat /\ Len(ms) # 0 /\ ms \in [1 .. Len(ms) -> Message]
  BY <1>1
<1>3. ms[1] \in Message
  BY <1>2
<1>4. PICK y : y = [ms[1] EXCEPT !.restart = TRUE]
  OBVIOUS
<1>5. /\ y \in Message /\ y.len = ms[1].len /\ y.write = ms[1].write /\ y.stop = ms[1].stop
      /\ y.restart = TRUE
  BY <1>3, <1>4 DEF Message
<1>6. q = [ms EXCEPT ![1] = y]
  BY <1>4
<1>7. q \in [1 .. Len(ms) -> Message] /\ q[1] = y /\ \A n \in 2 .. Len(ms) : q[n] = ms[n]
  <2>0. 1 \in 1 .. Len(ms) /\ y \in Message
    BY <1>2, <1>5
  <2>1. q \in [1 .. Len(ms) -> Message]
    BY <1>2, <1>6, <2>0
  <2>2. q[1] = y
    BY <1>2, <1>6, <2>0
  <2>3. \A n \in 2 .. Len(ms) : n \in 1 .. Len(ms) /\ n # 1
    BY <1>2
  <2>. QED
    BY <1>2, <1>6, <2>1, <2>2, <2>3
<1>8. q \in Seq(Message) /\ Len(q) = Len(ms) /\ q # <<>>
  BY <1>2, <1>7
<1>9. ASSUME NEW n \in 1 .. Len(q)
      PROVE  /\ q[n].len = ms[n].len /\ q[n].write = ms[n].write /\ q[n].stop = ms[n].stop
             /\ q[n].restart = (n = 1 \/ ms[n].restart)
  <2>1. CASE n = 1
    BY <1>5, <1>7, <2>1
  <2>2. CASE n # 1
    <3>1. n \in 2 .. Len(ms) /\ ms[n] \in Message
      BY <1>2, <1>8, <2>2
    <3>. QED
      BY <1>7, <2>2, <3>1 DEF Message
  <2>. QED
    BY <2>1, <2>2
<1>. QED
  BY <1>1, <1>8, <1>9 DEF OnlyRestarted

LEMMA TailOf ==
  ASSUME NEW q \in Seq(Message), q # <<>>
  PROVE  /\ Head(q) \in Message /\ Head(q) = q[1] /\ Len(q) >= 1 /\ Len(q) \in Nat
         /\ Tail(q) \in Seq(Message) /\ Len(Tail(q)) = Len(q) - 1
         /\ Len(q) > 1 => Tail(q) # <<>>
         /\ \A n \in 1 .. Len(Tail(q)) : Tail(q)[n] = q[n + 1]
<1>1. Len(q) \in Nat /\ Len(q) # 0 /\ q \in [1 .. Len(q) -> Message]
  OBVIOUS
<1>2. q[1] \in Message /\ Head(q) = q[1]
  BY <1>1
<1>3. Tail(q) \in Seq(Message) /\ Len(Tail(q)) = Len(q) - 1
  BY <1>1
<1>4. \A n \in 1 .. Len(Tail(q)) : Tail(q)[n] = q[n + 1]
  BY <1>1, <1>3
<1>5. ASSUME Len(q) > 1, Tail(q) = <<>>
      PROVE  FALSE
  <2>1. Len(<<>>) = 0
    OBVIOUS
  <2>. QED
    BY <2>1, <1>1, <1>3, <1>5
<1>. QED
  BY <1>1, <1>2, <1>3, <1>4, <1>5

LEMMA KindsInit == Init => Kinds
<1> SUFFICES ASSUME Init PROVE Kinds
  OBVIOUS
<1>1. build \in Builds /\ tenBit \in BOOLEAN
  BY BuildAssumption DEF Init
<1>2. cur \in Currents /\ cur.len <= cur.full
  BY DEF Init, NoMsg, Currents
<1>3. irq \in Enables /\ i2c \in Controls /\ bus \in Lines
  BY DEF Init, IrqOff, IdleI2c, FreeBus, Enables, Controls, Lines, Phases
<1>. QED
  <2>1. <<>> \in Seq(Message)
    OBVIOUS
  <2>2. /\ pc = "idle" /\ msgs = <<>> /\ result = "none" /\ sem = 0 /\ errors = {}
        /\ moved = 0 /\ clocked = 0 /\ owed = FALSE
    BY DEF Init
  <2>3. sem \in 0 .. SemBound /\ moved \in Nat /\ clocked \in Nat /\ errors \subseteq Flags
    BY <2>2 DEF SemBound
  <2>4. owed \in BOOLEAN /\ result \in {"none", "ok", "eio"} /\ msgs \in Seq(Message)
    BY <2>1, <2>2
  <2>. QED
    BY <1>1, <1>2, <1>3, <2>2, <2>3, <2>4 DEF Kinds, Labels

LEMMA KindsThread ==
  ASSUME Kinds,
         \/ \E ms \in Transfers : Call(ms)
         \/ \E ten \in BOOLEAN : Configure(ten)
         \/ SemReset \/ Setup \/ Enable \/ Take \/ TimedOut \/ Reset \/ EndMsg
  PROVE  Kinds'
<1>1. ASSUME NEW ms \in Transfers, Call(ms) PROVE Kinds'
  <2>1. msgs' \in Seq(Message) /\ msgs' # <<>>
    BY <1>1, FirstRestart DEF Call
  <2>. QED
    BY <1>1, <2>1 DEF Call, Kinds, config, hist, Labels
<1>2. ASSUME NEW ten \in BOOLEAN, Configure(ten) PROVE Kinds'
  <2>1. irq' \in Enables /\ i2c' \in Controls /\ bus' \in Lines
    BY <1>2, Free DEF Configure, IrqOff, IdleI2c, Enables, Controls
  <2>. QED
    BY <1>2, <2>1 DEF Configure, Kinds, caller
<1>3. CASE SemReset
  BY <1>3 DEF SemReset, Kinds, Labels, config, hist, SemBound
<1>4. CASE Setup
  <2>1. /\ Head(msgs) \in Message /\ cur' \in Currents /\ cur'.len = Head(msgs).len
        /\ cur'.full = Head(msgs).len /\ i2c' \in Controls
    BY <1>4, SetupEffect
  <2>2. cur'.len <= cur'.full
    BY <2>1 DEF Message
  <2>3. /\ msgs # <<>> /\ pc' \in {"enable", "pSb", "pData"} /\ moved' = 0 /\ clocked' = 0
        /\ UNCHANGED <<config, msgs, result, sem, irq, bus, errors, owed>>
    BY <1>4 DEF Setup, Kinds
  <2>. QED
    BY <2>1, <2>2, <2>3 DEF Kinds, Labels, config
<1>5. CASE Enable
  BY <1>5 DEF Enable, Kinds, Labels, Enables, config, hist
<1>6. CASE Take
  <2>1. sem' \in 0 .. SemBound
    BY <1>6 DEF Take, Kinds, SemBound
  <2>. QED
    BY <1>6, <2>1 DEF Take, Kinds, Labels, config, hist
<1>7. CASE TimedOut
  BY <1>7 DEF TimedOut, Kinds, Labels, config, hist
<1>8. CASE Reset
  <2>1. i2c' \in Controls
    BY <1>8 DEF Reset, Kinds, Controls
  <2>. QED
    <3>1. /\ irq' = IrqOff /\ bus' = FreeBus /\ errors' = {} /\ owed' = FALSE
          /\ pc' = "idle" /\ msgs' = <<>>
          /\ UNCHANGED <<build, tenBit, result, cur, sem, moved, clocked>>
      BY <1>8 DEF Reset, config
    <3>2. <<>> \in Seq(Message)
      OBVIOUS
    <3>. QED
      BY <2>1, <3>1, <3>2, Free, Off DEF Kinds, Labels
<1>9. CASE EndMsg
  <2>0. /\ pc = "end" /\ UNCHANGED <<build, tenBit, sem, errors, moved, clocked>>
        /\ cur.stop \in BOOLEAN /\ cur.len \in Nat /\ cur.full \in Nat
    BY <1>9 DEF EndMsg, config, Kinds, Currents
  <2>1. msgs \in Seq(Message) /\ msgs # <<>>
    BY <2>0 DEF Kinds
  <2>2. CASE EndsFailed
    <3>1. irq' \in Enables /\ i2c' \in Controls /\ bus' \in Lines
      BY <2>2, FinishEffect, Free, Off DEF EndsFailed, Kinds
    <3>2. cur' \in Currents /\ cur'.len <= cur'.full
      BY <2>2 DEF EndsFailed, Blamed, Kinds
    <3>. QED
      BY <2>0, <2>2, <3>1, <3>2 DEF EndsFailed, Kinds, Labels
  <2>3. CASE EndsNext
    BY <2>0, <2>1, <2>3, TailOf DEF EndsNext, Kinds, Labels
  <2>4. CASE EndsLast
    <3>1. irq' \in Enables /\ i2c' \in Controls /\ bus' \in Lines
      BY <2>4, FinishEffect, Free, Off DEF EndsLast, Kinds
    <3>. QED
      BY <2>0, <2>1, <2>4, <3>1, TailOf DEF EndsLast, Kinds, Labels
  <2>. QED
    BY <1>9, <2>2, <2>3, <2>4, EndEffect
<1>. QED
  BY <1>1, <1>2, <1>3, <1>4, <1>5, <1>6, <1>7, <1>8, <1>9

\* What the handlers and the hardware leave alone.
Threadless == UNCHANGED <<build, tenBit, pc, msgs, result>>

LEMMA KindsEvent ==
  ASSUME Kinds, Event \/ HandleError
  PROVE  Kinds'
<1>0. /\ cur \in Currents /\ cur.len \in Nat /\ cur.full \in Nat /\ cur.len <= cur.full
      /\ sem \in 0 .. SemBound /\ bus \in Lines /\ irq \in Enables /\ i2c \in Controls
      /\ moved \in Nat
  BY DEF Kinds, Currents
<1>1. SUFFICES ASSUME /\ Threadless /\ errors' \subseteq Flags /\ UNCHANGED <<clocked, owed>>
                      /\ Event \/ HandleError
               PROVE  /\ cur' \in Currents /\ cur'.len <= cur'.full /\ sem' \in 0 .. SemBound
                      /\ irq' \in Enables /\ i2c' \in Controls /\ bus' \in Lines /\ moved' \in Nat
  <2>1. CASE Event
    <3>1. Threadless /\ UNCHANGED <<errors, clocked, owed>>
      BY <2>1 DEF Event, HandleSb, HandleHeader, HandleAddr, HandleTxe, HandleRxne, HandleBtf, Isr,
                  config, caller, Threadless
    <3>. QED
      BY <2>1, <3>1 DEF Kinds, Threadless
  <2>2. CASE HandleError
    <3>1. Threadless /\ UNCHANGED <<clocked, owed>> /\ errors' \subseteq errors
      BY <2>2, ErrorEffect DEF HandleError, config, caller, hist, Threadless
    <3>. QED
      BY <2>2, <3>1 DEF Kinds, Threadless
  <2>. QED
    BY <2>1, <2>2
<1>2. CASE HandleSb
  <2>1. UNCHANGED <<sem, irq, moved>>
    BY <1>2 DEF HandleSb
  <2>2. tenBit \in BOOLEAN
    BY DEF Kinds
  <2>. QED
    BY <1>0, <1>2, <2>1, <2>2, SbEffect DEF Restarts, Positioned
<1>3. CASE HandleHeader
  <2>1. UNCHANGED <<cur, sem, irq, i2c, moved>>
    BY <1>3 DEF HandleHeader
  <2>. QED
    BY <1>0, <1>3, <2>1, HeaderEffect
<1>4. CASE HandleAddr
  <2>1. UNCHANGED <<sem, irq, moved>>
    BY <1>4 DEF HandleAddr
  <2>2. cur' \in Currents /\ cur'.len <= cur'.full
    BY <1>0, <1>4, AddrEffect DEF Restarts
  <2>3. i2c' \in Controls /\ bus' \in Lines
    BY <1>0, <1>4, AddrEffect DEF Starting, Positioned
  <2>. QED
    BY <1>0, <2>1, <2>2, <2>3
<1>5. ASSUME TxeSends \/ TxeEnds, moved' = moved
      PROVE  /\ cur' \in Currents /\ cur'.len <= cur'.full /\ sem' \in 0 .. SemBound
             /\ irq' \in Enables /\ i2c' \in Controls /\ bus' \in Lines /\ moved' \in Nat
  BY <1>0, <1>5 DEF TxeSends, TxeEnds, Less, LineKept, Stopping, Given
<1>6. ASSUME RxneLast \/ RxneWaits \/ RxneLeaves \/ RxneReads \/ RxneEnds
      PROVE  /\ cur' \in Currents /\ cur'.len <= cur'.full /\ sem' \in 0 .. SemBound
             /\ irq' \in Enables /\ i2c' \in Controls /\ bus' \in Lines /\ moved' \in Nat
  <2>1. CASE RxneLast
    BY <1>0, <2>1 DEF RxneLast, Less, Taken, LineKept, DataOff, Given
  <2>2. CASE RxneWaits
    BY <1>0, <2>2 DEF RxneWaits
  <2>3. CASE RxneLeaves
    BY <1>0, <2>3 DEF RxneLeaves, DataOff
  <2>4. CASE RxneReads
    BY <1>0, <2>4 DEF RxneReads, Less, Taken, LineKept
  <2>5. CASE RxneEnds
    BY <1>0, <2>5 DEF RxneEnds, Stopping, Given
  <2>. QED
    BY <1>6, <2>1, <2>2, <2>3, <2>4, <2>5
<1>7. CASE HandleTxe
  BY <1>5, <1>7, TxeEffect DEF HandleTxe
<1>8. CASE HandleRxne
  BY <1>6, <1>8, RxneEffect DEF HandleRxne
<1>9. CASE HandleBtf
  <2>1. CASE BtfLast
    BY <1>0, <2>1 DEF BtfLast, Less, LineKept, Stopping, Given
  <2>2. CASE BtfThird
    BY <1>0, <2>2 DEF BtfThird, Less, Taken, LineKept
  <2>. QED
    BY <1>5, <1>6, <1>9, <2>1, <2>2, BtfEffect
<1>10. CASE HandleError
  <2>1. UNCHANGED <<irq, bus, moved>>
    BY <1>10 DEF HandleError, hist
  <2>. QED
    BY <1>0, <1>10, <2>1, ErrorEffect DEF Blamed, Given
<1>. QED
  BY <1>1, <1>2, <1>3, <1>4, <1>7, <1>8, <1>9, <1>10 DEF Event
LEMMA KindsPoll ==
  ASSUME Kinds,
         \/ PollSb \/ PollHeader \/ PollAddr \/ PollAck \/ PollTx \/ PollRx \/ PollDone \/ PollFails
         \/ CheckErrors
  PROVE  Kinds'
<1>0. /\ cur \in Currents /\ cur.len \in Nat /\ cur.full \in Nat /\ cur.len <= cur.full
      /\ bus \in Lines /\ i2c \in Controls /\ moved \in Nat /\ msgs # <<>>
  <2>1. pc \notin {"idle", "reset"}
    BY DEF PollSb, PollHeader, PollAddr, PollAck, PollTx, PollRx, PollDone, PollFails, CheckErrors, Poll
  <2>. QED
    BY <2>1 DEF Kinds, Currents
<1>1. /\ UNCHANGED <<build, tenBit, msgs, result, sem, irq, owed, clocked>>
      /\ pc' \in {"pSb", "pHeader", "pAddr", "pAck", "pData", "check", "end"}
  BY DEF PollSb, PollHeader, PollAddr, PollAck, PollTx, PollRx, PollDone, PollFails, CheckErrors,
         Poll, config
<1>2. SUFFICES /\ cur' \in Currents /\ cur'.len <= cur'.full /\ errors' \subseteq Flags
               /\ i2c' \in Controls /\ bus' \in Lines /\ moved' \in Nat
  BY <1>0, <1>1 DEF Kinds, Labels
<1>. USE DEF Kinds
<1>3. CASE PollSb
  BY <1>0, <1>3, PollSbEffect DEF PollSb
<1>4. CASE PollHeader
  BY <1>0, <1>4, HeaderEffect DEF PollHeader
<1>5. CASE PollAddr
  <2>1. errors' = errors /\ moved' = moved
    BY <1>5 DEF PollAddr
  <2>2. i2c' \in Controls
    BY <1>0, <1>5, PollAddrEffect DEF Starting
  <2>3. cur' \in Currents /\ cur'.len <= cur'.full /\ bus' \in Lines
    BY <1>0, <1>5, PollAddrEffect DEF Restarts
  <2>. QED
    BY <1>0, <2>1, <2>2, <2>3
<1>6. CASE PollAck
  BY <1>0, <1>6, PollAckEffect DEF PollAck, Positioned
<1>7. CASE PollTx
  <2>1. errors' = errors /\ moved' = moved /\ i2c' = i2c
    BY <1>7 DEF PollTx
  <2>. QED
    BY <1>0, <1>7, <2>1, PollTxEffect DEF Less, LineKept
<1>8. CASE PollRx
  <2>1. errors' = errors
    BY <1>8 DEF PollRx
  <2>4. cur.len > 0 /\ moved' \in Nat
    BY <1>8, PollRxEffect
  <2>5. (Less(1) /\ LineKept) \/ (Less(2) /\ LineKept)
    BY <1>8, PollRxEffect DEF Taken
  <2>2. cur' \in Currents /\ cur'.len <= cur'.full /\ bus' \in Lines /\ moved' \in Nat
    BY <1>0, <2>4, <2>5 DEF Less, LineKept
  <2>3. i2c' \in Controls
    <3>1. cur.len \in {1, 2} \/ cur.len = 3 \/ cur.len > 3
      BY <1>0, <2>4
    <3>. QED
      BY <1>0, <1>8, <3>1, PollRxEffect DEF Stopping, Positioned
  <2>. QED
    BY <2>1, <2>2, <2>3
<1>9. CASE PollDone
  BY <1>0, <1>9, PollDoneEffect DEF PollDone
<1>10. CASE PollFails
  <2>1. bus' = bus /\ moved' = moved
    BY <1>10 DEF PollFails
  <2>. QED
    BY <1>0, <1>10, <2>1, PollFailsEffect DEF Positioned, Blamed
<1>11. CASE CheckErrors
  <2>1. bus' = bus /\ moved' = moved /\ i2c' = i2c
    BY <1>11 DEF CheckErrors
  <2>. QED
    BY <1>0, <1>11, <2>1, CheckEffect DEF Blamed
<1>. QED
  BY <1>3, <1>4, <1>5, <1>6, <1>7, <1>8, <1>9, <1>10, <1>11

LEMMA KindsHardware ==
  ASSUME Kinds, Hardware
  PROVE  Kinds'
<1>0. bus \in Lines /\ i2c \in Controls /\ moved \in Nat /\ clocked \in Nat /\ owed \in BOOLEAN
      /\ errors \subseteq Flags
  BY DEF Kinds
<1>1. Threadless /\ UNCHANGED <<cur, sem, irq>>
  BY DEF Hardware, BusStart, Data, BusStop, ShiftIn, ShiftOut, AddressSent, Fault, Bus, Threadless,
         config, caller
<1>2. SUFFICES /\ errors' \subseteq Flags /\ i2c' \in Controls /\ bus' \in Lines
               /\ moved' \in Nat /\ clocked' \in Nat /\ owed' \in BOOLEAN
  BY <1>1 DEF Kinds, Threadless
<1>3. CASE BusStart
  BY <1>0, <1>3, BusStartEffect DEF BusStart
<1>4. CASE BusStop
  BY <1>0, <1>4, Left, StopDoneEffect DEF BusStop
<1>5. ASSUME NEW acked \in BOOLEAN, AddressSent(acked)
      PROVE  /\ errors' \subseteq Flags /\ i2c' \in Controls /\ bus' \in Lines
             /\ moved' \in Nat /\ clocked' \in Nat /\ owed' \in BOOLEAN
  <2>1. UNCHANGED <<i2c, moved, clocked, owed>>
    BY <1>5 DEF AddressSent, hist
  <2>. QED
    BY <1>0, <1>5, <2>1, AddressEffect DEF Flags
<1>6. ASSUME NEW acked \in BOOLEAN, ShiftOut(acked)
      PROVE  /\ errors' \subseteq Flags /\ i2c' \in Controls /\ bus' \in Lines
             /\ moved' \in Nat /\ clocked' \in Nat /\ owed' \in BOOLEAN
  <2>1. UNCHANGED <<i2c, clocked, owed>>
    BY <1>6 DEF ShiftOut
  <2>2. moved + 1 \in Nat /\ errors \cup {"ackfail"} \subseteq Flags
    BY <1>0 DEF Flags
  <2>3. bus' \in Lines
    BY <1>6, ShiftOutEffect
  <2>4. moved' \in {moved, moved + 1} /\ errors' \in {errors, errors \cup {"ackfail"}}
    BY <1>6, ShiftOutEffect
  <2>. QED
    BY <1>0, <2>1, <2>2, <2>3, <2>4
<1>7. CASE ShiftIn
  <2>1. UNCHANGED <<errors, moved>>
    BY <1>7 DEF ShiftIn
  <2>2. i2c' \in Controls
    BY <1>0, <1>7, ShiftInEffect, StopDoneEffect
  <2>3. clocked' = clocked + 1 /\ bus' \in Lines
    BY <1>7, ShiftInEffect
  <2>4. owed' \in BOOLEAN
    BY <1>0, <1>7, ShiftInEffect
  <2>. QED
    BY <1>0, <2>1, <2>2, <2>3, <2>4
<1>8. ASSUME NEW e \in {"arlost", "buserr", "ouf"}, Fault(e)
      PROVE  /\ errors' \subseteq Flags /\ i2c' \in Controls /\ bus' \in Lines
             /\ moved' \in Nat /\ clocked' \in Nat /\ owed' \in BOOLEAN
  <2>1. UNCHANGED <<moved, clocked>>
    BY <1>8 DEF Fault
  <2>2. errors' \subseteq Flags /\ owed' \in BOOLEAN
    BY <1>0, <1>8, FaultEffect DEF Flags
  <2>3. CASE e = "ouf"
    BY <1>0, <1>8, <2>1, <2>2, <2>3, FaultEffect
  <2>4. CASE e # "ouf"
    BY <1>0, <1>8, <2>1, <2>2, <2>4, FaultEffect, Left, StopDoneEffect
  <2>. QED
    BY <2>3, <2>4
<1>. QED
  BY <1>3, <1>4, <1>5, <1>6, <1>7, <1>8 DEF Hardware, Data

LEMMA KindsNext == Kinds /\ [Next]_vars => Kinds'
<1> SUFFICES ASSUME Kinds, [Next]_vars PROVE Kinds'
  OBVIOUS
<1>1. CASE UNCHANGED vars
  BY <1>1 DEF vars, config, caller, hist, Kinds
<1>2. CASE Next
  BY <1>2, KindsThread, KindsPoll, KindsEvent, KindsHardware DEF Next, Thread
<1>. QED
  BY <1>1, <1>2

\* Every variable keeps its kind, whatever the messages, the build and the hazards: in
\* particular the bytes left of a message (data->current.len) never exceed it and never
\* go below zero in handle_txe, handle_rxne, handle_btf or the polling loops, and there
\* is a message wherever the code looks at one.
THEOREM TypeCorrect == Spec => []TypeOK
<1>1. Spec => []Kinds
  BY KindsInit, KindsNext, PTL DEF Spec
<1>. QED
  BY <1>1, KindsTypes, PTL
-----------------------------------------------------------------------------
(* The inductive invariant. *)

\* A header or an address is being sent.
Asking  == {"sb", "head", "header", "address", "addr"}
Pausing == {"idle", "init", "setup"}
Drained == bus.dr = 0 /\ bus.sh = 0
Empty   == Drained /\ ~bus.btf
Held    == bus.dr + bus.sh

\* Every read asks for a byte, and begins with a START.
ReadsStart ==
  \A ms \in Transfers : \A n \in 1 .. Len(ms) :
    ~ms[n].write => ms[n].len > 0 /\ (n > 1 => ms[n].restart)

\* What each build leaves unused, and when the transfer interrupts are on.
Frame ==
  /\ errors \subseteq {"ackfail", "arlost", "buserr"}
  /\ build \in {"interrupt", "polling"}
  /\ build = "polling" => ~irq.all /\ sem = 0 /\ pc \notin {"enable", "wait"}
  /\ build = "interrupt" => pc \notin {"pSb", "pHeader", "pAddr", "pAck", "pData", "check"}
  /\ build = "interrupt" /\ pc \in {"wait", "end"} => irq.all
  /\ pc = "idle" => ~irq.all
  /\ pc \in Working => i2c.en

\* What the data and shift register can hold at each place of the wire.
Wire ==
  /\ bus.phase \in {"tx", "sb", "head", "header"} => ~bus.read
  /\ bus.phase = "rx" => bus.read
  /\ bus.phase \in Asking => Empty /\ clocked = 0
  /\ bus.btf => bus.phase = "tx" /\ Drained
  /\ bus.read /\ bus.sh = 1 => bus.dr = 1
  /\ bus.phase = "tx" /\ bus.dr = 1 => bus.sh = 1

\* Between two messages: nothing is flagged, asserted or due.
Resting ==
  pc \in Pausing =>
    /\ errors = {} /\ ~i2c.start /\ ~EventPending /\ (pc = "setup" => sem = 0)
    /\ bus.phase \notin Asking
    /\ bus.phase = "tx" \/ ~bus.read => Drained
    /\ build = "interrupt" => Empty /\ bus.phase # "rx"

\* The messages to come are what the caller asked for.
Messages == ReadsStart =>
  /\ \A n \in 1 .. Len(msgs) : ~msgs[n].write => msgs[n].len > 0 /\ msgs[n].restart
  /\ pc \in Working /\ ~cur.write => cur.full > 0

\* A message is on the bus, and nothing has gone wrong with it.
Sane == pc \in Working /\ errors = {} /\ ~Failed(cur)

\* Where its bytes are.
Accounted ==
  /\ moved + cur.len + (IF cur.write /\ ~bus.read THEN Held ELSE 0) = cur.full
  /\ i2c.start \/ bus.phase \in Asking => cur.len = cur.full /\ sem = 0 /\ pc \notin {"check", "end"}
  /\ pc \in {"check", "end"} => cur.len = 0 /\ moved = cur.full
  /\ ~bus.read /\ bus.phase # "tx" => Drained
  /\ ~cur.write /\ bus.phase = "tx" => Drained /\ (build = "interrupt" => ~bus.btf)
  /\ cur.write /\ bus.read => bus.phase \notin Asking /\ (build = "interrupt" => Empty /\ bus.phase # "rx")
  /\ sem > 0 => /\ cur.len = 0
                /\ bus.phase = "tx" /\ bus.sh = 1 => bus.dr = 0 /\ irq.data /\ irq.all

\* How far it has been addressed.
Routed ==
  /\ i2c.start => /\ bus.phase \notin Asking
                  /\ bus.phase = "tx" => Drained
                  /\ build = "interrupt" => Empty /\ bus.phase # "rx"
                  /\ build = "polling" => pc = "pSb"
  /\ build = "interrupt" => /\ i2c.start \/ bus.phase = "sb" => ~cur.restart
                            /\ tenBit /\ bus.phase \in Asking => ~bus.read
  /\ pc = "pSb" => i2c.start \/ bus.phase = "sb"
  /\ pc = "pHeader" => bus.phase \in {"head", "header"} /\ tenBit /\ ~cur.restart
  /\ pc = "pAddr" => /\ bus.phase \in {"address", "addr"}
                     /\ bus.read = (~cur.write /\ (tenBit => cur.restart))
  /\ pc \in {"pAck", "pData"} => bus.phase \notin Asking

Core  == Sane => Accounted
Route == Sane => Routed

\* A message with an error flagged or recorded has lost the bus.
Broken ==
  /\ pc \in Working /\ ~Sane /\ (build = "polling" => pc \notin {"check", "end"}) =>
       /\ ~i2c.start /\ bus.phase \in {"nacked", "free"}
       /\ bus.phase = "nacked" => Empty
  /\ build = "polling" /\ pc = "end" /\ ~Failed(cur) => errors = {}

\* The acknowledgement of a read that is being addressed.
Readied ==
  /\ i2c.ack /\ ~i2c.stop
  /\ i2c.pos = "current" \/ (cur.full = 2 /\ build = "interrupt")
  /\ bus.phase = "addr" => bus.pend
Called == Sane /\ ~cur.write /\ (i2c.start \/ bus.phase \in Asking) => Readied

\* A read under way, and the acknowledgement its next byte will get.
Reading ==
  /\ cur.full > 0
  /\ clocked = cur.full - cur.len + Held
  /\ cur.len = 1 => cur.full = 1 \/ bus.phase # "rx"
  /\ bus.phase # "rx" => cur.len = Held
  /\ bus.phase = "rx" =>
       /\ cur.len > Held /\ sem = 0
       /\ i2c.stop => cur.len = 1
       /\ cur.len > 2 => i2c.ack /\ i2c.pos = "current"
       /\ cur.len < 3 => ~i2c.ack
       /\ cur.len = 1 => i2c.pos = "current"
       /\ cur.len = 2 /\ cur.full = 2 => i2c.pos = "next" /\ bus.pend = (Held = 0)
       /\ cur.len = 2 /\ cur.full > 2 => i2c.pos = "current" /\ Held = 1

\* A read that does not begin with a START, and a read of nothing.
Unstarted == cur.len = cur.full /\ Held = 0 /\ bus.phase # "rx" /\ sem = 0 /\ pc # "end"
Nothing ==
  /\ cur.full = 0 /\ Held < 2 /\ (bus.phase = "rx" => Held = 0 /\ i2c.stop)
  /\ sem > 0 \/ pc = "end" => bus.dr = 1 /\ irq.data /\ irq.all

\* Any read that has been addressed, until its error or its end.
Fetched ==
  Reading \/ (~ReadsStart /\ (Unstarted \/ Nothing))
Receives ==
  /\ build = "interrupt" \/ (ReadsStart /\ "preempt" \notin Hazards /\ pc \in {"pData", "check", "end"})
  /\ Sane /\ ~cur.write /\ bus.read /\ ~i2c.start /\ bus.phase \notin Asking
Recv == Receives => Fetched

\* The polling build between the address and its choice of the ack.
Unacked ==
  /\ bus.phase = "rx" /\ Held = 0 /\ cur.len = cur.full /\ clocked = 0
  /\ i2c.ack /\ i2c.pos = "current" /\ ~i2c.stop /\ bus.pend /\ ~cur.write /\ ~i2c.start
PreAck == ReadsStart /\ "preempt" \notin Hazards /\ Sane /\ pc = "pAck" => Unacked

\* A read with an error is clocked for no more than was asked.
Lost ==
  ReadsStart /\ "preempt" \notin Hazards /\ pc \in Working /\ ~Sane /\ ~cur.write /\ bus.read /\ ~i2c.start =>
     clocked <= cur.full /\ (bus.phase = "rx" => i2c.stop /\ clocked < cur.full)

\* The inductive invariant.
IInv ==
  /\ Kinds /\ Frame /\ Wire /\ Resting /\ Messages
  /\ Core /\ Route /\ Broken /\ Called /\ Recv /\ PreAck /\ Lost

LEMMA EventFrame ==
  ASSUME Event
  PROVE  Threadless /\ UNCHANGED <<errors, clocked, owed>> /\ EventPending
BY DEF Event, HandleSb, HandleHeader, HandleAddr, HandleTxe, HandleRxne, HandleBtf, Isr,
       config, caller, Threadless

LEMMA HardwareFrame ==
  ASSUME Hardware
  PROVE  Threadless /\ UNCHANGED <<cur, sem, irq>>
BY DEF Hardware, BusStart, Data, BusStop, ShiftIn, ShiftOut, AddressSent, Fault, Bus, Threadless,
       config, caller

\* The steps of the polling build.
Polls == PollSb \/ PollHeader \/ PollAddr \/ PollAck \/ PollTx \/ PollRx \/ PollDone \/ PollFails
         \/ CheckErrors

LEMMA PollFrame ==
  ASSUME Polls
  PROVE  /\ UNCHANGED <<build, tenBit, msgs, result, sem, irq, owed, clocked>>
         /\ pc \in {"pSb", "pHeader", "pAddr", "pAck", "pData", "check"}
         /\ pc' \in {"pSb", "pHeader", "pAddr", "pAck", "pData", "check", "end"}
BY DEF Polls, PollSb, PollHeader, PollAddr, PollAck, PollTx, PollRx, PollDone, PollFails, CheckErrors,
       Poll, config

\* The steps of the data handlers.
TxeStep   == /\ cur.write /\ (TDC \/ TDBE) /\ bus.phase # "addr" /\ (TxeSends \/ TxeEnds)
             /\ UNCHANGED moved
RxneStep  == /\ ~cur.write /\ (TDC \/ RDBF) /\ (bus.phase = "addr" => RDBF)
             /\ TDC => cur.len \notin {2, 3}
             /\ RxneLast \/ RxneWaits \/ RxneLeaves \/ RxneReads \/ RxneEnds
LastStep  == TDC /\ bus.phase # "addr" /\ BtfLast
ThirdStep == TDC /\ bus.phase # "addr" /\ BtfThird

LEMMA EventSteps ==
  ASSUME Kinds, Event
  PROVE  \/ HandleSb \/ HandleHeader \/ HandleAddr
         \/ TxeStep \/ RxneStep \/ LastStep \/ ThirdStep
<1>1. CASE HandleTxe
  BY <1>1, TxeEffect DEF HandleTxe, TxeStep, TDBE
<1>2. CASE HandleRxne
  BY <1>2, RxneEffect DEF HandleRxne, RxneStep
<1>3. CASE HandleBtf
  <2>1. TDC /\ bus.phase # "addr"
    BY <1>3 DEF HandleBtf
  <2>. QED
    BY <1>3, <2>1, BtfEffect DEF TxeStep, RxneStep, LastStep, ThirdStep
<1>. QED
  BY <1>1, <1>2, <1>3 DEF Event

LEMMA Builders == Kinds => build \in {"interrupt", "polling"}
BY BuildAssumption DEF Kinds

LEMMA FrameNext ==
  ASSUME Kinds, Frame, Hazards \subseteq {"fast", "preempt"}, Next
  PROVE  Frame'
<1> USE DEF Frame, Working
<1>1. ASSUME NEW ms \in Transfers, Call(ms) PROVE Frame'
  BY <1>1 DEF Call, config, hist
<1>2. ASSUME NEW ten \in BOOLEAN, Configure(ten) PROVE Frame'
  BY <1>2, Off DEF Configure, caller
<1>3. CASE SemReset
  BY <1>3 DEF SemReset, config, hist
<1>4. CASE Setup
  <2>1. pc = "setup" /\ i2c'.en
    BY <1>4, SetupEffect
  <2>. QED
    BY <1>4, <2>1 DEF Setup, config
<1>5. CASE Enable
  BY <1>5, Builders DEF Enable, config, hist
<1>6. CASE Take
  BY <1>6 DEF Take, config, hist
<1>7. CASE TimedOut
  BY <1>7 DEF TimedOut, config, hist
<1>8. CASE Reset
  BY <1>8, Off DEF Reset, config
<1>9. CASE EndMsg
  <2>1. pc = "end" /\ UNCHANGED <<build, sem, errors>>
    BY <1>9 DEF EndMsg, config
  <2>2. \/ irq' = IrqOff /\ pc' \in {"reset", "idle"}
        \/ irq' = irq /\ pc' = "init" /\ i2c' = i2c
    BY <1>9, EndEffect DEF EndsFailed, EndsNext, EndsLast, Finish
  <2>. QED
    BY <2>1, <2>2, Off
<1>10. CASE Polls
  <2>1. errors' \subseteq errors /\ i2c'.en = i2c.en
    <3>1. CASE PollSb
      BY <3>1 DEF PollSb
    <3>2. CASE PollHeader
      BY <3>2 DEF PollHeader
    <3>3. CASE PollAddr
      BY <3>3, PollAddrEffect DEF PollAddr, Starting
    <3>4. CASE PollAck
      BY <3>4, PollAckEffect DEF PollAck, Positioned
    <3>5. CASE PollTx
      BY <3>5 DEF PollTx
    <3>6. CASE PollRx
      <4>0. cur.len > 0 /\ cur.len \in Nat
        BY <3>6, PollRxEffect DEF Kinds, Currents
      <4>1. cur.len \in {1, 2} \/ cur.len = 3 \/ cur.len > 3
        BY <4>0
      <4>. QED
        BY <3>6, <4>1, PollRxEffect DEF PollRx, Stopping, Positioned
    <3>7. CASE PollDone
      BY <3>7, PollDoneEffect DEF PollDone
    <3>8. CASE PollFails
      BY <3>8, PollFailsEffect DEF Positioned
    <3>9. CASE CheckErrors
      BY <3>9, CheckEffect DEF CheckErrors
    <3>. QED
      BY <1>10, <3>1, <3>2, <3>3, <3>4, <3>5, <3>6, <3>7, <3>8, <3>9 DEF Polls
  <2>. QED
    BY <1>10, <2>1, PollFrame
<1>11. CASE Event
  <2>1. Threadless /\ UNCHANGED errors /\ irq.all
    BY <1>11, EventFrame DEF EventPending
  <2>2. irq'.all = irq.all /\ i2c'.en = i2c.en
    <3>1. CASE HandleSb
      BY <3>1, SbEffect DEF HandleSb, Positioned, Kinds
    <3>2. CASE HandleHeader
      BY <3>2 DEF HandleHeader
    <3>3. CASE HandleAddr
      BY <3>3, AddrEffect DEF HandleAddr, Starting, Positioned
    <3>4. CASE TxeStep
      BY <3>4 DEF TxeStep, TxeSends, TxeEnds, Stopping
    <3>5. CASE RxneStep
      BY <3>5 DEF RxneStep, RxneLast, RxneWaits, RxneLeaves, RxneReads, RxneEnds, DataOff, Stopping
    <3>6. CASE LastStep \/ ThirdStep
      BY <3>6 DEF LastStep, ThirdStep, BtfLast, BtfThird, Stopping
    <3>. QED
      BY <1>11, <3>1, <3>2, <3>3, <3>4, <3>5, <3>6, EventSteps
  <2>. QED
    BY <2>1, <2>2 DEF Threadless
<1>12. CASE HandleError
  <2>1. irq.all /\ errors' \subseteq errors /\ i2c'.en = i2c.en
    BY <1>12, ErrorEffect DEF ErrorPending
  <2>2. UNCHANGED <<build, pc, irq>>
    BY <1>12 DEF HandleError, config, caller
  <2>. QED
    BY <2>1, <2>2
<1>13. CASE Hardware
  <2>1. i2c'.en = i2c.en
    <3>1. i2c' = StopDone(i2c) => i2c'.en = i2c.en
      BY StopDoneEffect
    <3>. QED
      BY <1>13, <3>1, BusStartEffect, ShiftInEffect
      DEF Hardware, Data, BusStop, AddressSent, ShiftOut, ShiftIn, Fault
  <2>2. errors' \subseteq errors \cup {"ackfail", "arlost", "buserr"}
    <3>1. ASSUME NEW e \in {"arlost", "buserr", "ouf"}, Fault(e)
          PROVE  errors' \subseteq errors \cup {"ackfail", "arlost", "buserr"}
      BY <3>1, FaultEffect
    <3>2. ASSUME NEW acked \in BOOLEAN, AddressSent(acked) \/ ShiftOut(acked)
          PROVE  errors' \subseteq errors \cup {"ackfail", "arlost", "buserr"}
      BY <3>2 DEF AddressSent, ShiftOut
    <3>3. CASE BusStart \/ BusStop \/ ShiftIn
      BY <3>3 DEF BusStart, BusStop, ShiftIn
    <3>. QED
      BY <1>13, <3>1, <3>2, <3>3 DEF Hardware, Data
  <2>. QED
    BY <1>13, <2>1, <2>2, HardwareFrame DEF Threadless
<1>. QED
  BY <1>1, <1>2, <1>3, <1>4, <1>5, <1>6, <1>7, <1>8, <1>9, <1>10, <1>11, <1>12, <1>13
  DEF Next, Thread, Polls
LEMMA WireNext ==
  ASSUME Kinds, Wire, Next
  PROVE  Wire'
<1>0. bus \in Lines /\ bus.dr \in {0, 1} /\ bus.sh \in {0, 1}
  BY DEF Kinds, Lines
<1>1. CASE UNCHANGED <<bus, clocked>>
  BY <1>1 DEF Wire, Empty, Drained, Asking
<1>2. CASE bus' = FreeBus
  BY <1>2, Free DEF Wire, Empty, Drained, Asking
<1>3. CASE \/ \E ms \in Transfers : Call(ms)
           \/ SemReset \/ Enable \/ Take \/ TimedOut \/ HandleError
  BY <1>1, <1>3 DEF Call, SemReset, Enable, Take, TimedOut, HandleError, hist
<1>4. CASE Setup
  BY <1>4 DEF Setup, Wire, Empty, Drained, Asking
<1>5. CASE (\E ten \in BOOLEAN : Configure(ten)) \/ Reset
  BY <1>2, <1>5 DEF Configure, Reset
<1>6. CASE EndMsg
  <2>1. (bus' = bus \/ bus' = FreeBus) /\ clocked' = clocked
    BY <1>6, EndEffect DEF EndMsg, EndsFailed, EndsNext, EndsLast, Finish
  <2>. QED
    BY <1>1, <1>2, <2>1
<1>7. CASE PollAck \/ PollDone \/ PollFails \/ CheckErrors
  BY <1>1, <1>7 DEF PollAck, PollDone, PollFails, CheckErrors, Poll
<1>8. CASE HandleSb \/ HandleHeader \/ HandleAddr \/ PollSb \/ PollHeader \/ PollAddr
  <2>1. clocked' = clocked
    BY <1>8 DEF HandleSb, HandleHeader, HandleAddr, Isr, PollSb, PollHeader, PollAddr
  <2>2. LineData /\ bus' \in Lines /\ bus.phase \in Asking
    BY <1>8, SbEffect, HeaderEffect, AddrEffect, PollSbEffect, PollAddrEffect
    DEF Asking
  <2>3. CASE HandleSb
    <3>1. tenBit \in BOOLEAN /\ cur.restart \in BOOLEAN
      BY DEF Kinds, Currents
    <3>. QED
      BY <1>0, <2>1, <2>2, <2>3, <3>1, SbEffect DEF Wire, Empty, Drained, Asking, LineData
  <2>4. CASE HandleHeader \/ PollHeader
    BY <1>0, <2>1, <2>2, <2>4, HeaderEffect DEF Wire, Empty, Drained, Asking, LineData
  <2>5. CASE HandleAddr \/ PollAddr
    <3>1. bus'.read = bus.read /\ bus'.phase = IF bus.read THEN "rx" ELSE "tx"
      BY <2>5, AddrEffect, PollAddrEffect
    <3>. QED
      BY <1>0, <2>1, <2>2, <3>1 DEF Wire, Empty, Drained, Asking, LineData
  <2>6. CASE PollSb
    <3>1. tenBit \in BOOLEAN /\ cur.restart \in BOOLEAN /\ cur.write \in BOOLEAN
      BY DEF Kinds, Currents
    <3>. QED
      BY <1>0, <2>1, <2>2, <2>6, <3>1, PollSbEffect DEF Wire, Empty, Drained, Asking, LineData
  <2>. QED
    BY <1>8, <2>3, <2>4, <2>5, <2>6
\* A byte is taken out of the data register: nothing, or what was waiting behind it.
<1>9. ASSUME LineKept, clocked' = clocked, bus.phase \notin Asking,
             bus'.btf = FALSE, bus'.sh = 0, bus'.dr = bus.sh \/ bus'.dr = 0,
             bus.phase = "tx" => Drained
      PROVE  Wire'
  BY <1>0, <1>9 DEF Wire, Empty, Drained, Asking, LineKept
<1>10. CASE Event
  <2>1. clocked' = clocked
    BY <1>10, EventFrame
  <2>2. TDC \/ RDBF => bus.phase \notin Asking /\ (bus.phase = "tx" => Drained)
    BY <1>0 DEF TDC, RDBF, Wire, Asking, Empty, Drained
  <2>3. CASE TxeStep
    <3>1. bus.phase \notin Asking
      BY <2>2, <2>3 DEF TxeStep, TDBE, Asking
    <3>2. CASE TxeSends
      <4>1. CASE bus.phase = "tx"
        BY <1>0, <2>1, <3>2, <4>1 DEF TxeSends, LineKept, Wire, Empty, Drained, Asking
      <4>2. CASE bus.phase # "tx"
        BY <1>1, <2>1, <3>2, <4>2 DEF TxeSends
      <4>. QED
        BY <4>1, <4>2
    <3>3. CASE TxeEnds
      BY <1>1, <1>9, <2>1, <2>2, <3>1, <3>3 DEF TxeEnds, Taken
    <3>. QED
      BY <2>3, <3>2, <3>3 DEF TxeStep
  <2>4. CASE RxneStep
    <3>1. bus.phase \notin Asking /\ (bus.phase = "tx" => Drained)
      BY <2>2, <2>4 DEF RxneStep
    <3>2. Taken \/ bus' = bus
      BY <2>4 DEF RxneStep, RxneLast, RxneWaits, RxneLeaves, RxneReads, RxneEnds
    <3>. QED
      BY <1>1, <1>9, <2>1, <3>1, <3>2 DEF Taken
  <2>5. CASE LastStep \/ ThirdStep
    <3>1. bus.phase \notin Asking /\ (bus.phase = "tx" => Drained)
      BY <2>2, <2>5 DEF LastStep, ThirdStep
    <3>2. LineKept /\ bus'.btf = FALSE /\ bus'.sh = 0 /\ (bus'.dr = bus.sh \/ bus'.dr = 0)
      BY <2>5 DEF LastStep, ThirdStep, BtfLast, BtfThird, Taken
    <3>. QED
      BY <1>9, <2>1, <3>1, <3>2
  <2>. QED
    BY <1>8, <1>10, <2>3, <2>4, <2>5, EventSteps
<1>11. CASE PollTx
  <2>1. clocked' = clocked
    BY <1>11 DEF PollTx
  <2>2. bus.phase = "tx" /\ bus.dr = 0
    BY <1>11, PollTxEffect DEF TDBE
  <2>. QED
    BY <1>0, <1>11, <2>1, <2>2, PollTxEffect DEF LineKept, Wire, Empty, Drained, Asking
<1>12. CASE PollRx
  <2>1. clocked' = clocked
    BY <1>12 DEF PollRx
  <2>2. RDBF
    BY <1>12, PollRxEffect
  <2>3. bus.phase \notin Asking /\ bus.phase # "tx"
    BY <1>0, <2>2 DEF RDBF, Wire, Empty, Drained
  <2>4. LineKept /\ bus'.btf = FALSE /\ bus'.sh = 0 /\ (bus'.dr = bus.sh \/ bus'.dr = 0)
    BY <1>12, PollRxEffect DEF Taken
  <2>. QED
    BY <1>9, <2>1, <2>3, <2>4
<1>13. CASE Hardware
  <2>1. CASE BusStart
    <3>1. clocked' = 0
      BY <2>1 DEF BusStart
    <3>. QED
      BY <2>1, <3>1, BusStartEffect DEF Wire, Empty, Drained, Asking
  <2>2. ASSUME bus' = Released(bus), clocked' = clocked
        PROVE  Wire'
    <3>1. CASE i2c.en
      <4>1. /\ bus'.phase = "free" /\ bus'.btf = FALSE /\ bus'.read = bus.read /\ bus'.sh = bus.sh
            /\ bus'.dr = IF bus.read THEN bus.dr ELSE 0
        BY <1>0, <2>2, <3>1, Left
      <4>. QED
        BY <1>0, <4>1 DEF Wire, Asking
    <3>2. CASE ~i2c.en
      BY <1>0, <1>2, <2>2, <3>2, Left
    <3>. QED
      BY <3>1, <3>2
  <2>3. CASE BusStop
    BY <2>2, <2>3 DEF BusStop
  <2>4. ASSUME NEW acked \in BOOLEAN, AddressSent(acked)
        PROVE  Wire'
    <3>1. clocked' = clocked
      BY <2>4 DEF AddressSent, hist
    <3>2. /\ bus.phase \in {"head", "address"} /\ LineData /\ bus'.read = bus.read
          /\ bus'.phase \in {"header", "addr", "nacked"}
          /\ bus'.phase = "header" => bus.phase = "head"
      BY <2>4, AddressEffect
    <3>. QED
      BY <1>0, <3>1, <3>2 DEF Wire, Empty, Drained, Asking, LineData
  <2>5. ASSUME NEW acked \in BOOLEAN, ShiftOut(acked)
        PROVE  Wire'
    <3>1. clocked' = clocked
      BY <2>5 DEF ShiftOut
    <3>2. CASE acked
      BY <1>0, <2>5, <3>1, <3>2, ShiftOutEffect DEF Wire, Empty, Drained, Asking
    <3>3. CASE ~acked
      BY <1>0, <2>5, <3>1, <3>3, ShiftOutEffect DEF Wire, Empty, Drained, Asking
    <3>. QED
      BY <3>2, <3>3
  <2>6. CASE ShiftIn
    <3>1. bus.phase = "rx" /\ bus.read /\ ~bus.btf
      BY <2>6, ShiftInEffect DEF Wire
    <3>2. CASE i2c.stop
      <4>1. CASE i2c.en
        BY <1>0, <2>6, <3>1, <3>2, <4>1, ShiftInEffect DEF Wire, Empty, Drained, Asking
      <4>2. CASE ~i2c.en
        BY <1>2, <2>6, <3>2, <4>2, ShiftInEffect
      <4>. QED
        BY <4>1, <4>2
    <3>3. CASE ~i2c.stop
      <4>1. bus'.phase \in {"rx", "nacked"}
        BY <2>6, <3>3, ShiftInEffect
      <4>. QED
        BY <1>0, <2>6, <3>1, <3>3, <4>1, ShiftInEffect DEF Wire, Empty, Drained, Asking
    <3>. QED
      BY <3>2, <3>3
  <2>7. ASSUME NEW e \in {"arlost", "buserr", "ouf"}, Fault(e)
        PROVE  Wire'
    <3>1. clocked' = clocked
      BY <2>7 DEF Fault
    <3>2. bus' = bus \/ bus' = Released(bus)
      BY <2>7 DEF Fault
    <3>. QED
      BY <1>1, <2>2, <3>1, <3>2
  <2>. QED
    BY <1>13, <2>1, <2>3, <2>4, <2>5, <2>6, <2>7 DEF Hardware, Data
<1>. QED
  BY <1>3, <1>4, <1>5, <1>6, <1>7, <1>8, <1>10, <1>11, <1>12, <1>13 DEF Next, Thread
LEMMA Values ==
  ASSUME Kinds
  PROVE  /\ cur.len \in Nat /\ cur.full \in Nat /\ cur.len <= cur.full /\ sem \in Nat
         /\ moved \in Nat /\ clocked \in Nat
         /\ bus.dr \in {0, 1} /\ bus.sh \in {0, 1} /\ bus.phase \in Phases
         /\ {cur.write, cur.stop, cur.restart, bus.read, bus.btf, bus.pend} \subseteq BOOLEAN
         /\ {i2c.ack, i2c.start, i2c.stop, i2c.en, irq.all, irq.data, tenBit} \subseteq BOOLEAN
BY DEF Kinds, Currents, Lines, Controls, Enables, SemBound

\* A message that is to be ended well has nothing left on the bus.
LEMMA EndsClean ==
  ASSUME IInv, pc = "end", ~IrqPending, ~Failed(cur)
  PROVE  /\ Sane /\ errors = {} /\ ~i2c.start /\ bus.phase \notin Asking
         /\ cur.len = 0 /\ moved = cur.full /\ ~EventPending
         /\ bus.phase = "tx" \/ ~bus.read => Drained
         /\ build = "interrupt" => Empty /\ bus.phase # "rx"
<1>0. /\ cur.len \in Nat /\ cur.full \in Nat /\ moved \in Nat /\ bus.dr \in {0, 1} /\ bus.sh \in {0, 1}
      /\ build \in {"interrupt", "polling"}
  BY Values, Builders DEF IInv
<1>1. errors = {}
  <2>1. CASE build = "interrupt"
    BY <2>1 DEF IInv, Frame, IrqPending, ErrorPending
  <2>2. CASE build = "polling"
    BY <2>2 DEF IInv, Broken
  <2>. QED
    BY <1>0, <2>1, <2>2
<1>2. Sane
  BY <1>1 DEF Sane, Working
<1>3. ~EventPending /\ (build = "interrupt" => irq.all)
  BY DEF IInv, Frame, IrqPending
<1>4. /\ ~i2c.start /\ bus.phase \notin Asking /\ cur.len = 0 /\ moved = cur.full
      /\ moved + cur.len + (IF cur.write /\ ~bus.read THEN Held ELSE 0) = cur.full
      /\ ~bus.read /\ bus.phase # "tx" => Drained
      /\ ~cur.write /\ bus.phase = "tx" => Drained /\ (build = "interrupt" => ~bus.btf)
      /\ cur.write /\ bus.read => (build = "interrupt" => Empty /\ bus.phase # "rx")
  BY <1>2 DEF IInv, Core, Accounted
<1>5. cur.write /\ ~bus.read => Drained
  BY <1>0, <1>4 DEF Held, Drained
<1>6. bus.phase = "tx" \/ ~bus.read => Drained
  BY <1>4, <1>5 DEF IInv, Wire
<1>7. ASSUME build = "interrupt" PROVE Empty /\ bus.phase # "rx"
  <2>1. CASE ~bus.read
    <3>1. ~bus.btf
      BY <1>3, <1>7, <2>1 DEF EventPending, TDC
    <3>. QED
      BY <1>6, <2>1, <3>1 DEF IInv, Wire, Empty
  <2>2. CASE bus.read /\ cur.write
    BY <1>4, <1>7, <2>2
  <2>3. CASE bus.read /\ ~cur.write
    <3>1. Reading \/ Unstarted \/ Nothing
      BY <1>2, <1>4, <1>7, <2>3 DEF IInv, Recv, Receives, Fetched
    <3>2. ~Unstarted
      BY DEF Unstarted
    <3>3. ~bus.btf
      BY <2>3 DEF IInv, Wire
    <3>4. CASE Reading
      <4>1. bus.phase # "rx" /\ Held = 0
        BY <1>0, <1>4, <3>4 DEF Reading, Held
      <4>. QED
        BY <1>0, <3>3, <4>1 DEF Held, Empty, Drained
    <3>5. CASE Nothing
      BY <1>3, <1>7, <2>3, <3>5 DEF Nothing, EventPending, RDBF
    <3>. QED
      BY <3>1, <3>2, <3>4, <3>5
  <2>. QED
    BY <2>1, <2>2, <2>3
<1>. QED
  BY <1>1, <1>2, <1>3, <1>4, <1>6, <1>7

\* What is checked between two messages of the lines that may move them.
AtRest ==
  /\ errors = {} /\ ~i2c.start /\ ~EventPending
  /\ bus.phase \notin Asking
  /\ bus.phase = "tx" \/ ~bus.read => Drained
  /\ build = "interrupt" => Empty /\ bus.phase # "rx"

LEMMA FreeRests ==
  ASSUME bus' = FreeBus, errors' = {}, i2c'.start = FALSE, irq'.all = FALSE
  PROVE  AtRest'
BY Free DEF AtRest, EventPending, Asking, Empty, Drained

LEMMA KeptRests ==
  ASSUME AtRest, UNCHANGED <<bus, irq, build, errors>>, i2c'.start = i2c.start
  PROVE  AtRest'
BY DEF AtRest, EventPending, TDC, TDBE, RDBF, Asking, Empty, Drained

LEMMA BusRests ==
  ASSUME IInv, AtRest, pc \in Pausing, Hardware, Hazards \subseteq {"fast", "preempt"}
  PROVE  AtRest'
<1>0. /\ bus \in Lines /\ bus.dr \in {0, 1} /\ bus.sh \in {0, 1} /\ i2c.en \in BOOLEAN
      /\ build \in {"interrupt", "polling"} /\ Kinds
  BY Values, Builders DEF IInv, Kinds
<1>1. build' = build /\ irq' = irq
  BY HardwareFrame DEF Threadless
<1>2. build = "polling" => ~irq.all
  BY DEF IInv, Frame
\* What is left of the bus when it is released.
<1>3. ASSUME errors' = errors, i2c'.start = FALSE, bus' \in Lines, bus'.phase \in {"free", "rx", "nacked"},
             bus'.btf = FALSE, ~bus'.read => bus'.dr = 0 /\ bus'.sh = 0,
             build = "interrupt" => bus'.phase # "rx" /\ bus'.dr = 0 /\ bus'.sh = 0
      PROVE  AtRest'
  <2>1. errors' = {} /\ bus'.phase \notin Asking /\ bus'.phase # "tx"
    BY <1>3 DEF AtRest, Asking
  <2>2. ~EventPending'
    <3>1. CASE build = "polling"
      BY <1>1, <1>2, <3>1 DEF EventPending
    <3>2. CASE build = "interrupt"
      <4>1. ~TDC' /\ ~TDBE' /\ ~RDBF'
        BY <1>3, <2>1, <3>2 DEF TDC, TDBE, RDBF
      <4>. QED
        BY <1>3, <3>2, <4>1 DEF EventPending
    <3>. QED
      BY <1>0, <3>1, <3>2
  <2>. QED
    BY <1>1, <1>3, <2>1, <2>2 DEF AtRest, Empty, Drained
<1>4. CASE BusStart
  BY <1>4 DEF BusStart, AtRest
<1>5. CASE BusStop
  <2>1. bus' = Released(bus) /\ i2c' = StopDone(i2c) /\ errors' = errors
    BY <1>5 DEF BusStop
  <2>2. i2c'.start = FALSE
    BY <1>0, <2>1, StopDoneEffect DEF AtRest
  <2>3. CASE i2c.en
    <3>1. /\ bus' \in Lines /\ bus'.phase = "free" /\ bus'.btf = FALSE
          /\ bus'.read = bus.read /\ bus'.sh = bus.sh /\ bus'.dr = IF bus.read THEN bus.dr ELSE 0
      BY <1>0, <2>1, <2>3, Left
    <3>2. ~bus.read => bus.dr = 0 /\ bus.sh = 0
      BY DEF AtRest, Drained
    <3>3. build = "interrupt" => bus.dr = 0 /\ bus.sh = 0
      BY DEF AtRest, Empty, Drained
    <3>. QED
      BY <1>3, <2>1, <2>2, <3>1, <3>2, <3>3
  <2>4. CASE ~i2c.en
    BY <1>0, <1>3, <2>1, <2>2, <2>4, Left, Free
  <2>. QED
    BY <1>0, <2>3, <2>4
<1>6. ASSUME NEW acked \in BOOLEAN, AddressSent(acked) \/ ShiftOut(acked)
      PROVE  AtRest'
  BY <1>6 DEF AddressSent, ShiftOut, AtRest, Asking, Drained
<1>7. CASE ShiftIn
  <2>1. bus.phase = "rx" /\ bus.read /\ ~bus.btf
    BY <1>0, <1>7, ShiftInEffect DEF IInv, Wire
  <2>2. build = "polling" /\ errors' = errors
    BY <1>0, <1>7, <2>1 DEF AtRest, ShiftIn
  <2>3. i2c'.start = FALSE
    <3>0. i2c.start = FALSE
      BY <1>0 DEF AtRest, Kinds, Controls
    <3>1. i2c' = i2c \/ i2c' = StopDone(i2c)
      BY <1>0, <1>7, ShiftInEffect
    <3>2. i2c' = StopDone(i2c) => i2c'.start = FALSE
      BY <1>0, <3>0, StopDoneEffect
    <3>. QED
      BY <3>0, <3>1, <3>2
  <2>4. CASE i2c.stop /\ i2c.en
    BY <1>0, <1>3, <1>7, <2>1, <2>2, <2>3, <2>4, ShiftInEffect
  <2>5. CASE i2c.stop /\ ~i2c.en
    BY <1>0, <1>3, <1>7, <2>1, <2>2, <2>3, <2>5, ShiftInEffect, Free
  <2>6. CASE ~i2c.stop
    <3>1. /\ bus' \in Lines /\ bus'.phase \in {"rx", "nacked"} /\ bus'.read = bus.read
          /\ bus'.btf = bus.btf
      BY <1>0, <1>7, <2>6, ShiftInEffect
    <3>2. bus'.btf = FALSE /\ bus'.read
      BY <2>1, <3>1 DEF Lines
    <3>3. build # "interrupt"
      BY <2>2
    <3>. QED
      BY <1>3, <2>2, <2>3, <3>1, <3>2, <3>3
  <2>. QED
    BY <1>0, <2>4, <2>5, <2>6
<1>8. ASSUME NEW e \in {"arlost", "buserr", "ouf"}, Fault(e)
      PROVE  AtRest'
  <2>1. "between" \in Hazards
    BY <1>0, <1>8, FaultEffect DEF Pausing
  <2>. QED
    BY <2>1
<1>. QED
  BY <1>4, <1>5, <1>6, <1>7, <1>8 DEF Hardware, Data

LEMMA RestingNext ==
  ASSUME IInv, Next, Hazards \subseteq {"fast", "preempt"}
  PROVE  Resting'
<1>0. /\ Kinds /\ build \in {"interrupt", "polling"}
      /\ Resting <=> (pc \in Pausing => AtRest /\ (pc = "setup" => sem = 0))
  BY Builders DEF IInv, Resting, AtRest
<1>1. SUFFICES ASSUME pc' \in Pausing
               PROVE  AtRest' /\ (pc' = "setup" => sem' = 0)
  BY DEF Resting, AtRest
<1>2. CASE pc \in Pausing
  <2>1. AtRest /\ ~IrqPending /\ (pc = "setup" => sem = 0)
    BY <1>0, <1>2 DEF IInv, AtRest, IrqPending, ErrorPending
  <2>2. ASSUME NEW ms \in Transfers, Call(ms)
        PROVE  AtRest' /\ (pc' = "setup" => sem' = 0)
    BY <2>1, <2>2, KeptRests DEF Call, config
  <2>3. ASSUME NEW ten \in BOOLEAN, Configure(ten)
        PROVE  AtRest' /\ (pc' = "setup" => sem' = 0)
    <3>1. pc' = "idle" /\ bus' = FreeBus /\ errors' = {} /\ i2c'.start = FALSE /\ irq'.all = FALSE
      BY <2>3, Off DEF Configure, IdleI2c, caller
    <3>. QED
      BY <3>1, FreeRests
  <2>4. CASE SemReset
    BY <2>1, <2>4, KeptRests DEF SemReset, config
  <2>5. CASE Hardware
    <3>1. pc' = pc /\ sem' = sem
      BY <2>5, HardwareFrame DEF Threadless
    <3>. QED
      BY <1>2, <2>1, <2>5, <3>1, BusRests
  <2>6. CASE Event \/ HandleError
    BY <2>1, <2>6, EventFrame DEF HandleError, IrqPending
  <2>7. CASE Setup
    BY <1>1, <2>7 DEF Setup, Pausing
  <2>8. pc \notin {"enable", "wait", "end", "reset", "pSb", "pHeader", "pAddr", "pAck", "pData", "check"}
    BY <1>2 DEF Pausing
  <2>. QED
    BY <2>2, <2>3, <2>4, <2>5, <2>6, <2>7, <2>8, PollFrame
    DEF Next, Thread, Polls, Enable, Take, TimedOut, Reset, EndMsg
<1>3. CASE pc \notin Pausing
  <2>1. CASE Reset
    <3>1. pc' = "idle" /\ bus' = FreeBus /\ errors' = {} /\ i2c'.start = FALSE /\ irq'.all = FALSE
      BY <1>0, <2>1, Off DEF Reset, Kinds, Controls
    <3>. QED
      BY <3>1, FreeRests
  <2>2. CASE EndMsg
    <3>0. pc = "end" /\ ~IrqPending /\ UNCHANGED <<build, sem, errors>>
      BY <2>2 DEF EndMsg, config
    <3>1. CASE EndsFailed
      <4>1. build = "interrupt" /\ pc' = "idle" /\ Finish /\ Failed(cur)
        BY <1>0, <1>1, <3>1 DEF EndsFailed, Pausing
      <4>2. errors = {}
        BY <3>0, <4>1 DEF IInv, Frame, IrqPending, ErrorPending
      <4>3. ~i2c.start /\ bus.phase \in {"nacked", "free"} /\ (bus.phase = "nacked" => Empty)
        BY <3>0, <4>1 DEF IInv, Broken, Sane, Working
      <4>4. i2c'.start = FALSE /\ irq'.all = FALSE
        BY <1>0, <4>1, <4>3, FinishEffect, Off
      <4>5. CASE bus.phase = "free"
        BY <1>0, <3>0, <4>1, <4>2, <4>4, <4>5, FinishEffect, FreeRests
      <4>6. CASE bus.phase = "nacked"
        <5>1. bus' = bus
          BY <1>0, <4>1, <4>6, FinishEffect
        <5>. QED
          BY <3>0, <4>1, <4>2, <4>3, <4>4, <4>6, <5>1
          DEF AtRest, EventPending, Asking, Empty, Drained
      <4>. QED
        BY <4>3, <4>5, <4>6
    <3>2. CASE EndsNext \/ EndsLast
      <4>1. AtRest /\ pc' # "setup"
        BY <3>0, <3>2, EndsClean DEF AtRest, EndsNext, EndsLast
      <4>2. CASE EndsNext
        BY <3>0, <4>1, <4>2, KeptRests DEF EndsNext
      <4>3. CASE EndsLast
        <5>1. Finish /\ i2c'.start = FALSE /\ irq'.all = FALSE
          BY <1>0, <4>1, <4>3, FinishEffect, Off DEF EndsLast, AtRest
        <5>2. bus' = FreeBus \/ bus' = bus
          BY <5>1 DEF Finish
        <5>3. CASE bus' = bus
          BY <3>0, <4>1, <5>1, <5>3 DEF AtRest, EventPending, Asking, Empty, Drained
        <5>. QED
          BY <3>0, <4>1, <5>1, <5>2, <5>3, FreeRests DEF AtRest
      <4>. QED
        BY <3>2, <4>2, <4>3
    <3>. QED
      BY <1>0, <2>2, <3>1, <3>2, EndEffect
  <2>3. pc \notin {"idle", "init", "setup"}
    BY <1>3 DEF Pausing
  <2>4. pc' # pc
    BY <1>1, <1>3
  <2>. QED
    BY <1>1, <2>1, <2>2, <2>3, <2>4, EventFrame, HardwareFrame, PollFrame
    DEF Next, Thread, Polls, Pausing, Call, Configure, caller, SemReset, Setup, Enable, Take, TimedOut,
        HandleError, Threadless
<1>. QED
  BY <1>2, <1>3

\* The thread's steps around a message, and those that leave its place alone.
LEMMA SameMessage ==
  ASSUME Kinds, Next, ~Setup
  PROVE  cur'.full = cur.full /\ cur'.write = cur.write /\ cur'.stop = cur.stop
<1>1. CASE UNCHANGED cur
  BY <1>1
<1>2. CASE (\E ms \in Transfers : Call(ms)) \/ (\E ten \in BOOLEAN : Configure(ten))
           \/ SemReset \/ Enable \/ Take \/ TimedOut \/ Reset
  BY <1>2 DEF Call, Configure, SemReset, Enable, Take, TimedOut, Reset
<1>3. CASE EndMsg
  BY <1>3, EndEffect DEF EndsFailed, EndsNext, EndsLast, Blamed
<1>4. CASE PollSb \/ PollHeader \/ PollAck \/ PollDone
  BY <1>4 DEF PollSb, PollHeader, PollAck, PollDone
<1>5. CASE PollAddr \/ PollTx
  BY <1>5, PollAddrEffect, PollTxEffect DEF Restarts, Less
<1>6. CASE PollRx
  <2>1. Less(1) \/ Less(2)
    BY <1>6, PollRxEffect
  <2>. QED
    BY <2>1 DEF Less
<1>7. CASE PollFails \/ CheckErrors \/ HandleError
  BY <1>7, PollFailsEffect, CheckEffect, ErrorEffect DEF Blamed
<1>8. CASE HandleSb \/ HandleHeader \/ HandleAddr
  <2>1. tenBit \in BOOLEAN
    BY DEF Kinds
  <2>. QED
    BY <1>8, <2>1, SbEffect, AddrEffect DEF HandleHeader, Restarts
<1>9. CASE TxeStep \/ RxneStep \/ LastStep \/ ThirdStep
  BY <1>9 DEF TxeStep, RxneStep, LastStep, ThirdStep, TxeSends, TxeEnds, RxneLast, RxneWaits,
              RxneLeaves, RxneReads, RxneEnds, BtfLast, BtfThird, Less
<1>10. CASE Hardware
  BY <1>10, HardwareFrame
<1>. QED
  BY <1>1, <1>2, <1>3, <1>4, <1>5, <1>6, <1>7, <1>8, <1>9, <1>10, EventSteps DEF Next, Thread

LEMMA MessagesNext ==
  ASSUME IInv, Next
  PROVE  Messages'
<1>0. /\ Kinds /\ cur.full \in Nat
      /\ Messages <=> (ReadsStart =>
           /\ \A n \in 1 .. Len(msgs) : ~msgs[n].write => msgs[n].len > 0 /\ msgs[n].restart
           /\ pc \in Working /\ ~cur.write => cur.full > 0)
  BY Values DEF IInv, Messages
<1>1. SUFFICES ASSUME ReadsStart
               PROVE  /\ \A n \in 1 .. Len(msgs') : ~msgs'[n].write => msgs'[n].len > 0 /\ msgs'[n].restart
                      /\ pc' \in Working /\ ~cur'.write => cur'.full > 0
  BY DEF Messages, ReadsStart
<1>2. /\ \A n \in 1 .. Len(msgs) : ~msgs[n].write => msgs[n].len > 0 /\ msgs[n].restart
      /\ pc \in Working /\ ~cur.write => cur.full > 0
  BY <1>0, <1>1 DEF IInv
<1>3. ASSUME NEW ms \in Transfers, Call(ms)
      PROVE  /\ \A n \in 1 .. Len(msgs') : ~msgs'[n].write => msgs'[n].len > 0 /\ msgs'[n].restart
             /\ pc' \in Working /\ ~cur'.write => cur'.full > 0
  <2>1. msgs' = [ms EXCEPT ![1].restart = TRUE] /\ pc' = "init"
    BY <1>3 DEF Call
  <2>2. /\ Len(msgs') = Len(ms) /\ ms \in Seq(Message)
        /\ \A n \in 1 .. Len(msgs') : /\ msgs'[n].len = ms[n].len /\ msgs'[n].write = ms[n].write
                                      /\ msgs'[n].restart = (n = 1 \/ ms[n].restart)
    <3>1. PICK q : q = [ms EXCEPT ![1].restart = TRUE]
      OBVIOUS
    <3>2. Len(q) = Len(ms) /\ ms \in Seq(Message) /\ OnlyRestarted(q, ms)
      BY <3>1, FirstRestart
    <3>. QED
      BY <2>1, <3>1, <3>2 DEF OnlyRestarted
  <2>3. \A n \in 1 .. Len(ms) : ~ms[n].write => ms[n].len > 0 /\ (n > 1 => ms[n].restart)
    BY <1>1, <1>3 DEF ReadsStart
  <2>4. \A n \in 1 .. Len(ms) : n > 1 \/ n = 1
    BY <2>2
  <2>. QED
    BY <2>1, <2>2, <2>3, <2>4 DEF Working
<1>4. CASE Setup
  <2>0. msgs \in Seq(Message) /\ msgs # <<>>
    BY <1>0, <1>4 DEF Kinds, Setup
  <2>1. PICK m : m = Head(msgs)
    OBVIOUS
  <2>2. msgs' = msgs /\ cur'.full = m.len /\ cur'.write = m.write
    BY <1>0, <1>4, <2>1, SetupEffect DEF Setup
  <2>3. m = msgs[1] /\ Len(msgs) \in Nat /\ Len(msgs) >= 1
    BY <2>0, <2>1, TailOf
  <2>. QED
    BY <1>2, <2>2, <2>3
<1>5. CASE EndMsg
  <2>0. msgs \in Seq(Message) /\ msgs # <<>>
    BY <1>0, <1>5 DEF Kinds, EndMsg
  <2>1. pc' \in {"init", "idle", "reset"} /\ (msgs' = <<>> \/ msgs' = Tail(msgs))
    BY <1>0, <1>5, EndEffect DEF EndsFailed, EndsNext, EndsLast
  <2>2. Len(<<>>) = 0
    OBVIOUS
  <2>3. \A n \in 1 .. Len(Tail(msgs)) : n + 1 \in 1 .. Len(msgs) /\ Tail(msgs)[n] = msgs[n + 1]
    BY <2>0, TailOf
  <2>4. pc' \notin Working
    BY <2>1 DEF Working
  <2>5. CASE msgs' = <<>>
    BY <2>2, <2>4, <2>5
  <2>6. CASE msgs' = Tail(msgs)
    <3>1. ASSUME NEW n \in 1 .. Len(Tail(msgs)), ~Tail(msgs)[n].write
          PROVE  Tail(msgs)[n].len > 0 /\ Tail(msgs)[n].restart
      BY <1>2, <2>3, <3>1
    <3>. QED
      BY <2>4, <2>6, <3>1
  <2>. QED
    BY <2>1, <2>5, <2>6
<1>6. CASE Reset
  <2>1. Len(<<>>) = 0 /\ msgs' = <<>> /\ pc' = "idle"
    BY <1>6 DEF Reset
  <2>. QED
    BY <2>1 DEF Working
<1>7. CASE ~Setup /\ ~EndMsg /\ ~Reset /\ ~\E ms \in Transfers : Call(ms)
  <2>1. cur'.full = cur.full /\ cur'.write = cur.write
    BY <1>0, <1>7, SameMessage
  <2>2. msgs' = msgs /\ (pc' \in Working => pc \in Working)
    BY <1>7, PollFrame, EventFrame, HardwareFrame
    DEF Next, Thread, Polls, Configure, caller, SemReset, Enable, Take, TimedOut, HandleError,
        Threadless, Working
  <2>. QED
    BY <1>2, <2>1, <2>2
<1>. QED
  BY <1>3, <1>4, <1>5, <1>6, <1>7

\* Nothing that has gone wrong with a message is put right again.
LEMMA SaneBack ==
  ASSUME IInv, Next, ~Setup, Sane'
  PROVE  /\ Sane
         /\ \/ Enable \/ Take \/ Polls \/ Event
            \/ BusStart \/ BusStop \/ (\E acked \in BOOLEAN : AddressSent(acked) \/ ShiftOut(acked)) \/ ShiftIn
<1>0. Kinds /\ errors \subseteq {"ackfail", "arlost", "buserr"} /\ cur \in Currents
  BY DEF IInv, Frame, Kinds
<1>1. errors' = {} /\ ~Failed(cur') /\ pc' \in Working
  BY DEF Sane
<1>2. CASE Enable \/ Take
  BY <1>1, <1>2 DEF Enable, Take, Sane, Working
<1>3. CASE Polls
  <2>1. pc \in Working
    BY <1>3, PollFrame DEF Working
  <2>2. CASE PollFails \/ CheckErrors
    BY <1>0, <1>1, <1>3, <2>1, <2>2, PollFailsEffect, CheckEffect DEF Sane
  <2>3. CASE PollSb \/ PollHeader \/ PollAck \/ PollDone
    BY <1>1, <1>3, <2>1, <2>3 DEF Sane, PollSb, PollHeader, PollAck, PollDone
  <2>4. CASE PollAddr \/ PollTx \/ PollRx
    <3>1. errors' = errors
      BY <2>4 DEF PollAddr, PollTx, PollRx
    <3>2. Restarts(tenBit /\ ~cur.write /\ ~cur.restart) \/ Less(1) \/ Less(2)
      BY <1>0, <2>4, PollAddrEffect, PollTxEffect, PollRxEffect
    <3>3. NoFault
      BY <3>2 DEF Restarts, Less, NoFault
    <3>. QED
      BY <1>1, <1>3, <2>1, <3>1, <3>3 DEF Sane, NoFault, Failed
  <2>. QED
    BY <1>3, <2>2, <2>3, <2>4 DEF Polls
<1>4. CASE Event
  <2>1. errors' = errors /\ pc' = pc
    BY <1>4, EventFrame DEF Threadless
  <2>2. NoFault
    <3>1. CASE HandleSb \/ HandleHeader \/ HandleAddr
      <4>1. tenBit \in BOOLEAN
        BY <1>0 DEF Kinds
      <4>. QED
        BY <1>0, <3>1, <4>1, SbEffect, AddrEffect DEF HandleHeader, Restarts, NoFault
    <3>2. CASE TxeStep \/ RxneStep \/ LastStep \/ ThirdStep
      BY <3>2 DEF TxeStep, RxneStep, LastStep, ThirdStep, TxeSends, TxeEnds, RxneLast, RxneWaits,
                  RxneLeaves, RxneReads, RxneEnds, BtfLast, BtfThird, Less, NoFault
    <3>. QED
      BY <1>0, <1>4, <3>1, <3>2, EventSteps
  <2>. QED
    BY <1>1, <1>4, <2>1, <2>2 DEF Sane, NoFault, Failed
<1>5. CASE HandleError
  BY <1>0, <1>1, <1>5, ErrorEffect
<1>6. CASE Hardware
  <2>1. pc' = pc /\ cur' = cur
    BY <1>6, HardwareFrame DEF Threadless
  <2>2. ASSUME NEW e \in {"arlost", "buserr", "ouf"}, Fault(e)
        PROVE  FALSE
    <3>1. errors' # {}
      BY <2>2 DEF Fault
    <3>. QED
      BY <1>1, <3>1
  <2>3. errors \subseteq errors'
    BY <1>6, <2>2 DEF Hardware, Data, BusStart, BusStop, AddressSent, ShiftOut, ShiftIn
  <2>. QED
    BY <1>1, <1>6, <2>1, <2>2, <2>3 DEF Hardware, Data, Sane
<1>7. CASE (\E ms \in Transfers : Call(ms)) \/ (\E ten \in BOOLEAN : Configure(ten))
           \/ SemReset \/ TimedOut \/ Reset \/ EndMsg
  <2>1. pc' \in {"init", "idle", "setup", "reset"}
    BY <1>0, <1>7, EndEffect
    DEF Call, Configure, caller, SemReset, TimedOut, Reset, EndsFailed, EndsNext, EndsLast
  <2>. QED
    BY <1>1, <2>1 DEF Working
<1>. QED
  BY <1>2, <1>3, <1>4, <1>5, <1>6, <1>7 DEF Next, Thread, Polls

\* What a data handler finds, of a message with which nothing has gone wrong.
Sending   == cur.write /\ bus.phase = "tx" /\ ~bus.read /\ bus.dr = 0 /\ ~i2c.start
Receiving == ~cur.write /\ bus.read /\ bus.dr = 1 /\ ~i2c.start /\ bus.phase \notin Asking

\* The data handler that runs, and where the message then is.
DataStep ==
  \/ Sending /\ TxeSends /\ UNCHANGED moved
  \/ Sending /\ TxeEnds /\ UNCHANGED moved /\ (bus.sh = 1 => irq.data /\ irq.all /\ ~TDC)
  \/ Receiving /\ Reading /\ RxneLast /\ bus.phase # "rx" /\ bus.sh = 0
  \/ Receiving /\ RxneWaits
  \/ Receiving /\ Reading /\ RxneLeaves
  \/ Receiving /\ Reading /\ RxneReads /\ bus.phase = "rx"
  \/ Receiving /\ Nothing /\ RxneEnds /\ bus.phase # "rx" /\ irq.data /\ irq.all
  \/ Receiving /\ Reading /\ BtfLast /\ bus.phase # "rx" /\ bus.sh = 1
  \/ Receiving /\ Reading /\ BtfThird /\ bus.phase = "rx" /\ bus.sh = 1

LEMMA DataCases ==
  ASSUME IInv, Sane, Event, Hazards \subseteq {"fast", "preempt"}
  PROVE  /\ build = "interrupt"
         /\ HandleSb \/ HandleHeader \/ HandleAddr \/ DataStep
<1>0. /\ Kinds /\ Wire /\ cur.len \in Nat /\ cur.full \in Nat /\ cur.len <= cur.full
      /\ bus.dr \in {0, 1} /\ bus.sh \in {0, 1}
      /\ {cur.write, bus.read, bus.btf, i2c.start, irq.all, irq.data} \subseteq BOOLEAN
  BY Values DEF IInv
<1>1. EventPending /\ irq.all /\ build = "interrupt"
  <2>1. EventPending /\ irq.all
    BY EventFrame DEF EventPending
  <2>. QED
    BY <2>1, Builders DEF IInv, Frame
<1>2. TDC \/ RDBF => bus.phase \notin Asking /\ ~i2c.start
  <2>1. TDC \/ RDBF => ~Empty
    BY <1>0 DEF TDC, RDBF, Empty, Drained
  <2>2. bus.phase \in Asking => Empty
    BY <1>0 DEF Wire
  <2>3. i2c.start => Empty
    BY <1>1 DEF IInv, Route, Routed
  <2>. QED
    BY <2>1, <2>2, <2>3
<1>3. CASE TxeStep
  <2>1. cur.write /\ (TDC \/ TDBE)
    BY <1>3 DEF TxeStep
  <2>2. ~bus.read /\ bus.phase = "tx" /\ bus.dr = 0
    <3>1. CASE TDBE
      BY <1>0, <3>1 DEF TDBE, Wire
    <3>2. CASE TDC
      <4>1. ~bus.read
        <5>1. ASSUME bus.read PROVE FALSE
          <6>1. Empty
            BY <1>1, <2>1, <5>1 DEF IInv, Core, Accounted
          <6>. QED
            BY <3>2, <5>1, <6>1 DEF TDC, Empty, Drained
        <5>. QED
          BY <5>1
      <4>. QED
        BY <1>0, <3>2, <4>1 DEF TDC, Wire, Drained
    <3>. QED
      BY <2>1, <3>1, <3>2
  <2>3. ~i2c.start
    <3>1. TDBE => ~i2c.start
      BY DEF TDBE
    <3>. QED
      BY <1>2, <2>1, <3>1
  <2>4. bus.sh = 1 => irq.data /\ irq.all /\ ~TDC
    <3>1. bus.sh = 1 => ~TDC /\ ~RDBF /\ bus.phase \notin {"sb", "header", "addr"}
      BY <1>0, <2>2 DEF TDC, RDBF, Wire, Drained
    <3>. QED
      BY <1>1, <3>1 DEF EventPending
  <2>. QED
    BY <1>1, <1>3, <2>1, <2>2, <2>3, <2>4 DEF TxeStep, DataStep, Sending
\* The read handlers find a byte.
<1>4. ASSUME ~cur.write, TDC \/ RDBF
      PROVE  Receiving /\ (Reading \/ Nothing) /\ (TDC => bus.sh = 1)
  <2>1. bus.phase \notin Asking /\ ~i2c.start
    BY <1>2, <1>4
  <2>2. bus.read
    <3>1. ASSUME ~bus.read PROVE FALSE
      <4>1. bus.btf
        BY <1>4, <3>1 DEF TDC, RDBF
      <4>2. bus.phase = "tx"
        BY <1>0, <4>1 DEF Wire
      <4>. QED
        BY <1>1, <1>4, <4>1, <4>2 DEF IInv, Core, Accounted
    <3>. QED
      BY <3>1
  <2>3. bus.dr = 1 /\ (TDC => bus.sh = 1)
    BY <1>4, <2>2 DEF TDC, RDBF
  <2>4. Reading \/ Unstarted \/ Nothing
    BY <1>1, <1>4, <2>1, <2>2 DEF IInv, Recv, Receives, Fetched
  <2>5. ~Unstarted
    BY <1>0, <2>3 DEF Unstarted, Held
  <2>. QED
    BY <1>4, <2>1, <2>2, <2>3, <2>4, <2>5 DEF Receiving
<1>5. Nothing => cur.len = 0 /\ (bus.dr = 1 => bus.phase # "rx" /\ bus.sh = 0)
  BY <1>0 DEF Nothing, Held
<1>6. CASE RxneStep
  <2>1. Receiving /\ (Reading \/ Nothing)
    BY <1>4, <1>6 DEF RxneStep
  <2>2. CASE Reading
    <3>1. bus.dr = 1
      BY <2>1 DEF Receiving
    <3>2. cur.len = 1 => bus.phase # "rx" /\ bus.sh = 0
      BY <1>0, <2>2, <3>1 DEF Reading, Held
    <3>3. cur.len # 0
      BY <1>0, <2>2, <3>1 DEF Reading, Held
    <3>4. cur.len > 3 => bus.phase = "rx"
      BY <1>0, <2>2, <3>1 DEF Reading, Held
    <3>5. RxneLast \/ RxneWaits \/ RxneLeaves \/ RxneReads
      BY <1>6, <3>3 DEF RxneStep, RxneEnds
    <3>. QED
      BY <1>1, <2>1, <2>2, <3>2, <3>4, <3>5 DEF DataStep, RxneLast, RxneReads
  <2>3. CASE Nothing
    <3>1. cur.len = 0 /\ bus.phase # "rx" /\ bus.sh = 0
      BY <1>5, <2>1, <2>3 DEF Receiving
    <3>2. RxneWaits \/ RxneEnds
      BY <1>6, <3>1 DEF RxneStep, RxneLast, RxneLeaves, RxneReads
    <3>3. irq.data
      <4>1. ~TDC /\ bus.phase \notin {"sb", "header", "addr"}
        BY <2>1, <3>1 DEF Receiving, TDC, Asking
      <4>. QED
        BY <1>1, <4>1 DEF EventPending
    <3>. QED
      BY <1>1, <2>1, <2>3, <3>1, <3>2, <3>3 DEF DataStep
  <2>. QED
    BY <2>1, <2>2, <2>3
<1>7. CASE LastStep \/ ThirdStep
  <2>1. ~cur.write /\ TDC /\ cur.len \in {2, 3} /\ (cur.len = 2 => BtfLast) /\ (cur.len = 3 => BtfThird)
    BY <1>7 DEF LastStep, ThirdStep, BtfLast, BtfThird
  <2>2. Receiving /\ (Reading \/ Nothing) /\ bus.sh = 1 /\ bus.dr = 1
    BY <1>4, <2>1 DEF Receiving
  <2>3. Reading
    BY <1>5, <2>1, <2>2
  <2>4. (cur.len = 2 => bus.phase # "rx") /\ (cur.len = 3 => bus.phase = "rx")
    BY <1>0, <2>2, <2>3 DEF Reading, Held
  <2>. QED
    BY <1>1, <2>1, <2>2, <2>3, <2>4 DEF DataStep
<1>. QED
  BY <1>0, <1>1, <1>3, <1>6, <1>7, EventSteps

\* A message begins where the last one has left nothing behind.
LEMMA SetupStarts ==
  ASSUME IInv, Setup
  PROVE  Accounted' /\ Routed' /\ Sane' /\ (~cur'.write /\ i2c'.start => i2c'.ack /\ ~i2c'.stop /\ i2c'.pos = "current")
         /\ bus'.phase \notin Asking /\ clocked' = 0 /\ cur'.len = cur'.full
<1>1. PICK m : m = Head(msgs)
  OBVIOUS
<1>2. /\ m \in Message /\ pc = "setup"
      /\ cur' \in Currents /\ cur'.len = m.len /\ cur'.full = m.len /\ cur'.write = m.write
      /\ cur'.restart = FALSE /\ ~Failed(cur')
      /\ i2c'.pos = "current" /\ i2c'.ack = TRUE
      /\ i2c'.start = (i2c.start \/ m.restart) /\ i2c'.stop = (i2c.stop /\ ~m.restart)
  BY <1>1, SetupEffect DEF IInv
<1>3. /\ moved' = 0 /\ clocked' = 0 /\ UNCHANGED <<build, tenBit, sem, irq, bus, errors>>
      /\ pc' = IF build = "interrupt" THEN "enable" ELSE IF m.restart THEN "pSb" ELSE "pData"
  BY <1>1 DEF Setup, config
<1>4. /\ sem = 0 /\ errors = {} /\ ~i2c.start /\ bus.phase \notin Asking
      /\ bus.phase = "tx" \/ ~bus.read => Drained
      /\ build = "interrupt" => Empty /\ bus.phase # "rx"
  BY <1>2 DEF IInv, Resting, Pausing
<1>5. /\ m.len \in Nat /\ m.write \in BOOLEAN /\ m.restart \in BOOLEAN
  BY <1>2 DEF Message
<1>6. i2c'.start = m.restart /\ (i2c'.start => ~i2c'.stop)
  BY <1>2, <1>4, <1>5 DEF IInv, Kinds, Controls
<1>7. build \in {"interrupt", "polling"} /\ bus.dr \in {0, 1} /\ bus.sh \in {0, 1} /\ bus.read \in BOOLEAN
  BY Builders, Values DEF IInv
<1>8. Sane'
  BY <1>2, <1>3, <1>4 DEF Sane, Working
<1>9. Accounted'
  <2>1. (cur.write /\ ~bus.read => Held = 0)'
    BY <1>3, <1>4 DEF Held, Drained
  <2>2. (moved + cur.len + (IF cur.write /\ ~bus.read THEN Held ELSE 0) = cur.full)'
    BY <1>2, <1>3, <1>5, <2>1
  <2>3. pc' \notin {"check", "end"}
    BY <1>3
  <2>. QED
    BY <1>2, <1>3, <1>4, <1>5, <1>7, <2>2, <2>3 DEF Accounted, Asking, Empty, Drained
<1>10. Routed'
  BY <1>2, <1>3, <1>4, <1>5, <1>6, <1>7 DEF Routed, Asking, Empty, Drained
<1>. QED
  BY <1>2, <1>3, <1>4, <1>6, <1>8, <1>9, <1>10 DEF Asking

LEMMA AccountedEvent ==
  ASSUME IInv, Sane, Event, Hazards \subseteq {"fast", "preempt"}
  PROVE  Accounted'
<1>0. /\ Kinds /\ Wire /\ Accounted /\ Routed
      /\ cur.len \in Nat /\ cur.full \in Nat /\ moved \in Nat /\ sem \in Nat
      /\ bus.dr \in {0, 1} /\ bus.sh \in {0, 1}
      /\ {cur.write, cur.restart, bus.read, bus.btf, i2c.start, irq.all, irq.data, tenBit} \subseteq BOOLEAN
  BY Values DEF IInv, Core, Route
<1>1. build = "interrupt" /\ (HandleSb \/ HandleHeader \/ HandleAddr \/ DataStep)
  BY DataCases
<1>2. UNCHANGED <<build, tenBit, pc>> /\ irq.all
  BY EventFrame DEF Threadless, EventPending
\* A byte is taken out of the data register, of a message that is being read.
<1>3. ASSUME NEW k \in Nat, Receiving, LineKept, Less(k), moved' = moved + k, bus'.btf = FALSE,
             i2c'.start = i2c.start, sem' > 0 => cur'.len = 0, pc \in {"check", "end"} => FALSE
      PROVE  Accounted'
  <2>1. ~cur'.write /\ bus'.read /\ bus'.phase = bus.phase /\ bus'.phase # "tx"
    BY <1>0, <1>3 DEF Receiving, LineKept, Less, Wire
  <2>2. (moved + cur.len)' = cur'.full
    BY <1>0, <1>3 DEF Receiving, Less, Accounted
  <2>3. bus'.phase \notin Asking /\ ~i2c'.start
    BY <1>3, <2>1 DEF Receiving
  <2>4. moved' \in Nat /\ cur'.len \in Int
    BY <1>0, <1>3 DEF Less
  <2>5. (moved + cur.len + (IF cur.write /\ ~bus.read THEN Held ELSE 0) = cur.full)'
    <3>1. (IF cur.write /\ ~bus.read THEN Held ELSE 0)' = 0
      BY <2>1
    <3>. QED
      BY <2>2, <2>4, <3>1
  <2>6. pc' \notin {"check", "end"} /\ Asking' = Asking
    BY <1>2, <1>3 DEF Asking
  <2>. QED
    BY <1>3, <2>1, <2>3, <2>5, <2>6 DEF Accounted
<1>4. CASE HandleSb
  <2>1. UNCHANGED <<sem, irq, moved>>
    BY <1>4 DEF HandleSb
  <2>2. /\ bus.phase = "sb" /\ LineData /\ bus'.phase \in {"head", "address"}
        /\ cur'.len = cur.len /\ cur'.full = cur.full /\ cur'.write = cur.write
        /\ bus'.read = (IF tenBit THEN cur.restart ELSE ~cur.write)
    BY <1>0, <1>4, SbEffect DEF Restarts
  <2>3. Empty /\ cur.len = cur.full /\ sem = 0 /\ pc \notin {"check", "end"} /\ ~cur.restart
    BY <1>0, <1>1, <2>2 DEF Wire, Accounted, Routed, Asking
  <2>4. Held = 0 /\ Held' = 0 /\ moved = 0
    BY <1>0, <2>2, <2>3 DEF Empty, Drained, Held, LineData, Accounted
  <2>. QED
    BY <1>0, <1>2, <2>1, <2>2, <2>3, <2>4 DEF Accounted, Asking, Empty, Drained, LineData
<1>5. CASE HandleHeader
  <2>1. UNCHANGED <<cur, sem, irq, i2c, moved>>
    BY <1>5 DEF HandleHeader
  <2>2. /\ bus.phase = "header" /\ LineData /\ bus'.phase = "address" /\ bus'.read = bus.read
    BY <1>0, <1>5, HeaderEffect
  <2>. QED
    BY <1>0, <1>2, <2>1, <2>2 DEF Accounted, Asking, Empty, Drained, LineData, Held
<1>6. CASE HandleAddr
  <2>1. UNCHANGED <<sem, irq, moved>>
    BY <1>6 DEF HandleAddr
  <2>2. /\ bus.phase = "addr" /\ LineData /\ bus'.read = bus.read
        /\ bus'.phase = IF bus.read THEN "rx" ELSE "tx"
        /\ cur'.len = cur.len /\ cur'.full = cur.full /\ cur'.write = cur.write
    BY <1>0, <1>6, AddrEffect DEF Restarts
  <2>3. Empty /\ cur.len = cur.full /\ sem = 0 /\ pc \notin {"check", "end"} /\ (cur.write => ~bus.read)
    BY <1>0, <2>2 DEF Wire, Accounted, Asking
  <2>4. Held = 0 /\ Held' = 0 /\ moved = 0
    BY <1>0, <2>2, <2>3 DEF Empty, Drained, Held, LineData, Accounted
  <2>. QED
    BY <1>0, <1>2, <2>1, <2>2, <2>3, <2>4 DEF Accounted, Asking, Empty, Drained, LineData
<1>7. CASE Sending /\ TxeSends /\ UNCHANGED moved
  <2>1. /\ cur.len > 0 /\ cur'.len = cur.len - 1 /\ cur'.full = cur.full /\ cur'.write = cur.write
        /\ sem' = sem /\ i2c' = i2c
        /\ bus'.phase = "tx" /\ bus'.read = bus.read /\ bus'.sh = 1 /\ bus'.dr = bus.sh
    BY <1>0, <1>7 DEF Sending, TxeSends, Less, LineKept
  <2>2. Held' = Held + 1
    BY <1>0, <1>7, <2>1 DEF Sending, Held
  <2>3. sem = 0 /\ pc \notin {"check", "end"}
    BY <1>0, <2>1 DEF Accounted
  <2>4. (moved + cur.len + (IF cur.write /\ ~bus.read THEN Held ELSE 0) = cur.full)'
    <3>1. moved + cur.len + Held = cur.full
      BY <1>0, <1>7 DEF Accounted, Sending
    <3>2. Held \in Nat
      BY <1>0 DEF Held
    <3>. QED
      BY <1>0, <1>7, <2>1, <2>2, <3>1, <3>2 DEF Sending
  <2>. QED
    BY <1>2, <1>7, <2>1, <2>3, <2>4 DEF Accounted, Asking, Sending
<1>8. CASE Sending /\ TxeEnds /\ UNCHANGED moved /\ (bus.sh = 1 => irq.data /\ irq.all /\ ~TDC)
  <2>1. /\ cur.len = 0 /\ cur' = cur /\ irq' = irq /\ i2c'.start = i2c.start
        /\ bus'.phase = "tx" /\ bus'.read = bus.read
        /\ (~TDC => bus' = bus) /\ (TDC => bus'.dr = bus.sh /\ bus'.sh = 0)
    BY <1>0, <1>8 DEF Sending, TxeEnds, Taken, LineKept, Stopping
  <2>2. TDC => Drained
    BY <1>0, <1>8 DEF Sending, TDC, Wire
  <2>3. bus'.dr = 0 /\ bus'.sh = bus.sh
    BY <1>0, <1>8, <2>1, <2>2 DEF Sending, Drained
  <2>4. Held' = Held
    BY <1>8, <2>3 DEF Sending, Held
  <2>. QED
    BY <1>0, <1>2, <1>8, <2>1, <2>3, <2>4 DEF Accounted, Asking, Sending, Drained
<1>9. CASE Receiving /\ Reading /\ RxneLast /\ bus.phase # "rx" /\ bus.sh = 0
  <2>1. LineKept /\ Less(1) /\ moved' = moved + 1 /\ bus'.btf = FALSE /\ i2c'.start = i2c.start /\ cur.len = 1
    BY <1>9 DEF RxneLast, Taken, Receiving
  <2>2. pc \notin {"check", "end"} /\ cur'.len = 0
    BY <1>0, <2>1 DEF Accounted, Less
  <2>. QED
    BY <1>3, <1>9, <2>1, <2>2
<1>10. CASE Receiving /\ RxneWaits
  <2>1. UNCHANGED <<cur, sem, irq, i2c, bus, moved>>
    BY <1>10 DEF RxneWaits
  <2>. QED
    BY <1>0, <1>2, <2>1 DEF Accounted, Asking, Empty, Drained, Held
<1>11. CASE Receiving /\ Reading /\ RxneLeaves
  <2>1. UNCHANGED <<cur, sem, bus, moved>> /\ i2c'.start = i2c.start /\ cur.len \in {2, 3}
    BY <1>11 DEF RxneLeaves
  <2>2. sem = 0
    BY <1>0, <2>1 DEF Accounted
  <2>. QED
    BY <1>0, <1>2, <2>1, <2>2 DEF Accounted, Asking, Empty, Drained, Held
<1>12. CASE Receiving /\ Reading /\ RxneReads /\ bus.phase = "rx"
  <2>1. /\ LineKept /\ Less(1) /\ moved' = moved + 1 /\ bus'.btf = FALSE /\ i2c'.start = i2c.start
        /\ cur.len > 3 /\ sem' = sem
    BY <1>12 DEF RxneReads, Taken, Receiving
  <2>2. pc \notin {"check", "end"} /\ sem = 0
    BY <1>0, <2>1 DEF Accounted
  <2>3. ~(sem' > 0)
    BY <2>1, <2>2
  <2>. QED
    BY <1>3, <1>12, <2>1, <2>2, <2>3
<1>13. CASE Receiving /\ Nothing /\ RxneEnds /\ bus.phase # "rx" /\ irq.data /\ irq.all
  <2>1. UNCHANGED <<cur, irq, bus, moved>> /\ i2c'.start = i2c.start /\ cur.len = 0
    BY <1>13 DEF RxneEnds, Stopping
  <2>2. bus.phase # "tx" /\ bus.phase \notin Asking /\ ~i2c.start
    BY <1>0, <1>13 DEF Receiving, Wire
  <2>. QED
    BY <1>0, <1>2, <2>1, <2>2 DEF Accounted, Asking, Empty, Drained, Held
<1>14. CASE Receiving /\ Reading /\ BtfLast /\ bus.phase # "rx" /\ bus.sh = 1
  <2>1. LineKept /\ Less(2) /\ moved' = moved + (bus.dr + bus.sh) /\ bus'.btf = FALSE
        /\ i2c'.start = i2c.start /\ cur.len = 2
    BY <1>14 DEF BtfLast, Stopping
  <2>2. pc \notin {"check", "end"} /\ cur'.len = 0 /\ moved' = moved + 2
    BY <1>0, <1>14, <2>1 DEF Accounted, Less, Receiving
  <2>. QED
    BY <1>3, <1>14, <2>1, <2>2
<1>15. CASE Receiving /\ Reading /\ BtfThird /\ bus.phase = "rx" /\ bus.sh = 1
  <2>1. /\ LineKept /\ Less(1) /\ moved' = moved + 1 /\ bus'.btf = FALSE /\ i2c'.start = i2c.start
        /\ cur.len = 3 /\ sem' = sem
    BY <1>15 DEF BtfThird, Taken, Receiving
  <2>2. pc \notin {"check", "end"} /\ sem = 0
    BY <1>0, <2>1 DEF Accounted
  <2>3. ~(sem' > 0)
    BY <2>1, <2>2
  <2>. QED
    BY <1>3, <1>15, <2>1, <2>2, <2>3
<1>. QED
  BY <1>1, <1>4, <1>5, <1>6, <1>7, <1>8, <1>9, <1>10, <1>11, <1>12, <1>13, <1>14, <1>15 DEF DataStep

LEMMA AccountedPoll ==
  ASSUME IInv, Sane, Polls, ~PollFails, Hazards \subseteq {"fast", "preempt"}
  PROVE  Accounted'
<1>0. /\ Kinds /\ Wire /\ Accounted /\ Routed
      /\ cur.len \in Nat /\ cur.full \in Nat /\ moved \in Nat /\ sem \in Nat
      /\ bus.dr \in {0, 1} /\ bus.sh \in {0, 1}
      /\ {cur.write, cur.restart, bus.read, bus.btf, i2c.start, irq.all, irq.data, tenBit} \subseteq BOOLEAN
  BY Values DEF IInv, Core, Route
<1>1. UNCHANGED <<build, tenBit, sem, irq>> /\ build = "polling" /\ sem = 0 /\ Asking' = Asking
  <2>1. UNCHANGED <<build, tenBit, sem, irq>> /\ pc \in {"pSb", "pHeader", "pAddr", "pAck", "pData", "check"}
    BY PollFrame
  <2>. QED
    BY <1>0, <2>1, Builders DEF IInv, Frame, Asking
<1>2. pc \in {"pAck", "pData", "check"} => ~i2c.start /\ bus.phase \notin Asking
  BY <1>0, <1>1 DEF Routed, Accounted
\* The lines of an address, one part after the other.
<1>3. ASSUME bus.phase \in Asking, LineData, cur'.len = cur.len, cur'.full = cur.full,
             cur'.write = cur.write, moved' = moved, pc' \notin {"check", "end"},
             cur.write => ~bus'.read
      PROVE  Accounted'
  <2>1. Empty /\ cur.len = cur.full
    BY <1>0, <1>3 DEF Wire, Accounted
  <2>2. Held = 0 /\ Held' = 0 /\ moved = 0 /\ Empty'
    BY <1>0, <1>3, <2>1 DEF Empty, Drained, Held, LineData, Accounted
  <2>. QED
    BY <1>0, <1>1, <1>3, <2>1, <2>2 DEF Accounted, Empty
<1>4. CASE PollSb
  <2>1. UNCHANGED <<cur, i2c, moved>> /\ pc' \notin {"check", "end"}
    BY <1>4 DEF PollSb, Poll
  <2>2. bus.phase \in Asking /\ LineData /\ (cur.write => ~bus'.read)
    BY <1>0, <1>4, PollSbEffect DEF Asking
  <2>. QED
    BY <1>3, <2>1, <2>2
<1>5. CASE PollHeader
  <2>1. UNCHANGED <<cur, i2c, moved>> /\ pc' \notin {"check", "end"}
    BY <1>5 DEF PollHeader, Poll
  <2>2. bus.phase \in Asking /\ LineData /\ bus'.read = bus.read
    BY <1>0, <1>5, HeaderEffect DEF Asking
  <2>3. cur.write => ~bus.read
    BY <1>0, <2>2 DEF Accounted
  <2>. QED
    BY <1>3, <2>1, <2>2, <2>3
<1>6. CASE PollAddr
  <2>1. moved' = moved /\ pc' \notin {"check", "end"}
    BY <1>6 DEF PollAddr, Poll
  <2>2. /\ bus.phase \in Asking /\ LineData /\ bus'.read = bus.read
        /\ cur'.len = cur.len /\ cur'.full = cur.full /\ cur'.write = cur.write
    BY <1>0, <1>6, PollAddrEffect DEF Asking, Restarts
  <2>3. cur.write => ~bus.read
    BY <1>0, <2>2 DEF Accounted
  <2>. QED
    BY <1>3, <2>1, <2>2, <2>3
<1>7. CASE PollAck
  <2>1. UNCHANGED <<cur, bus, moved>> /\ pc = "pAck" /\ pc' = "pData"
    BY <1>7 DEF PollAck, Poll
  <2>2. ~i2c'.start
    BY <1>0, <1>2, <1>7, <2>1, PollAckEffect DEF Positioned
  <2>. QED
    BY <1>0, <1>1, <1>2, <2>1, <2>2 DEF Accounted, Empty, Drained, Held
<1>8. CASE PollTx
  <2>1. UNCHANGED <<i2c, moved>> /\ pc = "pData" /\ pc' = "pData"
    BY <1>8 DEF PollTx, Poll
  <2>2. /\ cur.write /\ cur.len > 0 /\ bus.phase = "tx" /\ bus.dr = 0 /\ ~bus.read
        /\ cur'.len = cur.len - 1 /\ cur'.full = cur.full /\ cur'.write = cur.write
        /\ bus'.phase = "tx" /\ bus'.read = bus.read /\ bus'.sh = 1 /\ bus'.dr = bus.sh
    BY <1>0, <1>8, PollTxEffect DEF TDBE, Less, LineKept, Wire
  <2>3. Held' = Held + 1 /\ Held \in Nat
    BY <1>0, <2>2 DEF Held
  <2>4. (moved + cur.len + (IF cur.write /\ ~bus.read THEN Held ELSE 0) = cur.full)'
    <3>1. moved + cur.len + Held = cur.full
      BY <1>0, <2>2 DEF Accounted
    <3>. QED
      BY <1>0, <2>1, <2>2, <2>3, <3>1
  <2>. QED
    BY <1>1, <1>2, <2>1, <2>2, <2>4 DEF Accounted, Asking
<1>9. CASE PollRx
  <2>1. pc = "pData" /\ pc' = "pData"
    BY <1>9 DEF PollRx, Poll
  <2>2. ~cur.write /\ cur.len > 0 /\ bus.read /\ bus.dr = 1 /\ (cur.len = 2 => bus.sh = 1)
    BY <1>0, <1>9, PollRxEffect DEF RDBF, TDC
  <2>3. PICK k \in {1, 2} : Less(k) /\ LineKept /\ moved' = moved + k
    <3>1. CASE cur.len = 2
      BY <1>0, <1>9, <2>2, <3>1, PollRxEffect
    <3>2. CASE cur.len # 2
      BY <1>0, <1>9, <2>2, <3>2, PollRxEffect DEF Taken
    <3>. QED
      BY <3>1, <3>2
  <2>4. ~i2c'.start
    <3>1. cur.len \in {1, 2} \/ cur.len = 3 \/ cur.len > 3
      BY <1>0, <2>2
    <3>. QED
      BY <1>0, <1>2, <1>9, <2>1, <3>1, PollRxEffect DEF Stopping, Positioned
  <2>5. ~cur'.write /\ bus'.read /\ bus'.phase = bus.phase /\ bus'.phase # "tx" /\ bus'.phase \notin Asking
    BY <1>0, <1>2, <2>1, <2>2, <2>3 DEF LineKept, Less, Wire
  <2>6. (moved + cur.len + (IF cur.write /\ ~bus.read THEN Held ELSE 0) = cur.full)'
    <3>1. (IF cur.write /\ ~bus.read THEN Held ELSE 0)' = 0
      BY <2>5
    <3>2. moved + cur.len = cur.full
      BY <1>0, <2>2 DEF Accounted
    <3>. QED
      BY <1>0, <2>3, <3>1, <3>2 DEF Less
  <2>. QED
    BY <1>1, <2>1, <2>4, <2>5, <2>6 DEF Accounted
<1>10. CASE PollDone
  <2>1. UNCHANGED <<cur, bus, moved>> /\ pc = "pData" /\ pc' = "check" /\ cur.len = 0 /\ (cur.write => TDC)
    BY <1>10 DEF PollDone, Poll
  <2>2. ~i2c'.start
    BY <1>0, <1>2, <1>10, <2>1, PollDoneEffect
  <2>3. cur.write /\ ~bus.read => Held = 0
    BY <1>0, <2>1 DEF TDC, Wire, Drained, Held
  <2>4. moved = cur.full
    BY <1>0, <2>1, <2>3 DEF Accounted
  <2>. QED
    BY <1>0, <1>1, <1>2, <2>1, <2>2, <2>4 DEF Accounted, Empty, Drained, Held
<1>11. CASE CheckErrors
  <2>1. UNCHANGED <<i2c, bus, moved>> /\ pc = "check" /\ pc' = "end"
    BY <1>11 DEF CheckErrors, Poll
  <2>2. cur'.len = cur.len /\ cur'.full = cur.full /\ cur'.write = cur.write
    BY <1>0, <1>11, CheckEffect DEF Blamed
  <2>. QED
    BY <1>0, <1>1, <1>2, <2>1, <2>2 DEF Accounted, Empty, Drained, Held
<1>. QED
  BY <1>4, <1>5, <1>6, <1>7, <1>8, <1>9, <1>10, <1>11 DEF Polls

LEMMA AccountedBus ==
  ASSUME IInv, Sane, Hazards \subseteq {"fast", "preempt"}, errors' = errors,
         \/ BusStart \/ BusStop \/ ShiftIn
         \/ \E acked \in BOOLEAN : AddressSent(acked) \/ ShiftOut(acked)
  PROVE  Accounted'
<1>0. /\ Kinds /\ Wire /\ Accounted /\ Routed /\ errors = {}
      /\ cur.len \in Nat /\ cur.full \in Nat /\ moved \in Nat /\ sem \in Nat
      /\ bus.dr \in {0, 1} /\ bus.sh \in {0, 1} /\ build \in {"interrupt", "polling"}
      /\ {cur.write, cur.restart, bus.read, bus.btf, i2c.start, irq.all, irq.data, tenBit} \subseteq BOOLEAN
  BY Values, Builders DEF IInv, Core, Route, Sane
<1>1. UNCHANGED <<build, tenBit, pc, cur, sem, irq>> /\ Asking' = Asking /\ i2c.en
  BY HardwareFrame DEF Hardware, Data, Threadless, Asking, IInv, Frame, Sane
<1>2. CASE BusStart
  <2>1. /\ bus'.phase = "sb" /\ bus'.read = FALSE /\ bus'.dr = 0 /\ bus'.sh = 0 /\ bus'.btf = FALSE
        /\ i2c'.start = FALSE /\ moved' = 0 /\ i2c.start
    BY <1>0, <1>2, BusStartEffect DEF BusStart
  <2>2. cur.len = cur.full /\ sem = 0 /\ pc \notin {"check", "end"}
    BY <1>0, <2>1 DEF Accounted
  <2>3. Held' = 0
    BY <2>1 DEF Held
  <2>. QED
    BY <1>0, <1>1, <2>1, <2>2, <2>3 DEF Accounted, Empty, Drained
<1>3. CASE BusStop
  <2>1. /\ bus' = Released(bus) /\ i2c' = StopDone(i2c) /\ moved' = moved
        /\ bus.phase = "nacked" \/ (bus.phase = "tx" /\ bus.sh = 0) \/ bus.phase = "rx"
    BY <1>3 DEF BusStop
  <2>2. ~bus.read => Drained
    BY <1>0, <2>1 DEF Wire, Accounted, Drained
  <2>3. /\ bus'.phase = "free" /\ bus'.read = bus.read /\ bus'.sh = bus.sh /\ bus'.dr = bus.dr
        /\ bus'.btf = FALSE
    <3>1. /\ bus'.phase = "free" /\ bus'.read = bus.read /\ bus'.sh = bus.sh /\ bus'.btf = FALSE
          /\ bus'.dr = IF bus.read THEN bus.dr ELSE 0
      BY <1>0, <1>1, <2>1, Left DEF Kinds
    <3>2. CASE bus.read
      BY <3>1, <3>2
    <3>3. CASE ~bus.read
      BY <2>2, <3>1, <3>3 DEF Drained
    <3>. QED
      BY <3>1, <3>2, <3>3
  <2>4. i2c'.start = i2c.start
    BY <1>0, <1>1, <2>1, StopDoneEffect DEF Kinds, Controls
  <2>. QED
    BY <1>0, <1>1, <2>1, <2>2, <2>3, <2>4 DEF Accounted, Asking, Empty, Drained, Held
<1>4. ASSUME NEW acked \in BOOLEAN, AddressSent(acked)
      PROVE  Accounted'
  <2>1. UNCHANGED <<i2c, moved>>
    BY <1>4 DEF AddressSent, hist
  <2>2. acked
    <3>1. ~acked => errors' # {}
      BY <1>4 DEF AddressSent
    <3>. QED
      BY <1>0, <3>1
  <2>3. bus.phase \in Asking /\ LineData /\ bus'.read = bus.read /\ bus'.phase \in {"header", "addr"}
    BY <1>0, <1>4, <2>2, AddressEffect DEF Asking
  <2>. QED
    BY <1>0, <1>1, <2>1, <2>3 DEF Accounted, Asking, Empty, Drained, Held, LineData
<1>5. ASSUME NEW acked \in BOOLEAN, ShiftOut(acked)
      PROVE  Accounted'
  <2>1. UNCHANGED i2c /\ bus.phase = "tx" /\ bus.sh = 1 /\ ~bus.read
    BY <1>0, <1>5 DEF ShiftOut, Wire
  <2>2. acked
    <3>1. ~acked => errors' # {}
      BY <1>5 DEF ShiftOut
    <3>. QED
      BY <1>0, <3>1
  <2>3. /\ bus'.phase = "tx" /\ bus'.sh = bus.dr /\ bus'.dr = 0 /\ bus'.read = bus.read
        /\ moved' = moved + 1
    BY <1>0, <1>5, <2>2, ShiftOutEffect
  <2>4. cur.write /\ ~i2c.start
    BY <1>0, <2>1 DEF Accounted, Routed, Drained
  <2>5. Held' + 1 = Held /\ Held \in Nat /\ Held' \in Nat
    BY <1>0, <2>1, <2>3 DEF Held
  <2>6. moved + cur.len + Held = cur.full
    BY <1>0, <2>1, <2>4 DEF Accounted
  <2>7. (moved + cur.len + (IF cur.write /\ ~bus.read THEN Held ELSE 0) = cur.full)'
    <3>1. (IF cur.write /\ ~bus.read THEN Held ELSE 0)' = Held'
      BY <1>1, <2>1, <2>3, <2>4
    <3>2. moved' + cur.len + Held' = cur.full
      <4>1. PICK a : a = Held
        OBVIOUS
      <4>2. PICK b : b = Held'
        OBVIOUS
      <4>3. a \in Nat /\ b \in Nat /\ b + 1 = a /\ moved + cur.len + a = cur.full
        BY <2>5, <2>6, <4>1, <4>2
      <4>4. (moved + 1) + cur.len + b = cur.full
        BY <1>0, <4>3
      <4>. QED
        BY <2>3, <4>2, <4>4
    <3>. QED
      BY <1>1, <3>1, <3>2
  <2>8. pc \notin {"check", "end"}
    <3>1. Held # 0
      BY <1>0, <2>1 DEF Held
    <3>. QED
      BY <1>0, <2>5, <2>6, <3>1 DEF Accounted
  <2>9. sem > 0 => cur.len = 0 /\ bus'.sh = 0
    BY <1>0, <2>1, <2>3 DEF Accounted
  <2>. QED
    BY <1>0, <1>1, <2>1, <2>3, <2>4, <2>7, <2>8, <2>9 DEF Accounted, Asking
<1>6. CASE ShiftIn
  <2>1. bus.phase = "rx" /\ bus.read /\ ~bus.btf
    BY <1>0, <1>6, ShiftInEffect DEF Wire
  <2>2. bus'.read /\ bus'.phase \in {"free", "rx", "nacked"}
    BY <1>0, <1>1, <1>6, <2>1, ShiftInEffect
  <2>3. i2c'.start = i2c.start
    <3>1. i2c' = i2c \/ i2c' = StopDone(i2c)
      BY <1>0, <1>6, ShiftInEffect
    <3>2. i2c' = StopDone(i2c) => i2c'.start = i2c.start
      BY <1>0, <1>1, StopDoneEffect DEF Kinds, Controls
    <3>. QED
      BY <3>1, <3>2
  <2>4. moved' = moved
    BY <1>6 DEF ShiftIn
  <2>5. cur.write => build = "polling"
    BY <1>0, <2>1 DEF Accounted
  <2>6. bus'.phase \notin Asking
    BY <2>2 DEF Asking
  <2>. QED
    BY <1>0, <1>1, <2>1, <2>2, <2>3, <2>4, <2>5, <2>6 DEF Accounted
<1>. QED
  BY <1>2, <1>3, <1>4, <1>5, <1>6

LEMMA CoreNext ==
  ASSUME IInv, Next, Hazards \subseteq {"fast", "preempt"}
  PROVE  Core'
<1>1. CASE Setup
  BY <1>1, SetupStarts DEF Core
<1>2. CASE ~Setup
  <2>1. SUFFICES ASSUME Sane' PROVE Accounted'
    BY DEF Core
  <2>2. /\ Sane
        /\ \/ Enable \/ Take \/ Polls \/ Event
           \/ BusStart \/ BusStop \/ (\E acked \in BOOLEAN : AddressSent(acked) \/ ShiftOut(acked)) \/ ShiftIn
    BY <1>2, <2>1, SaneBack
  <2>0. errors' = errors /\ Kinds /\ Accounted /\ Routed /\ sem \in Nat /\ build \in {"interrupt", "polling"}
    BY <2>1, <2>2, Values, Builders DEF Sane, IInv, Core, Route
  <2>3. CASE Enable
    BY <2>0, <2>3 DEF Enable, config, hist, Accounted, Asking, Empty, Drained, Held
  <2>4. CASE Take
    <3>1. UNCHANGED <<cur, irq, i2c, bus, moved, build, tenBit>> /\ sem > 0 /\ sem' = sem - 1 /\ ~IrqPending
          /\ pc = "wait"
      BY <2>4 DEF Take, config, hist
    <3>2. cur.len = 0 /\ ~i2c.start /\ bus.phase \notin Asking
      BY <2>0, <3>1 DEF Accounted
    <3>3. bus.phase = "tx" /\ bus.sh = 1 => FALSE
      <4>1. SUFFICES ASSUME bus.phase = "tx", bus.sh = 1 PROVE FALSE
        OBVIOUS
      <4>2. bus.dr = 0 /\ irq.data /\ irq.all
        BY <2>0, <3>1, <4>1 DEF Accounted
      <4>3. TDBE
        BY <3>2, <4>1, <4>2 DEF TDBE
      <4>. QED
        BY <3>1, <4>2, <4>3 DEF IrqPending, EventPending
    <3>4. cur.write /\ ~bus.read => Held = 0
      <4>0. bus.dr \in {0, 1} /\ bus.sh \in {0, 1}
        BY <2>0, Values
      <4>. QED
        BY <2>0, <3>3, <4>0 DEF Accounted, Drained, Held, IInv, Wire
    <3>5. moved = cur.full
      BY <2>0, <3>2, <3>4, Values DEF Accounted
    <3>. QED
      BY <2>0, <3>1, <3>2, <3>5 DEF Accounted, Asking, Empty, Drained, Held
  <2>5. CASE Polls
    <3>1. ~PollFails
      BY <2>0, <2>1, PollFailsEffect DEF Sane
    <3>. QED
      BY <2>2, <2>5, <3>1, AccountedPoll
  <2>. QED
    BY <2>0, <2>2, <2>3, <2>4, <2>5, AccountedEvent, AccountedBus
<1>. QED
  BY <1>1, <1>2

\* What a data step leaves of the lines of an address.
LEMMA DataKeeps ==
  ASSUME Kinds, Wire, DataStep
  PROVE  /\ ~i2c.start /\ i2c'.start = FALSE /\ bus.phase \notin Asking /\ bus'.phase = bus.phase
         /\ bus'.read = bus.read /\ bus'.pend = bus.pend /\ i2c'.en = i2c.en
         /\ cur'.restart = cur.restart /\ cur'.write = cur.write /\ cur'.full = cur.full
<1>0. i2c.start \in BOOLEAN
  BY Values
<1>1. Sending \/ Receiving
  BY DEF DataStep
<1>2. ~i2c.start /\ bus.phase \notin Asking
  BY <1>1 DEF Sending, Receiving, Asking
<1>3. CASE TxeSends \/ TxeEnds
  BY <1>0, <1>2, <1>3 DEF TxeSends, TxeEnds, Less, LineKept, Stopping
<1>4. CASE RxneLast \/ RxneWaits \/ RxneLeaves \/ RxneReads \/ RxneEnds
  BY <1>0, <1>2, <1>4 DEF RxneLast, RxneWaits, RxneLeaves, RxneReads, RxneEnds, Less, Taken, LineKept, Stopping
<1>5. CASE BtfLast \/ BtfThird
  BY <1>0, <1>2, <1>5 DEF BtfLast, BtfThird, Less, Taken, LineKept, Stopping
<1>. QED
  BY <1>3, <1>4, <1>5 DEF DataStep

LEMMA RoutedEvent ==
  ASSUME IInv, Sane, Event, Hazards \subseteq {"fast", "preempt"}
  PROVE  Routed'
<1>0. /\ Kinds /\ Wire /\ Accounted /\ Routed
      /\ bus.dr \in {0, 1} /\ bus.sh \in {0, 1}
      /\ {cur.write, cur.restart, bus.read, bus.btf, i2c.start, irq.all, irq.data, tenBit} \subseteq BOOLEAN
  BY Values DEF IInv, Core, Route
<1>1. build = "interrupt" /\ (HandleSb \/ HandleHeader \/ HandleAddr \/ DataStep)
  BY DataCases
<1>2. UNCHANGED <<build, tenBit, pc>> /\ Asking' = Asking
  BY EventFrame DEF Threadless, EventPending, Asking
<1>3. pc \notin {"pSb", "pHeader", "pAddr", "pAck", "pData", "check"}
  BY <1>1 DEF IInv, Frame
<1>4. CASE HandleSb
  <2>1. /\ bus.phase = "sb" /\ bus'.phase \in {"head", "address"}
        /\ tenBit => bus'.read = cur.restart
        /\ i2c'.start = i2c.start
    BY <1>0, <1>4, SbEffect DEF Positioned
  <2>2. ~i2c.start /\ ~cur.restart
    BY <1>0, <1>1, <2>1 DEF Routed, Asking
  <2>. QED
    BY <1>0, <1>1, <1>2, <1>3, <2>1, <2>2 DEF Routed
<1>5. CASE HandleHeader
  <2>1. UNCHANGED <<cur, i2c>>
    BY <1>5 DEF HandleHeader
  <2>2. /\ bus.phase = "header" /\ LineData /\ bus'.phase = "address" /\ bus'.read = bus.read
    BY <1>0, <1>5, HeaderEffect
  <2>. QED
    BY <1>0, <1>1, <1>2, <1>3, <2>1, <2>2 DEF Routed, Asking
<1>6. CASE HandleAddr
  <2>1. /\ bus.phase = "addr" /\ LineData /\ bus'.read = bus.read
        /\ bus'.phase = IF bus.read THEN "rx" ELSE "tx"
    BY <1>0, <1>6, AddrEffect
  <2>2. Empty /\ ~i2c.start /\ (tenBit => ~bus.read)
    BY <1>0, <1>1, <2>1 DEF Wire, Routed, Asking
  <2>3. \/ tenBit /\ cur'.restart = FALSE
        \/ i2c'.start = FALSE
    BY <1>0, <1>6, <2>2, AddrEffect DEF Restarts, Positioned
  <2>. QED
    BY <1>0, <1>1, <1>2, <1>3, <2>1, <2>2, <2>3 DEF Routed, Asking, Empty, Drained, LineData
<1>7. CASE DataStep
  BY <1>0, <1>1, <1>2, <1>3, <1>7, DataKeeps DEF Routed, Asking
<1>. QED
  BY <1>1, <1>4, <1>5, <1>6, <1>7

LEMMA RoutedPoll ==
  ASSUME IInv, Sane, Polls, ~PollFails, Hazards \subseteq {"fast", "preempt"}
  PROVE  Routed'
<1>0. /\ Kinds /\ Wire /\ Accounted /\ Routed
      /\ bus.dr \in {0, 1} /\ bus.sh \in {0, 1}
      /\ {cur.write, cur.restart, bus.read, bus.btf, i2c.start, irq.all, irq.data, tenBit} \subseteq BOOLEAN
  BY Values DEF IInv, Core, Route
<1>1. UNCHANGED <<build, tenBit>> /\ build = "polling" /\ Asking' = Asking
  <2>1. UNCHANGED <<build, tenBit>> /\ pc \in {"pSb", "pHeader", "pAddr", "pAck", "pData", "check"}
    BY PollFrame
  <2>. QED
    BY <1>0, <2>1, Builders DEF IInv, Frame, Asking
\* A START is asked for before the first part of an address only.
<1>2. (bus.phase \in Asking \/ pc \in {"pHeader", "pAddr", "pAck", "pData", "check"}) => ~i2c.start
  BY <1>0, <1>1 DEF Routed
<1>3. pc \in {"pAck", "pData", "check"} => bus.phase \notin Asking
  BY <1>0, <1>1 DEF Routed, Accounted
<1>4. CASE PollSb
  <2>1. /\ bus.phase = "sb" /\ bus'.phase = IF tenBit /\ ~cur.restart THEN "head" ELSE "address"
        /\ bus'.read = (~cur.write /\ (tenBit => cur.restart))
    BY <1>0, <1>4, PollSbEffect
  <2>2. UNCHANGED <<cur, i2c>> /\ pc' = IF tenBit /\ ~cur.restart THEN "pHeader" ELSE "pAddr"
    BY <1>4 DEF PollSb, Poll
  <2>3. ~i2c.start
    BY <1>2, <2>1 DEF Asking
  <2>. QED
    BY <1>0, <1>1, <2>1, <2>2, <2>3 DEF Routed
<1>5. CASE PollHeader
  <2>1. UNCHANGED <<cur, i2c>> /\ pc = "pHeader" /\ pc' = "pAddr"
    BY <1>5 DEF PollHeader, Poll
  <2>2. /\ bus.phase = "header" /\ bus'.phase = "address" /\ bus'.read = bus.read
    BY <1>0, <1>5, HeaderEffect
  <2>3. ~bus.read /\ tenBit /\ ~cur.restart
    BY <1>0, <2>1, <2>2 DEF Wire, Routed
  <2>. QED
    BY <1>0, <1>1, <1>2, <2>1, <2>2, <2>3 DEF Routed
<1>6. CASE PollAddr
  <2>1. /\ bus.phase = "addr" /\ LineData /\ bus'.phase = IF bus.read THEN "rx" ELSE "tx"
        /\ \/ pc' = "pSb" /\ i2c'.start = TRUE
           \/ pc' \in {"pData", "pAck"} /\ i2c' = i2c
    BY <1>0, <1>6, PollAddrEffect DEF Starting
  <2>2. Empty /\ ~i2c.start
    BY <1>0, <1>2, <2>1 DEF Wire, Asking
  <2>. QED
    BY <1>0, <1>1, <2>1, <2>2 DEF Routed, Asking, Empty, Drained, LineData
<1>7. CASE PollAck
  <2>1. UNCHANGED <<bus>> /\ pc = "pAck" /\ pc' = "pData" /\ i2c'.start = i2c.start
    BY <1>0, <1>7, PollAckEffect DEF PollAck, Poll, Positioned
  <2>. QED
    BY <1>0, <1>1, <1>2, <1>3, <2>1 DEF Routed
<1>8. CASE PollTx
  <2>1. UNCHANGED <<i2c>> /\ pc = "pData" /\ pc' = "pData" /\ bus'.phase = bus.phase
    BY <1>0, <1>8, PollTxEffect DEF PollTx, Poll, LineKept
  <2>. QED
    BY <1>0, <1>1, <1>2, <1>3, <2>1 DEF Routed
<1>9. CASE PollRx
  <2>1. pc = "pData" /\ pc' = "pData" /\ bus'.phase = bus.phase
    BY <1>0, <1>9, PollRxEffect DEF PollRx, Poll, LineKept, Taken
  <2>2. i2c'.start = i2c.start
    <3>1. cur.len \in {1, 2} \/ cur.len = 3 \/ cur.len > 3
      <4>1. cur.len > 0 /\ cur.len \in Nat
        BY <1>0, <1>9, PollRxEffect, Values
      <4>. QED
        BY <4>1
    <3>. QED
      BY <1>0, <1>9, <3>1, PollRxEffect DEF Stopping, Positioned
  <2>. QED
    BY <1>0, <1>1, <1>2, <1>3, <2>1, <2>2 DEF Routed
<1>10. CASE PollDone
  <2>1. UNCHANGED bus /\ pc = "pData" /\ pc' = "check" /\ i2c'.start = i2c.start
    BY <1>0, <1>10, PollDoneEffect DEF PollDone, Poll
  <2>. QED
    BY <1>0, <1>1, <1>2, <1>3, <2>1 DEF Routed
<1>11. CASE CheckErrors
  <2>1. UNCHANGED <<i2c, bus>> /\ pc = "check" /\ pc' = "end"
    BY <1>11 DEF CheckErrors, Poll
  <2>. QED
    BY <1>0, <1>1, <1>2, <1>3, <2>1 DEF Routed
<1>. QED
  BY <1>4, <1>5, <1>6, <1>7, <1>8, <1>9, <1>10, <1>11 DEF Polls

LEMMA RoutedBus ==
  ASSUME IInv, Sane, Hazards \subseteq {"fast", "preempt"}, errors' = errors,
         \/ BusStart \/ BusStop \/ ShiftIn
         \/ \E acked \in BOOLEAN : AddressSent(acked) \/ ShiftOut(acked)
  PROVE  Routed'
<1>0. /\ Kinds /\ Wire /\ Accounted /\ Routed /\ errors = {}
      /\ bus.dr \in {0, 1} /\ bus.sh \in {0, 1} /\ build \in {"interrupt", "polling"}
      /\ {cur.write, cur.restart, bus.read, bus.btf, i2c.start, irq.all, irq.data, tenBit} \subseteq BOOLEAN
  BY Values, Builders DEF IInv, Core, Route, Sane
<1>1. UNCHANGED <<build, tenBit, pc, cur, sem, irq>> /\ Asking' = Asking /\ i2c.en
      /\ (build = "interrupt" => pc \notin {"pSb", "pHeader", "pAddr", "pAck", "pData", "check"})
  BY HardwareFrame DEF Hardware, Data, Threadless, Asking, IInv, Frame, Sane
<1>2. CASE BusStart
  <2>1. bus'.phase = "sb" /\ bus'.read = FALSE /\ i2c'.start = FALSE /\ i2c.start
    BY <1>0, <1>2, BusStartEffect DEF BusStart
  <2>. QED
    BY <1>0, <1>1, <2>1 DEF Routed
<1>3. CASE BusStop
  <2>1. /\ bus' = Released(bus) /\ i2c' = StopDone(i2c)
        /\ bus.phase = "nacked" \/ (bus.phase = "tx" /\ bus.sh = 0) \/ bus.phase = "rx"
    BY <1>3 DEF BusStop
  <2>2. /\ bus'.phase = "free" /\ bus'.read = bus.read /\ bus'.sh = bus.sh
        /\ bus'.dr = (IF bus.read THEN bus.dr ELSE 0) /\ bus'.btf = FALSE
    BY <1>0, <1>1, <2>1, Left DEF Kinds
  <2>3. i2c'.start = i2c.start
    BY <1>0, <1>1, <2>1, StopDoneEffect DEF Kinds, Controls
  <2>. QED
    BY <1>0, <1>1, <2>1, <2>2, <2>3 DEF Routed, Asking, Empty, Drained
<1>4. ASSUME NEW acked \in BOOLEAN, AddressSent(acked)
      PROVE  Routed'
  <2>1. UNCHANGED i2c
    BY <1>4 DEF AddressSent, hist
  <2>2. acked
    <3>1. ~acked => errors' # {}
      BY <1>4 DEF AddressSent
    <3>. QED
      BY <1>0, <3>1
  <2>3. /\ bus.phase \in {"head", "address"} /\ bus'.read = bus.read
        /\ bus'.phase = (IF bus.phase = "head" THEN "header" ELSE "addr")
    BY <1>0, <1>4, <2>2, AddressEffect
  <2>. QED
    BY <1>0, <1>1, <2>1, <2>3 DEF Routed, Asking
<1>5. ASSUME NEW acked \in BOOLEAN, ShiftOut(acked)
      PROVE  Routed'
  <2>1. UNCHANGED i2c /\ bus.phase = "tx" /\ bus.sh = 1
    BY <1>5 DEF ShiftOut
  <2>2. acked
    <3>1. ~acked => errors' # {}
      BY <1>5 DEF ShiftOut
    <3>. QED
      BY <1>0, <3>1
  <2>3. bus'.phase = "tx" /\ bus'.read = bus.read /\ ~i2c.start
    <3>1. bus'.phase = "tx" /\ bus'.read = bus.read
      BY <1>0, <1>5, <2>2, ShiftOutEffect
    <3>2. ~i2c.start
      BY <1>0, <2>1 DEF Routed, Drained
    <3>. QED
      BY <3>1, <3>2
  <2>. QED
    BY <1>0, <1>1, <2>1, <2>3 DEF Routed, Asking
<1>6. CASE ShiftIn
  <2>1. bus.phase = "rx" /\ (i2c.start => build = "polling" /\ pc = "pSb")
    BY <1>0, <1>6, ShiftInEffect DEF Routed
  <2>2. bus'.phase \in {"free", "rx", "nacked"}
    BY <1>0, <1>6, ShiftInEffect
  <2>3. i2c'.start = i2c.start
    <3>1. i2c' = i2c \/ i2c' = StopDone(i2c)
      BY <1>0, <1>6, ShiftInEffect
    <3>2. i2c' = StopDone(i2c) => i2c'.start = i2c.start
      BY <1>0, <1>1, StopDoneEffect DEF Kinds, Controls
    <3>. QED
      BY <3>1, <3>2
  <2>4. pc \notin {"pHeader", "pAddr"} /\ (pc = "pSb" => i2c.start)
    BY <1>0, <2>1 DEF Routed
  <2>5. bus'.phase \notin Asking
    BY <2>2 DEF Asking
  <2>. QED
    BY <1>0, <1>1, <2>1, <2>2, <2>3, <2>4, <2>5 DEF Routed
<1>. QED
  BY <1>2, <1>3, <1>4, <1>5, <1>6

LEMMA RouteNext ==
  ASSUME IInv, Next, Hazards \subseteq {"fast", "preempt"}
  PROVE  Route'
<1>1. CASE Setup
  BY <1>1, SetupStarts DEF Route
<1>2. CASE ~Setup
  <2>1. SUFFICES ASSUME Sane' PROVE Routed'
    BY DEF Route
  <2>2. /\ Sane
        /\ \/ Enable \/ Take \/ Polls \/ Event
           \/ BusStart \/ BusStop \/ (\E acked \in BOOLEAN : AddressSent(acked) \/ ShiftOut(acked)) \/ ShiftIn
    BY <1>2, <2>1, SaneBack
  <2>0. errors' = errors /\ Kinds /\ Routed /\ build \in {"interrupt", "polling"}
    BY <2>1, <2>2, Builders DEF Sane, IInv, Route
  <2>3. CASE Enable \/ Take
    <3>1. UNCHANGED <<cur, i2c, bus, build, tenBit>> /\ pc \in {"enable", "wait"} /\ pc' \in {"wait", "end"}
      BY <2>3 DEF Enable, Take, config, hist
    <3>2. build # "polling"
      BY <3>1 DEF IInv, Frame
    <3>. QED
      BY <2>0, <3>1, <3>2 DEF Routed, Asking, Empty, Drained
  <2>5. CASE Polls
    <3>1. ~PollFails
      BY <2>0, <2>1, PollFailsEffect DEF Sane
    <3>. QED
      BY <2>2, <2>5, <3>1, RoutedPoll
  <2>. QED
    BY <2>0, <2>2, <2>3, <2>5, RoutedEvent, RoutedBus
<1>. QED
  BY <1>1, <1>2

\* The steps that blame nothing.
LEMMA Blameless ==
  ASSUME Kinds,
         \/ Enable \/ Take \/ Event \/ BusStart \/ BusStop \/ ShiftIn
         \/ Polls /\ ~PollFails /\ ~CheckErrors
  PROVE  errors' = errors /\ NoFault /\ (Sane => Sane')
<1>1. errors' = errors /\ NoFault
  <2>1. CASE Enable \/ Take
    BY <2>1 DEF Enable, Take, NoFault
  <2>2. CASE Event
    <3>0. errors' = errors /\ tenBit \in BOOLEAN
      BY <2>2, EventFrame DEF Kinds
    <3>1. CASE HandleSb \/ HandleHeader \/ HandleAddr
      BY <3>0, <3>1, SbEffect, AddrEffect DEF HandleHeader, Restarts, NoFault
    <3>2. CASE TxeStep \/ RxneStep \/ LastStep \/ ThirdStep
      BY <3>0, <3>2 DEF TxeStep, RxneStep, LastStep, ThirdStep, TxeSends, TxeEnds, RxneLast, RxneWaits,
                  RxneLeaves, RxneReads, RxneEnds, BtfLast, BtfThird, Less, NoFault
    <3>. QED
      BY <2>2, <3>1, <3>2, EventSteps
  <2>3. CASE BusStart \/ BusStop \/ ShiftIn
    BY <2>3, HardwareFrame DEF Hardware, Data, BusStart, BusStop, ShiftIn, NoFault
  <2>4. CASE PollSb \/ PollHeader \/ PollAck \/ PollDone
    BY <2>4 DEF PollSb, PollHeader, PollAck, PollDone, NoFault
  <2>5. CASE PollAddr \/ PollTx \/ PollRx
    <3>1. errors' = errors
      BY <2>5 DEF PollAddr, PollTx, PollRx
    <3>2. Restarts(tenBit /\ ~cur.write /\ ~cur.restart) \/ Less(1) \/ Less(2)
      BY <2>5, PollAddrEffect, PollTxEffect, PollRxEffect
    <3>. QED
      BY <3>1, <3>2 DEF Restarts, Less, NoFault
  <2>. QED
    BY <2>1, <2>2, <2>3, <2>4, <2>5 DEF Polls
<1>2. pc \in Working => pc' \in Working
  <2>1. CASE Enable \/ Take
    BY <2>1 DEF Enable, Take, Working
  <2>2. CASE Event
    BY <2>2, EventFrame DEF Threadless
  <2>3. CASE BusStart \/ BusStop \/ ShiftIn
    BY <2>3, HardwareFrame DEF Hardware, Data, Threadless
  <2>4. CASE Polls
    BY <2>4, PollFrame DEF Working
  <2>. QED
    BY <2>1, <2>2, <2>3, <2>4
<1>. QED
  BY <1>1, <1>2 DEF Sane, NoFault, Failed

LEMMA BrokenNext ==
  ASSUME IInv, Next, Hazards \subseteq {"fast", "preempt"}
  PROVE  Broken'
<1>0. /\ Kinds /\ Wire /\ Broken /\ build \in {"interrupt", "polling"} /\ cur.write \in BOOLEAN
      /\ bus.dr \in {0, 1} /\ bus.sh \in {0, 1} /\ bus.read \in BOOLEAN /\ i2c.start \in BOOLEAN
      /\ bus \in Lines
  BY Values, Builders DEF IInv, Kinds
<1>. USE DEF Sane
<1>1. ASSUME pc' \in Working, ~Sane', build' = "polling" => pc' \notin {"check", "end"}
      PROVE  /\ ~i2c'.start /\ bus'.phase \in {"nacked", "free"}
             /\ bus'.phase = "nacked" => Empty'
  <2>0. ~Setup
    BY <1>1, SetupStarts
  <2>1. build' = build /\ pc \in Working /\ (build = "polling" => pc \notin {"check", "end"})
    <3>1. CASE Enable \/ Take
      BY <1>0, <3>1 DEF Enable, Take, config, Working, IInv, Frame
    <3>2. CASE Polls
      <4>1. build' = build /\ pc \in {"pSb", "pHeader", "pAddr", "pAck", "pData", "check"}
        BY <3>2, PollFrame
      <4>2. build = "polling"
        BY <1>0, <4>1 DEF IInv, Frame
      <4>3. CheckErrors => pc' = "end"
        BY DEF CheckErrors, Poll
      <4>4. ~CheckErrors => pc # "check"
        BY <3>2 DEF Polls, PollSb, PollHeader, PollAddr, PollAck, PollTx, PollRx, PollDone, PollFails, Poll
      <4>. QED
        BY <1>1, <4>1, <4>2, <4>3, <4>4 DEF Working
    <3>3. CASE Event \/ HandleError \/ Hardware
      BY <1>1, <3>3, EventFrame, HardwareFrame DEF Threadless, HandleError, config, caller
    <3>4. CASE (\E ms \in Transfers : Call(ms)) \/ (\E ten \in BOOLEAN : Configure(ten))
               \/ SemReset \/ TimedOut \/ Reset \/ EndMsg
      <4>1. pc' \in {"init", "idle", "setup", "reset"}
        BY <1>0, <3>4, EndEffect
        DEF Call, Configure, caller, SemReset, TimedOut, Reset, EndsFailed, EndsNext, EndsLast
      <4>. QED
        BY <1>1, <4>1 DEF Working
    <3>. QED
      BY <2>0, <3>1, <3>2, <3>3, <3>4 DEF Next, Thread, Polls
  <2>2. CASE ~Sane
    <3>1. /\ ~i2c.start /\ bus.phase \in {"nacked", "free"} /\ (bus.phase = "nacked" => Empty)
      BY <1>0, <2>1, <2>2 DEF Broken
    <3>2. bus.phase # "tx" /\ bus.phase # "rx" /\ bus.phase \notin Asking /\ ~TDBE
      BY <3>1 DEF TDBE, Asking
    <3>3. bus.phase = "nacked" => ~TDC /\ ~RDBF
      BY <3>1 DEF TDC, RDBF, Empty, Drained
    <3>4. CASE Enable \/ Take \/ HandleError
      <4>1. bus' = bus
        BY <3>4 DEF Enable, Take, HandleError
      <4>2. i2c'.start = i2c.start
        BY <1>0, <3>4, ErrorEffect DEF Enable, Take
      <4>. QED
        BY <3>1, <4>1, <4>2 DEF Empty, Drained
    <3>5. CASE Polls
      <4>1. CASE PollAck
        <5>1. bus' = bus /\ i2c'.start = i2c.start
          BY <1>0, <4>1, PollAckEffect DEF PollAck, Positioned
        <5>. QED
          BY <3>1, <5>1 DEF Empty, Drained
      <4>2. CASE PollRx
        <5>1. RDBF /\ bus'.phase = bus.phase
          BY <1>0, <4>2, PollRxEffect DEF LineKept, Taken
        <5>2. i2c'.start = i2c.start
          <6>1. cur.len > 0 /\ cur.len \in Nat
            BY <1>0, <4>2, PollRxEffect, Values
          <6>2. cur.len \in {1, 2} \/ cur.len = 3 \/ cur.len > 3
            BY <6>1
          <6>. QED
            BY <1>0, <4>2, <6>2, PollRxEffect DEF Stopping, Positioned
        <5>. QED
          BY <3>1, <3>3, <5>1, <5>2
      <4>3. CASE PollDone \/ PollFails \/ CheckErrors
        <5>1. pc' \in {"check", "end"} /\ build # "interrupt"
          BY <3>5, <4>3, PollFrame DEF PollDone, PollFails, CheckErrors, Poll, IInv, Frame
        <5>. QED
          BY <1>0, <1>1, <2>1, <5>1
      <4>4. ~PollSb /\ ~PollHeader /\ ~PollAddr /\ ~PollTx
        BY <3>2 DEF PollSb, PollHeader, PollAddr, PollTx, Asking
      <4>. QED
        BY <3>5, <4>1, <4>2, <4>3, <4>4 DEF Polls
    <3>6. CASE Event
      <4>1. ~HandleSb /\ ~HandleHeader /\ ~HandleAddr
        BY <3>2 DEF HandleSb, HandleHeader, HandleAddr, Asking
      <4>2. TDC \/ RDBF \/ TDBE
        BY <3>6, <4>1, EventSteps, <1>0 DEF TxeStep, RxneStep, LastStep, ThirdStep
      <4>3. bus.phase # "nacked"
        BY <3>2, <3>3, <4>2
      <4>4. bus'.phase = bus.phase /\ i2c'.start = i2c.start
        BY <1>0, <3>6, <4>1, EventSteps
        DEF TxeStep, RxneStep, LastStep, ThirdStep, TxeSends, TxeEnds, RxneLast, RxneWaits,
            RxneLeaves, RxneReads, RxneEnds, BtfLast, BtfThird, Taken, LineKept, Stopping
      <4>. QED
        BY <3>1, <4>3, <4>4
    <3>7. CASE BusStop
      <4>1. bus' = Released(bus) /\ i2c' = StopDone(i2c)
        BY <3>7 DEF BusStop
      <4>2. bus'.phase = "free" /\ i2c'.start = FALSE
        BY <1>0, <3>1, <4>1, Left, StopDoneEffect
      <4>. QED
        BY <4>2
    <3>8. ASSUME NEW e \in {"arlost", "buserr", "ouf"}, Fault(e)
          PROVE  ~i2c'.start /\ bus'.phase = "free"
      <4>1. e = "buserr"
        BY <1>0, <3>1, <3>2, <3>8, FaultEffect DEF Asking
      <4>2. bus' = Released(bus) /\ i2c' = StopDone(i2c)
        BY <1>0, <3>8, <4>1, FaultEffect
      <4>. QED
        BY <1>0, <3>1, <4>2, Left, StopDoneEffect
    <3>9. ~BusStart /\ ~ShiftIn /\ \A acked \in BOOLEAN : ~AddressSent(acked) /\ ~ShiftOut(acked)
      BY <3>1, <3>2 DEF BusStart, ShiftIn, AddressSent, ShiftOut, Asking
    <3>10. CASE (\E ms \in Transfers : Call(ms)) \/ (\E ten \in BOOLEAN : Configure(ten))
               \/ SemReset \/ TimedOut \/ Reset \/ EndMsg
      <4>1. pc' \in {"init", "idle", "setup", "reset"}
        BY <1>0, <3>10, EndEffect
        DEF Call, Configure, caller, SemReset, TimedOut, Reset, EndsFailed, EndsNext, EndsLast
      <4>. QED
        BY <1>1, <4>1 DEF Working
    <3>. QED
      BY <2>0, <3>4, <3>5, <3>6, <3>7, <3>8, <3>9, <3>10 DEF Next, Thread, Polls, Hardware, Data
  <2>3. CASE Sane
    <3>0. Accounted /\ Routed /\ errors = {}
      BY <2>3 DEF IInv, Core, Route
    <3>1. ASSUME NEW acked \in BOOLEAN, AddressSent(acked)
          PROVE  ~i2c'.start /\ bus'.phase = "nacked" /\ Empty'
      <4>1. cur' = cur /\ pc' = pc /\ i2c' = i2c
        BY <3>1, HardwareFrame DEF Hardware, Threadless, AddressSent
      <4>2. ~acked
        BY <1>0, <1>1, <2>3, <3>1, <4>1, AddressEffect DEF Failed
      <4>3. bus.phase \in {"head", "address"} /\ bus'.phase = "nacked" /\ LineData
        BY <1>0, <3>1, <4>2, AddressEffect
      <4>. QED
        BY <1>0, <3>0, <4>1, <4>3 DEF Wire, Routed, Asking, Empty, Drained, LineData
    <3>2. ASSUME NEW acked \in BOOLEAN, ShiftOut(acked)
          PROVE  ~i2c'.start /\ bus'.phase = "nacked" /\ Empty'
      <4>1. cur' = cur /\ pc' = pc /\ i2c' = i2c
        BY <3>2, HardwareFrame DEF Hardware, Data, Threadless, ShiftOut
      <4>2. ~acked
        BY <1>0, <1>1, <2>3, <3>2, <4>1, ShiftOutEffect DEF Failed
      <4>3. /\ bus.phase = "tx" /\ bus.sh = 1 /\ bus'.phase = "nacked" /\ bus'.dr = 0 /\ bus'.sh = 0
            /\ bus'.btf = bus.btf
        BY <1>0, <3>2, <4>2, ShiftOutEffect
      <4>. QED
        BY <1>0, <3>0, <4>1, <4>3 DEF Wire, Routed, Empty, Drained
    <3>3. ASSUME NEW e \in {"arlost", "buserr", "ouf"}, Fault(e)
          PROVE  ~i2c'.start /\ bus'.phase = "free"
      <4>1. e # "ouf" /\ ~i2c.start
        <5>1. e # "ouf" /\ (e = "buserr" => ~i2c.start)
          BY <1>0, <3>3, FaultEffect
        <5>2. e = "arlost" => ~i2c.start
          BY <1>0, <3>0, <3>3, FaultEffect DEF Routed, Asking, Drained
        <5>. QED
          BY <5>1, <5>2
      <4>2. bus' = Released(bus) /\ i2c' = StopDone(i2c)
        BY <1>0, <3>3, <4>1, FaultEffect
      <4>. QED
        BY <1>0, <4>1, <4>2, Left, StopDoneEffect
    <3>4. CASE PollFails \/ CheckErrors
      <4>1. pc' \in {"check", "end"} /\ build # "interrupt"
        BY <3>4, PollFrame DEF Polls, PollFails, CheckErrors, Poll, IInv, Frame
      <4>. QED
        BY <1>0, <1>1, <2>1, <4>1
    <3>5. ~HandleError
      BY <3>0 DEF HandleError, ErrorPending
    <3>6. ~(Enable \/ Take \/ Event \/ BusStart \/ BusStop \/ ShiftIn \/ (Polls /\ ~PollFails /\ ~CheckErrors))
      BY <1>0, <1>1, <2>3, Blameless
    <3>7. CASE (\E ms \in Transfers : Call(ms)) \/ (\E ten \in BOOLEAN : Configure(ten))
               \/ SemReset \/ TimedOut \/ Reset \/ EndMsg
      <4>1. pc' \in {"init", "idle", "setup", "reset"}
        BY <1>0, <3>7, EndEffect
        DEF Call, Configure, caller, SemReset, TimedOut, Reset, EndsFailed, EndsNext, EndsLast
      <4>. QED
        BY <1>1, <4>1 DEF Working
    <3>. QED
      BY <2>0, <3>1, <3>2, <3>3, <3>4, <3>5, <3>6, <3>7 DEF Next, Thread, Polls, Hardware, Data
  <2>. QED
    BY <2>2, <2>3
<1>2. ASSUME build' = "polling", pc' = "end", ~Failed(cur')
      PROVE  errors' = {}
  <2>1. CASE CheckErrors
    BY <1>0, <1>2, <2>1, CheckEffect
  <2>2. CASE Hardware
    <3>1. build = "polling" /\ pc = "end" /\ ~Failed(cur)
      BY <1>2, <2>2, HardwareFrame DEF Threadless
    <3>2. Sane /\ errors = {}
      BY <1>0, <3>1 DEF Broken, Working
    <3>3. Accounted
      BY <3>2 DEF IInv, Core
    <3>4. bus.phase \notin Asking /\ ~(bus.phase = "tx" /\ bus.sh = 1)
      <4>1. cur.len = 0 /\ moved = cur.full /\ moved \in Nat
        BY <1>0, <3>1, <3>3, Values DEF Accounted
      <4>2. cur.write /\ ~bus.read => Held = 0
        BY <1>0, <3>3, <4>1 DEF Accounted, Held
      <4>. QED
        BY <1>0, <3>1, <3>3, <4>2 DEF Accounted, Held, Drained, Wire
    <3>5. ASSUME NEW e \in {"arlost", "buserr", "ouf"}, Fault(e)
          PROVE  FALSE
      BY <1>0, <3>1, <3>5, FaultEffect
    <3>6. \A acked \in BOOLEAN : ~AddressSent(acked) /\ ~ShiftOut(acked)
      BY <3>4 DEF AddressSent, ShiftOut, Asking
    <3>. QED
      BY <2>2, <3>2, <3>5, <3>6 DEF Hardware, Data, BusStart, BusStop, ShiftIn
  <2>3. CASE Event \/ HandleError
    <3>1. irq.all /\ build = "polling"
      BY <1>2, <2>3, EventFrame DEF Threadless, EventPending, HandleError, ErrorPending, config
    <3>. QED
      BY <3>1 DEF IInv, Frame
  <2>4. ~Take
    BY <1>0, <1>2 DEF Take, config, IInv, Frame
  <2>5. CASE Polls /\ ~CheckErrors
    BY <1>2, <2>5 DEF Polls, PollSb, PollHeader, PollAddr, PollAck, PollTx, PollRx, PollDone, PollFails, Poll
  <2>6. CASE Setup \/ Enable
    BY <1>2, <2>6 DEF Setup, Enable
  <2>7. CASE (\E ms \in Transfers : Call(ms)) \/ (\E ten \in BOOLEAN : Configure(ten))
             \/ SemReset \/ TimedOut \/ Reset \/ EndMsg
    BY <1>0, <1>2, <2>7, EndEffect
    DEF Call, Configure, caller, SemReset, TimedOut, Reset, EndsFailed, EndsNext, EndsLast
  <2>. QED
    BY <2>1, <2>2, <2>3, <2>4, <2>5, <2>6, <2>7 DEF Next, Thread, Polls
<1>. QED
  BY <1>1, <1>2 DEF Broken

LEMMA CalledNext ==
  ASSUME IInv, Next, Hazards \subseteq {"fast", "preempt"}
  PROVE  Called'
<1>1. CASE Setup
  <2>1. Sane' /\ bus'.phase \notin Asking /\ (~cur'.write /\ i2c'.start => i2c'.ack /\ ~i2c'.stop /\ i2c'.pos = "current")
    BY <1>1, SetupStarts
  <2>. QED
    BY <2>1 DEF Called, Readied, Asking
<1>2. CASE ~Setup
  <2>1. SUFFICES ASSUME Sane', ~cur'.write, i2c'.start \/ bus'.phase \in Asking PROVE Readied'
    BY DEF Called, Asking
  <2>2. /\ Sane
        /\ \/ Enable \/ Take \/ Polls \/ Event
           \/ BusStart \/ BusStop \/ (\E acked \in BOOLEAN : AddressSent(acked) \/ ShiftOut(acked)) \/ ShiftIn
    BY <1>2, <2>1, SaneBack
  <2>0. /\ errors' = errors /\ errors = {} /\ Kinds /\ Wire /\ Accounted /\ Routed
        /\ build \in {"interrupt", "polling"}
        /\ i2c.start \in BOOLEAN /\ i2c.stop \in BOOLEAN /\ i2c.ack \in BOOLEAN /\ i2c.en
        /\ i2c.pos \in {"current", "next"} /\ cur.write \in BOOLEAN
        /\ cur.full \in Nat /\ cur.len \in Nat
        /\ bus.dr \in {0, 1} /\ bus.sh \in {0, 1} /\ bus.read \in BOOLEAN /\ tenBit \in BOOLEAN
    BY <2>1, <2>2, Values, Builders DEF Sane, IInv, Core, Route, Frame, Kinds, Controls
  <2>3. ~cur.write /\ cur'.full = cur.full
    BY <1>2, <2>0, <2>1, SameMessage
  <2>4. i2c.start \/ bus.phase \in Asking => Readied
    BY <2>2, <2>3 DEF IInv, Called
  <2>5. CASE Enable \/ Take
    BY <2>1, <2>4, <2>5 DEF Enable, Take, config, Readied
  <2>6. CASE Event
    <3>1. build = "interrupt" /\ (HandleSb \/ HandleHeader \/ HandleAddr \/ DataStep)
      BY <2>2, <2>6, DataCases
    <3>2. build' = build
      BY <2>6, EventFrame DEF Threadless
    <3>3. CASE HandleSb
      <4>1. bus.phase = "sb" /\ bus'.phase # "addr"
        BY <2>0, <3>3, SbEffect
      <4>2. Readied /\ cur.len = cur.full
        BY <2>0, <2>4, <4>1 DEF Asking, Accounted
      <4>3. i2c'.ack = i2c.ack /\ i2c'.stop = i2c.stop
            /\ (i2c'.pos = i2c.pos \/ (cur.len = 2 /\ i2c'.pos = "next"))
        BY <2>0, <3>3, SbEffect DEF Positioned
      <4>. QED
        BY <2>3, <3>1, <3>2, <4>1, <4>2, <4>3 DEF Readied
    <3>4. CASE HandleHeader
      <4>1. bus.phase = "header" /\ bus'.phase # "addr" /\ i2c' = i2c
        BY <2>0, <3>4, HeaderEffect DEF HandleHeader
      <4>. QED
        BY <2>3, <2>4, <3>2, <4>1 DEF Readied, Asking
    <3>5. CASE HandleAddr
      <4>1. bus.phase = "addr" /\ bus'.phase \in {"rx", "tx"}
        BY <2>0, <3>5, AddrEffect
      <4>2. Readied /\ ~i2c.start
        BY <2>0, <2>4, <4>1 DEF Asking, Routed
      <4>3. Starting
        BY <2>0, <2>1, <2>3, <3>5, <4>1, <4>2, AddrEffect DEF Positioned, Asking
      <4>. QED
        BY <2>0, <2>3, <3>2, <4>1, <4>2, <4>3 DEF Readied, Starting
    <3>6. ~DataStep
      BY <2>0, <2>1, DataKeeps
    <3>. QED
      BY <3>1, <3>3, <3>4, <3>5, <3>6
  <2>7. CASE Polls
    <3>1. build' = build /\ build = "polling"
      BY <2>0, <2>7, PollFrame DEF IInv, Frame
    <3>2. pc \in {"pAck", "pData", "check"} => ~i2c.start /\ bus.phase \notin Asking
      BY <2>0, <3>1 DEF Routed, Accounted
    <3>3. CASE PollSb \/ PollHeader
      <4>1. bus.phase \in Asking /\ bus'.phase # "addr" /\ i2c' = i2c
        BY <2>0, <3>3, PollSbEffect, HeaderEffect DEF PollSb, PollHeader, Asking
      <4>. QED
        BY <2>3, <2>4, <3>1, <4>1 DEF Readied
    <3>4. CASE PollAddr
      <4>1. bus.phase = "addr" /\ bus'.phase \in {"rx", "tx"}
        BY <2>0, <3>4, PollAddrEffect
      <4>2. Readied /\ ~i2c.start
        BY <2>0, <2>4, <4>1 DEF Asking, Routed
      <4>3. Starting
        BY <2>0, <2>1, <3>4, <4>1, <4>2, PollAddrEffect DEF Asking
      <4>. QED
        BY <2>0, <2>3, <3>1, <4>1, <4>2, <4>3 DEF Readied, Starting
    <3>5. CASE PollAck
      <4>1. i2c'.start = i2c.start /\ bus' = bus /\ pc = "pAck"
        BY <2>0, <3>5, PollAckEffect DEF PollAck, Poll, Positioned
      <4>. QED
        BY <2>1, <3>2, <4>1
    <3>6. CASE PollRx
      <4>1. bus'.phase = bus.phase /\ pc = "pData"
        BY <2>0, <3>6, PollRxEffect DEF LineKept, Taken, PollRx, Poll
      <4>2. i2c'.start = i2c.start
        <5>1. cur.len > 0
          BY <2>0, <3>6, PollRxEffect
        <5>2. cur.len \in {1, 2} \/ cur.len = 3 \/ cur.len > 3
          BY <2>0, <5>1
        <5>. QED
          BY <2>0, <3>6, <5>2, PollRxEffect DEF Stopping, Positioned
      <4>. QED
        BY <2>1, <3>2, <4>1, <4>2
    <3>7. CASE PollDone \/ CheckErrors
      <4>1. bus' = bus /\ pc \in {"pData", "check"} /\ i2c'.start = i2c.start
        BY <2>0, <3>7, PollDoneEffect DEF PollDone, CheckErrors, Poll
      <4>. QED
        BY <2>1, <3>2, <4>1
    <3>8. ~PollTx /\ ~PollFails
      BY <2>0, <2>1, <2>3, PollFailsEffect DEF Sane, PollTx
    <3>. QED
      BY <2>7, <3>3, <3>4, <3>5, <3>6, <3>7, <3>8 DEF Polls
  <2>8. CASE BusStart \/ BusStop \/ (\E acked \in BOOLEAN : AddressSent(acked) \/ ShiftOut(acked)) \/ ShiftIn
    <3>1. UNCHANGED <<build, cur>>
      BY <2>8, HardwareFrame DEF Hardware, Data, Threadless
    <3>2. CASE BusStart
      <4>1. /\ i2c.start /\ bus'.phase = "sb" /\ i2c'.stop = i2c.stop /\ i2c'.ack = i2c.ack
            /\ i2c'.pos = i2c.pos
        BY <2>0, <3>2, BusStartEffect DEF BusStart
      <4>. QED
        BY <2>4, <3>1, <4>1 DEF Readied
    <3>3. ~BusStop
      <4>1. SUFFICES ASSUME BusStop PROVE FALSE
        OBVIOUS
      <4>2. bus' = Released(bus) /\ i2c' = StopDone(i2c) /\ i2c.stop
        BY <4>1 DEF BusStop
      <4>3. bus'.phase = "free" /\ i2c'.start = i2c.start
        BY <2>0, <4>2, Left, StopDoneEffect DEF Kinds
      <4>. QED
        BY <2>1, <2>4, <4>2, <4>3 DEF Readied, Asking
    <3>4. ASSUME NEW acked \in BOOLEAN, AddressSent(acked)
          PROVE  Readied'
      <4>1. i2c' = i2c
        BY <3>4 DEF AddressSent
      <4>2. acked
        <5>1. ~acked => errors' # {}
          BY <3>4 DEF AddressSent
        <5>. QED
          BY <2>0, <5>1
      <4>3. bus.phase \in Asking /\ bus'.pend = i2c.ack
        BY <2>0, <3>4, <4>2, AddressEffect DEF Asking
      <4>. QED
        BY <2>4, <3>1, <4>1, <4>3 DEF Readied
    <3>5. ASSUME NEW acked \in BOOLEAN, ShiftOut(acked)
          PROVE  FALSE
      <4>1. i2c' = i2c /\ bus.phase = "tx" /\ bus.sh = 1
        BY <3>5 DEF ShiftOut
      <4>2. ~cur.write /\ bus.phase = "tx" => Drained
        BY <2>0 DEF Accounted
      <4>. QED
        BY <2>3, <4>1, <4>2 DEF Drained
    <3>6. CASE ShiftIn
      <4>1. bus.phase = "rx" /\ bus'.phase \in {"free", "rx", "nacked"}
        BY <2>0, <3>6, ShiftInEffect
      <4>2. i2c'.start = i2c.start
        <5>1. i2c' = i2c \/ i2c' = StopDone(i2c)
          BY <2>0, <3>6, ShiftInEffect
        <5>2. i2c' = StopDone(i2c) => i2c'.start = i2c.start
          BY <2>0, StopDoneEffect
        <5>. QED
          BY <5>1, <5>2
      <4>3. Readied
        BY <2>1, <2>4, <4>1, <4>2 DEF Asking
      <4>4. i2c' = i2c
        BY <2>0, <3>6, <4>3, ShiftInEffect DEF Readied
      <4>. QED
        BY <3>1, <4>1, <4>3, <4>4 DEF Readied
    <3>. QED
      BY <2>8, <3>2, <3>3, <3>4, <3>5, <3>6
  <2>. QED
    BY <2>2, <2>5, <2>6, <2>7, <2>8
<1>. QED
  BY <1>1, <1>2

\* A data handler that takes a byte leaves the read with the ack its next byte needs.
LEMMA ReadingEvent ==
  ASSUME IInv, Sane, DataStep, Reading, Receiving, UNCHANGED <<clocked, build>>,
         NEW h, h = Held
  PROVE  Reading'
<1>0. /\ Kinds /\ Wire
      /\ cur.len \in Nat /\ cur.full \in Nat /\ cur.len <= cur.full /\ clocked \in Nat /\ sem \in Nat
      /\ bus.dr \in {0, 1} /\ bus.sh \in {0, 1} /\ bus.dr = 1 /\ h = 1 + bus.sh /\ h \in {1, 2}
      /\ ~cur.write /\ i2c.ack \in BOOLEAN /\ i2c.stop \in BOOLEAN /\ i2c.pos \in {"current", "next"}
      /\ bus.pend \in BOOLEAN
  BY Values DEF IInv, Receiving, Held, Kinds, Controls
<1>1. /\ cur.full > 0 /\ clocked = cur.full - cur.len + h
      /\ cur.len = 1 => cur.full = 1 \/ bus.phase # "rx"
      /\ bus.phase # "rx" => cur.len = h
      /\ bus.phase = "rx" =>
           /\ cur.len > h /\ sem = 0
           /\ i2c.stop => cur.len = 1
           /\ cur.len > 2 => i2c.ack /\ i2c.pos = "current"
           /\ cur.len < 3 => ~i2c.ack
           /\ cur.len = 1 => i2c.pos = "current"
           /\ cur.len = 2 /\ cur.full = 2 => i2c.pos = "next" /\ bus.pend = (h = 0)
           /\ cur.len = 2 /\ cur.full > 2 => i2c.pos = "current" /\ h = 1
  BY DEF Reading
<1>2. UNCHANGED clocked /\ bus'.phase = bus.phase /\ bus'.pend = bus.pend /\ cur'.full = cur.full
  BY <1>0, DataKeeps
<1>3. ~Sending /\ ~Nothing
  BY <1>0, <1>1 DEF Sending, Nothing
<1>4. CASE RxneLast /\ bus.phase # "rx" /\ bus.sh = 0
  <2>1. cur'.len = cur.len - 1 /\ cur.len = 1 /\ bus'.dr = 0 /\ bus'.sh = 0
    BY <1>4 DEF RxneLast, Less, Taken
  <2>2. Held' = 0 /\ cur'.len = 0 /\ h = 1
    BY <1>0, <1>4, <2>1 DEF Held
  <2>. QED
    BY <1>0, <1>1, <1>2, <1>4, <2>1, <2>2 DEF Reading
<1>5. CASE RxneWaits
  <2>1. UNCHANGED <<cur, sem, i2c, bus>>
    BY <1>5 DEF RxneWaits
  <2>. QED
    BY <1>2, <2>1 DEF Reading, Held
<1>6. CASE RxneLeaves
  <2>1. /\ UNCHANGED <<cur, sem, bus>>
        /\ cur.len = 3 \/ (cur.len = 2 /\ cur.full = 2)
        /\ cur.len = 3 => i2c' = i2c
        /\ cur.len = 2 => i2c'.ack = FALSE /\ i2c'.pos = "next" /\ i2c'.stop = i2c.stop
    BY <1>6 DEF RxneLeaves
  <2>2. CASE cur.len = 3
    BY <1>2, <2>1, <2>2 DEF Reading, Held
  <2>3. CASE cur.len = 2
    <3>1. Held' = Held /\ Held = h /\ bus' = bus /\ cur' = cur /\ sem' = sem
      BY <2>1 DEF Held
    <3>2. bus.phase = "rx" => cur.full = 2 /\ h = 1 /\ ~i2c.stop /\ bus.pend = FALSE
      BY <1>0, <1>1, <2>1, <2>3
    <3>. QED
      BY <1>0, <1>1, <1>2, <2>1, <2>3, <3>1, <3>2 DEF Reading
  <2>. QED
    BY <2>1, <2>2, <2>3
<1>7. CASE RxneReads /\ bus.phase = "rx"
  <2>1. /\ cur.len > 3 /\ cur'.len = cur.len - 1 /\ bus'.dr = bus.sh /\ bus'.sh = 0
        /\ UNCHANGED <<sem, i2c>>
    BY <1>7 DEF RxneReads, Less, Taken
  <2>2. Held' = h - 1
    BY <1>0, <2>1 DEF Held
  <2>. QED
    BY <1>0, <1>1, <1>2, <1>7, <2>1, <2>2 DEF Reading
<1>8. CASE BtfLast /\ bus.phase # "rx" /\ bus.sh = 1
  <2>1. cur'.len = cur.len - 2 /\ cur.len = 2 /\ bus'.dr = 0 /\ bus'.sh = 0
    BY <1>8 DEF BtfLast, Less
  <2>2. Held' = 0 /\ cur'.len = 0 /\ h = 2
    BY <1>0, <1>8, <2>1 DEF Held
  <2>. QED
    BY <1>0, <1>1, <1>2, <1>8, <2>1, <2>2 DEF Reading
<1>9. CASE BtfThird /\ bus.phase = "rx" /\ bus.sh = 1
  <2>1. /\ cur.len = 3 /\ cur'.len = cur.len - 1 /\ bus'.dr = bus.sh /\ bus'.sh = 0
        /\ sem' = sem /\ i2c'.ack = FALSE /\ i2c'.pos = i2c.pos /\ i2c'.stop = i2c.stop
    BY <1>9 DEF BtfThird, Less, Taken
  <2>2. Held' = 1 /\ h = 2
    BY <1>0, <1>9, <2>1 DEF Held
  <2>. QED
    BY <1>0, <1>1, <1>2, <1>9, <2>1, <2>2 DEF Reading
<1>. QED
  BY <1>3, <1>4, <1>5, <1>6, <1>7, <1>8, <1>9 DEF DataStep

LEMMA FetchedEvent ==
  ASSUME IInv, Sane, Event, Receives', Hazards \subseteq {"fast", "preempt"}
  PROVE  Fetched'
<1>0. /\ Kinds /\ Wire /\ Accounted /\ Routed /\ build = "interrupt"
      /\ cur.len \in Nat /\ cur.full \in Nat /\ cur.len <= cur.full /\ clocked \in Nat /\ sem \in Nat
      /\ bus.dr \in {0, 1} /\ bus.sh \in {0, 1} /\ bus.read \in BOOLEAN
      /\ i2c.ack \in BOOLEAN /\ i2c.stop \in BOOLEAN /\ i2c.pos \in {"current", "next"}
      /\ i2c.start \in BOOLEAN
  BY Values, DataCases DEF IInv, Core, Route, Kinds, Controls
<1>1. UNCHANGED <<build, pc, clocked>> /\ ReadsStart' = ReadsStart
  BY EventFrame DEF Threadless, ReadsStart
<1>2. ~cur'.write /\ bus'.read /\ ~i2c'.start /\ bus'.phase \notin Asking
  BY DEF Receives, Asking
<1>3. CASE HandleSb \/ HandleHeader
  BY <1>0, <1>2, <1>3, SbEffect, HeaderEffect DEF Asking, Kinds
<1>4. CASE HandleAddr
  <2>1. /\ bus.phase = "addr" /\ LineData /\ bus'.read = bus.read /\ bus'.pend = bus.pend
        /\ bus'.phase = IF bus.read THEN "rx" ELSE "tx"
    BY <1>0, <1>4, AddrEffect
  <2>2. bus'.phase = "rx" /\ Empty /\ clocked = 0 /\ cur.len = cur.full /\ sem = 0 /\ pc # "end"
    BY <1>0, <1>2, <2>1 DEF Wire, Asking, Accounted
  <2>3. sem' = sem
    BY <1>4 DEF HandleAddr
  <2>4. /\ cur' = cur /\ ~cur.write
        /\ i2c'.ack = (i2c.ack /\ cur.len \notin {1, 2}) /\ i2c'.stop = (i2c.stop \/ cur.len < 2)
        /\ i2c'.pos = IF cur.len = 2 THEN "next" ELSE i2c.pos
    <3>1. ~Starting
      BY <1>2 DEF Starting
    <3>2. cur' = cur
      BY <1>0, <1>4, <3>1, AddrEffect
    <3>. QED
      BY <1>0, <1>2, <1>4, <3>1, <3>2, AddrEffect DEF Positioned
  <2>5. i2c.ack /\ ~i2c.stop /\ (i2c.pos = "current" \/ cur.full = 2) /\ bus.pend
    BY <2>1, <2>4 DEF IInv, Called, Readied, Asking
  <2>6. Held' = 0
    BY <2>1, <2>2 DEF Held, LineData, Empty, Drained
  <2>7. CASE cur.full > 0
    <3>1. /\ cur'.len = cur.len /\ cur'.full = cur.full /\ clocked' = 0 /\ sem' = 0
          /\ bus'.pend = TRUE /\ cur.len > 0
      BY <1>0, <1>1, <2>1, <2>2, <2>3, <2>4, <2>5, <2>7
    <3>2. i2c'.stop => cur.len = 1
      BY <1>0, <2>4, <2>5, <3>1
    <3>3. /\ cur.len > 2 => i2c'.ack /\ i2c'.pos = "current"
          /\ cur.len < 3 => ~i2c'.ack
          /\ cur.len = 1 => i2c'.pos = "current"
          /\ cur.len = 2 => i2c'.pos = "next"
      <4>1. /\ cur.len > 2 => i2c'.ack /\ i2c'.pos = i2c.pos
            /\ cur.len < 3 => ~i2c'.ack
        <5>1. i2c'.ack = (i2c.ack /\ cur.len \notin {1, 2})
          BY <2>4
        <5>2. cur.len > 2 => cur.len \notin {1, 2}
          BY <1>0
        <5>3. cur.len < 3 => cur.len \in {1, 2}
          BY <1>0, <3>1
        <5>4. cur.len > 2 => i2c'.pos = i2c.pos
          BY <1>0, <2>4
        <5>. QED
          BY <2>5, <5>1, <5>2, <5>3, <5>4
      <4>2. cur.len = 2 => i2c'.pos = "next"
        BY <2>4
      <4>3. cur.len # 2 => i2c'.pos = "current"
        BY <2>2, <2>4, <2>5
      <4>. QED
        BY <1>0, <4>1, <4>2, <4>3
    <3>4. bus'.phase = "rx" /\ bus'.pend = (Held' = 0)
      BY <2>2, <2>6, <3>1
    <3>5. cur'.full > 0 /\ clocked' = cur'.full - cur'.len + Held' /\ (cur'.len = 1 => cur'.full = 1)
      BY <1>0, <2>2, <2>6, <2>7, <3>1
    <3>6. cur'.len > Held' /\ ~(cur'.len = 2 /\ cur'.full > 2)
      BY <1>0, <2>2, <2>6, <3>1
    <3>7. /\ i2c'.stop => cur'.len = 1
          /\ cur'.len > 2 => i2c'.ack /\ i2c'.pos = "current"
          /\ cur'.len < 3 => ~i2c'.ack
          /\ cur'.len = 1 => i2c'.pos = "current"
          /\ cur'.len = 2 => i2c'.pos = "next"
      BY <3>1, <3>2, <3>3
    <3>8. Reading'
      BY <3>1, <3>4, <3>5, <3>6, <3>7 DEF Reading
    <3>. QED
      BY <3>8 DEF Fetched
  <2>8. CASE cur.full = 0
    <3>1. ~ReadsStart
      BY <2>4, <2>8 DEF IInv, Messages, Sane
    <3>2. cur'.full = 0 /\ i2c'.stop /\ sem' = 0 /\ pc' # "end"
      <4>1. cur.len < 2
        BY <1>0, <2>8
      <4>2. i2c'.stop
        BY <2>4, <4>1
      <4>. QED
        BY <1>1, <2>2, <2>3, <2>4, <2>8, <4>2
    <3>3. Nothing'
      BY <2>6, <3>2 DEF Nothing
    <3>. QED
      BY <1>1, <3>1, <3>3 DEF Fetched
  <2>. QED
    BY <1>0, <2>7, <2>8
<1>5. CASE DataStep
  <2>1. ~i2c.start /\ bus.phase \notin Asking /\ bus.read /\ ~cur.write
    BY <1>0, <1>2, <1>5, DataKeeps
  <2>2. Receives /\ ~Sending
    BY <1>0, <2>1 DEF Receives, Sending
  <2>3. Receiving
    BY <1>5, <2>2 DEF DataStep
  <2>4. CASE Reading
    <3>1. Reading'
      BY <1>1, <1>5, <2>3, <2>4, ReadingEvent
    <3>. QED
      BY <3>1 DEF Fetched
  <2>5. CASE ~Reading
    <3>1. ~ReadsStart /\ (Unstarted \/ Nothing)
      BY <2>2, <2>5 DEF IInv, Recv, Fetched
    <3>2. Nothing
      BY <1>0, <2>3, <3>1 DEF Unstarted, Held, Receiving
    <3>3. RxneWaits \/ (RxneEnds /\ bus.phase # "rx" /\ irq.data /\ irq.all)
      BY <1>5, <2>2, <2>5 DEF DataStep
    <3>4. /\ UNCHANGED <<cur, irq, bus>>
          /\ (i2c' = i2c /\ sem' = sem) \/ (bus.phase # "rx" /\ irq.data /\ irq.all)
      BY <3>3 DEF RxneWaits, RxneEnds
    <3>5. Nothing'
      BY <1>1, <2>3, <3>2, <3>4 DEF Nothing, Held, Receiving
    <3>. QED
      BY <1>1, <3>1, <3>5 DEF Fetched
  <2>. QED
    BY <2>4, <2>5
<1>. QED
  BY <1>3, <1>4, <1>5, DataCases

LEMMA FetchedPoll ==
  ASSUME IInv, Sane, Polls, Sane', Receives'
  PROVE  Fetched'
<1>0. /\ Kinds /\ Wire /\ build = "polling" /\ sem = 0
      /\ cur.len \in Nat /\ cur.full \in Nat /\ cur.len <= cur.full /\ clocked \in Nat
      /\ bus.dr \in {0, 1} /\ bus.sh \in {0, 1} /\ bus.read \in BOOLEAN
      /\ i2c.ack \in BOOLEAN /\ i2c.stop \in BOOLEAN /\ i2c.pos \in {"current", "next"}
      /\ i2c.start \in BOOLEAN /\ bus.pend \in BOOLEAN
  BY Values, PollFrame DEF IInv, Frame, Kinds, Controls
<1>1. UNCHANGED <<build, sem, clocked>> /\ ReadsStart' = ReadsStart
  BY PollFrame DEF ReadsStart
<1>2. /\ ~cur'.write /\ bus'.read /\ ~i2c'.start /\ bus'.phase \notin Asking
      /\ ReadsStart /\ "preempt" \notin Hazards /\ pc' \in {"pData", "check", "end"}
  BY <1>0, <1>1 DEF Receives, Asking
<1>3. CASE PollSb \/ PollHeader
  BY <1>2, <1>3 DEF PollSb, PollHeader, Poll
<1>4. CASE PollAddr
  <2>1. Restarts(tenBit /\ ~cur.write /\ ~cur.restart) /\ pc' \in {"pSb", "pData", "pAck"}
        /\ (pc' = "pData" => cur.write)
    BY <1>0, <1>4, PollAddrEffect
  <2>. QED
    BY <1>2, <2>1 DEF Restarts
<1>5. CASE PollAck
  <2>1. /\ pc = "pAck" /\ cur' = cur /\ bus' = bus
        /\ i2c'.ack = (i2c.ack /\ cur.len \notin {1, 2}) /\ i2c'.stop = i2c.stop
        /\ i2c'.pos = IF cur.len = 2 THEN "next" ELSE i2c.pos
    BY <1>0, <1>5, PollAckEffect DEF PollAck, Poll, Positioned
  <2>2. Unacked /\ cur.full > 0
    BY <1>2, <2>1 DEF IInv, PreAck, Messages, Sane
  <2>3. /\ bus.phase = "rx" /\ Held = 0 /\ cur.len = cur.full /\ clocked = 0
        /\ i2c.ack /\ i2c.pos = "current" /\ ~i2c.stop /\ bus.pend
    BY <2>2 DEF Unacked
  <2>4. Held' = 0
    BY <2>1, <2>3 DEF Held
  <2>5. i2c'.ack = (cur.len \notin {1, 2}) /\ (cur.len > 2 => cur.len \notin {1, 2})
        /\ (cur.len < 3 => cur.len \in {1, 2})
    BY <1>0, <2>1, <2>2, <2>3
  <2>6. (cur.len = 2 => i2c'.pos = "next") /\ (cur.len # 2 => i2c'.pos = "current")
    BY <2>1, <2>3
  <2>7. (cur.len > 2 => i2c'.ack) /\ (cur.len < 3 => ~i2c'.ack) /\ ~i2c'.stop /\ bus'.pend = TRUE
    BY <1>0, <2>1, <2>3, <2>5
  <2>8. cur'.full > 0 /\ clocked' = cur'.full - cur'.len + Held' /\ (cur'.len = 1 => cur'.full = 1)
        /\ cur'.len > Held' /\ ~(cur'.len = 2 /\ cur'.full > 2) /\ bus'.phase = "rx"
        /\ sem' = 0 /\ bus'.pend = (Held' = 0)
    <3>1. bus'.phase = "rx" /\ sem' = 0 /\ cur'.full = cur.full /\ cur'.len = cur.full /\ clocked' = 0
      BY <1>0, <1>1, <2>1, <2>3
    <3>2. bus'.pend = (Held' = 0)
      BY <2>4, <2>7
    <3>. QED
      BY <1>0, <2>2, <2>4, <3>1, <3>2
  <2>9. /\ cur'.len > 2 => i2c'.ack /\ i2c'.pos = "current"
        /\ cur'.len < 3 => ~i2c'.ack
        /\ cur'.len = 1 => i2c'.pos = "current"
        /\ cur'.len = 2 => i2c'.pos = "next"
    BY <1>0, <2>1, <2>6, <2>7
  <2>10. Reading'
    BY <2>7, <2>8, <2>9 DEF Reading
  <2>. QED
    BY <2>10 DEF Fetched
<1>6. CASE PollTx
  BY <1>0, <1>2, <1>6, PollTxEffect DEF Less
<1>7. CASE PollRx
  <2>1. /\ ~cur.write /\ cur.len > 0 /\ RDBF /\ (cur.len \in {2, 3} => TDC) /\ LineKept /\ pc = "pData"
        /\ cur'.full = cur.full /\ i2c'.start = i2c.start
    <3>1. ~cur.write /\ cur.len > 0 /\ RDBF /\ (cur.len \in {2, 3} => TDC) /\ pc = "pData"
      BY <1>0, <1>7, PollRxEffect DEF PollRx, Poll
    <3>2. LineKept /\ cur'.full = cur.full
      BY <1>0, <1>7, PollRxEffect DEF Taken, Less
    <3>3. cur.len \in {1, 2} \/ cur.len = 3 \/ cur.len > 3
      BY <1>0, <3>1
    <3>4. i2c'.start = i2c.start
      BY <1>0, <1>7, <3>3, PollRxEffect DEF Stopping, Positioned
    <3>. QED
      BY <3>1, <3>2, <3>4
  <2>2. Receives
    BY <1>2, <2>1 DEF Receives, LineKept, Asking
  <2>3. Reading
    BY <1>2, <2>2 DEF IInv, Recv, Fetched
  <2>4. PICK h : h = Held
    OBVIOUS
  <2>5. bus.dr = 1 /\ bus.read /\ h = 1 + bus.sh /\ h \in {1, 2} /\ (TDC => h = 2 /\ bus.sh = 1)
    BY <1>0, <2>1, <2>4 DEF RDBF, Held, TDC
  <2>6. /\ cur.full > 0 /\ clocked = cur.full - cur.len + h
        /\ cur.len = 1 => cur.full = 1 \/ bus.phase # "rx"
        /\ bus.phase # "rx" => cur.len = h
        /\ bus.phase = "rx" =>
             /\ cur.len > h /\ sem = 0
             /\ i2c.stop => cur.len = 1
             /\ cur.len > 2 => i2c.ack /\ i2c.pos = "current"
    BY <2>3, <2>4 DEF Reading
  <2>7. CASE cur.len = 1
    <3>1. /\ cur'.len = 0 /\ bus'.phase # "rx" /\ bus'.dr = 0 /\ bus'.sh = 0
      BY <1>0, <1>7, <2>1, <2>5, <2>6, <2>7, PollRxEffect DEF Taken, LineKept, Less
    <3>2. Held' = 0 /\ h = 1
      BY <1>0, <2>5, <2>6, <2>7, <3>1 DEF Held
    <3>. QED
      BY <1>0, <1>1, <2>1, <2>6, <2>7, <3>1, <3>2 DEF Reading, Fetched
  <2>8. CASE cur.len = 2
    <3>1. /\ cur'.len = 0 /\ bus'.phase # "rx" /\ bus'.dr = 0 /\ bus'.sh = 0 /\ h = 2
      BY <1>0, <1>7, <2>1, <2>5, <2>6, <2>8, PollRxEffect DEF LineKept, Less
    <3>2. Held' = 0
      BY <3>1 DEF Held
    <3>. QED
      BY <1>0, <1>1, <2>1, <2>6, <2>8, <3>1, <3>2 DEF Reading, Fetched
  <2>9. CASE cur.len = 3
    <3>1. /\ cur'.len = 2 /\ bus'.phase = "rx" /\ bus'.dr = 1 /\ bus'.sh = 0 /\ h = 2
          /\ i2c'.ack = FALSE /\ i2c'.stop = i2c.stop /\ i2c'.pos = i2c.pos
      <4>1. Less(1) /\ Taken
        BY <1>0, <1>7, <2>9, PollRxEffect
      <4>2. Positioned(FALSE, i2c.stop, i2c.pos)
        BY <1>0, <1>7, <2>9, PollRxEffect
      <4>3. h = 2 /\ bus.sh = 1 /\ bus.phase = "rx"
        BY <2>1, <2>5, <2>6, <2>9
      <4>4. cur'.len = 2
        BY <2>9, <4>1 DEF Less
      <4>. QED
        BY <4>1, <4>2, <4>3, <4>4 DEF Taken, LineKept, Positioned
    <3>2. Held' = 1
      BY <3>1 DEF Held
    <3>. QED
      BY <1>0, <1>1, <2>1, <2>6, <2>9, <3>1, <3>2 DEF Reading, Fetched
  <2>10. CASE cur.len > 3
    <3>1. /\ cur'.len = cur.len - 1 /\ bus'.phase = "rx" /\ bus'.dr = bus.sh /\ bus'.sh = 0 /\ i2c' = i2c
      <4>1. Less(1) /\ Taken /\ i2c' = i2c
        <5>1. cur.len # 2
          BY <1>0, <2>10
        <5>. QED
          BY <1>0, <1>7, <2>10, <5>1, PollRxEffect
      <4>2. bus.phase = "rx"
        BY <1>0, <2>5, <2>6, <2>10
      <4>. QED
        BY <4>1, <4>2 DEF Taken, LineKept, Less
    <3>2. Held' = h - 1
      BY <1>0, <2>5, <3>1 DEF Held
    <3>3. bus.phase = "rx" /\ i2c.ack /\ i2c.pos = "current" /\ ~i2c.stop /\ sem' = 0
      BY <1>0, <1>1, <2>5, <2>6, <2>10, <3>1
    <3>4. /\ cur'.full > 0 /\ clocked' = cur'.full - cur'.len + Held'
          /\ cur'.len > Held' /\ cur'.len > 2
      <4>1. cur.full \in Nat /\ cur.len \in Nat /\ h \in {1, 2}
        BY <1>0, <2>5
      <4>2. cur.len > h /\ cur.len # 3
        BY <1>0, <2>5, <2>6, <2>10
      <4>3. cur'.len > Held' /\ cur'.len > 2
        BY <2>10, <3>1, <3>2, <4>1, <4>2
      <4>4. clocked' = cur.full - (cur.len - 1) + (h - 1)
        BY <1>1, <2>6, <4>1
      <4>. QED
        BY <2>1, <2>6, <3>1, <3>2, <4>3, <4>4
    <3>5. cur'.len # 1 /\ cur'.len # 2 /\ ~(cur'.len < 3)
      BY <1>0, <2>10, <3>1
    <3>. QED
      BY <3>1, <3>3, <3>4, <3>5 DEF Reading, Fetched
  <2>. QED
    BY <1>0, <2>1, <2>7, <2>8, <2>9, <2>10
<1>8. CASE PollDone \/ CheckErrors
  <2>1. UNCHANGED <<cur, bus, i2c>> /\ pc \in {"pData", "check"}
    <3>1. CASE PollDone
      BY <1>0, <1>2, <3>1, PollDoneEffect DEF PollDone
    <3>2. CASE CheckErrors
      BY <3>2 DEF CheckErrors, Poll, Sane
    <3>. QED
      BY <1>8, <3>1, <3>2
  <2>2. Receives
    BY <1>2, <2>1 DEF Receives, Asking
  <2>3. Reading
    BY <1>2, <2>2 DEF IInv, Recv, Fetched
  <2>4. Reading'
    BY <1>1, <2>1, <2>3 DEF Reading, Held
  <2>. QED
    BY <2>4 DEF Fetched
<1>9. CASE PollFails
  BY <1>0, <1>9, PollFailsEffect DEF Sane
<1>. QED
  BY <1>3, <1>4, <1>5, <1>6, <1>7, <1>8, <1>9 DEF Polls

LEMMA FetchedBus ==
  ASSUME IInv, Sane, Sane', Receives',
         BusStart \/ BusStop \/ (\E acked \in BOOLEAN : AddressSent(acked) \/ ShiftOut(acked)) \/ ShiftIn
  PROVE  Fetched'
<1>0. /\ Kinds /\ Wire /\ i2c.en
      /\ cur.len \in Nat /\ cur.full \in Nat /\ cur.len <= cur.full /\ clocked \in Nat /\ sem \in Nat
      /\ bus.dr \in {0, 1} /\ bus.sh \in {0, 1} /\ bus.read \in BOOLEAN
      /\ i2c.ack \in BOOLEAN /\ i2c.stop \in BOOLEAN /\ i2c.pos \in {"current", "next"}
      /\ i2c.start \in BOOLEAN /\ bus.pend \in BOOLEAN
  BY Values DEF IInv, Frame, Kinds, Controls, Sane
<1>1. UNCHANGED <<build, pc, cur, sem, irq>> /\ ReadsStart' = ReadsStart
  BY DEF ReadsStart, BusStart, BusStop, AddressSent, ShiftOut, ShiftIn, Bus, config, caller
<1>2. /\ ~cur.write /\ bus'.read /\ ~i2c'.start /\ bus'.phase \notin Asking
      /\ build = "interrupt" \/ (ReadsStart /\ "preempt" \notin Hazards /\ pc \in {"pData", "check", "end"})
  BY <1>0, <1>1 DEF Receives, Asking
<1>3. CASE BusStart
  BY <1>0, <1>2, <1>3, BusStartEffect DEF Asking
<1>4. ASSUME NEW acked \in BOOLEAN, AddressSent(acked)
      PROVE  FALSE
  <2>1. CASE acked
    BY <1>0, <1>2, <1>4, <2>1, AddressEffect DEF Asking
  <2>2. CASE ~acked
    BY <1>0, <1>4, <2>2, AddressEffect DEF Sane
  <2>. QED
    BY <2>1, <2>2
<1>5. ASSUME NEW acked \in BOOLEAN, ShiftOut(acked)
      PROVE  FALSE
  BY <1>0, <1>2, <1>5, ShiftOutEffect DEF Wire
<1>6. CASE BusStop
  <2>1. /\ i2c.stop /\ bus' = Released(bus) /\ clocked' = clocked /\ i2c' = StopDone(i2c)
        /\ bus.phase = "nacked" \/ bus.phase = "tx" \/ (bus.phase = "rx" /\ TDC)
    BY <1>6 DEF BusStop
  <2>2. bus'.phase = "free" /\ bus'.read = bus.read /\ bus'.sh = bus.sh /\ (bus.read => bus'.dr = bus.dr)
    BY <1>0, <2>1 DEF Released, Kinds, Lines
  <2>3. bus.read /\ ~i2c.start /\ bus.phase # "tx" /\ bus.phase \notin Asking
    BY <1>0, <1>2, <2>1, <2>2, StopDoneEffect DEF Wire, Asking
  <2>4. Held' = Held
    BY <2>2, <2>3 DEF Held
  <2>5. Receives
    BY <1>2, <2>3 DEF Receives
  <2>6. TDC => Held = 2
    BY <2>3 DEF TDC, Held
  <2>7. CASE Reading
    <3>1. bus.phase # "rx"
      BY <1>0, <2>1, <2>6, <2>7 DEF Reading
    <3>. QED
      BY <1>1, <2>1, <2>2, <2>4, <2>7, <3>1 DEF Reading, Fetched
  <2>8. CASE ~ReadsStart /\ Unstarted
    BY <1>1, <2>2, <2>4, <2>8 DEF Unstarted, Fetched
  <2>9. CASE ~ReadsStart /\ Nothing
    <3>1. bus.dr = bus'.dr
      BY <2>2, <2>3
    <3>2. Nothing'
      BY <1>1, <2>2, <2>4, <2>9, <3>1 DEF Nothing
    <3>. QED
      BY <1>1, <2>9, <3>2 DEF Fetched
  <2>. QED
    BY <2>5, <2>7, <2>8, <2>9 DEF IInv, Recv, Fetched
<1>7. CASE ShiftIn
  <2>1. /\ bus.phase = "rx" /\ ~TDC /\ clocked' = clocked + 1 /\ bus.read
        /\ bus'.dr = 1 /\ bus'.sh = bus.dr
        /\ i2c.stop => bus'.phase = "free" /\ i2c' = StopDone(i2c)
        /\ ~i2c.stop => /\ bus'.phase = IF ShiftAcked THEN "rx" ELSE "nacked"
                        /\ bus'.pend = i2c.ack /\ i2c' = i2c
    BY <1>0, <1>7, ShiftInEffect DEF Wire
  <2>2. ~i2c.start
    BY <1>0, <1>2, <2>1, StopDoneEffect
  <2>3. Receives
    BY <1>2, <2>1, <2>2 DEF Receives, Asking
  <2>4. PICK h : h = Held
    OBVIOUS
  <2>5. bus.sh = 0 /\ h = bus.dr /\ h \in {0, 1} /\ Held' = h + 1
    BY <1>0, <2>1, <2>4 DEF Held, TDC, Wire
  <2>6. CASE Reading
    <3>1. /\ cur.full > 0 /\ clocked = cur.full - cur.len + h
          /\ cur.len = 1 => cur.full = 1
          /\ cur.len > h /\ sem = 0
          /\ i2c.stop => cur.len = 1
          /\ cur.len > 2 => i2c.ack /\ i2c.pos = "current"
          /\ cur.len < 3 => ~i2c.ack
          /\ cur.len = 1 => i2c.pos = "current"
          /\ cur.len = 2 /\ cur.full = 2 => i2c.pos = "next" /\ bus.pend = (h = 0)
          /\ cur.len = 2 /\ cur.full > 2 => i2c.pos = "current" /\ h = 1
      BY <2>1, <2>4, <2>6 DEF Reading
    <3>2. cur'.full > 0 /\ clocked' = cur'.full - cur'.len + Held' /\ sem' = 0
      BY <1>0, <1>1, <2>1, <2>5, <3>1
    <3>3. CASE cur.len = 1
      <4>1. bus'.phase # "rx" /\ cur'.len = Held'
        <5>1. Held' = 1 /\ ~ShiftAcked
          BY <2>5, <3>1, <3>3 DEF ShiftAcked
        <5>. QED
          BY <1>1, <2>1, <3>3, <5>1
      <4>. QED
        BY <3>2, <4>1 DEF Reading, Fetched
    <3>4. CASE cur.len = 2 /\ cur.full = 2 /\ h = 0
      <4>1. ~i2c.stop /\ ShiftAcked /\ bus'.phase = "rx" /\ bus'.pend = FALSE /\ i2c' = i2c /\ Held' = 1
        BY <1>0, <2>1, <2>5, <3>1, <3>4 DEF ShiftAcked
      <4>2. bus'.pend = (Held' = 0)
        <5>1. ~(Held' = 0)
          BY <4>1
        <5>. QED
          BY <4>1, <5>1, Zenon
      <4>3. ~i2c'.ack /\ ~i2c'.stop /\ i2c'.pos = "next" /\ cur'.len = 2 /\ cur'.full = 2
        BY <1>1, <3>1, <3>4, <4>1
      <4>4. cur'.len # 1 /\ ~(cur'.len > 2) /\ ~(cur'.full > 2) /\ cur'.len > Held'
        BY <4>1, <4>3
      <4>. QED
        BY <3>2, <4>1, <4>2, <4>3, <4>4 DEF Reading, Fetched
    <3>5. CASE cur.len = 2 /\ h = 1
      <4>1. cur.full > 1
        BY <1>0, <3>5
      <4>2. ~i2c.stop /\ ~ShiftAcked
        <5>1. CASE cur.full = 2
          BY <3>1, <3>5, <5>1 DEF ShiftAcked
        <5>2. CASE cur.full > 2
          BY <3>1, <3>5, <5>2 DEF ShiftAcked
        <5>. QED
          BY <1>0, <4>1, <5>1, <5>2
      <4>3. bus'.phase # "rx" /\ cur'.len = Held'
        BY <1>1, <2>1, <2>5, <3>5, <4>2
      <4>. QED
        BY <1>1, <3>2, <3>5, <4>3 DEF Reading, Fetched
    <3>6. CASE cur.len > 2
      <4>1. ~i2c.stop /\ ShiftAcked /\ i2c.ack /\ i2c.pos = "current"
        BY <1>0, <3>1, <3>6 DEF ShiftAcked
      <4>2. bus'.phase = "rx" /\ i2c' = i2c
        BY <2>1, <4>1
      <4>3. cur'.len > Held' /\ cur'.len > 2 /\ cur'.len # 1 /\ cur'.len # 2 /\ ~(cur'.len < 3)
        BY <1>0, <1>1, <2>5, <3>6
      <4>. QED
        BY <3>2, <4>1, <4>2, <4>3 DEF Reading, Fetched
    <3>7. cur.len = 1 \/ (cur.len = 2 /\ cur.full = 2 /\ h = 0) \/ (cur.len = 2 /\ h = 1) \/ cur.len > 2
      <4>1. cur.len \in Nat /\ cur.len > h /\ h \in {0, 1}
        BY <1>0, <2>5, <3>1
      <4>2. cur.len = 1 \/ cur.len = 2 \/ cur.len > 2
        BY <4>1
      <4>3. cur.len = 2 => cur.full = 2 \/ cur.full > 2
        BY <1>0
      <4>. QED
        BY <3>1, <4>1, <4>2, <4>3
    <3>. QED
      BY <3>3, <3>4, <3>5, <3>6, <3>7
  <2>7. CASE ~ReadsStart /\ Nothing
    <3>1. cur.full = 0 /\ h = 0 /\ i2c.stop /\ sem = 0 /\ pc # "end"
      BY <1>0, <2>1, <2>4, <2>5, <2>7 DEF Nothing
    <3>2. cur'.full = 0 /\ Held' = 1 /\ bus'.phase = "free" /\ sem' = 0 /\ pc' # "end"
      BY <1>1, <2>1, <2>5, <3>1
    <3>3. Nothing'
      BY <3>2 DEF Nothing
    <3>. QED
      BY <1>1, <2>7, <3>3 DEF Fetched
  <2>8. ~Unstarted
    BY <2>1 DEF Unstarted
  <2>. QED
    BY <2>3, <2>6, <2>7, <2>8 DEF IInv, Recv, Fetched
<1>. QED
  BY <1>3, <1>4, <1>5, <1>6, <1>7

LEMMA FetchedSetup ==
  ASSUME IInv, Setup, Receives'
  PROVE  Fetched'
<1>1. PICK m : m = Head(msgs)
  OBVIOUS
<1>2. /\ m \in Message /\ pc = "setup" /\ cur'.write = m.write /\ i2c'.start = (i2c.start \/ m.restart)
  BY <1>1, SetupEffect DEF IInv
<1>3. /\ UNCHANGED <<build, sem, bus>>
      /\ pc' = IF build = "interrupt" THEN "enable" ELSE IF m.restart THEN "pSb" ELSE "pData"
      /\ ReadsStart' = ReadsStart
  BY <1>1 DEF Setup, config, ReadsStart
<1>4. m.restart \in BOOLEAN /\ ~m.restart /\ ~m.write
  BY <1>2, Values DEF IInv, Message, Receives
<1>5. ~ReadsStart
  <2>1. msgs \in Seq(Message) /\ msgs # <<>>
    BY <1>2 DEF IInv, Kinds
  <2>2. m = msgs[1] /\ Len(msgs) \in Nat /\ Len(msgs) >= 1
    BY <1>1, <2>1, TailOf
  <2>3. 1 \in 1 .. Len(msgs)
    BY <2>2
  <2>. QED
    BY <1>4, <2>2, <2>3 DEF IInv, Messages
<1>6. build = "interrupt"
  BY <1>3, <1>5 DEF Receives
<1>7. Empty /\ bus.phase # "rx" /\ sem = 0
  BY <1>2, <1>6 DEF IInv, Resting, Pausing
<1>8. Held' = 0 /\ cur'.len = cur'.full
  BY <1>3, <1>7, SetupStarts DEF Empty, Drained, Held
<1>9. Unstarted'
  BY <1>3, <1>6, <1>7, <1>8 DEF Unstarted
<1>. QED
  BY <1>3, <1>5, <1>9 DEF Fetched

LEMMA FetchedWait ==
  ASSUME IInv, Sane, Enable \/ Take, Receives'
  PROVE  Fetched'
<1>1. /\ UNCHANGED <<build, cur, i2c, bus, clocked>> /\ ReadsStart' = ReadsStart
      /\ Enable => pc' = "wait" /\ sem' = sem /\ irq'.data = TRUE /\ irq'.all = TRUE
      /\ Take => sem > 0 /\ irq' = irq
      /\ pc \in {"enable", "wait"}
  BY DEF Enable, Take, config, hist, ReadsStart
<1>2. build = "interrupt"
  BY <1>1, Builders DEF IInv, Frame
<1>3. Receives
  BY <1>1, <1>2 DEF Receives, Asking
<1>4. Fetched
  BY <1>3 DEF IInv, Recv
<1>5. Held' = Held /\ sem \in Nat /\ bus.dr \in {0, 1} /\ bus.sh \in {0, 1}
  BY <1>1, Values DEF Held, IInv
<1>6. CASE Enable
  BY <1>1, <1>4, <1>5, <1>6 DEF Fetched, Reading, Unstarted, Nothing
<1>7. CASE Take
  <2>1. sem > 0 /\ ~(sem = 0)
    BY <1>1, <1>5, <1>7
  <2>2. CASE Reading
    BY <1>1, <1>5, <2>1, <2>2 DEF Reading, Fetched
  <2>3. CASE ~ReadsStart /\ Nothing
    <3>1. bus.dr = 1 /\ irq.data /\ irq.all
      BY <2>1, <2>3 DEF Nothing
    <3>2. Nothing'
      BY <1>1, <1>5, <1>7, <2>3, <3>1 DEF Nothing
    <3>. QED
      BY <1>1, <2>3, <3>2 DEF Fetched
  <2>. QED
    BY <1>4, <2>1, <2>2, <2>3 DEF Fetched, Unstarted
<1>. QED
  BY <1>6, <1>7

LEMMA RecvNext ==
  ASSUME IInv, Next, Hazards \subseteq {"fast", "preempt"}
  PROVE  Recv'
<1>1. SUFFICES ASSUME Receives' PROVE Fetched'
  BY DEF Recv
<1>2. CASE Setup
  BY <1>1, <1>2, FetchedSetup
<1>3. CASE ~Setup
  <2>1. Sane'
    BY <1>1 DEF Receives
  <2>2. /\ Sane
        /\ \/ Enable \/ Take \/ Polls \/ Event
           \/ BusStart \/ BusStop \/ (\E acked \in BOOLEAN : AddressSent(acked) \/ ShiftOut(acked)) \/ ShiftIn
    BY <1>3, <2>1, SaneBack
  <2>. QED
    BY <1>1, <2>1, <2>2, FetchedWait, FetchedPoll, FetchedEvent, FetchedBus
<1>. QED
  BY <1>2, <1>3

\* The polling build clears the address first and sets the acknowledgement then.
LEMMA PreAckNext ==
  ASSUME IInv, Next, Hazards \subseteq {"fast", "preempt"}
  PROVE  PreAck'
<1>1. SUFFICES ASSUME ReadsStart, "preempt" \notin Hazards, Sane', pc' = "pAck"
               PROVE  Unacked'
  <2>1. ReadsStart' = ReadsStart
    BY DEF ReadsStart
  <2>. QED
    BY <2>1 DEF PreAck
<1>2. ~Setup
  BY <1>1 DEF Setup
<1>3. /\ Sane
      /\ \/ Enable \/ Take \/ Polls \/ Event
         \/ BusStart \/ BusStop \/ (\E acked \in BOOLEAN : AddressSent(acked) \/ ShiftOut(acked)) \/ ShiftIn
  BY <1>1, <1>2, SaneBack
<1>4. Kinds /\ Wire /\ Accounted /\ Routed /\ build \in {"interrupt", "polling"}
  BY <1>3, Builders DEF IInv, Core, Route
<1>5. ~Enable /\ ~Take
  BY <1>1 DEF Enable, Take
<1>6. ~Event
  <2>1. SUFFICES ASSUME Event PROVE FALSE
    OBVIOUS
  <2>2. pc = "pAck" /\ EventPending
    BY <1>1, <2>1, EventFrame DEF Threadless
  <2>. QED
    BY <1>4, <2>2 DEF IInv, Frame, EventPending
<1>7. CASE Polls
  <2>1. PollAddr
    BY <1>1, <1>7 DEF Polls, PollSb, PollHeader, PollAck, PollTx, PollRx, PollDone, PollFails, CheckErrors, Poll
  <2>2. /\ bus.phase = "addr" /\ LineData /\ bus'.pend = bus.pend /\ bus'.read = bus.read
        /\ bus'.phase = IF bus.read THEN "rx" ELSE "tx"
        /\ Restarts(tenBit /\ ~cur.write /\ ~cur.restart)
        /\ pc = "pAddr" /\ clocked' = clocked
    BY <1>4, <2>1, PollAddrEffect DEF PollAddr, Poll
  <2>3. ~(tenBit /\ ~cur.write /\ ~cur.restart) /\ ~cur.write /\ i2c' = i2c
    BY <1>1, <1>4, <2>1, PollAddrEffect
  <2>4. bus.read /\ build = "polling"
    BY <1>4, <2>2, <2>3, Values DEF Routed, IInv, Frame
  <2>5. Empty /\ clocked = 0 /\ cur.len = cur.full /\ ~i2c.start
    BY <1>4, <2>2 DEF Wire, Accounted, Routed, Asking
  <2>6. i2c.ack /\ ~i2c.stop /\ i2c.pos = "current" /\ bus.pend
    BY <1>3, <2>2, <2>3, <2>4 DEF IInv, Called, Readied, Asking
  <2>7. Held' = 0
    BY <2>2, <2>5 DEF Held, LineData, Empty, Drained
  <2>. QED
    BY <2>2, <2>3, <2>4, <2>5, <2>6, <2>7 DEF Unacked, Restarts
<1>8. CASE BusStart \/ BusStop \/ (\E acked \in BOOLEAN : AddressSent(acked) \/ ShiftOut(acked)) \/ ShiftIn
  <2>1. pc = "pAck"
    BY <1>1, <1>8 DEF BusStart, BusStop, AddressSent, ShiftOut, ShiftIn, Bus, caller
  <2>2. Unacked
    BY <1>1, <1>3, <2>1 DEF IInv, PreAck
  <2>3. bus.phase = "rx" /\ ~i2c.start /\ ~i2c.stop
    BY <2>2 DEF Unacked
  <2>. QED
    BY <1>1, <1>8, <2>1, <2>3 DEF BusStart, BusStop, AddressSent, ShiftOut, ShiftIn
<1>. QED
  BY <1>3, <1>5, <1>6, <1>7, <1>8

\* The bytes a sound read has been clocked for.
Counted == /\ clocked <= cur.full
           /\ bus.phase = "rx" => clocked < cur.full
           /\ bus.phase = "nacked" => clocked = cur.full

LEMMA SaneCounted ==
  ASSUME IInv, Sane, ReadsStart, "preempt" \notin Hazards, ~cur.write, bus.read, ~i2c.start, pc # "pAck"
  PROVE  Counted
<1>0. /\ Kinds /\ Wire /\ Routed /\ build \in {"interrupt", "polling"}
      /\ cur.len \in Nat /\ cur.full \in Nat /\ cur.len <= cur.full /\ clocked \in Nat
      /\ bus.dr \in {0, 1} /\ bus.sh \in {0, 1}
  BY Values, Builders DEF IInv, Route
<1>1. CASE bus.phase \in Asking
  <2>1. clocked = 0 /\ bus.phase \notin {"rx", "nacked"}
    BY <1>0, <1>1 DEF Wire, Asking
  <2>. QED
    BY <1>0, <2>1 DEF Counted
<1>2. CASE bus.phase \notin Asking
  <2>1. build = "polling" => pc \in {"pData", "check", "end"}
    BY <1>0, <1>2 DEF Sane, Working, IInv, Frame, Routed, Asking
  <2>2. Reading
    BY <1>0, <1>2, <2>1 DEF IInv, Recv, Receives, Fetched
  <2>3. PICK h : h = Held
    OBVIOUS
  <2>4. h \in Nat
    BY <1>0, <2>3 DEF Held
  <2>5. clocked = cur.full - cur.len + h /\ (bus.phase = "rx" => cur.len > h) /\ (bus.phase # "rx" => cur.len = h)
    BY <2>2, <2>3 DEF Reading
  <2>. QED
    BY <1>0, <2>4, <2>5 DEF Counted
<1>. QED
  BY <1>1, <1>2

\* A read with which something has gone wrong is clocked for no more.
LEMMA LostEvent ==
  ASSUME IInv, Event, Lost, ~Sane, pc \in Working, ReadsStart, "preempt" \notin Hazards,
         ~cur.write, bus'.read
  PROVE  clocked <= cur.full /\ bus'.phase # "rx"
<1>1. Kinds /\ build \in {"interrupt", "polling"} /\ bus.phase \in Phases
  BY Values, Builders DEF IInv
<1>2. build = "interrupt" /\ EventPending
  BY <1>1, EventFrame DEF IInv, Frame, EventPending
<1>3. ~i2c.start /\ bus.phase \in {"nacked", "free"}
  BY <1>2 DEF IInv, Broken
<1>4. CASE HandleSb \/ HandleHeader \/ HandleAddr
  BY <1>3, <1>4 DEF HandleSb, HandleHeader, HandleAddr
<1>5. CASE TxeStep \/ RxneStep \/ LastStep \/ ThirdStep
  <2>1. bus'.read = bus.read /\ bus'.phase = bus.phase
    BY <1>5 DEF TxeStep, RxneStep, LastStep, ThirdStep, TxeSends, TxeEnds, RxneLast, RxneWaits,
                RxneLeaves, RxneReads, RxneEnds, BtfLast, BtfThird, Taken, LineKept
  <2>. QED
    BY <1>3, <2>1 DEF Lost
<1>. QED
  BY <1>1, <1>4, <1>5, EventSteps

LEMMA LostPoll ==
  ASSUME IInv, Polls, pc' \in Working, ~Sane', ReadsStart, "preempt" \notin Hazards,
         ~cur.write, bus'.read, ~i2c'.start, cur'.full = cur.full
  PROVE  clocked <= cur.full /\ (bus'.phase = "rx" => i2c'.stop /\ clocked < cur.full)
<1>0. /\ Kinds /\ Wire /\ build = "polling" /\ bus.phase \in Phases
      /\ i2c.start \in BOOLEAN /\ i2c.stop \in BOOLEAN
  BY Values, PollFrame DEF IInv, Frame, Kinds, Controls
<1>1. pc \in {"pSb", "pHeader", "pAddr", "pAck", "pData", "check"} /\ pc \in Working
  BY PollFrame DEF Working
<1>2. ASSUME ~Sane, pc # "check"
      PROVE  ~i2c.start /\ bus.phase \in {"nacked", "free"}
  BY <1>0, <1>1, <1>2 DEF IInv, Broken
<1>3. CASE CheckErrors
  <2>1. /\ errors' \subseteq errors /\ (Failed(cur') <=> Failed(cur) \/ errors # {})
        /\ UNCHANGED <<i2c, bus>> /\ pc' \in Working
    BY <1>0, <1>3, CheckEffect DEF CheckErrors
  <2>2. ~Sane
    BY <2>1 DEF Sane
  <2>. QED
    BY <1>1, <2>1, <2>2 DEF IInv, Lost
<1>4. CASE PollFails
  <2>1. /\ i2c'.start = i2c.start /\ i2c'.stop = TRUE /\ bus' = bus /\ pc # "pAck"
    BY <1>0, <1>4, PollFailsEffect DEF PollFails, Positioned
  <2>2. CASE Sane
    <3>1. Counted
      BY <2>1, <2>2, SaneCounted
    <3>. QED
      BY <2>1, <3>1 DEF Counted
  <2>3. CASE ~Sane
    BY <1>1, <2>1, <2>3 DEF IInv, Lost
  <2>. QED
    BY <2>2, <2>3
<1>5. CASE ~CheckErrors /\ ~PollFails
  <2>1. ~Sane
    BY <1>0, <1>5, Blameless
  <2>2. pc # "check"
    BY <1>5 DEF Polls, PollSb, PollHeader, PollAddr, PollAck, PollTx, PollRx, PollDone, Poll
  <2>3. ~i2c.start /\ bus.phase \in {"nacked", "free"}
    BY <1>2, <2>1, <2>2
  <2>4. PollAck \/ PollTx \/ PollRx \/ PollDone
    BY <1>5, <2>3 DEF Polls, PollSb, PollHeader, PollAddr
  <2>5. bus'.read = bus.read /\ bus'.phase = bus.phase
    <3>1. CASE PollAck \/ PollDone
      BY <3>1 DEF PollAck, PollDone
    <3>2. CASE PollTx
      BY <1>0, <3>2, PollTxEffect DEF LineKept
    <3>3. CASE PollRx
      BY <1>0, <3>3, PollRxEffect DEF LineKept, Taken
    <3>. QED
      BY <2>4, <3>1, <3>2, <3>3
  <2>. QED
    BY <1>1, <2>1, <2>3, <2>5 DEF IInv, Lost
<1>. QED
  BY <1>3, <1>4, <1>5

LEMMA LostHardware ==
  ASSUME IInv, Hardware, Hazards \subseteq {"fast", "preempt"}, pc \in Working, ~Sane', ReadsStart,
         "preempt" \notin Hazards, ~cur.write, bus'.read, ~i2c'.start
  PROVE  clocked' <= cur.full /\ (bus'.phase = "rx" => i2c'.stop /\ clocked' < cur.full)
<1>0. /\ Kinds /\ Wire /\ bus.phase \in Phases /\ i2c.en
      /\ i2c.start \in BOOLEAN /\ i2c.stop \in BOOLEAN /\ clocked \in Nat /\ cur.full \in Nat
      /\ bus.read \in BOOLEAN
  BY Values DEF IInv, Frame, Kinds, Controls
<1>1. UNCHANGED <<pc, cur>>
  BY HardwareFrame DEF Threadless
<1>2. CASE BusStart
  BY <1>0, <1>2, BusStartEffect
<1>3. CASE BusStop
  <2>1. bus' = Released(bus) /\ i2c' = StopDone(i2c) /\ errors' = errors /\ clocked' = clocked
    BY <1>3 DEF BusStop
  <2>2. bus'.phase = "free" /\ bus'.read = bus.read
    BY <1>0, <2>1 DEF Released, Kinds, Lines
  <2>3. ~i2c.start
    BY <1>0, <2>1, StopDoneEffect
  <2>4. ~Sane
    BY <1>1, <2>1 DEF Sane
  <2>. QED
    BY <2>1, <2>2, <2>3, <2>4 DEF IInv, Lost
<1>4. ASSUME NEW acked \in BOOLEAN, AddressSent(acked)
      PROVE  clocked' = 0 /\ bus'.phase # "rx"
  <2>1. bus.phase \in {"head", "address"} /\ clocked' = clocked
    BY <1>4 DEF AddressSent, hist
  <2>2. clocked = 0
    BY <1>0, <2>1 DEF Wire, Asking
  <2>3. CASE acked
    BY <1>0, <1>4, <2>1, <2>2, <2>3, AddressEffect
  <2>4. CASE ~acked
    BY <1>0, <1>4, <2>1, <2>2, <2>4, AddressEffect
  <2>. QED
    BY <2>3, <2>4
<1>5. ASSUME NEW acked \in BOOLEAN, ShiftOut(acked)
      PROVE  FALSE
  BY <1>0, <1>5, ShiftOutEffect DEF Wire
<1>6. CASE ShiftIn
  <2>1. /\ bus.phase = "rx" /\ bus.read /\ clocked' = clocked + 1 /\ errors' = errors
        /\ i2c.stop => bus'.phase = "free" /\ i2c' = StopDone(i2c)
        /\ ~i2c.stop => i2c' = i2c
    BY <1>0, <1>6, ShiftInEffect DEF Wire, ShiftIn
  <2>2. ~i2c.start
    BY <1>0, <2>1, StopDoneEffect
  <2>3. ~Sane
    BY <1>1, <2>1 DEF Sane
  <2>4. i2c.stop /\ clocked < cur.full
    BY <2>1, <2>2, <2>3 DEF IInv, Lost
  <2>. QED
    BY <1>0, <2>1, <2>4
<1>7. ASSUME NEW e \in {"arlost", "buserr", "ouf"}, Fault(e)
      PROVE  clocked' <= cur.full /\ bus'.phase # "rx"
  <2>1. /\ pc \in {"wait", "pSb", "pHeader", "pAddr", "pData"} /\ clocked' = clocked
        /\ bus' = Released(bus) /\ i2c' = StopDone(i2c)
    BY <1>0, <1>7, FaultEffect DEF Fault
  <2>2. bus'.phase = "free" /\ bus'.read = bus.read
    BY <1>0, <2>1 DEF Released, Kinds, Lines
  <2>3. ~i2c.start
    BY <1>0, <2>1, StopDoneEffect
  <2>4. CASE Sane
    BY <1>0, <2>1, <2>2, <2>3, <2>4, SaneCounted DEF Counted
  <2>5. CASE ~Sane
    BY <2>1, <2>2, <2>3, <2>5 DEF IInv, Lost
  <2>. QED
    BY <2>2, <2>4, <2>5
<1>. QED
  BY <1>0, <1>2, <1>3, <1>4, <1>5, <1>6, <1>7 DEF Hardware, Data

LEMMA LostNext ==
  ASSUME IInv, Next, Hazards \subseteq {"fast", "preempt"}
  PROVE  Lost'
<1>1. SUFFICES ASSUME ReadsStart, "preempt" \notin Hazards, pc' \in Working, ~Sane',
                      ~cur'.write, bus'.read, ~i2c'.start
               PROVE  clocked' <= cur'.full /\ (bus'.phase = "rx" => i2c'.stop /\ clocked' < cur'.full)
  <2>1. ReadsStart' = ReadsStart /\ Working' = Working
    BY DEF ReadsStart, Working
  <2>. QED
    BY <2>1 DEF Lost
<1>2. ~Setup
  BY <1>1, SetupStarts
<1>3. cur'.full = cur.full /\ ~cur.write
  BY <1>1, <1>2, SameMessage DEF IInv
<1>4. CASE (\E ms \in Transfers : Call(ms)) \/ (\E ten \in BOOLEAN : Configure(ten))
           \/ SemReset \/ TimedOut \/ Reset \/ EndMsg
  BY <1>1, <1>4, Builders DEF Call, Configure, SemReset, TimedOut, Reset, EndMsg, Working, IInv, caller
<1>5. CASE Enable \/ Take
  <2>1. /\ UNCHANGED <<cur, i2c, bus, errors, clocked>> /\ pc \in Working
    BY <1>5 DEF Enable, Take, hist, Working
  <2>. QED
    BY <1>1, <2>1 DEF IInv, Lost, Sane
<1>6. CASE Event
  <2>1. pc \in Working /\ clocked' = clocked
    BY <1>1, <1>6, EventFrame DEF Threadless
  <2>2. ~Sane
    BY <1>1, <1>6, Blameless DEF IInv
  <2>. QED
    BY <1>1, <1>3, <1>6, <2>1, <2>2, LostEvent DEF IInv
<1>7. CASE HandleError
  <2>1. /\ UNCHANGED <<bus, clocked, pc>> /\ errors # {} /\ irq.all
    BY <1>7 DEF HandleError, ErrorPending, hist, caller
  <2>2. build = "interrupt" /\ ~Sane
    BY <2>1, Builders DEF IInv, Frame, Sane
  <2>3. ~i2c.start /\ bus.phase \in {"nacked", "free"}
    BY <1>1, <2>1, <2>2 DEF IInv, Broken
  <2>. QED
    BY <1>1, <1>3, <2>1, <2>2, <2>3 DEF IInv, Lost
<1>8. CASE Polls
  <2>1. clocked' = clocked
    BY <1>8, PollFrame
  <2>. QED
    BY <1>1, <1>3, <1>8, <2>1, LostPoll
<1>9. CASE Hardware
  <2>1. pc \in Working
    BY <1>1, <1>9, HardwareFrame DEF Threadless
  <2>. QED
    BY <1>1, <1>3, <1>9, <2>1, LostHardware
<1>. QED
  BY <1>2, <1>4, <1>5, <1>6, <1>7, <1>8, <1>9 DEF Next, Thread, Polls

LEMMA IInvInit == Init => IInv
<1>1. SUFFICES ASSUME Init PROVE IInv
  OBVIOUS
<1>2. /\ pc = "idle" /\ msgs = <<>> /\ cur = NoMsg /\ sem = 0 /\ irq = IrqOff /\ i2c = IdleI2c
      /\ bus = FreeBus /\ errors = {} /\ clocked = 0 /\ build \in {"interrupt", "polling"}
  BY <1>1, BuildAssumption DEF Init
<1>3. Kinds
  BY <1>1, KindsInit
<1>4. pc \notin Working
  BY <1>2 DEF Working
<1>5. Frame
  BY <1>2, <1>4 DEF Frame, IrqOff
<1>6. Wire
  BY <1>2 DEF Wire, FreeBus, Asking, Empty, Drained
<1>7. ~EventPending
  BY <1>2 DEF EventPending, IrqOff
<1>8. Resting
  BY <1>2, <1>7 DEF Resting, Pausing, FreeBus, IdleI2c, Asking, Empty, Drained
<1>9. Messages
  <2>1. Len(msgs) = 0
    BY <1>2
  <2>2. \A n \in 1 .. Len(msgs) : FALSE
    BY <2>1
  <2>. QED
    BY <1>4, <2>2 DEF Messages
<1>10. Core /\ Route /\ Broken /\ Called /\ Recv /\ PreAck /\ Lost
  BY <1>2, <1>4 DEF Core, Route, Broken, Called, Recv, Receives, PreAck, Lost, Sane
<1>. QED
  BY <1>3, <1>5, <1>6, <1>8, <1>9, <1>10 DEF IInv

LEMMA IInvNext ==
  ASSUME IInv, [Next]_vars, Hazards \subseteq {"fast", "preempt"}
  PROVE  IInv'
<1>1. CASE Next
  <2>1. Kinds' /\ Frame' /\ Wire'
    BY <1>1, KindsNext, FrameNext, WireNext DEF IInv
  <2>2. Resting' /\ Messages'
    BY <1>1, RestingNext, MessagesNext
  <2>3. Core' /\ Route' /\ Broken'
    BY <1>1, CoreNext, RouteNext, BrokenNext
  <2>4. Called' /\ Recv' /\ PreAck' /\ Lost'
    BY <1>1, CalledNext, RecvNext, PreAckNext, LostNext
  <2>. QED
    BY <2>1, <2>2, <2>3, <2>4 DEF IInv
<1>2. CASE UNCHANGED vars
  <2>0. UNCHANGED <<build, tenBit, pc, msgs, result, cur, sem, irq, i2c, bus, errors, moved, clocked, owed>>
    BY <1>2 DEF vars, config, caller, hist
  <2>1. Kinds' /\ Frame' /\ Wire'
    BY <2>0 DEF IInv, Kinds, Frame, Wire, Working, Asking, Empty, Drained
  <2>2. /\ Sane' = Sane /\ Held' = Held /\ EventPending' = EventPending /\ ReadsStart' = ReadsStart
        /\ Empty' = Empty /\ Drained' = Drained
    BY <2>0 DEF Sane, Held, EventPending, TDC, TDBE, RDBF, ReadsStart, Failed, Empty, Drained, Working
  <2>3. Resting' /\ Messages'
    BY <2>0, <2>2 DEF IInv, Resting, Messages, Pausing, Asking, Working
  <2>4. Core' /\ Route' /\ Broken'
    BY <2>0, <2>2 DEF IInv, Core, Accounted, Route, Routed, Broken, Asking, Working, Failed
  <2>5. Called'
    BY <2>0, <2>2 DEF IInv, Called, Readied, Asking
  <2>6. Reading' = Reading /\ Unstarted' = Unstarted /\ Nothing' = Nothing /\ Receives' = Receives
    BY <2>0, <2>2 DEF Reading, Unstarted, Nothing, Receives, Asking
  <2>7. Recv' /\ PreAck' /\ Lost'
    BY <2>0, <2>2, <2>6 DEF IInv, Recv, Fetched, PreAck, Unacked, Lost, Working
  <2>. QED
    BY <2>1, <2>3, <2>4, <2>5, <2>7 DEF IInv
<1>. QED
  BY <1>1, <1>2

-----------------------------------------------------------------------------

\* A message that ends without an error has reached the target, or the buffer, to
\* its last byte, in either build, with either kind of address and whatever the
\* messages of a transfer are: where no interrupt finds the bus between two
\* STARTs and no error comes between two messages.  (msg_end, after handle_txe,
\* handle_rxne and handle_btf, or after the polling loops.)
THEOREM SuccessTrue ==
  ASSUME Hazards \subseteq {"fast", "preempt"}
  PROVE  Spec => SuccessMeansDone
<1>1. Spec => []IInv
  BY IInvInit, IInvNext, PTL DEF Spec
<1>2. IInv /\ [Next]_vars
        => [pc = "end" /\ pc' \in {"init", "idle"} /\ result' # "eio" => moved = cur.full /\ cur.len = 0]_vars
  <2>1. SUFFICES ASSUME IInv, Next, pc = "end", pc' \in {"init", "idle"}, result' # "eio"
                 PROVE  moved = cur.full /\ cur.len = 0
    OBVIOUS
  <2>2. CASE EndMsg
    <3>1. ~Failed(cur) /\ ~IrqPending
      BY <2>1, <2>2, EndEffect DEF EndsFailed, EndsNext, EndsLast, EndMsg, IInv
    <3>. QED
      BY <2>1, <3>1, EndsClean
  <2>3. CASE Event \/ HandleError \/ Hardware
    BY <2>1, <2>3, EventFrame, HardwareFrame DEF Threadless, HandleError, caller
  <2>4. CASE ~EndMsg /\ ~Event /\ ~HandleError /\ ~Hardware
    BY <2>1, <2>4, PollFrame DEF Next, Thread, Polls, Call, Configure, SemReset, Setup, Enable, Take, TimedOut, Reset
  <2>. QED
    BY <2>2, <2>3, <2>4
<1>. QED
  BY <1>1, <1>2, PTL DEF Spec, SuccessMeansDone

\* A target is clocked for the bytes asked for and for no more, and the last of
\* them is the one not acked, for a read of any length, however it is split
\* between the data register and the shift register when an interrupt or a poll
\* comes to it: where every read asks for a byte and begins with a START, and no
\* byte comes in between the clearing of the address and the ack of the polling
\* build.  (handle_addr, handle_rxne, handle_btf; at32_i2c_msg_read.)
THEOREM LastByteRefused ==
  ASSUME Hazards \subseteq {"fast"}, ReadsStart
  PROVE  Spec => []LastByteNacked
<1>0. Hazards \subseteq {"fast", "preempt"} /\ "preempt" \notin Hazards
  OBVIOUS
<1>1. Spec => []IInv
  BY <1>0, IInvInit, IInvNext, PTL DEF Spec
<1>2. IInv => LastByteNacked
  <2>1. SUFFICES ASSUME IInv, pc \in {"wait", "pAck", "pData", "check", "end"}, bus.read, ~cur.write, ~i2c.start
                 PROVE  /\ clocked <= cur.full
                        /\ bus.phase = "nacked" /\ errors = {} /\ ~Failed(cur) => clocked = cur.full
    BY DEF LastByteNacked
  <2>2. pc \in Working
    BY <2>1 DEF Working
  <2>3. CASE Sane /\ pc # "pAck"
    BY <1>0, <2>1, <2>3, SaneCounted DEF Counted
  <2>4. CASE Sane /\ pc = "pAck"
    BY <1>0, <2>1, <2>4, Values DEF IInv, PreAck, Unacked
  <2>5. CASE ~Sane
    BY <1>0, <2>1, <2>2, <2>5 DEF IInv, Lost, Sane
  <2>. QED
    BY <2>3, <2>4, <2>5
<1>. QED
  BY <1>1, <1>2, PTL

-----------------------------------------------------------------------------
(* Where the bus is given up.                                              *)

\* Only the last message asks for a STOP, and a read of a single byte, which ends in
\* one in any case, does so too.
StopsLast ==
  \A ms \in Transfers : \A n \in 1 .. Len(ms) :
    (ms[n].stop => n = Len(ms)) /\ (~ms[n].write /\ ms[n].len = 1 => ms[n].stop)

\* So it is for the messages to come and the one on the bus.
Listed ==
  /\ \A n \in 1 .. Len(msgs) :
       (msgs[n].stop => n = Len(msgs)) /\ (~msgs[n].write /\ msgs[n].len = 1 => msgs[n].stop)
  /\ pc \in Working => (cur.stop => Len(msgs) = 1) /\ (~cur.write /\ cur.full = 1 => cur.stop)

\* A STOP still to come is one of the transfer before.
Owing ==
  /\ owed => i2c.stop /\ pc = "idle"
  /\ pc \in {"init", "setup"} => ~i2c.stop

\* Its data are through, or will be without another step of the driver; by then the
\* STOP has been asked for.
Finished == sem > 0 \/ pc \in {"check", "end"} \/ (~cur.write /\ cur.len = 0)
Stopped  == Sane => /\ i2c.stop => cur.stop
                    /\ cur.stop /\ Finished => i2c.stop \/ bus.phase = "free"

StopInv == IInv /\ Listed /\ Owing /\ Stopped

LEMMA ListedNext ==
  ASSUME IInv, Listed, Next, StopsLast
  PROVE  Listed'
<1>0. Kinds /\ msgs \in Seq(Message) /\ Working' = Working
  BY DEF IInv, Kinds, Working
<1>1. ASSUME NEW ms \in Transfers, Call(ms)
      PROVE  Listed'
  <2>1. msgs' = [ms EXCEPT ![1].restart = TRUE] /\ pc' = "init"
    BY <1>1 DEF Call
  <2>2. /\ Len(msgs') = Len(ms)
        /\ \A n \in 1 .. Len(msgs') : /\ msgs'[n].len = ms[n].len /\ msgs'[n].write = ms[n].write
                                      /\ msgs'[n].stop = ms[n].stop
    <3>1. PICK q : q = [ms EXCEPT ![1].restart = TRUE]
      OBVIOUS
    <3>2. Len(q) = Len(ms) /\ ms \in Seq(Message) /\ OnlyRestarted(q, ms)
      BY <3>1, FirstRestart
    <3>. QED
      BY <2>1, <3>1, <3>2 DEF OnlyRestarted
  <2>3. \A n \in 1 .. Len(ms) : (ms[n].stop => n = Len(ms)) /\ (~ms[n].write /\ ms[n].len = 1 => ms[n].stop)
    BY <1>1 DEF StopsLast
  <2>. QED
    BY <2>1, <2>2, <2>3 DEF Listed, Working
<1>2. CASE Setup
  <2>0. msgs # <<>>
    BY <1>0, <1>2 DEF Kinds, Setup
  <2>1. PICK m : m = Head(msgs)
    OBVIOUS
  <2>2. /\ msgs' = msgs /\ cur'.full = m.len /\ cur'.write = m.write /\ cur'.stop = m.stop
        /\ m \in Message
    BY <1>0, <1>2, <2>1, SetupEffect DEF Setup
  <2>3. m = msgs[1] /\ 1 \in 1 .. Len(msgs)
    BY <1>0, <2>0, <2>1, TailOf
  <2>4. (m.stop => Len(msgs) = 1) /\ (~m.write /\ m.len = 1 => m.stop)
    BY <2>3 DEF Listed
  <2>. QED
    BY <2>2, <2>4 DEF Listed
<1>3. CASE EndMsg
  <2>0. msgs # <<>>
    BY <1>0, <1>3 DEF Kinds, EndMsg
  <2>1. pc' \in {"init", "idle", "reset"} /\ (msgs' = <<>> \/ msgs' = Tail(msgs))
    BY <1>0, <1>3, EndEffect DEF EndsFailed, EndsNext, EndsLast
  <2>2. pc' \notin Working /\ Len(<<>>) = 0
    BY <2>1 DEF Working
  <2>3. CASE msgs' = <<>>
    BY <2>2, <2>3 DEF Listed
  <2>4. CASE msgs' = Tail(msgs)
    <3>1. Len(Tail(msgs)) = Len(msgs) - 1 /\ Len(msgs) \in Nat
      BY <1>0, <2>0, TailOf
    <3>2. ASSUME NEW n \in 1 .. Len(Tail(msgs))
          PROVE  /\ Tail(msgs)[n].stop => n = Len(Tail(msgs))
                 /\ ~Tail(msgs)[n].write /\ Tail(msgs)[n].len = 1 => Tail(msgs)[n].stop
      <4>1. n + 1 \in 1 .. Len(msgs) /\ Tail(msgs)[n] = msgs[n + 1]
        BY <1>0, <2>0, <3>1, TailOf
      <4>2. (msgs[n + 1].stop => n + 1 = Len(msgs))
            /\ (~msgs[n + 1].write /\ msgs[n + 1].len = 1 => msgs[n + 1].stop)
        BY <4>1 DEF Listed
      <4>3. n + 1 = Len(msgs) => n = Len(Tail(msgs))
        BY <3>1
      <4>. QED
        BY <4>1, <4>2, <4>3
    <3>. QED
      BY <2>2, <2>4, <3>2 DEF Listed
  <2>. QED
    BY <2>1, <2>3, <2>4
<1>4. CASE Reset
  <2>1. Len(<<>>) = 0 /\ msgs' = <<>> /\ pc' = "idle"
    BY <1>4 DEF Reset
  <2>. QED
    BY <2>1 DEF Listed, Working
<1>5. CASE ~Setup /\ ~EndMsg /\ ~Reset /\ ~\E ms \in Transfers : Call(ms)
  <2>1. cur'.full = cur.full /\ cur'.write = cur.write /\ cur'.stop = cur.stop
    BY <1>0, <1>5, SameMessage
  <2>2. msgs' = msgs /\ (pc' \in Working => pc \in Working)
    BY <1>5, PollFrame, EventFrame, HardwareFrame
    DEF Next, Thread, Polls, Configure, caller, SemReset, Enable, Take, TimedOut, HandleError,
        Threadless, Working
  <2>. QED
    BY <1>0, <2>1, <2>2 DEF Listed
<1>. QED
  BY <1>1, <1>2, <1>3, <1>4, <1>5

LEMMA OwingNext ==
  ASSUME StopInv, Next, Hazards \subseteq {"preempt"}
  PROVE  Owing'
<1>0. /\ Kinds /\ Listed /\ i2c.stop \in BOOLEAN /\ owed \in BOOLEAN /\ i2c.en \in BOOLEAN
      /\ (owed => i2c.stop /\ pc = "idle") /\ (pc \in {"init", "setup"} => ~i2c.stop)
      /\ Hazards \subseteq {"fast", "preempt"}
  BY DEF StopInv, IInv, Kinds, Controls, Owing
<1>1. ASSUME NEW ms \in Transfers, Call(ms)
      PROVE  Owing'
  BY <1>0, <1>1 DEF Call, hist, Owing
<1>2. CASE \E ten \in BOOLEAN : Configure(ten)
  BY <1>2 DEF Configure, caller, Owing
<1>3. CASE SemReset \/ Enable \/ Take \/ TimedOut
  BY <1>0, <1>3 DEF SemReset, Enable, Take, TimedOut, hist, Owing
<1>4. CASE Setup
  <2>1. owed' = owed /\ pc = "setup" /\ pc' \in {"enable", "pSb", "pData"}
    BY <1>4 DEF Setup
  <2>. QED
    BY <1>0, <2>1 DEF Owing
<1>5. CASE Reset
  BY <1>5 DEF Reset, Owing
<1>6. CASE EndMsg
  <2>1. pc = "end" /\ ~IrqPending
    BY <1>6 DEF EndMsg
  <2>2. CASE EndsFailed
    BY <1>0, <2>1, <2>2 DEF EndsFailed, Owing
  <2>3. CASE EndsNext
    <3>1. Sane
      BY <2>1, <2>3, EndsClean DEF StopInv, EndsNext
    <3>2. ~cur.stop
      BY <1>0, <2>3, <3>1 DEF Listed, Sane, EndsNext
    <3>3. ~i2c.stop
      BY <3>1, <3>2 DEF StopInv, Stopped
    <3>. QED
      BY <2>3, <3>2, <3>3 DEF EndsNext, Owing
  <2>4. CASE EndsLast
    <3>1. Sane
      BY <2>1, <2>4, EndsClean DEF StopInv, EndsLast
    <3>2. cur.stop => i2c.stop \/ bus.phase = "free"
      BY <2>1, <3>1 DEF StopInv, Stopped, Finished
    <3>3. i2c'.stop = (i2c.stop /\ bus.phase # "free")
      BY <1>0, <2>4, FinishEffect DEF EndsLast
    <3>. QED
      BY <2>4, <3>2, <3>3 DEF EndsLast, Owing
  <2>. QED
    BY <1>0, <1>6, <2>2, <2>3, <2>4, EndEffect
<1>7. CASE Polls
  <2>1. pc \notin {"idle", "init", "setup"} /\ pc' \notin {"idle", "init", "setup"} /\ owed' = owed
    BY <1>7, PollFrame
  <2>. QED
    BY <1>0, <2>1 DEF Owing
<1>8. CASE Event \/ HandleError
  <2>1. owed' = owed /\ pc' = pc
    BY <1>8, EventFrame DEF Threadless, HandleError, hist, caller
  <2>2. pc \notin {"idle", "init", "setup"}
    <3>1. CASE Event
      BY <3>1, EventFrame DEF StopInv, IInv, Resting, Pausing
    <3>2. CASE HandleError
      <4>1. errors # {}
        BY <3>2 DEF HandleError, ErrorPending
      <4>. QED
        BY <4>1 DEF StopInv, IInv, Resting, Pausing
    <3>. QED
      BY <1>8, <3>1, <3>2
  <2>. QED
    BY <1>0, <2>1, <2>2 DEF Owing
<1>9. CASE Hardware
  <2>1. pc' = pc
    BY <1>9, HardwareFrame DEF Threadless
  <2>2. CASE UNCHANGED <<i2c, owed>>
    BY <1>0, <2>1, <2>2 DEF Owing
  <2>3. CASE i2c' = StopDone(i2c) /\ owed' = FALSE
    BY <1>0, <2>1, <2>3, StopDoneEffect DEF Owing
  <2>4. CASE BusStart
    <3>1. i2c'.stop = i2c.stop /\ owed' = owed
      BY <1>0, <2>4, BusStartEffect DEF BusStart
    <3>. QED
      BY <1>0, <2>1, <3>1 DEF Owing
  <2>5. CASE BusStop
    BY <2>3, <2>5 DEF BusStop
  <2>6. ASSUME NEW acked \in BOOLEAN, AddressSent(acked) \/ ShiftOut(acked)
        PROVE  Owing'
    BY <2>2, <2>6 DEF AddressSent, ShiftOut, hist
  <2>7. CASE ShiftIn
    BY <1>0, <2>2, <2>3, <2>7, ShiftInEffect
  <2>8. ASSUME NEW e \in {"arlost", "buserr", "ouf"}, Fault(e)
        PROVE  Owing'
    BY <1>0, <2>3, <2>8, FaultEffect
  <2>. QED
    BY <1>9, <2>4, <2>5, <2>6, <2>7, <2>8 DEF Hardware, Data
<1>. QED
  BY <1>1, <1>2, <1>3, <1>4, <1>5, <1>6, <1>7, <1>8, <1>9 DEF Next, Thread, Polls

LEMMA StoppedStep ==
  ASSUME Sane, Stopped, cur'.stop = cur.stop, i2c'.stop => i2c.stop \/ cur.stop,
         \/ cur.stop => i2c'.stop
         \/ ~Finished'
         \/ bus'.phase = "free"
         \/ /\ Finished' => Finished
            /\ i2c.stop => i2c'.stop
            /\ bus.phase = "free" => bus'.phase = "free"
  PROVE  Stopped'
BY DEF Stopped

\* A message that is being addressed is not at its end.
LEMMA NotYet ==
  ASSUME Accounted, ReadsStart, Messages, pc \in Working, i2c.start \/ bus.phase \in Asking
  PROVE  ~Finished /\ cur.len = cur.full /\ sem = 0 /\ pc \notin {"check", "end"}
         /\ (~cur.write => cur.full > 0)
BY DEF Accounted, Messages, Finished

LEMMA StoppedEvent ==
  ASSUME StopInv, Event, Sane, cur'.stop = cur.stop, cur'.full = cur.full, cur'.write = cur.write,
         Hazards \subseteq {"preempt"}, ReadsStart,
         i2c'.start \/ bus'.phase \in Asking => ~Finished'
  PROVE  Stopped'
<1>0. /\ IInv /\ Kinds /\ Wire /\ Stopped /\ Accounted /\ Messages /\ Listed /\ pc \in Working
      /\ cur.len \in Nat /\ cur.full \in Nat /\ i2c.stop \in BOOLEAN /\ i2c.start \in BOOLEAN
      /\ bus.read \in BOOLEAN /\ cur.write \in BOOLEAN /\ tenBit \in BOOLEAN /\ sem \in Nat
      /\ Hazards \subseteq {"fast", "preempt"}
  BY Values DEF StopInv, IInv, Core, Sane, Kinds, Controls
<1>1. pc' = pc /\ (HandleSb \/ HandleHeader \/ HandleAddr \/ DataStep)
  BY <1>0, EventFrame, DataCases DEF Threadless
<1>2. CASE HandleSb \/ HandleHeader
  <2>1. bus'.phase \in Asking /\ i2c'.stop = i2c.stop
    <3>1. CASE HandleSb
      BY <1>0, <3>1, SbEffect DEF Positioned, Asking
    <3>2. CASE HandleHeader
      BY <1>0, <3>2, HeaderEffect DEF HandleHeader, Asking
    <3>. QED
      BY <1>2, <3>1, <3>2
  <2>. QED
    BY <1>0, <2>1, StoppedStep
<1>3. CASE HandleAddr
  <2>1. bus.phase \in Asking /\ sem' = sem
    BY <1>3 DEF HandleAddr, Asking
  <2>2. cur.len = cur.full /\ sem = 0 /\ pc \notin {"check", "end"} /\ (~cur.write => cur.full > 0)
    BY <1>0, <2>1, NotYet
  <2>3. cur'.len = cur.len
    BY <1>0, <1>3, AddrEffect DEF Restarts
  <2>4. ~Finished'
    <3>1. ~(sem' > 0)
      BY <2>1, <2>2
    <3>2. ~cur'.write => cur'.len > 0
      BY <2>2, <2>3
    <3>3. ~cur'.write => ~(cur'.len = 0)
      BY <3>2
    <3>. QED
      BY <1>1, <2>2, <3>1, <3>3 DEF Finished
  <2>5. i2c'.stop => i2c.stop \/ cur.stop
    <3>1. CASE Starting
      BY <3>1 DEF Starting
    <3>2. CASE cur.write /\ i2c' = i2c
      BY <3>2
    <3>3. CASE ~cur.write /\ i2c'.stop = (i2c.stop \/ cur.len < 2)
      <4>1. cur.len < 2 => cur.full = 1
        BY <1>0, <2>2, <3>3
      <4>2. cur.len < 2 => cur.stop
        BY <1>0, <3>3, <4>1 DEF Listed
      <4>. QED
        BY <3>3, <4>2
    <3>. QED
      BY <1>0, <1>3, <3>1, <3>2, <3>3, AddrEffect DEF Positioned
  <2>. QED
    BY <1>0, <2>4, <2>5, StoppedStep
<1>4. CASE DataStep
  <2>0. bus'.phase = bus.phase
    BY <1>0, <1>4, DataKeeps
  <2>1. CASE Stopping
    <3>1. i2c'.stop = (i2c.stop \/ cur.stop)
      BY <2>1 DEF Stopping
    <3>. QED
      BY <1>0, <3>1, StoppedStep
  <2>2. CASE Sending /\ TxeSends
    <3>1. i2c' = i2c /\ sem' = sem /\ cur.write
      BY <2>2 DEF TxeSends, Sending
    <3>2. Finished' => Finished
      BY <1>1, <3>1 DEF Finished
    <3>. QED
      BY <1>0, <2>0, <3>1, <3>2, StoppedStep
  <2>3. CASE RxneLast
    <3>1. i2c'.stop = (i2c.stop \/ cur.stop)
      BY <2>3 DEF RxneLast
    <3>. QED
      BY <1>0, <3>1, StoppedStep
  <2>4. CASE RxneWaits \/ RxneLeaves
    <3>1. i2c'.stop = i2c.stop /\ cur' = cur /\ sem' = sem
      BY <2>4 DEF RxneWaits, RxneLeaves
    <3>2. Finished' => Finished
      BY <1>1, <3>1 DEF Finished
    <3>. QED
      BY <1>0, <2>0, <3>1, <3>2, StoppedStep
  <2>5. CASE RxneReads \/ BtfThird
    <3>1. i2c'.stop = i2c.stop /\ sem' = sem /\ cur.len > 2 /\ cur'.len = cur.len - 1
      BY <1>0, <2>5 DEF RxneReads, BtfThird, Less
    <3>2. ~(cur'.len = 0)
      BY <1>0, <3>1
    <3>3. Finished' => Finished
      BY <1>1, <3>1, <3>2 DEF Finished
    <3>. QED
      BY <1>0, <2>0, <3>1, <3>3, StoppedStep
  <2>. QED
    BY <1>4, <2>1, <2>2, <2>3, <2>4, <2>5 DEF DataStep, TxeEnds, RxneEnds, BtfLast
<1>. QED
  BY <1>1, <1>2, <1>3, <1>4

LEMMA StoppedPoll ==
  ASSUME StopInv, Polls, Sane, Sane', cur'.stop = cur.stop, cur'.full = cur.full, cur'.write = cur.write,
         Hazards \subseteq {"preempt"}, ReadsStart,
         i2c'.start \/ bus'.phase \in Asking => ~Finished'
  PROVE  Stopped'
<1>0. /\ IInv /\ Kinds /\ Wire /\ Stopped /\ Accounted /\ Messages /\ pc \in Working
      /\ cur.len \in Nat /\ cur.full \in Nat /\ i2c.stop \in BOOLEAN /\ i2c.start \in BOOLEAN
      /\ bus.read \in BOOLEAN /\ cur.write \in BOOLEAN /\ tenBit \in BOOLEAN
  BY Values DEF StopInv, IInv, Core, Sane, Kinds, Controls
<1>1. sem' = sem /\ sem = 0 /\ ~(sem' > 0)
  BY <1>0, PollFrame, Builders DEF IInv, Frame
<1>2. CASE PollSb \/ PollHeader
  <2>1. bus'.phase \in Asking /\ i2c'.stop = i2c.stop
    BY <1>0, <1>2, PollSbEffect, HeaderEffect DEF PollSb, PollHeader, Asking
  <2>. QED
    BY <1>0, <2>1, StoppedStep
<1>3. CASE PollAddr
  <2>1. bus.phase \in Asking /\ cur'.len = cur.len /\ pc' \notin {"check", "end"}
    BY <1>0, <1>3, PollAddrEffect DEF Asking, Restarts
  <2>2. cur.len = cur.full /\ (~cur.write => cur.full > 0)
    BY <1>0, <2>1, NotYet
  <2>3. ~cur'.write => ~(cur'.len = 0)
    BY <1>0, <2>1, <2>2
  <2>4. ~Finished'
    BY <1>1, <2>1, <2>3 DEF Finished
  <2>5. i2c'.stop => i2c.stop
    BY <1>0, <1>3, PollAddrEffect DEF Starting
  <2>. QED
    BY <1>0, <2>4, <2>5, StoppedStep
<1>4. CASE PollAck
  <2>1. i2c'.stop = i2c.stop /\ cur' = cur /\ bus' = bus /\ pc' = "pData"
    BY <1>0, <1>4, PollAckEffect DEF PollAck, Poll, Positioned
  <2>2. Finished' => Finished
    BY <1>1, <2>1 DEF Finished
  <2>. QED
    BY <1>0, <2>1, <2>2, StoppedStep
<1>5. CASE PollTx
  <2>1. i2c' = i2c /\ cur.write /\ pc' = "pData"
    BY <1>5 DEF PollTx, Poll
  <2>2. ~Finished'
    BY <1>1, <2>1 DEF Finished
  <2>. QED
    BY <1>0, <2>1, <2>2, StoppedStep
<1>6. CASE PollRx
  <2>1. cur.len > 0 /\ pc' = "pData"
    BY <1>6 DEF PollRx, Poll
  <2>2. CASE cur.len \in {1, 2}
    <3>1. i2c'.stop = (i2c.stop \/ cur.stop)
      BY <1>0, <1>6, <2>2, PollRxEffect DEF Stopping
    <3>. QED
      BY <1>0, <3>1, StoppedStep
  <2>3. CASE cur.len > 2
    <3>1. cur.len = 3 \/ cur.len > 3
      BY <1>0, <2>3
    <3>2. i2c'.stop = i2c.stop
      BY <1>0, <1>6, <3>1, PollRxEffect DEF Positioned
    <3>3. cur'.len = cur.len - 1
      <4>1. cur.len # 2
        BY <1>0, <2>3
      <4>. QED
        BY <1>0, <1>6, <4>1, PollRxEffect DEF Less
    <3>4. ~(cur'.len = 0)
      BY <1>0, <2>3, <3>3
    <3>5. ~Finished'
      BY <1>1, <2>1, <3>4 DEF Finished
    <3>. QED
      BY <1>0, <3>2, <3>5, StoppedStep
  <2>. QED
    BY <1>0, <2>1, <2>2, <2>3
<1>7. CASE PollDone
  <2>1. cur.len = 0 /\ bus' = bus /\ cur' = cur
    BY <1>7 DEF PollDone
  <2>2. CASE cur.write
    <3>1. i2c'.stop = (i2c.stop \/ cur.stop)
      BY <1>0, <1>7, <2>2, PollDoneEffect DEF Stopping
    <3>. QED
      BY <1>0, <3>1, StoppedStep
  <2>3. CASE ~cur.write
    <3>1. i2c' = i2c
      BY <1>0, <1>7, <2>3, PollDoneEffect
    <3>2. Finished
      BY <2>1, <2>3 DEF Finished
    <3>. QED
      BY <1>0, <2>1, <3>1, <3>2, StoppedStep
  <2>. QED
    BY <1>0, <2>2, <2>3
<1>8. CASE CheckErrors
  <2>1. pc = "check" /\ i2c' = i2c /\ bus' = bus
    BY <1>8 DEF CheckErrors, Poll
  <2>2. Finished
    BY <2>1 DEF Finished
  <2>. QED
    BY <1>0, <2>1, <2>2, StoppedStep
<1>9. CASE PollFails
  BY <1>0, <1>9, PollFailsEffect DEF Sane
<1>. QED
  BY <1>2, <1>3, <1>4, <1>5, <1>6, <1>7, <1>8, <1>9 DEF Polls

LEMMA StoppedBus ==
  ASSUME StopInv, Sane, Sane', cur'.stop = cur.stop,
         BusStart \/ BusStop \/ (\E acked \in BOOLEAN : AddressSent(acked) \/ ShiftOut(acked)) \/ ShiftIn,
         i2c'.start \/ bus'.phase \in Asking => ~Finished'
  PROVE  Stopped'
<1>0. /\ Kinds /\ Stopped /\ i2c.stop \in BOOLEAN
      /\ UNCHANGED <<pc, cur, sem>> /\ (Finished' => Finished)
  BY HardwareFrame DEF StopInv, IInv, Kinds, Controls, Hardware, Data, Threadless, Finished
<1>1. CASE BusStart
  <2>1. bus'.phase \in Asking /\ i2c'.stop = i2c.stop
    BY <1>0, <1>1, BusStartEffect DEF Asking
  <2>. QED
    BY <1>0, <2>1, StoppedStep
<1>2. CASE BusStop
  <2>1. bus' = Released(bus) /\ i2c' = StopDone(i2c)
    BY <1>2 DEF BusStop
  <2>2. bus'.phase = "free" /\ i2c'.stop = FALSE
    BY <1>0, <2>1, Left, StopDoneEffect DEF Kinds
  <2>. QED
    BY <1>0, <2>2, StoppedStep
<1>3. ASSUME NEW acked \in BOOLEAN, AddressSent(acked)
      PROVE  Stopped'
  <2>1. acked
    <3>1. ~acked => errors' # {}
      BY <1>3 DEF AddressSent
    <3>. QED
      BY <3>1 DEF Sane
  <2>2. bus'.phase \in Asking /\ i2c' = i2c
    BY <1>0, <1>3, <2>1, AddressEffect DEF AddressSent, Asking
  <2>. QED
    BY <1>0, <2>2, StoppedStep
<1>4. ASSUME NEW acked \in BOOLEAN, ShiftOut(acked)
      PROVE  Stopped'
  <2>1. i2c' = i2c /\ bus.phase = "tx"
    BY <1>4 DEF ShiftOut
  <2>. QED
    BY <1>0, <2>1, StoppedStep
<1>5. CASE ShiftIn
  <2>1. CASE i2c.stop
    <3>1. bus'.phase = "free" /\ i2c' = StopDone(i2c)
      BY <1>0, <1>5, <2>1, ShiftInEffect
    <3>2. i2c'.stop = FALSE
      BY <1>0, <3>1, StopDoneEffect
    <3>. QED
      BY <1>0, <3>1, <3>2, StoppedStep
  <2>2. CASE ~i2c.stop
    <3>1. i2c' = i2c /\ bus.phase = "rx"
      BY <1>0, <1>5, <2>2, ShiftInEffect
    <3>. QED
      BY <1>0, <3>1, StoppedStep
  <2>. QED
    BY <2>1, <2>2
<1>. QED
  BY <1>1, <1>2, <1>3, <1>4, <1>5

LEMMA StoppedNext ==
  ASSUME StopInv, Next, Hazards \subseteq {"preempt"}, ReadsStart
  PROVE  Stopped'
<1>0. /\ IInv /\ Kinds /\ Stopped /\ Hazards \subseteq {"fast", "preempt"}
      /\ ReadsStart' = ReadsStart /\ Working' = Working /\ Asking' = Asking
  BY DEF StopInv, IInv, ReadsStart, Working, Asking
<1>1. SUFFICES ASSUME Sane' PROVE Stopped'
  BY DEF Stopped
<1>2. Core' /\ Messages'
  BY <1>0, CoreNext, MessagesNext
<1>3. (i2c'.start \/ bus'.phase \in Asking => ~Finished')
  <2>1. Accounted' /\ Messages' /\ pc' \in Working
    BY <1>0, <1>1, <1>2 DEF Core, Sane
  <2>. QED
    BY <1>0, <2>1 DEF Accounted, Messages, Finished
<1>4. CASE Setup
  <2>1. pc = "setup" /\ sem' = sem
    BY <1>4 DEF Setup
  <2>2. sem = 0 /\ ~i2c.stop
    BY <1>0, <2>1 DEF StopInv, Owing, IInv, Resting, Pausing
  <2>3. cur'.len = cur'.full /\ pc' \in {"enable", "pSb", "pData"}
    BY <1>0, <1>4, SetupStarts DEF Setup
  <2>4. ~i2c'.stop
    <3>1. PICK m : m = Head(msgs)
      OBVIOUS
    <3>. QED
      BY <1>0, <1>4, <2>2, <3>1, SetupEffect
  <2>5. ~cur'.write => cur'.full > 0
    BY <1>0, <1>1, <1>2 DEF Messages, Sane
  <2>6. ~(sem' > 0) /\ (~cur'.write => ~(cur'.len = 0))
    BY <2>1, <2>2, <2>3, <2>5
  <2>7. ~Finished'
    BY <2>3, <2>6 DEF Finished
  <2>. QED
    BY <2>4, <2>7 DEF Stopped
<1>5. CASE ~Setup
  <2>1. cur'.full = cur.full /\ cur'.write = cur.write /\ cur'.stop = cur.stop
    BY <1>0, <1>5, SameMessage
  <2>2. /\ Sane
        /\ \/ Enable \/ Take \/ Polls \/ Event
           \/ BusStart \/ BusStop \/ (\E acked \in BOOLEAN : AddressSent(acked) \/ ShiftOut(acked)) \/ ShiftIn
    BY <1>0, <1>1, <1>5, SaneBack
  <2>3. CASE Enable \/ Take
    <3>1. UNCHANGED <<cur, i2c, bus>> /\ pc' \in {"wait", "end"} /\ (Take => sem > 0) /\ (Enable => sem' = sem)
          /\ (Enable => pc' = "wait")
      BY <2>3 DEF Enable, Take
    <3>2. Finished' => Finished
      BY <2>3, <3>1 DEF Finished
    <3>. QED
      BY <1>0, <2>2, <3>1, <3>2, StoppedStep
  <2>. QED
    BY <1>0, <1>1, <1>3, <2>1, <2>2, <2>3, StoppedPoll, StoppedEvent, StoppedBus
<1>. QED
  BY <1>4, <1>5

LEMMA StopInvInit == Init => StopInv
<1>1. SUFFICES ASSUME Init PROVE StopInv
  OBVIOUS
<1>2. IInv
  BY <1>1, IInvInit
<1>3. pc = "idle" /\ msgs = <<>> /\ owed = FALSE
  BY <1>1 DEF Init
<1>4. Listed
  <2>1. Len(msgs) = 0
    BY <1>3
  <2>. QED
    BY <1>3, <2>1 DEF Listed, Working
<1>. QED
  BY <1>2, <1>3, <1>4 DEF StopInv, Owing, Stopped, Sane, Working

LEMMA StopInvNext ==
  ASSUME StopInv, [Next]_vars, Hazards \subseteq {"preempt"}, ReadsStart, StopsLast
  PROVE  StopInv'
<1>0. IInv /\ IInv'
  BY IInvNext DEF StopInv
<1>1. CASE Next
  BY <1>0, <1>1, ListedNext, OwingNext, StoppedNext DEF StopInv
<1>2. CASE UNCHANGED vars
  <2>0. UNCHANGED <<pc, msgs, cur, sem, i2c, bus, errors, owed>>
    BY <1>2 DEF vars, caller, hist
  <2>. QED
    BY <1>0, <2>0 DEF StopInv, Listed, Owing, Stopped, Sane, Finished, Failed, Working
<1>. QED
  BY <1>1, <1>2

\* What lets the bus go, and what starts on it.
LEMMA PhaseSteps ==
  ASSUME IInv, Next, bus'.phase # bus.phase, bus'.phase \in {"free", "sb"}
  PROVE  \/ \E ten \in BOOLEAN : Configure(ten)
         \/ Reset \/ BusStart \/ BusStop \/ (ShiftIn /\ i2c.stop)
         \/ \E e \in {"arlost", "buserr", "ouf"} : Fault(e)
<1>0. Kinds /\ bus.read \in BOOLEAN
  BY Values DEF IInv
<1>1. CASE (\E ms \in Transfers : Call(ms)) \/ SemReset \/ Setup \/ Enable \/ Take \/ TimedOut \/ HandleError
  BY <1>1 DEF Call, SemReset, Setup, Enable, Take, TimedOut, HandleError
<1>2. CASE EndMsg
  BY <1>0, <1>2, EndEffect, FinishEffect, Free DEF EndsFailed, EndsNext, EndsLast
<1>3. CASE Polls
  <2>1. CASE PollAck \/ PollDone \/ PollFails \/ CheckErrors
    BY <2>1 DEF PollAck, PollDone, PollFails, CheckErrors
  <2>2. CASE PollSb \/ PollHeader \/ PollAddr
    BY <1>0, <2>2, PollSbEffect, HeaderEffect, PollAddrEffect
  <2>3. CASE PollTx \/ PollRx
    BY <1>0, <2>3, PollTxEffect, PollRxEffect DEF LineKept, Taken
  <2>. QED
    BY <1>3, <2>1, <2>2, <2>3 DEF Polls
<1>4. CASE Event
  <2>1. CASE HandleSb \/ HandleHeader \/ HandleAddr
    BY <1>0, <2>1, SbEffect, HeaderEffect, AddrEffect DEF Kinds
  <2>2. CASE TxeStep \/ RxneStep \/ LastStep \/ ThirdStep
    BY <2>2 DEF TxeStep, RxneStep, LastStep, ThirdStep, TxeSends, TxeEnds, RxneLast, RxneWaits,
                RxneLeaves, RxneReads, RxneEnds, BtfLast, BtfThird, Taken, LineKept
  <2>. QED
    BY <1>0, <1>4, <2>1, <2>2, EventSteps
<1>5. ASSUME NEW acked \in BOOLEAN, AddressSent(acked)
      PROVE  FALSE
  BY <1>0, <1>5, AddressEffect
<1>6. ASSUME NEW acked \in BOOLEAN, ShiftOut(acked)
      PROVE  FALSE
  BY <1>0, <1>6, ShiftOutEffect
<1>7. CASE ShiftIn
  BY <1>0, <1>7, ShiftInEffect
<1>. QED
  BY <1>1, <1>2, <1>3, <1>4, <1>5, <1>6, <1>7 DEF Next, Thread, Polls, Hardware, Data

\* The bus is given up after a message that asks for it or one that failed, and a
\* START never takes the place of a STOP that was asked for, in either build, for any
\* transfers in which only the last message asks for a STOP, and a read of one byte
\* does: where a caller waits for the STOP of the last transfer before the next one.
\* (i2c_stop_generate in handle_txe, handle_rxne, handle_btf and handle_addr, and in
\* the polling loops.)
THEOREM StopsWhereAsked ==
  ASSUME Hazards \subseteq {"preempt"}, ReadsStart, StopsLast
  PROVE  Spec => StopsAsAsked
<1>1. Spec => []StopInv
  BY StopInvInit, StopInvNext, PTL DEF Spec
<1>2. StopInv /\ [Next]_vars =>
        [/\ bus.phase # "free" /\ bus'.phase = "free" =>
              cur.stop \/ Failed(cur) \/ errors' # {} \/ pc \notin Working
         /\ bus.phase # "sb" /\ bus'.phase = "sb" => ~owed]_vars
  <2>1. SUFFICES ASSUME StopInv, Next
                 PROVE  /\ bus.phase # "free" /\ bus'.phase = "free" =>
                             cur.stop \/ Failed(cur) \/ errors' # {} \/ pc \notin Working
                        /\ bus.phase # "sb" /\ bus'.phase = "sb" => ~owed
    OBVIOUS
  <2>2. IInv /\ Kinds
    BY <2>1 DEF StopInv, IInv
  <2>3. ASSUME bus.phase # "free", bus'.phase = "free", pc \in Working, ~Failed(cur), errors' = {}
        PROVE  cur.stop
    <3>1. \/ \E ten \in BOOLEAN : Configure(ten)
          \/ Reset \/ BusStart \/ BusStop \/ (ShiftIn /\ i2c.stop)
          \/ \E e \in {"arlost", "buserr", "ouf"} : Fault(e)
      BY <2>1, <2>2, <2>3, PhaseSteps
    <3>2. (BusStop \/ (ShiftIn /\ i2c.stop)) => i2c.stop /\ errors' = errors
      BY DEF BusStop, ShiftIn
    <3>3. ~BusStart
      BY <2>2, <2>3, BusStartEffect
    <3>4. ~Reset /\ ~\E ten \in BOOLEAN : Configure(ten)
      BY <2>3 DEF Reset, Configure, Working
    <3>5. ~\E e \in {"arlost", "buserr", "ouf"} : Fault(e)
      BY <2>3 DEF Fault
    <3>. QED
      BY <2>1, <2>3, <3>1, <3>2, <3>3, <3>4, <3>5 DEF StopInv, Stopped, Sane
  <2>4. ASSUME bus.phase # "sb", bus'.phase = "sb"
        PROVE  ~owed
    <3>1. \/ \E ten \in BOOLEAN : Configure(ten)
          \/ Reset \/ BusStart \/ BusStop \/ (ShiftIn /\ i2c.stop)
          \/ \E e \in {"arlost", "buserr", "ouf"} : Fault(e)
      BY <2>1, <2>2, <2>4, PhaseSteps
    <3>2. ~Reset /\ ~\E ten \in BOOLEAN : Configure(ten)
      BY <2>4, Free DEF Reset, Configure
    <3>3. ~BusStop
      BY <2>2, <2>4, Left DEF BusStop, Kinds
    <3>4. ~(ShiftIn /\ i2c.stop)
      BY <2>2, <2>4, ShiftInEffect
    <3>5. ASSUME NEW e \in {"arlost", "buserr", "ouf"}, Fault(e)
          PROVE  FALSE
      <4>1. bus' = bus \/ bus' = Released(bus)
        BY <3>5 DEF Fault
      <4>. QED
        BY <2>2, <2>4, <4>1, Left DEF Kinds
    <3>6. BusStart
      BY <3>1, <3>2, <3>3, <3>4, <3>5
    <3>. QED
      BY <2>1, <3>6 DEF BusStart, StopInv, Owing, IInv, Resting, Pausing
  <2>. QED
    BY <2>3, <2>4
<1>. QED
  BY <1>1, <1>2, PTL DEF Spec, StopsAsAsked
=============================================================================
