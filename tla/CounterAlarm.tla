---------------------------- MODULE CounterAlarm ----------------------------
(***************************************************************************)
(* The counter driver counter_at32_timer.c: alarms on the compare channels *)
(* of a counter that never stops for the program, and the top value.       *)
(*                                                                         *)
(* One thread calls the driver; the timer counts and its handler runs      *)
(* between any two register accesses.  A callback may set the next alarm   *)
(* of its own channel.  tmr_interrupt_enable of the vendor library is one  *)
(* step here.                                                              *)
(***************************************************************************)
EXTENDS Integers

CONSTANTS
  NumChannels,  (* compare channels, handled from the highest to the first *)
  Tops,         (* top values callers ask for                              *)
  AlarmTicks,   (* ticks callers ask for                                   *)
  Guards,       (* guard periods callers ask for                           *)
  Wrap,         (* 2^32: the modulus of uint32_t                           *)
  Latency       (* a call judges its alarm within this many ticks          *)

Channels == 1 .. NumChannels

ASSUME ChannelsAssumption == NumChannels \in Nat \ {0}
ASSUME WrapAssumption     == Wrap \in Nat \ {0}
ASSUME TopsAssumption     == Tops # {} /\ \A t \in Tops : t \in 1 .. Wrap - 1 /\ Latency < t \div 2
ASSUME TicksAssumption    == AlarmTicks \subseteq Nat /\ Latency \in Nat
\* A guard period stays below every top value, which set_top_value ignores.
ASSUME GuardsAssumption   == \A g \in Guards : g \in Nat /\ \A t \in Tops : g < t

VARIABLES
  \* the timer
  cnt, top, running,
  cc,       (* per channel: the compare value                              *)
  flag, ie, (* per channel: compare flag and interrupt enable              *)
  ovf, ovfie,
  \* counter_at32_data, counter_at32_ch_data and the NVIC
  swp,      (* cc_int_pending                                              *)
  cb,       (* per channel: is there a callback?                           *)
  topcb, guard,
  nvic,     (* pended by set_irq_pending                                   *)
  \* control
  pc, req,  (* per context: where it is in a call, and its alarm           *)
  newtop,   (* the top value being set                                     *)
  chan,     (* the handler's channel, 0 for the overflow, or Away          *)
  \* history
  left      (* per channel: ticks until the alarm is due, or None          *)

timer == <<cnt, top, running, cc, flag, ie, ovf, ovfie>>
data  == <<swp, cb, topcb, guard, nvic>>
vars  == <<timer, data, pc, req, newtop, chan, left>>

Contexts == {"thread", "isr"}
Away     == -1
None     == -1

\* EXPIRE_WHEN_LATE only means something for an absolute alarm.
Alarms == { a \in [ticks: AlarmTicks, absolute: BOOLEAN, expire: BOOLEAN] : a.expire => a.absolute }
NoTop  == [ticks |-> 0, callback |-> FALSE, keep |-> FALSE]
NoCall == [ch |-> 1, ticks |-> 0, absolute |-> FALSE, expire |-> FALSE, now |-> 0, val |-> 0]

\* Ticks from a to b on the circle of the counter.
Ahead(a, b) == (b - a) % (top + 1)

-----------------------------------------------------------------------------
(* Arithmetic on uint32_t *)

IsBitMask(t) == \E k \in 0 .. t : t + 1 = 2 ^ k

\* Seeded fault: the sum is not brought back below the top value.
TicksAddPlain(val1, val2, t) == (val1 + val2) % Wrap

\* counter_at32_ticks_add; & with 2^k - 1 is the remainder by 2^k.
TicksAdd(val1, val2, t) ==
  IF IsBitMask(t) THEN ((val1 + val2) % Wrap) % (t + 1)
  ELSE IF val2 <= t - val1 THEN val1 + val2 ELSE val2 - (t - val1) - 1

\* counter_at32_ticks_sub
TicksSub(val, old, t) ==
  IF IsBitMask(t) THEN ((val - old) % Wrap) % (t + 1)
  ELSE IF val >= old THEN val - old ELSE (val + t + 1 - old) % Wrap

\* irq_on_late
IrqOnLate(r) == IF r.absolute THEN r.expire ELSE r.ticks < top \div 2

MaxRelative(r) ==
  IF r.absolute THEN top - guard ELSE IF IrqOnLate(r) THEN top \div 2 ELSE top

\* Seeded fault: a value that is the count itself goes unnoticed.
TooLateSame(r) == TicksSub(r.val, cnt, top) > MaxRelative(r)

\* diff > max_rel_val, where val - 1U wraps at zero.
TooLate(r) == TicksSub((r.val - 1) % Wrap, cnt, top) > MaxRelative(r)

-----------------------------------------------------------------------------
Init ==
  /\ top \in Tops
  /\ cnt = 0 /\ running = FALSE
  /\ cc = [c \in Channels |-> 0]
  /\ flag = [c \in Channels |-> FALSE]
  /\ ie = [c \in Channels |-> FALSE]
  /\ ovf = FALSE /\ ovfie = FALSE
  /\ swp = [c \in Channels |-> FALSE]
  /\ cb = [c \in Channels |-> FALSE]
  /\ topcb = FALSE /\ guard = 0 /\ nvic = FALSE
  /\ pc = [x \in Contexts |-> "idle"]
  /\ req = [x \in Contexts |-> NoCall]
  /\ newtop = NoTop
  /\ chan = Away
  /\ left = [c \in Channels |-> None]

Asserted ==
  \/ nvic
  \/ \E c \in Channels : flag[c] /\ ie[c]
  \/ ovf /\ ovfie

ThreadRuns == chan = Away /\ ~Asserted

\* A context x in the middle of a call has the core.
Runs(x) == IF x = "thread" THEN ThreadRuns ELSE chan \in Channels

\* The call of x is over; in the handler the next channel is due.
Return(x) ==
  /\ pc' = [pc EXCEPT ![x] = "idle"]
  /\ req' = [req EXCEPT ![x] = NoCall]
  /\ chan' = IF x = "isr" THEN chan - 1 ELSE chan

-----------------------------------------------------------------------------
(* counter_at32_set_alarm and counter_at32_set_cc *)

\* The calls refused with -EINVAL or -EBUSY change nothing.
SetAlarm(x, c, a) ==
  /\ a.ticks <= top /\ ~cb[c]
  /\ cb' = [cb EXCEPT ![c] = TRUE]
  /\ pc' = [pc EXCEPT ![x] = "read"]
  /\ req' = [req EXCEPT ![x] = [ch |-> c, ticks |-> a.ticks, absolute |-> a.absolute,
                                expire |-> a.expire, now |-> 0, val |-> a.ticks]]
  /\ UNCHANGED <<timer, swp, topcb, guard, nvic, chan, left, newtop>>

\* Seeded fault: a flag from an earlier lap survives.
ParkKeepingFlag(x) ==
  LET r == req[x] IN
  /\ pc[x] = "read"
  /\ cc' = [cc EXCEPT ![r.ch] = cnt]
  /\ UNCHANGED flag
  /\ req' = [req EXCEPT ![x].now = cnt,
               ![x].val = IF r.absolute THEN r.ticks ELSE TicksAdd(cnt, r.ticks, top)]
  /\ left' = IF r.absolute THEN left ELSE [left EXCEPT ![r.ch] = r.ticks]
  /\ pc' = [pc EXCEPT ![x] = "write"]
  /\ UNCHANGED <<cnt, top, running, ie, ovf, ovfie, data, chan, newtop>>

\* The compare value is moved as far away as it can be, then the flag cleared.
Park(x) ==
  LET r == req[x] IN
  /\ pc[x] = "read"
  /\ cc' = [cc EXCEPT ![r.ch] = cnt]
  /\ flag' = [flag EXCEPT ![r.ch] = FALSE]
  /\ req' = [req EXCEPT ![x].now = cnt,
               ![x].val = IF r.absolute THEN r.ticks ELSE TicksAdd(cnt, r.ticks, top)]
  /\ left' = IF r.absolute THEN left ELSE [left EXCEPT ![r.ch] = r.ticks]
  /\ pc' = [pc EXCEPT ![x] = "write"]
  /\ UNCHANGED <<cnt, top, running, ie, ovf, ovfie, data, chan, newtop>>

\* at32_set_timer_compare(val).  An absolute alarm is due when the counter next
\* comes to its value.
WriteCompare(x) ==
  LET r == req[x]
      d == Ahead(cnt, r.val) IN
  /\ pc[x] = "write"
  /\ cc' = [cc EXCEPT ![r.ch] = r.val]
  /\ left' = IF r.absolute THEN [left EXCEPT ![r.ch] = IF d = 0 THEN top + 1 ELSE d] ELSE left
  /\ pc' = [pc EXCEPT ![x] = "judge"]
  /\ UNCHANGED <<cnt, top, running, flag, ie, ovf, ovfie, data, req, chan, newtop>>

\* Seeded fault: the interrupt is not pended.
PendQuietly(c) == swp' = [swp EXCEPT ![c] = TRUE] /\ UNCHANGED nvic

\* counter_at32_set_cc_int_pending
Pend(c) == swp' = [swp EXCEPT ![c] = TRUE] /\ nvic' = TRUE

\* The counter has passed the value of an absolute alarm by less than the guard
\* period: it counts as expired.
Expired(r) == r.absolute /\ Ahead(r.val, cnt) < guard

Judge(x) ==
  LET r == req[x] IN
  /\ pc[x] = "judge"
  /\ \/ /\ ~TooLate(r)
        /\ ie' = [ie EXCEPT ![r.ch] = TRUE]
        /\ UNCHANGED <<swp, nvic, cb, left>>
     \/ /\ TooLate(r) /\ IrqOnLate(r)
        /\ Pend(r.ch)
        /\ left' = IF Expired(r) THEN [left EXCEPT ![r.ch] = 0] ELSE left
        /\ UNCHANGED <<ie, cb>>
     \/ /\ TooLate(r) /\ ~IrqOnLate(r)
        /\ cb' = [cb EXCEPT ![r.ch] = FALSE]
        /\ left' = IF r.absolute THEN [left EXCEPT ![r.ch] = None] ELSE left  \* -ETIME or 0
        /\ UNCHANGED <<ie, swp, nvic>>
  /\ Return(x)
  /\ UNCHANGED <<cnt, top, running, cc, flag, ovf, ovfie, topcb, guard, newtop>>

-----------------------------------------------------------------------------
(* counter_at32_cancel_alarm *)

CancelDisable(c) ==
  /\ pc["thread"] = "idle"
  /\ ie' = [ie EXCEPT ![c] = FALSE]
  /\ req' = [req EXCEPT !["thread"].ch = c]
  /\ pc' = [pc EXCEPT !["thread"] = "cancel"]
  /\ UNCHANGED <<cnt, top, running, cc, flag, ovf, ovfie, data, chan, left, newtop>>

CancelForget ==
  /\ pc["thread"] = "cancel"
  /\ cb' = [cb EXCEPT ![req["thread"].ch] = FALSE]
  /\ left' = [left EXCEPT ![req["thread"].ch] = None]
  /\ Return("thread")
  /\ UNCHANGED <<timer, swp, topcb, guard, nvic, newtop>>

-----------------------------------------------------------------------------
(* counter_at32_set_top_value, with or without a callback; keep says        *)
(* DONT_RESET together with RESET_WHEN_LATE.                                *)

TopDisable(t, f, keep) ==
  /\ pc["thread"] = "idle"
  /\ \A c \in Channels : ~cb[c]
  /\ ovfie' = FALSE
  /\ newtop' = [ticks |-> t, callback |-> f, keep |-> keep]
  /\ pc' = [pc EXCEPT !["thread"] = "top"]
  /\ UNCHANGED <<cnt, top, running, cc, flag, ie, ovf, data, req, chan, left>>

\* Period, overflow flag, callback and count; only the overflow handler could
\* tell them apart, and it is off.
TopWrite ==
  /\ pc["thread"] = "top"
  /\ top' = newtop.ticks
  /\ ovf' = FALSE
  /\ topcb' = newtop.callback
  /\ cnt' = IF ~newtop.keep \/ cnt >= newtop.ticks THEN 0 ELSE cnt
  /\ pc' = [pc EXCEPT !["thread"] = "topenable"]
  /\ UNCHANGED <<running, cc, flag, ie, ovfie, swp, cb, guard, nvic, req, chan, left, newtop>>

TopEnable ==
  /\ pc["thread"] = "topenable"
  /\ ovfie' = (ovfie \/ newtop.callback)
  /\ newtop' = NoTop
  /\ Return("thread")
  /\ UNCHANGED <<cnt, top, running, cc, flag, ie, ovf, data, left>>

SetGuard(g) ==
  /\ pc["thread"] = "idle"
  /\ guard' = g
  /\ UNCHANGED <<timer, swp, cb, topcb, nvic, pc, req, chan, left, newtop>>

\* counter_at32_start and counter_at32_stop
StartStop ==
  /\ pc["thread"] = "idle"
  /\ running' = ~running
  /\ UNCHANGED <<cnt, top, cc, flag, ie, ovf, ovfie, data, pc, req, chan, left, newtop>>

-----------------------------------------------------------------------------
(* counter_at32_irq_handler *)

Enter ==
  /\ chan = Away
  /\ Asserted
  /\ nvic' = FALSE
  /\ chan' = NumChannels
  /\ UNCHANGED <<timer, swp, cb, topcb, guard, pc, req, left, newtop>>

\* counter_at32_alarm_irq_handle
AlarmIrqHandle(c) ==
  /\ swp' = [swp EXCEPT ![c] = FALSE]
  /\ ie' = [ie EXCEPT ![c] = FALSE]
  /\ cb' = [cb EXCEPT ![c] = FALSE]

\* tmr_irq_cc_handle of the next channel; with a callback it is called.
HandleChannel ==
  /\ chan \in Channels /\ pc["isr"] = "idle"
  /\ \/ /\ (flag[chan] /\ ie[chan]) \/ swp[chan]
        /\ flag' = [flag EXCEPT ![chan] = @ /\ ~ie[chan]]
        /\ AlarmIrqHandle(chan)
        /\ left' = [left EXCEPT ![chan] = IF cb[chan] THEN None ELSE @]
        /\ \/ cb[chan] /\ pc' = [pc EXCEPT !["isr"] = "callback"] /\ UNCHANGED chan
           \/ ~cb[chan] /\ chan' = chan - 1 /\ UNCHANGED pc
     \/ /\ ~(flag[chan] /\ ie[chan]) /\ ~swp[chan]
        /\ chan' = chan - 1
        /\ UNCHANGED <<flag, swp, ie, cb, left, pc>>
  /\ UNCHANGED <<cnt, top, running, cc, ovf, ovfie, topcb, guard, nvic, req, newtop>>

CallbackReturns ==
  /\ pc["isr"] = "callback"
  /\ Return("isr")
  /\ UNCHANGED <<timer, data, left, newtop>>

\* Overflow, with counter_at32_top_irq_handle.
HandleOverflow ==
  /\ chan = 0
  /\ ovf' = (ovf /\ ~ovfie)
  /\ chan' = Away
  /\ UNCHANGED <<cnt, top, running, cc, flag, ie, ovfie, data, pc, req, left, newtop>>

-----------------------------------------------------------------------------
(* The timer (external) *)

\* A context that has read the counter is judged within Latency ticks.
InTime == \A x \in Contexts : pc[x] \in {"write", "judge"} => Ahead(req[x].now, cnt) < Latency

Tick ==
  LET next == IF cnt = top THEN 0 ELSE cnt + 1 IN
  /\ running /\ InTime
  /\ cnt' = next
  /\ flag' = [c \in Channels |-> flag[c] \/ cc[c] = next]
  /\ ovf' = (ovf \/ cnt = top)
  /\ left' = [c \in Channels |-> IF left[c] > 0 THEN left[c] - 1 ELSE left[c]]
  /\ UNCHANGED <<top, running, cc, ie, ovfie, data, pc, req, chan, newtop>>

-----------------------------------------------------------------------------
SetCc(x) == Runs(x) /\ (Park(x) \/ WriteCompare(x) \/ Judge(x))

Thread == SetCc("thread") \/ (ThreadRuns /\ (CancelForget \/ TopWrite \/ TopEnable))

Isr == Enter \/ HandleChannel \/ CallbackReturns \/ HandleOverflow \/ SetCc("isr")

Call ==
  /\ ThreadRuns /\ pc["thread"] = "idle"
  /\ \/ \E c \in Channels, a \in Alarms : SetAlarm("thread", c, a)
     \/ \E c \in Channels : CancelDisable(c)
     \/ \E t \in Tops, f, keep \in BOOLEAN : TopDisable(t, f, keep)
     \/ \E g \in Guards : SetGuard(g)
     \/ StartStop

\* The callback of a channel sets the channel's next alarm.
Rearm == pc["isr"] = "callback" /\ \E a \in Alarms : SetAlarm("isr", chan, a)

Next == Thread \/ Isr \/ Call \/ Rearm \/ Tick

Spec == Init /\ [][Next]_vars

\* The handler runs to its end, and callbacks leave the thread time to go on.
FairSpec == Spec /\ WF_vars(Isr) /\ SF_vars(Thread)

-----------------------------------------------------------------------------
(* Properties *)

\* Registers and tables keep their ranges; a compare value never lies beyond
\* the counter's own values.
TypeOK ==
  /\ top \in Tops /\ cnt \in 0 .. top /\ running \in BOOLEAN
  /\ cc \in [Channels -> 0 .. Wrap - 1]
  /\ \A x \in Contexts : pc[x] \in {"write", "judge"} => req[x].val \in 0 .. top
  /\ {flag, ie, swp, cb} \subseteq [Channels -> BOOLEAN]
  /\ {ovf, ovfie, topcb, nvic} \subseteq BOOLEAN
  /\ newtop \in [ticks: Tops, callback: BOOLEAN, keep: BOOLEAN] \cup {NoTop}
  /\ guard \in Guards \cup {0}
  /\ pc["thread"] \in {"idle", "read", "write", "judge", "cancel", "top", "topenable"}
  /\ pc["isr"] \in {"idle", "callback", "read", "write", "judge"}
  /\ chan \in Channels \cup {0, Away}
  /\ \A c \in Channels : left[c] \in {None} \cup 0 .. top + 1

InCall(c) ==
  \E x \in Contexts : pc[x] \in {"read", "write", "judge", "cancel"} /\ req[x].ch = c

\* An accepted alarm is never lost, whatever the counter and the handler do
\* while it is set: it keeps its callback; before it is due the compare value
\* is ahead by just what is left; once due, its interrupt is pending.
AlarmsKept ==
  \A c \in Channels : left[c] # None /\ ~InCall(c) =>
    /\ cb[c]
    /\ IF left[c] = 0
       THEN (flag[c] /\ ie[c]) \/ (swp[c] /\ (nvic \/ chan >= c))
       ELSE ie[c] /\ Ahead(cnt, cc[c]) = left[c] % (top + 1)

\* A callback comes when its alarm is due: never before, never after it was
\* cancelled or refused, never a second time.
NeverEarly ==
  [][\A c \in Channels :
       chan = c /\ pc["isr"] = "idle" /\ cb[c] /\ ~cb'[c] => left[c] = 0]_vars

\* A due alarm, once set, comes to its callback, or is cancelled.
AlarmFires == \A c \in Channels : left[c] = 0 /\ ~InCall(c) ~> left[c] # 0

=============================================================================
