------------------------ MODULE CounterAlarmProofs ------------------------
(***************************************************************************)
(* Safety of CounterAlarm for any number of channels, top values, ticks,   *)
(* guard periods and latency: types, no alarm is lost, none is early;      *)
(* where top values are of the form 2^k - 1.                               *)
(***************************************************************************)
EXTENDS CounterAlarm, TLAPS

\* The top values the late detection is right for.  2^32 is a multiple of each
\* 2^k below it.
MaskTops == \A t \in Tops : IsBitMask(t) /\ Wrap % (t + 1) = 0

-----------------------------------------------------------------------------
(* The inductive invariant *)

\* Ticks from a to b, without the remainder.
Gap(a, b) == IF b >= a THEN b - a ELSE b - a + top + 1

\* A context in counter_at32_set_cc, or in any call, for a channel.
Setting(x, c) == pc[x] \in {"read", "write", "judge"} /\ req[x].ch = c
Busy(x, c)    == pc[x] \in {"read", "write", "judge", "cancel"} /\ req[x].ch = c

Alarm == [ch: Channels, ticks: Nat, absolute: BOOLEAN, expire: BOOLEAN, now: Nat, val: Nat]

Types ==
  /\ top \in Tops /\ cnt \in 0 .. top /\ running \in BOOLEAN
  /\ cc \in [Channels -> 0 .. Wrap - 1]
  /\ flag \in [Channels -> BOOLEAN] /\ ie \in [Channels -> BOOLEAN]
  /\ swp \in [Channels -> BOOLEAN] /\ cb \in [Channels -> BOOLEAN]
  /\ ovf \in BOOLEAN /\ ovfie \in BOOLEAN /\ topcb \in BOOLEAN /\ nvic \in BOOLEAN
  /\ newtop \in [ticks: Tops, callback: BOOLEAN, keep: BOOLEAN] \cup {NoTop}
  /\ guard \in Guards \cup {0}
  /\ pc \in [Contexts -> {"idle", "read", "write", "judge", "cancel", "top", "topenable", "callback"}]
  /\ pc["thread"] # "callback" /\ pc["isr"] \notin {"cancel", "top", "topenable"}
  /\ req \in [Contexts -> Alarm]
  /\ chan \in Channels \cup {0, Away}
  /\ left \in [Channels -> {None} \cup 0 .. top + 1]

\* Where the two contexts can be at a time.
Places ==
  /\ pc["isr"] # "idle" => chan \in Channels /\ ~Busy("thread", chan)
  /\ pc["isr"] \in {"read", "write", "judge"} => req["isr"].ch = chan
  /\ pc["isr"] = "callback" => ~cb[chan]
  /\ pc["thread"] = "top" => /\ newtop # NoTop /\ pc["isr"] = "idle"
                              /\ \A c \in Channels : ~cb[c]

\* What a channel is used for.
Owned(c) ==
  /\ Busy("thread", c) \/ Busy("isr", c) => ~ie[c] /\ ~swp[c]
  /\ ie[c] \/ swp[c] \/ left[c] # None \/ Setting("thread", c) \/ Setting("isr", c) => cb[c]
  /\ cb[c] => ie[c] \/ swp[c] \/ Busy("thread", c) \/ Busy("isr", c)
  /\ swp[c] => left[c] = 0 /\ (nvic \/ chan > c \/ (chan = c /\ pc["isr"] = "idle"))

\* The compare value is ahead by what is left, and the flag says that nothing is.
Counting(c) ==
  /\ left[c] \in 0 .. top + 1 /\ cc[c] \in 0 .. top
  /\ left[c] = 0 <=> flag[c]
  /\ left[c] > 0 => left[c] = IF cnt = cc[c] THEN top + 1 ELSE Gap(cnt, cc[c])

\* A relative alarm that is being set, `e` ticks after the counter was read.
Relative(r, e) ==
  /\ left[r.ch] = (IF e < r.ticks THEN r.ticks - e ELSE 0)
  /\ r.val = (IF r.ticks <= top - r.now THEN r.now + r.ticks ELSE r.now + r.ticks - top - 1)

\* How far a context is with an alarm.
Set(x) ==
  LET r == req[x] IN
  /\ pc[x] \in {"read", "write", "judge"} => r.ticks <= top /\ (r.expire => r.absolute)
  /\ pc[x] \in {"write", "judge"} =>
       /\ r.now \in 0 .. top /\ r.val \in 0 .. top /\ Gap(r.now, cnt) <= Latency
       /\ ~r.absolute => Relative(r, Gap(r.now, cnt))
  /\ pc[x] = "read" => left[r.ch] = None
  /\ pc[x] = "write" => cc[r.ch] = r.now /\ ~flag[r.ch] /\ (r.absolute => left[r.ch] = None)
  /\ pc[x] = "judge" => /\ cc[r.ch] = r.val
                        /\ IF r.absolute THEN Counting(r.ch) ELSE flag[r.ch] => left[r.ch] = 0

Inv ==
  /\ Types /\ Places
  /\ \A c \in Channels : Owned(c) /\ (ie[c] => Counting(c))
  /\ \A x \in Contexts : Set(x)

-----------------------------------------------------------------------------
(* Remainders *)

\* A multiple of n that lies between -n and n is 0.
LEMMA SmallMultiple ==
  ASSUME NEW n \in Nat, n > 0, NEW m \in Int, n * m < n, -n < n * m
  PROVE  m = 0
<1>1. CASE m >= 1
  <2>1. n * m >= n
    BY <1>1
  <2>. QED
    BY <2>1
<1>2. CASE m <= -1
  <2>1. n * m <= -n
    BY <1>2
  <2>. QED
    BY <2>1
<1>. QED
  BY <1>1, <1>2

\* Adding a multiple does not change the remainder.
LEMMA ModShift ==
  ASSUME NEW n \in Nat, n > 0, NEW x \in Int, NEW k \in Int
  PROVE  (x + n * k) % n = x % n
<1> DEFINE y == x + n * k
           p == x \div n
           q == y \div n
<1>1. n * k \in Int /\ y \in Int
  OBVIOUS
<1>2. p \in Int /\ x % n \in 0 .. (n - 1) /\ x = n * p + (x % n)
  OBVIOUS
<1>3. q \in Int /\ y % n \in 0 .. (n - 1) /\ y = n * q + (y % n)
  <2>. HIDE DEF y
  <2>. QED
    BY <1>1
<1> DEFINE m == q - k - p
<1>4. m \in Int /\ n * m = n * q - n * k - n * p
  <2>. HIDE DEF p, q
  <2>. QED
    BY <1>2, <1>3
<1>5. n * m = (x % n) - (y % n)
  <2>1. n * p \in Int /\ n * q \in Int
    <3>. HIDE DEF p, q
    <3>. QED
      BY <1>2, <1>3
  <2>2. y = x + n * k
    OBVIOUS
  <2>. HIDE DEF y, p, q, m
  <2>. QED
    BY <1>1, <1>2, <1>3, <1>4, <2>1, <2>2
<1>6. m = 0
  <2>. HIDE DEF y, p, q, m
  <2>1. n * m < n /\ -n < n * m
    BY <1>2, <1>3, <1>5
  <2>. QED
    BY <1>4, <2>1, SmallMultiple
<1>7. n * m = 0
  BY <1>6
<1>. QED
  <2>. HIDE DEF y, p, q, m
  <2>1. x % n = y % n
    BY <1>2, <1>3, <1>5, <1>7
  <2>. QED
    BY <2>1 DEF y

\* The remainder of a number within a round of 0 .. n - 1.
LEMMA ModNear ==
  ASSUME NEW n \in Nat, n > 0, NEW x \in Int, -n <= x, x < 2 * n
  PROVE  x % n = IF x < 0 THEN x + n ELSE IF x < n THEN x ELSE x - n
<1>1. ASSUME NEW z \in 0 .. (n - 1) PROVE z % n = z
  <2> DEFINE p == z \div n
  <2>1. p \in Int /\ z % n \in 0 .. (n - 1) /\ z = n * p + (z % n) /\ n * p \in Int
    OBVIOUS
  <2>2. p = 0
    <3>. HIDE DEF p
    <3>1. n * p < n /\ -n < n * p
      BY <2>1
    <3>. QED
      BY <2>1, <3>1, SmallMultiple
  <2>. QED
    BY <2>1, <2>2
<1>2. CASE x < 0
  <2>1. (x + n * 1) % n = x % n
    BY ModShift
  <2>. QED
    BY <1>1, <1>2, <2>1
<1>3. CASE x >= n
  <2>1. (x + n * (-1)) % n = x % n
    BY ModShift
  <2>2. x + n * (-1) = x - n
    OBVIOUS
  <2>. QED
    BY <1>1, <1>3, <2>1, <2>2
<1>. QED
  BY <1>1, <1>2, <1>3

\* The remainder by w first does not matter where n divides w.
LEMMA ModMod ==
  ASSUME NEW n \in Nat, n > 0, NEW w \in Nat, w > 0, w % n = 0, NEW x \in Int
  PROVE  ((x % w) % n) = (x % n)
<1> DEFINE q == w \div n
           d == x \div w
           e == x % w
           k == q * d
<1>1. q \in Int /\ w = n * q
  OBVIOUS
<1>2. d \in Int /\ e \in Nat /\ x = w * d + e
  OBVIOUS
<1>3. w * d = n * k /\ k \in Int /\ n * k \in Int
  <2>. HIDE DEF q, d
  <2>. QED
    BY <1>1, <1>2
<1>4. (e + n * k) % n = e % n
  <2>. HIDE DEF e, k
  <2>1. e \in Int /\ k \in Int
    BY <1>2, <1>3
  <2>. QED
    BY <2>1, ModShift, Zenon
<1>5. e + n * k = x
  <2>. HIDE DEF d, e, k
  <2>. QED
    BY <1>2, <1>3
<1>. QED
  BY <1>4, <1>5

-----------------------------------------------------------------------------
(* The operators *)

\* What is known of the constants.
LEMMA Bounds ==
  ASSUME Types
  PROVE  /\ top \in Nat /\ top > 0 /\ top + 1 \in Nat /\ top + 1 > 0 /\ top < Wrap /\ Wrap \in Nat
         /\ cnt \in 0 .. top /\ Latency \in Nat /\ Latency < top \div 2 /\ guard \in 0 .. top
         /\ 2 * (top \div 2) <= top /\ top <= 2 * (top \div 2) + 1 /\ top \div 2 \in Nat
<1>1. top \in 1 .. Wrap - 1 /\ Latency < top \div 2 /\ Wrap \in Nat /\ Latency \in Nat /\ cnt \in 0 .. top
  BY TopsAssumption, WrapAssumption, TicksAssumption DEF Types
<1>2. guard \in 0 .. top
  <2>1. CASE guard = 0
    BY <1>1, <2>1
  <2>2. CASE guard \in Guards
    BY <1>1, <2>2, GuardsAssumption DEF Types
  <2>. QED
    BY <2>1, <2>2 DEF Types
<1>3. /\ top \in Nat /\ top > 0 /\ top + 1 \in Nat /\ top + 1 > 0 /\ top < Wrap
  BY <1>1
<1>4. 2 * (top \div 2) <= top /\ top <= 2 * (top \div 2) + 1 /\ top \div 2 \in Nat
  BY <1>3
<1>. QED
  BY <1>1, <1>2, <1>3, <1>4

\* The distance on the counter's circle.
LEMMA Circle ==
  ASSUME Types, NEW a \in 0 .. top, NEW b \in 0 .. top
  PROVE  Ahead(a, b) = Gap(a, b) /\ Gap(a, b) \in 0 .. top
<1> DEFINE n == top + 1
           z == b - a
<1>1. n \in Nat /\ n > 0 /\ z \in Int /\ -n <= z /\ z < 2 * n
  BY Bounds
<1>2. z % n = IF z < 0 THEN z + n ELSE IF z < n THEN z ELSE z - n
  <2>. HIDE DEF n, z
  <2>. QED
    BY <1>1, ModNear
<1>. QED
  BY <1>2, Bounds DEF Ahead, Gap

\* A full round leaves nothing.
LEMMA Round ==
  ASSUME Types, NEW d \in 0 .. top + 1
  PROVE  d % (top + 1) = IF d = top + 1 THEN 0 ELSE d
<1> DEFINE n == top + 1
<1>1. n \in Nat /\ n > 0 /\ d \in Int /\ -n <= d /\ d < 2 * n
  BY Bounds
<1>2. d % n = IF d < 0 THEN d + n ELSE IF d < n THEN d ELSE d - n
  <2>. HIDE DEF n
  <2>. QED
    BY <1>1, ModNear
<1>. QED
  BY <1>2, Bounds

\* counter_at32_ticks_add adds on the circle.
LEMMA SumIs ==
  ASSUME MaskTops, Types, NEW a \in 0 .. top, NEW b \in 0 .. top
  PROVE  TicksAdd(a, b, top) = IF b <= top - a THEN a + b ELSE a + b - top - 1
<1> DEFINE n == top + 1
           z == a + b
<1>1. IsBitMask(top) /\ Wrap % n = 0
  BY DEF MaskTops, Types
<1>2. n \in Nat /\ n > 0 /\ z \in Int /\ -n <= z /\ z < 2 * n /\ Wrap \in Nat /\ Wrap > 0
  BY Bounds
<1>3. (z % Wrap) % n = z % n /\ z % n = IF z < 0 THEN z + n ELSE IF z < n THEN z ELSE z - n
  <2>. HIDE DEF n, z
  <2>. QED
    BY <1>1, <1>2, ModMod, ModNear
<1>. QED
  BY <1>1, <1>3, Bounds DEF TicksAdd

\* The late detection tells how far the counter is from the tick before `val`.
LEMMA LateIs ==
  ASSUME MaskTops, Types, NEW r, r.val \in 0 .. top
  PROVE  TooLate(r) <=> (IF r.val > cnt THEN r.val - 1 - cnt ELSE r.val - cnt + top) > MaxRelative(r)
<1> DEFINE n == top + 1
           v == r.val
           w == (v - 1) % Wrap
           z == w - cnt
           u == v - 1 - cnt
<1>1. IsBitMask(top) /\ Wrap % n = 0
  BY DEF MaskTops, Types
<1>2. n \in Nat /\ n > 0 /\ Wrap \in Nat /\ Wrap > 0 /\ n <= Wrap /\ top \in Nat /\ v \in 0 .. top /\ cnt \in 0 .. top
  BY Bounds
<1>3. u \in Int /\ -n <= u /\ u < 2 * n
  BY <1>2
<1>4. w = IF v = 0 THEN Wrap - 1 ELSE v - 1
  <2> DEFINE y == v - 1
  <2>1. y \in Int /\ -Wrap <= y /\ y < 2 * Wrap
    BY <1>2
  <2>2. y % Wrap = IF y < 0 THEN y + Wrap ELSE IF y < Wrap THEN y ELSE y - Wrap
    <3>. HIDE DEF y
    <3>. QED
      BY <1>2, <2>1, ModNear
  <2>. QED
    BY <1>2, <2>2
<1>5. z \in Int
  <2>. HIDE DEF w
  <2>. QED
    BY <1>2, <1>4
<1>6. (z % Wrap) % n = z % n
  <2>. HIDE DEF z, n
  <2>. QED
    BY <1>1, <1>2, <1>5, ModMod
<1>7. z % n = u % n
  <2>1. CASE v = 0
    <3>1. PICK q \in Int : Wrap = n * q
      <4>. HIDE DEF n
      <4>. QED
        BY <1>1, <1>2
    <3>2. (u + n * q) % n = u % n
      <4>. HIDE DEF u, n
      <4>. QED
        BY <1>2, <1>3, ModShift
    <3>3. z = u + n * q
      <4>1. z = u + Wrap
        <5>. HIDE DEF w
        <5>. QED
          BY <1>2, <1>4, <2>1
      <4>. QED
        BY <3>1, <4>1
    <3>. QED
      BY <3>2, <3>3
  <2>2. CASE v # 0
    <3>1. z = u
      <4>. HIDE DEF w
      <4>. QED
        BY <1>2, <1>4, <2>2
    <3>. QED
      BY <3>1
  <2>. QED
    BY <2>1, <2>2
<1>8. u % n = IF u < 0 THEN u + n ELSE IF u < n THEN u ELSE u - n
  <2>. HIDE DEF u, n
  <2>. QED
    BY <1>2, <1>3, ModNear
<1>9. u % n = IF v > cnt THEN v - 1 - cnt ELSE v - cnt + top
  <2> DEFINE m == u % n
  <2>1. m = IF u < 0 THEN u + n ELSE IF u < n THEN u ELSE u - n
    BY <1>8
  <2>. HIDE DEF m
  <2>2. m = IF v > cnt THEN v - 1 - cnt ELSE v - cnt + top
    BY <1>2, <2>1
  <2>. QED
    BY <2>2 DEF m
<1>10. TicksSub(w, cnt, top) = (z % Wrap) % n
  BY <1>1 DEF TicksSub
<1>. QED
  BY <1>6, <1>7, <1>9, <1>10 DEF TooLate

-----------------------------------------------------------------------------
(* What a step leaves alone *)

LEMMA SetStays ==
  ASSUME NEW x \in Contexts, Set(x), top' = top, cnt' = cnt, pc'[x] = pc[x], req'[x] = req[x],
         pc[x] \in {"read", "write", "judge"} =>
           /\ left'[req[x].ch] = left[req[x].ch] /\ cc'[req[x].ch] = cc[req[x].ch]
           /\ flag'[req[x].ch] = flag[req[x].ch]
  PROVE  Set(x)'
BY DEF Set, Gap, Relative, Counting

LEMMA CountStays ==
  ASSUME NEW c \in Channels, Counting(c), top' = top, cnt' = cnt, left'[c] = left[c],
         cc'[c] = cc[c], flag'[c] = flag[c]
  PROVE  Counting(c)'
BY DEF Counting, Gap

LEMMA OwnedStays ==
  ASSUME NEW c \in Channels, Owned(c), ie'[c] = ie[c], swp'[c] = swp[c], cb'[c] = cb[c],
         left'[c] = left[c],
         \A x \in Contexts : (Busy(x, c)' <=> Busy(x, c)) /\ (Setting(x, c)' <=> Setting(x, c)),
         swp[c] => nvic' \/ chan' > c \/ (chan' = c /\ pc'["isr"] = "idle")
  PROVE  Owned(c)'
BY DEF Owned, Contexts

\* The contexts never set the same channel.
LEMMA Alone ==
  ASSUME Places, NEW x \in Contexts, NEW y \in Contexts, x # y,
         pc[x] \in {"read", "write", "judge"}, pc[y] \in {"read", "write", "judge"}
  PROVE  req[x].ch # req[y].ch
BY DEF Places, Busy, Contexts

\* While the thread runs, the handler is away and nothing is pending.
LEMMA ThreadAlone ==
  ASSUME Inv, ThreadRuns
  PROVE  /\ chan = Away /\ pc["isr"] = "idle" /\ ~nvic /\ \A c \in Channels : ~swp[c]
         /\ \A c \in Channels : ~(flag[c] /\ ie[c])
<1>1. chan = Away /\ ~nvic /\ \A c \in Channels : ~(flag[c] /\ ie[c])
  BY DEF ThreadRuns, Asserted
<1>2. pc["isr"] = "idle" /\ \A c \in Channels : ~(chan > c) /\ chan # c
  BY <1>1, ChannelsAssumption DEF Inv, Places, Channels, Away
<1>3. \A c \in Channels : ~swp[c]
  BY <1>1, <1>2 DEF Inv, Owned
<1>. QED
  BY <1>1, <1>2, <1>3

-----------------------------------------------------------------------------
(* Setting an alarm *)

LEMMA InitInv == Init => Inv
<1> SUFFICES ASSUME Init PROVE Inv
  OBVIOUS
<1>1. 1 \in Channels /\ \A t \in Tops : t \in Nat /\ t < Wrap
  BY ChannelsAssumption, TopsAssumption, WrapAssumption DEF Channels
<1>2. Types
  <2>1. NoCall \in Alarm
    BY <1>1 DEF NoCall, Alarm
  <2>2. top \in Tops /\ cnt \in 0 .. top /\ guard \in Guards \cup {0} /\ chan \in Channels \cup {0, Away}
    BY <1>1 DEF Init
  <2>3. /\ left \in [Channels -> {None} \cup 0 .. top + 1] /\ cc \in [Channels -> 0 .. Wrap - 1]
    BY <1>1, WrapAssumption DEF Init
  <2>4. newtop \in [ticks: Tops, callback: BOOLEAN, keep: BOOLEAN] \cup {NoTop}
    BY DEF Init
  <2>5. /\ flag \in [Channels -> BOOLEAN] /\ ie \in [Channels -> BOOLEAN]
        /\ swp \in [Channels -> BOOLEAN] /\ cb \in [Channels -> BOOLEAN]
        /\ ovf \in BOOLEAN /\ ovfie \in BOOLEAN /\ topcb \in BOOLEAN /\ nvic \in BOOLEAN
        /\ running \in BOOLEAN
    BY DEF Init
  <2>6. /\ pc \in [Contexts -> {"idle", "read", "write", "judge", "cancel", "top", "topenable", "callback"}]
        /\ pc["thread"] # "callback" /\ pc["isr"] \notin {"cancel", "top", "topenable"}
    BY DEF Init, Contexts
  <2>7. req \in [Contexts -> Alarm]
    BY <2>1 DEF Init
  <2>. QED
    BY <2>2, <2>3, <2>4, <2>5, <2>6, <2>7 DEF Types
<1>3. Places /\ \A x \in Contexts : Set(x)
  BY DEF Init, Places, Set, Contexts
<1>4. \A c \in Channels : Owned(c) /\ ~ie[c]
  BY DEF Init, Owned, Busy, Setting, Contexts, None
<1>. QED
  BY <1>2, <1>3, <1>4 DEF Inv

LEMMA SetAlarmInv ==
  ASSUME Inv, NEW x \in Contexts, NEW c \in Channels, NEW a \in Alarms, SetAlarm(x, c, a),
         IF x = "thread" THEN ThreadRuns /\ pc["thread"] = "idle" ELSE pc["isr"] = "callback" /\ c = chan
  PROVE  Inv'
<1> DEFINE r == [ch |-> c, ticks |-> a.ticks, absolute |-> a.absolute, expire |-> a.expire,
                 now |-> 0, val |-> a.ticks]
<1>1. /\ a.ticks \in Nat /\ a.ticks <= top /\ a.absolute \in BOOLEAN /\ a.expire \in BOOLEAN
      /\ a.expire => a.absolute
  BY TicksAssumption DEF SetAlarm, Alarms
<1>2. /\ ~cb[c] /\ cb' = [cb EXCEPT ![c] = TRUE] /\ pc' = [pc EXCEPT ![x] = "read"]
      /\ req' = [req EXCEPT ![x] = r]
      /\ UNCHANGED <<cnt, top, running, cc, flag, ie, ovf, ovfie, swp, topcb, guard, nvic, chan, left, newtop>>
  BY DEF SetAlarm, timer
<1>3. r \in Alarm
  BY <1>1 DEF Alarm
<1>4. /\ r.ch = c /\ r.ticks = a.ticks /\ r.absolute = a.absolute /\ r.expire = a.expire
  OBVIOUS
<1> HIDE DEF r
<1>5. Types'
  BY <1>2, <1>3 DEF Inv, Types, Contexts
<1>6. pc'[x] = "read" /\ req'[x] = r /\ \A y \in Contexts \ {x} : pc'[y] = pc[y] /\ req'[y] = req[y]
  BY <1>2 DEF Inv, Types
<1>7. ~ie[c] /\ ~swp[c] /\ left[c] = None /\ \A y \in Contexts : ~Setting(y, c)
  BY <1>2 DEF Inv, Owned, Contexts
<1>8. x = "isr" => ~Busy("thread", c) /\ chan = c
  BY DEF Inv, Places
<1>9. x = "thread" => chan = Away /\ pc["isr"] = "idle" /\ \A d \in Channels : ~swp[d]
  BY ThreadAlone
<1>10. Places'
  <2>1. CASE x = "thread"
    BY <1>2, <1>6, <1>9, <2>1 DEF Inv, Places, Contexts
  <2>2. CASE x = "isr"
    <3>1. pc'["thread"] = pc["thread"] /\ req'["thread"] = req["thread"] /\ chan' = chan /\ chan = c
      BY <1>2, <1>6, <1>8, <2>2 DEF Contexts
    <3>2. ~Busy("thread", chan)' /\ pc["thread"] # "top"
      BY <1>8, <2>2, <3>1 DEF Inv, Places, Busy
    <3>3. pc'["isr"] = "read" /\ req'["isr"].ch = chan'
      BY <1>4, <1>6, <2>2, <3>1
    <3>. QED
      BY <3>1, <3>2, <3>3 DEF Places
  <2>. QED
    BY <2>1, <2>2 DEF Contexts
<1>11. \A y \in Contexts : Set(y)'
  <2>1. Set(x)'
    BY <1>1, <1>2, <1>4, <1>6, <1>7 DEF Set
  <2>2. ASSUME NEW y \in Contexts \ {x} PROVE Set(y)'
    BY <1>2, <1>6, <2>2, SetStays DEF Inv
  <2>. QED
    BY <2>1, <2>2
<1>12. ASSUME NEW d \in Channels, d # c PROVE Owned(d)'
  <2>1. \A y \in Contexts : (Busy(y, d)' <=> Busy(y, d)) /\ (Setting(y, d)' <=> Setting(y, d))
    <3>1. ~Busy(x, d)' /\ ~Setting(x, d)'
      BY <1>4, <1>6, <1>12 DEF Busy, Setting
    <3>2. ~Busy(x, d) /\ ~Setting(x, d)
      BY DEF Busy, Setting, Contexts
    <3>3. \A y \in Contexts \ {x} : (Busy(y, d)' <=> Busy(y, d)) /\ (Setting(y, d)' <=> Setting(y, d))
      BY <1>6 DEF Busy, Setting
    <3>. QED
      BY <3>1, <3>2, <3>3
  <2>2. cb'[d] = cb[d]
    BY <1>2, <1>12 DEF Inv, Types
  <2>3. swp[d] => nvic' \/ chan' > d \/ (chan' = d /\ pc'["isr"] = "idle")
    BY <1>2, <1>6, <1>8, <1>9, <1>12 DEF Inv, Owned, Contexts
  <2>. QED
    BY <1>2, <2>1, <2>2, <2>3, OwnedStays DEF Inv
<1>13. Owned(c)'
  <2>1. cb'[c] /\ Busy(x, c)' /\ ~ie'[c] /\ ~swp'[c]
    BY <1>2, <1>4, <1>6, <1>7 DEF Inv, Types, Busy
  <2>. QED
    BY <2>1 DEF Owned, Contexts
<1>14. ASSUME NEW d \in Channels, ie'[d] PROVE Counting(d)'
  BY <1>2, <1>14, CountStays DEF Inv
<1>. QED
  BY <1>5, <1>10, <1>11, <1>12, <1>13, <1>14 DEF Inv

\* Who is in counter_at32_set_cc has the channel to itself.
LEMMA CallerIs ==
  ASSUME Inv, NEW x \in Contexts, Runs(x), pc[x] \in {"read", "write", "judge"},
         NEW c, c = req[x].ch
  PROVE  /\ c \in Channels /\ req[x] \in Alarm /\ ~ie[c] /\ ~swp[c] /\ cb[c]
         /\ x = "isr" => chan = c /\ ~Busy("thread", c)
         /\ x = "thread" => ThreadRuns
         /\ \A y \in Contexts \ {x} : ~Setting(y, c)
<1>1. c \in Channels /\ req[x] \in Alarm
  BY DEF Inv, Types, Alarm
<1>2. Busy(x, c) /\ Setting(x, c)
  BY DEF Busy, Setting
<1>3. ~ie[c] /\ ~swp[c] /\ cb[c]
  BY <1>1, <1>2 DEF Inv, Owned, Contexts
<1>4. x = "isr" => chan = c /\ ~Busy("thread", c)
  BY DEF Inv, Places
<1>5. x = "thread" => ThreadRuns
  BY DEF Runs
<1>6. \A y \in Contexts \ {x} : ~Setting(y, c)
  BY Alone DEF Inv, Setting
<1>. QED
  BY <1>1, <1>3, <1>4, <1>5, <1>6

\* A step on the way to the end of counter_at32_set_cc.
LEMMA CallGoesOn ==
  ASSUME Inv, NEW x \in Contexts, Runs(x), pc[x] \in {"read", "write", "judge"},
         NEW c, c = req[x].ch, NEW s \in {"write", "judge"}, NEW q \in Alarm, q.ch = c,
         pc' = [pc EXCEPT ![x] = s], req' = [req EXCEPT ![x] = q],
         UNCHANGED <<cnt, top, running, ie, ovf, ovfie, swp, cb, topcb, guard, nvic, chan, newtop>>,
         cc' \in [Channels -> 0 .. Wrap - 1], flag' \in [Channels -> BOOLEAN],
         left' \in [Channels -> {None} \cup 0 .. top + 1],
         \A d \in Channels \ {c} : cc'[d] = cc[d] /\ flag'[d] = flag[d] /\ left'[d] = left[d],
         Set(x)'
  PROVE  Inv'
<1>1. /\ c \in Channels /\ ~ie[c] /\ ~swp[c] /\ cb[c]
      /\ x = "isr" => chan = c /\ ~Busy("thread", c)
      /\ \A y \in Contexts \ {x} : ~Setting(y, c)
  BY CallerIs
<1>2. pc'[x] = s /\ req'[x] = q /\ \A y \in Contexts \ {x} : pc'[y] = pc[y] /\ req'[y] = req[y]
  BY DEF Inv, Types
<1>3. Types'
  BY DEF Inv, Types, Contexts
<1>4. \A y \in Contexts, d \in Channels : (Busy(y, d)' <=> Busy(y, d)) /\ (Setting(y, d)' <=> Setting(y, d))
  <2> SUFFICES ASSUME NEW y \in Contexts, NEW d \in Channels
               PROVE  (Busy(y, d)' <=> Busy(y, d)) /\ (Setting(y, d)' <=> Setting(y, d))
    OBVIOUS
  <2>1. CASE y = x
    BY <1>2, <2>1 DEF Busy, Setting
  <2>2. CASE y # x
    BY <1>2, <2>2 DEF Busy, Setting
  <2>. QED
    BY <2>1, <2>2
<1>5. Places'
  <2>1. pc'["isr"] = "idle" <=> pc["isr"] = "idle"
    BY <1>2 DEF Contexts
  <2>2. pc'["isr"] # "idle" => chan \in Channels /\ ~Busy("thread", chan)'
    BY <1>4, <2>1 DEF Inv, Places, Contexts
  <2>3. pc'["isr"] \in {"read", "write", "judge"} => req'["isr"].ch = chan
    <3>1. CASE x = "isr"
      BY <1>1, <1>2, <3>1
    <3>2. CASE x # "isr"
      BY <1>2, <3>2 DEF Inv, Places, Contexts
    <3>. QED
      BY <3>1, <3>2
  <2>4. pc'["isr"] = "callback" => pc["isr"] = "callback"
    BY <1>2 DEF Contexts
  <2>5. pc'["thread"] = "top" => pc["thread"] = "top"
    BY <1>2 DEF Contexts
  <2>. QED
    BY <2>1, <2>2, <2>3, <2>4, <2>5 DEF Inv, Places
<1>6. \A y \in Contexts : Set(y)'
  <2>1. ASSUME NEW y \in Contexts \ {x} PROVE Set(y)'
    <3>1. pc[y] \in {"read", "write", "judge"} => req[y].ch \in Channels \ {c}
      BY <1>1 DEF Setting, Inv, Types, Alarm
    <3>. QED
      BY <1>2, <3>1, SetStays DEF Inv
  <2>. QED
    BY <2>1
<1>7. ASSUME NEW d \in Channels \ {c} PROVE Owned(d)'
  <2>1. pc'["isr"] = "idle" <=> pc["isr"] = "idle"
    BY <1>2 DEF Contexts
  <2>2. swp[d] => nvic' \/ chan' > d \/ (chan' = d /\ pc'["isr"] = "idle")
    BY <2>1 DEF Inv, Owned
  <2>. QED
    BY <1>4, <1>7, <2>2, OwnedStays DEF Inv
<1>8. Owned(c)'
  <2>1. Busy(x, c)'
    BY <1>2 DEF Busy
  <2>. QED
    BY <1>1, <2>1 DEF Owned, Contexts
<1>9. ASSUME NEW d \in Channels, ie'[d] PROVE Counting(d)'
  BY <1>1, <1>9, CountStays DEF Inv
<1>. QED
  BY <1>3, <1>5, <1>6, <1>7, <1>8, <1>9 DEF Inv

LEMMA ParkInv ==
  ASSUME MaskTops, Inv, NEW x \in Contexts, Runs(x), Park(x)
  PROVE  Inv'
<1>1. PICK r : r = req[x]
  OBVIOUS
<1>2. PICK v : v = IF r.absolute THEN r.ticks ELSE TicksAdd(cnt, r.ticks, top)
  OBVIOUS
<1>3. PICK q : q = [ch |-> r.ch, ticks |-> r.ticks, absolute |-> r.absolute, expire |-> r.expire,
                    now |-> cnt, val |-> v]
  OBVIOUS
<1>4. /\ q.ch = r.ch /\ q.ticks = r.ticks /\ q.absolute = r.absolute /\ q.expire = r.expire
      /\ q.now = cnt /\ q.val = v
  BY <1>3
<1>5. /\ pc[x] = "read" /\ pc' = [pc EXCEPT ![x] = "write"]
      /\ cc' = [cc EXCEPT ![r.ch] = cnt] /\ flag' = [flag EXCEPT ![r.ch] = FALSE]
      /\ left' = IF r.absolute THEN left ELSE [left EXCEPT ![r.ch] = r.ticks]
      /\ UNCHANGED <<cnt, top, running, ie, ovf, ovfie, swp, cb, topcb, guard, nvic, chan, newtop>>
  BY <1>1 DEF Park, data
<1>6. /\ r \in Alarm /\ r.ch \in Channels /\ r.ticks \in 0 .. top /\ (r.expire => r.absolute)
      /\ left[r.ch] = None
  BY <1>1, <1>5, Bounds DEF Inv, Types, Set, Alarm
<1>7. req' = [req EXCEPT ![x] = q]
  <2>1. [r EXCEPT !.now = cnt, !.val = v] = q
    <3>1. DOMAIN r = {"ch", "ticks", "absolute", "expire", "now", "val"} /\ r = [f \in DOMAIN r |-> r[f]]
      BY <1>6 DEF Alarm
    <3>2. PICK z : z = [r EXCEPT !.now = cnt, !.val = v]
      OBVIOUS
    <3>3. /\ z.ch = r.ch /\ z.ticks = r.ticks /\ z.absolute = r.absolute /\ z.expire = r.expire
          /\ z.now = cnt /\ z.val = v
      BY <3>1, <3>2
    <3>4. DOMAIN z = {"ch", "ticks", "absolute", "expire", "now", "val"} /\ z = [f \in DOMAIN z |-> z[f]]
      BY <3>1, <3>2
    <3>. QED
      BY <1>3, <3>2, <3>3, <3>4
  <2>2. req' = [req EXCEPT ![x] = [r EXCEPT !.now = cnt, !.val = v]]
    BY <1>1, <1>2 DEF Park, Inv, Types
  <2>. QED
    BY <2>1, <2>2
<1>8. top \in Nat /\ cnt \in 0 .. top /\ top < Wrap /\ Wrap \in Nat /\ Latency \in Nat
  BY Bounds DEF Inv
<1>9. v = (IF r.absolute THEN r.ticks
           ELSE IF r.ticks <= top - cnt THEN cnt + r.ticks ELSE cnt + r.ticks - top - 1)
  BY <1>2, <1>6, <1>8, SumIs DEF Inv
<1>10. v \in 0 .. top
  BY <1>6, <1>8, <1>9
<1>11. q \in Alarm
  BY <1>3, <1>6, <1>8, <1>10 DEF Alarm
<1>12. /\ cc' \in [Channels -> 0 .. Wrap - 1] /\ cc'[r.ch] = cnt
       /\ \A d \in Channels \ {r.ch} : cc'[d] = cc[d]
  BY <1>5, <1>6, <1>8 DEF Inv, Types
<1>13. /\ flag' \in [Channels -> BOOLEAN] /\ ~flag'[r.ch]
       /\ \A d \in Channels \ {r.ch} : flag'[d] = flag[d]
  BY <1>5, <1>6 DEF Inv, Types
<1>14. /\ left' \in [Channels -> {None} \cup 0 .. top + 1]
       /\ left'[r.ch] = (IF r.absolute THEN None ELSE r.ticks)
       /\ \A d \in Channels \ {r.ch} : left'[d] = left[d]
  <2>1. r.ticks \in 0 .. top + 1
    BY <1>6, <1>8
  <2>. QED
    BY <1>5, <1>6, <2>1 DEF Inv, Types
<1>15. pc'[x] = "write" /\ req'[x] = q
  BY <1>5, <1>7 DEF Inv, Types
<1>16. Set(x)'
  <2>1. Gap(q.now, cnt)' = 0
    BY <1>4, <1>5, <1>8 DEF Gap
  <2>2. ~q.absolute => Relative(q, 0)'
    BY <1>4, <1>5, <1>6, <1>8, <1>9, <1>14 DEF Relative
  <2>. QED
    BY <1>4, <1>5, <1>6, <1>8, <1>10, <1>12, <1>13, <1>14, <1>15, <2>1, <2>2 DEF Set
<1>. QED
  BY <1>1, <1>4, <1>5, <1>7, <1>11, <1>12, <1>13, <1>14, <1>16, CallGoesOn

LEMMA WriteInv ==
  ASSUME Inv, NEW x \in Contexts, Runs(x), WriteCompare(x)
  PROVE  Inv'
<1>0. PICK r : r = req[x]
  OBVIOUS
<1> DEFINE d == Ahead(cnt, r.val)
<1>1. /\ pc[x] = "write" /\ pc' = [pc EXCEPT ![x] = "judge"] /\ req' = req
      /\ cc' = [cc EXCEPT ![r.ch] = r.val] /\ flag' = flag
      /\ left' = IF r.absolute THEN [left EXCEPT ![r.ch] = IF d = 0 THEN top + 1 ELSE d] ELSE left
      /\ UNCHANGED <<cnt, top, running, ie, ovf, ovfie, swp, cb, topcb, guard, nvic, chan, newtop>>
  BY <1>0 DEF WriteCompare, data
<1>2. /\ r \in Alarm /\ r.ch \in Channels /\ r.ticks <= top /\ (r.expire => r.absolute)
      /\ r.now \in 0 .. top /\ r.val \in 0 .. top /\ Gap(r.now, cnt) <= Latency
      /\ ~flag[r.ch] /\ (~r.absolute => Relative(r, Gap(r.now, cnt)))
  BY <1>0, <1>1 DEF Inv, Types, Set, Alarm
<1>3. top \in Nat /\ cnt \in 0 .. top /\ top < Wrap /\ Wrap \in Nat
  BY Bounds DEF Inv
<1>4. d = Gap(cnt, r.val) /\ d \in 0 .. top
  BY <1>2, <1>3, Circle DEF Inv
<1>5. d = 0 <=> cnt = r.val
  BY <1>2, <1>3, <1>4 DEF Gap
<1> HIDE DEF d
<1>6. /\ cc' \in [Channels -> 0 .. Wrap - 1] /\ flag' \in [Channels -> BOOLEAN]
      /\ left' \in [Channels -> {None} \cup 0 .. top + 1]
      /\ cc'[r.ch] = r.val /\ ~flag'[r.ch]
      /\ left'[r.ch] = (IF r.absolute THEN IF d = 0 THEN top + 1 ELSE d ELSE left[r.ch])
      /\ \A e \in Channels \ {r.ch} : cc'[e] = cc[e] /\ flag'[e] = flag[e] /\ left'[e] = left[e]
  BY <1>1, <1>2, <1>3, <1>4 DEF Inv, Types
<1>7. pc'[x] = "judge" /\ req'[x] = r
  BY <1>0, <1>1 DEF Inv, Types
<1>8. Set(x)'
  <2>1. Gap(r.now, cnt)' = Gap(r.now, cnt) /\ Gap(cnt, r.val)' = Gap(cnt, r.val)
    BY <1>1 DEF Gap
  <2>2. ~r.absolute => Relative(r, Gap(r.now, cnt))'
    BY <1>1, <1>2, <1>6, <2>1 DEF Relative
  <2>3. r.absolute => Counting(r.ch)'
    <3>1. ASSUME r.absolute PROVE Counting(r.ch)'
      <4>1. left'[r.ch] = (IF cnt = r.val THEN top + 1 ELSE Gap(cnt, r.val)) /\ left'[r.ch] \in 1 .. top + 1
        BY <1>3, <1>4, <1>5, <1>6, <3>1
      <4>2. Gap(cnt, cc[r.ch])' = Gap(cnt, r.val)
        BY <1>1, <1>6 DEF Gap
      <4>. QED
        BY <1>1, <1>2, <1>3, <1>6, <4>1, <4>2 DEF Counting
    <3>. QED
      BY <3>1
  <2>. QED
    BY <1>1, <1>2, <1>6, <1>7, <2>1, <2>2, <2>3 DEF Set
<1>9. req' = [req EXCEPT ![x] = r]
  BY <1>0, <1>1 DEF Inv, Types
<1>10. PICK c : c = r.ch
  OBVIOUS
<1>11. /\ cc' \in [Channels -> 0 .. Wrap - 1] /\ flag' \in [Channels -> BOOLEAN]
       /\ left' \in [Channels -> {None} \cup 0 .. top + 1]
       /\ \A e \in Channels \ {c} : cc'[e] = cc[e] /\ flag'[e] = flag[e] /\ left'[e] = left[e]
       /\ pc[x] \in {"read", "write", "judge"} /\ pc' = [pc EXCEPT ![x] = "judge"]
       /\ c = req[x].ch /\ c = r.ch /\ r \in Alarm
       /\ UNCHANGED <<cnt, top, running, ie, ovf, ovfie, swp, cb, topcb, guard, nvic, chan, newtop>>
  BY <1>0, <1>1, <1>2, <1>6, <1>10
<1>. QED
  BY <1>8, <1>9, <1>11, CallGoesOn

\* The late detection: an alarm that it lets wait is ahead by what is left; one that
\* it takes for late is due, or is an absolute one that it refuses.
LEMMA JudgeRight ==
  ASSUME MaskTops, Inv, NEW x \in Contexts, pc[x] = "judge", NEW r, r = req[x]
  PROVE  /\ ~TooLate(r) => Counting(r.ch)
         /\ TooLate(r) /\ IrqOnLate(r) => Expired(r) \/ left[r.ch] = 0
         /\ TooLate(r) /\ ~IrqOnLate(r) => r.absolute
<1>1. /\ top \in Nat /\ cnt \in 0 .. top /\ Latency \in Nat /\ Latency < top \div 2 /\ guard \in 0 .. top
      /\ 2 * (top \div 2) <= top /\ top <= 2 * (top \div 2) + 1 /\ top \div 2 \in Nat
  BY Bounds DEF Inv
<1>2. /\ r.ch \in Channels /\ r.ticks \in Nat /\ r.ticks <= top /\ r.absolute \in BOOLEAN /\ r.expire \in BOOLEAN
      /\ r.now \in 0 .. top /\ r.val \in 0 .. top /\ cc[r.ch] = r.val
  BY DEF Inv, Set, Types, Alarm
<1>3. PICK e : e = Gap(r.now, cnt)
  OBVIOUS
<1>4. e \in 0 .. top /\ e <= Latency /\ e = (IF cnt >= r.now THEN cnt - r.now ELSE cnt - r.now + top + 1)
  <2>1. e <= Latency
    BY <1>3 DEF Inv, Set
  <2>. QED
    BY <1>1, <1>2, <1>3, <2>1 DEF Gap
<1>5. PICK h : h = top \div 2
  OBVIOUS
<1>6. PICK f : f = IF r.val > cnt THEN r.val - 1 - cnt ELSE r.val - cnt + top
  OBVIOUS
<1>7. TooLate(r) <=> f > MaxRelative(r)
  BY <1>2, <1>6, LateIs DEF Inv
<1>8. CASE r.absolute
  <2>1. Counting(r.ch)
    BY <1>8 DEF Inv, Set
  <2>2. MaxRelative(r) = top - guard
    BY <1>8 DEF MaxRelative
  <2>3. Ahead(r.val, cnt) = Gap(r.val, cnt)
    BY <1>1, <1>2, Circle DEF Inv
  <2>4. f > top - guard => Gap(r.val, cnt) < guard
    BY <1>1, <1>2, <1>6 DEF Gap
  <2>. QED
    BY <1>7, <1>8, <2>1, <2>2, <2>3, <2>4 DEF Expired
<1>9. CASE ~r.absolute
  <2>1. /\ left[r.ch] = (IF e < r.ticks THEN r.ticks - e ELSE 0)
        /\ r.val = (IF r.ticks <= top - r.now THEN r.now + r.ticks ELSE r.now + r.ticks - top - 1)
        /\ flag[r.ch] => left[r.ch] = 0
    BY <1>3, <1>9 DEF Inv, Set, Relative
  <2>2. IrqOnLate(r) <=> r.ticks < h
    BY <1>5, <1>9 DEF IrqOnLate
  <2>3. MaxRelative(r) = IF r.ticks < h THEN h ELSE top
    BY <1>5, <1>9, <2>2 DEF MaxRelative
  <2>4. f = IF e < r.ticks THEN r.ticks - e - 1 ELSE r.ticks - e + top
    BY <1>1, <1>2, <1>4, <1>6, <2>1
  <2>5. h \in Nat /\ Latency < h /\ 2 * h <= top /\ top <= 2 * h + 1
    BY <1>1, <1>5
  <2>6. r.ticks < h /\ f > h => left[r.ch] = 0
    BY <1>2, <1>4, <2>1, <2>4, <2>5
  <2>7. ~(f > top)
    BY <1>1, <1>2, <1>4, <2>4
  <2>8. ASSUME ~TooLate(r) PROVE e < r.ticks
    BY <1>1, <1>2, <1>4, <1>7, <2>3, <2>4, <2>5, <2>8
  <2>9. ASSUME ~TooLate(r) PROVE Counting(r.ch)
    <3>1. left[r.ch] = r.ticks - e /\ e < r.ticks
      BY <2>1, <2>8, <2>9
    <3>2. cnt # r.val /\ Gap(cnt, r.val) = r.ticks - e
      BY <1>1, <1>2, <1>4, <2>1, <3>1 DEF Gap
    <3>3. r.ticks - e \in 1 .. top
      BY <1>1, <1>2, <1>4, <3>1
    <3>4. flag[r.ch] \in BOOLEAN /\ ~flag[r.ch]
      BY <1>2, <2>1, <3>1, <3>3 DEF Inv, Types
    <3>. QED
      BY <1>1, <1>2, <3>1, <3>2, <3>3, <3>4 DEF Counting
  <2>. QED
    BY <1>7, <2>2, <2>3, <2>6, <2>7, <2>9
<1>. QED
  BY <1>2, <1>8, <1>9

\* The end of a call.
LEMMA ReturnParts ==
  ASSUME Inv, NEW x \in Contexts, pc[x] # "idle", Runs(x), Return(x)
  PROVE  /\ pc' \in [Contexts -> {"idle", "read", "write", "judge", "cancel", "top", "topenable", "callback"}]
         /\ pc'["thread"] # "callback" /\ pc'["isr"] = "idle"
         /\ req' \in [Contexts -> Alarm]
         /\ chan' \in Channels \cup {0, Away} /\ Places'
         /\ pc'[x] = "idle" /\ \A y \in Contexts \ {x} : pc'[y] = pc[y] /\ req'[y] = req[y]
         /\ \A d \in Channels : d # chan /\ swp[d] => nvic \/ chan' > d \/ chan' = d
         /\ \A d \in Channels : x = "thread" => ~swp[d]
         /\ x = "isr" => \A d \in Channels : Busy("thread", d) => ~Busy("isr", d)
<1>1. /\ pc' = [pc EXCEPT ![x] = "idle"] /\ req' = [req EXCEPT ![x] = NoCall]
      /\ chan' = IF x = "isr" THEN chan - 1 ELSE chan
  BY DEF Return
<1>2. NoCall \in Alarm
  BY ChannelsAssumption DEF NoCall, Alarm, Channels
<1>3. /\ pc' \in [Contexts -> {"idle", "read", "write", "judge", "cancel", "top", "topenable", "callback"}]
      /\ req' \in [Contexts -> Alarm]
      /\ pc'[x] = "idle" /\ \A y \in Contexts \ {x} : pc'[y] = pc[y] /\ req'[y] = req[y]
  BY <1>1, <1>2 DEF Inv, Types, Contexts
<1>4. x = "thread" => chan = Away /\ pc["isr"] = "idle" /\ \A d \in Channels : ~swp[d]
  BY ThreadAlone DEF Runs
<1>5. pc'["isr"] = "idle" /\ pc'["thread"] # "callback"
  BY <1>3, <1>4 DEF Inv, Types, Contexts
<1>6. x = "isr" => chan \in Channels
  BY DEF Inv, Places
<1>7. chan' \in Channels \cup {0, Away}
  BY <1>1, <1>4, <1>6, ChannelsAssumption DEF Channels, Contexts
<1>8. Places'
  <2>1. pc'["thread"] # "top"
    BY <1>3, <1>4 DEF Inv, Places, Contexts
  <2>. QED
    BY <1>5, <2>1 DEF Places
<1>9. ASSUME NEW d \in Channels, d # chan, swp[d] PROVE nvic \/ chan' > d \/ chan' = d
  <2>1. x = "isr" /\ (nvic \/ chan > d)
    BY <1>4, <1>9 DEF Inv, Owned, Contexts
  <2>. QED
    BY <1>1, <1>6, <2>1, ChannelsAssumption DEF Channels
<1>10. x = "isr" => \A d \in Channels : Busy("thread", d) => ~Busy("isr", d)
  BY DEF Inv, Places, Busy, Types
<1>. QED
  BY <1>3, <1>4, <1>5, <1>7, <1>8, <1>9, <1>10

LEMMA JudgeInv ==
  ASSUME MaskTops, Inv, NEW x \in Contexts, Runs(x), Judge(x)
  PROVE  Inv'
<1>1. PICK r : r = req[x]
  OBVIOUS
<1>2. PICK c : c = r.ch
  OBVIOUS
<1>3. /\ pc[x] = "judge" /\ Return(x)
      /\ UNCHANGED <<cnt, top, running, cc, flag, ovf, ovfie, topcb, guard, newtop>>
  BY DEF Judge
<1>4. /\ c \in Channels /\ ~ie[c] /\ ~swp[c] /\ cb[c] /\ \A y \in Contexts \ {x} : ~Setting(y, c)
      /\ x = "isr" => chan = c /\ ~Busy("thread", c)
  BY <1>1, <1>2, <1>3, CallerIs
<1>5. /\ ~TooLate(r) => Counting(c)
      /\ TooLate(r) /\ IrqOnLate(r) => Expired(r) \/ left[c] = 0
      /\ TooLate(r) /\ ~IrqOnLate(r) => r.absolute
  BY <1>1, <1>2, <1>3, JudgeRight
<1>6. \/ /\ ~TooLate(r) /\ ie' = [ie EXCEPT ![c] = TRUE] /\ UNCHANGED <<swp, nvic, cb, left>>
      \/ /\ TooLate(r) /\ IrqOnLate(r)
         /\ swp' = [swp EXCEPT ![c] = TRUE] /\ nvic' = TRUE
         /\ left' = IF Expired(r) THEN [left EXCEPT ![c] = 0] ELSE left
         /\ UNCHANGED <<ie, cb>>
      \/ /\ TooLate(r) /\ cb' = [cb EXCEPT ![c] = FALSE] /\ left' = [left EXCEPT ![c] = None]
         /\ UNCHANGED <<ie, swp, nvic>>
  BY <1>1, <1>2, <1>5 DEF Judge, Pend
<1>7. /\ ie' \in [Channels -> BOOLEAN] /\ swp' \in [Channels -> BOOLEAN] /\ cb' \in [Channels -> BOOLEAN]
      /\ nvic' \in BOOLEAN /\ left' \in [Channels -> {None} \cup 0 .. top + 1]
      /\ (nvic => nvic')
      /\ \A d \in Channels \ {c} : ie'[d] = ie[d] /\ swp'[d] = swp[d] /\ cb'[d] = cb[d] /\ left'[d] = left[d]
  <2>1. top \in Nat
    BY Bounds DEF Inv
  <2>2. /\ left' \in [Channels -> {None} \cup 0 .. top + 1]
        /\ \A d \in Channels \ {c} : left'[d] = left[d]
    <3>1. 0 \in {None} \cup 0 .. top + 1
      BY <2>1
    <3>. QED
      BY <1>4, <1>6, <3>1 DEF Inv, Types
  <2>3. /\ ie' \in [Channels -> BOOLEAN] /\ swp' \in [Channels -> BOOLEAN] /\ cb' \in [Channels -> BOOLEAN]
        /\ nvic' \in BOOLEAN /\ (nvic => nvic')
    BY <1>4, <1>6 DEF Inv, Types
  <2>4. \A d \in Channels \ {c} : ie'[d] = ie[d] /\ swp'[d] = swp[d] /\ cb'[d] = cb[d]
    BY <1>6 DEF Inv, Types
  <2>. QED
    BY <2>2, <2>3, <2>4
<1>8. \/ /\ ~TooLate(r) /\ ie'[c] /\ ~swp'[c] /\ cb'[c] /\ left'[c] = left[c]
      \/ /\ ~ie'[c] /\ swp'[c] /\ nvic' /\ cb'[c] /\ left'[c] = 0
      \/ /\ ~ie'[c] /\ ~swp'[c] /\ ~cb'[c] /\ left'[c] = None
  BY <1>4, <1>5, <1>6 DEF Inv, Types
<1>9. /\ pc' \in [Contexts -> {"idle", "read", "write", "judge", "cancel", "top", "topenable", "callback"}]
      /\ pc'["thread"] # "callback" /\ pc'["isr"] = "idle"
      /\ req' \in [Contexts -> Alarm]
      /\ chan' \in Channels \cup {0, Away} /\ Places'
      /\ pc'[x] = "idle" /\ \A y \in Contexts \ {x} : pc'[y] = pc[y] /\ req'[y] = req[y]
      /\ \A d \in Channels : d # chan /\ swp[d] => nvic \/ chan' > d \/ chan' = d
      /\ \A d \in Channels : x = "thread" => ~swp[d]
  BY <1>3, ReturnParts
<1>10. Types'
  BY <1>3, <1>7, <1>9 DEF Inv, Types
<1>11. \A y \in Contexts : Set(y)'
  <2>1. Set(x)'
    BY <1>9 DEF Set
  <2>2. ASSUME NEW y \in Contexts \ {x} PROVE Set(y)'
    <3>1. pc[y] \in {"read", "write", "judge"} => req[y].ch \in Channels \ {c}
      BY <1>4 DEF Setting, Inv, Types, Alarm
    <3>. QED
      BY <1>3, <1>7, <1>9, <3>1, SetStays DEF Inv
  <2>. QED
    BY <2>1, <2>2
<1>12. ASSUME NEW d \in Channels \ {c} PROVE Owned(d)'
  <2>1. \A y \in Contexts : (Busy(y, d)' <=> Busy(y, d)) /\ (Setting(y, d)' <=> Setting(y, d))
    <3>1. ~Busy(x, d)' /\ ~Setting(x, d)'
      BY <1>9 DEF Busy, Setting
    <3>2. ~Busy(x, d) /\ ~Setting(x, d)
      BY <1>1, <1>2, <1>12 DEF Busy, Setting
    <3>3. \A y \in Contexts \ {x} : (Busy(y, d)' <=> Busy(y, d)) /\ (Setting(y, d)' <=> Setting(y, d))
      BY <1>9 DEF Busy, Setting
    <3>. QED
      BY <3>1, <3>2, <3>3
  <2>2. swp[d] => nvic' \/ chan' > d \/ (chan' = d /\ pc'["isr"] = "idle")
    BY <1>4, <1>7, <1>9, <1>12 DEF Contexts
  <2>. QED
    BY <1>7, <1>12, <2>1, <2>2, OwnedStays DEF Inv
<1>13. Owned(c)'
  <2>1. \A y \in Contexts : ~Setting(y, c)'
    BY <1>4, <1>9 DEF Setting
  <2>2. \A y \in Contexts : ~Busy(y, c)'
    <3>1. ~Busy(x, c)'
      BY <1>9 DEF Busy
    <3>2. \A y \in Contexts \ {x} : ~Busy(y, c)
      <4>1. x = "thread" => pc["isr"] = "idle"
        BY ThreadAlone DEF Runs
      <4>. QED
        BY <1>4, <4>1 DEF Contexts, Busy
    <3>. QED
      BY <1>9, <3>1, <3>2 DEF Busy
  <2>. QED
    BY <1>8, <2>1, <2>2 DEF Owned, Contexts
<1>14. ASSUME NEW d \in Channels, ie'[d] PROVE Counting(d)'
  <2>1. left'[d] = left[d] /\ Counting(d)
    <3>1. CASE d = c
      BY <1>5, <1>8, <1>14, <3>1
    <3>2. CASE d # c
      BY <1>7, <1>14, <3>2 DEF Inv
    <3>. QED
      BY <3>1, <3>2
  <2>. QED
    BY <1>3, <2>1, CountStays
<1>. QED
  BY <1>9, <1>10, <1>11, <1>12, <1>13, <1>14 DEF Inv

-----------------------------------------------------------------------------
(* The other calls *)

\* A step of the thread that touches no channel's registers.
LEMMA ThreadStep ==
  ASSUME Inv, ThreadRuns, Types', pc' = [pc EXCEPT !["thread"] = pc'["thread"]], pc["thread"] \notin {"read", "write", "judge"},
         pc'["thread"] \in {"idle", "top", "topenable"}, pc["thread"] # "cancel",
         pc'["thread"] = "top" => newtop' # NoTop /\ \A c \in Channels : ~cb[c],
         UNCHANGED <<ie, swp, cb, left, chan>>,
         (\A c \in Channels : ~cb[c]) \/ UNCHANGED <<cnt, top, cc, flag>>
  PROVE  Inv'
<1>1. chan = Away /\ pc["isr"] = "idle" /\ \A c \in Channels : ~swp[c]
  BY ThreadAlone
<1>2. pc'["isr"] = "idle"
  BY <1>1 DEF Inv, Types, Contexts
<1>3. Places'
  BY <1>2 DEF Places
<1>4. \A y \in Contexts, d \in Channels : ~Busy(y, d) /\ ~Setting(y, d) /\ ~Busy(y, d)' /\ ~Setting(y, d)'
  BY <1>1, <1>2 DEF Contexts, Busy, Setting
<1>5. \A d \in Channels : Owned(d)'
  BY <1>1, <1>4, OwnedStays DEF Inv
<1>6. \A y \in Contexts : Set(y)'
  BY <1>2 DEF Set, Contexts
<1>7. ASSUME NEW d \in Channels, ie'[d] PROVE Counting(d)'
  <2>1. cb[d]
    BY <1>7 DEF Inv, Owned
  <2>. QED
    BY <1>7, <2>1, CountStays DEF Inv
<1>. QED
  BY <1>3, <1>5, <1>6, <1>7 DEF Inv

LEMMA CancelDisableInv ==
  ASSUME Inv, ThreadRuns, NEW c \in Channels, CancelDisable(c)
  PROVE  Inv'
<1>1. /\ pc["thread"] = "idle" /\ ie' = [ie EXCEPT ![c] = FALSE]
      /\ pc' = [pc EXCEPT !["thread"] = "cancel"]
      /\ UNCHANGED <<cnt, top, running, cc, flag, ovf, ovfie, swp, cb, topcb, guard, nvic, chan, left, newtop>>
  BY DEF CancelDisable, data
<1>2. chan = Away /\ pc["isr"] = "idle" /\ \A d \in Channels : ~swp[d]
  BY ThreadAlone
<1>3. req' \in [Contexts -> Alarm] /\ req'["thread"].ch = c /\ req'["isr"] = req["isr"]
  <2>1. PICK r : r = req["thread"]
    OBVIOUS
  <2>2. PICK q : q = [r EXCEPT !.ch = c]
    OBVIOUS
  <2>3. q \in Alarm /\ q.ch = c
    BY <2>1, <2>2 DEF Inv, Types, Alarm, Contexts
  <2>4. req' = [req EXCEPT !["thread"] = q]
    BY <2>1, <2>2 DEF CancelDisable, Inv, Types, Contexts
  <2>. QED
    BY <2>3, <2>4 DEF Inv, Types, Contexts
<1>4. pc'["thread"] = "cancel" /\ pc'["isr"] = "idle"
  BY <1>1, <1>2 DEF Inv, Types, Contexts
<1>5. Types'
  <2>1. pc' \in [Contexts -> {"idle", "read", "write", "judge", "cancel", "top", "topenable", "callback"}]
    BY <1>1 DEF Inv, Types
  <2>2. ie' \in [Channels -> BOOLEAN]
    BY <1>1 DEF Inv, Types
  <2>. QED
    BY <1>1, <1>3, <1>4, <2>1, <2>2 DEF Inv, Types
<1>6. Places' /\ \A y \in Contexts : Set(y)'
  BY <1>4 DEF Places, Set, Contexts
<1>7. ASSUME NEW d \in Channels PROVE Owned(d)'
  <2>1. \A y \in Contexts : ~Setting(y, d)' /\ (Busy(y, d)' => y = "thread" /\ d = c) /\ ~Busy(y, d)
    BY <1>1, <1>2, <1>3, <1>4 DEF Setting, Busy, Contexts
  <2>2. d = c => Busy("thread", d)'
    BY <1>3, <1>4 DEF Busy
  <2>3. IF d = c THEN ~ie'[d] ELSE ie'[d] = ie[d]
    BY <1>1 DEF Inv, Types
  <2>. QED
    BY <1>1, <1>2, <2>1, <2>2, <2>3 DEF Inv, Owned, Contexts
<1>8. ASSUME NEW d \in Channels, ie'[d] PROVE Counting(d)'
  <2>1. ie[d]
    BY <1>1, <1>8 DEF Inv, Types
  <2>. QED
    BY <1>1, <2>1, CountStays DEF Inv
<1>. QED
  BY <1>5, <1>6, <1>7, <1>8 DEF Inv

LEMMA CancelForgetInv ==
  ASSUME Inv, ThreadRuns, CancelForget
  PROVE  Inv'
<1>1. PICK c : c = req["thread"].ch
  OBVIOUS
<1>2. /\ pc["thread"] = "cancel" /\ Return("thread")
      /\ cb' = [cb EXCEPT ![c] = FALSE] /\ left' = [left EXCEPT ![c] = None]
      /\ UNCHANGED <<cnt, top, running, cc, flag, ie, ovf, ovfie, swp, topcb, guard, nvic, newtop>>
  BY <1>1 DEF CancelForget, timer
<1>3. c \in Channels /\ ~ie[c] /\ ~swp[c] /\ Busy("thread", c)
  <2>1. c \in Channels
    BY <1>1 DEF Inv, Types, Alarm, Contexts
  <2>2. Busy("thread", c)
    BY <1>1, <1>2 DEF Busy
  <2>. QED
    BY <2>1, <2>2 DEF Inv, Owned
<1>4. chan = Away /\ pc["isr"] = "idle" /\ \A d \in Channels : ~swp[d]
  BY ThreadAlone
<1>5. /\ pc' \in [Contexts -> {"idle", "read", "write", "judge", "cancel", "top", "topenable", "callback"}]
      /\ pc'["thread"] = "idle" /\ pc'["isr"] = "idle"
      /\ req' \in [Contexts -> Alarm] /\ chan' \in Channels \cup {0, Away} /\ Places'
  BY <1>2, ReturnParts DEF Contexts, Runs
<1>6. Types'
  <2>1. cb' \in [Channels -> BOOLEAN] /\ left' \in [Channels -> {None} \cup 0 .. top + 1]
    BY <1>2 DEF Inv, Types
  <2>. QED
    BY <1>2, <1>5, <2>1 DEF Inv, Types
<1>7. \A y \in Contexts : Set(y)'
  BY <1>5 DEF Set, Contexts
<1>8. ASSUME NEW d \in Channels PROVE Owned(d)'
  <2>1. \A y \in Contexts : ~Setting(y, d)' /\ ~Busy(y, d)' /\ (Busy(y, d) => d = c)
    BY <1>1, <1>2, <1>4, <1>5 DEF Setting, Busy, Contexts
  <2>2. IF d = c THEN ~cb'[d] /\ left'[d] = None ELSE cb'[d] = cb[d] /\ left'[d] = left[d]
    BY <1>2, <1>3 DEF Inv, Types
  <2>. QED
    BY <1>2, <1>3, <1>4, <2>1, <2>2 DEF Inv, Owned, Contexts
<1>9. ASSUME NEW d \in Channels, ie'[d] PROVE Counting(d)'
  <2>1. d # c /\ ie[d]
    BY <1>2, <1>3, <1>9
  <2>2. left'[d] = left[d]
    BY <1>2, <2>1 DEF Inv, Types
  <2>. QED
    BY <1>2, <2>1, <2>2, CountStays DEF Inv
<1>. QED
  BY <1>5, <1>6, <1>7, <1>8, <1>9 DEF Inv

LEMMA TopInv ==
  ASSUME Inv, ThreadRuns,
         \/ \E t \in Tops, f \in BOOLEAN, keep \in BOOLEAN : TopDisable(t, f, keep)
         \/ TopWrite \/ TopEnable
  PROVE  Inv'
<1>1. CASE \E t \in Tops, f \in BOOLEAN, keep \in BOOLEAN : TopDisable(t, f, keep)
  <2>1. PICK t \in Tops, f \in BOOLEAN, keep \in BOOLEAN : TopDisable(t, f, keep)
    BY <1>1
  <2>2. newtop' \in [ticks: Tops, callback: BOOLEAN, keep: BOOLEAN] /\ newtop' # NoTop
    <3>1. t # 0
      BY TopsAssumption
    <3>. QED
      BY <2>1, <3>1 DEF TopDisable, NoTop
  <2>3. /\ pc["thread"] = "idle" /\ pc' = [pc EXCEPT !["thread"] = "top"] /\ \A c \in Channels : ~cb[c]
        /\ UNCHANGED <<cnt, top, running, cc, flag, ie, ovf, swp, cb, topcb, guard, nvic, req, chan, left>>
        /\ ovfie' = FALSE
    BY <2>1 DEF TopDisable, data
  <2>4. pc'["thread"] = "top"
    BY <2>3 DEF Inv, Types, Contexts
  <2>5. Types'
    BY <2>2, <2>3, <2>4 DEF Inv, Types, Contexts
  <2>. QED
    BY <2>2, <2>3, <2>4, <2>5, ThreadStep
<1>2. CASE TopWrite
  <2>1. /\ pc["thread"] = "top" /\ pc' = [pc EXCEPT !["thread"] = "topenable"]
        /\ top' = newtop.ticks /\ ovf' = FALSE /\ topcb' = newtop.callback
        /\ cnt' = IF ~newtop.keep \/ cnt >= newtop.ticks THEN 0 ELSE cnt
        /\ UNCHANGED <<running, cc, flag, ie, ovfie, swp, cb, guard, nvic, req, chan, left, newtop>>
    BY <1>2 DEF TopWrite
  <2>2. newtop \in [ticks: Tops, callback: BOOLEAN, keep: BOOLEAN] /\ \A c \in Channels : ~cb[c]
    BY <2>1 DEF Inv, Types, Places
  <2>3. top' \in Tops /\ cnt' \in 0 .. top' /\ topcb' \in BOOLEAN
    <3>1. newtop.ticks \in Tops /\ newtop.callback \in BOOLEAN /\ newtop.ticks \in Nat
      BY <2>2, TopsAssumption
    <3>2. cnt \in Nat
      BY Bounds DEF Inv
    <3>. QED
      BY <2>1, <3>1, <3>2
  <2>4. pc'["thread"] = "topenable" /\ pc'["isr"] = pc["isr"]
    BY <2>1 DEF Inv, Types, Contexts
  <2>5. left' \in [Channels -> {None} \cup 0 .. top' + 1]
    <3>1. \A c \in Channels : left[c] = None
      BY <2>2 DEF Inv, Owned
    <3>. QED
      BY <2>1, <3>1 DEF Inv, Types
  <2>6. Types'
    BY <2>1, <2>3, <2>4, <2>5 DEF Inv, Types, Contexts
  <2>. QED
    BY <2>1, <2>2, <2>4, <2>6, ThreadStep
<1>3. CASE TopEnable
  <2>1. /\ pc["thread"] = "topenable" /\ ovfie' = (ovfie \/ newtop.callback) /\ newtop' = NoTop
        /\ Return("thread") /\ pc' = [pc EXCEPT !["thread"] = "idle"] /\ chan' = chan
        /\ UNCHANGED <<cnt, top, running, cc, flag, ie, ovf, swp, cb, topcb, guard, nvic, left>>
    BY <1>3 DEF TopEnable, data, Return
  <2>2. /\ pc' \in [Contexts -> {"idle", "read", "write", "judge", "cancel", "top", "topenable", "callback"}]
        /\ pc'["thread"] = "idle" /\ pc'["isr"] = "idle" /\ req' \in [Contexts -> Alarm]
    BY <2>1, ReturnParts DEF Contexts, Runs
  <2>3. Types'
    <3>1. ovfie' \in BOOLEAN
      BY <2>1 DEF Inv, Types, NoTop
    <3>. QED
      BY <2>1, <2>2, <3>1 DEF Inv, Types
  <2>. QED
    BY <2>1, <2>2, <2>3, ThreadStep
<1>. QED
  BY <1>1, <1>2, <1>3

LEMMA SettingsInv ==
  ASSUME Inv, ThreadRuns, (\E g \in Guards : SetGuard(g)) \/ StartStop
  PROVE  Inv'
<1>1. /\ pc["thread"] = "idle"
      /\ UNCHANGED <<cnt, top, cc, flag, ie, ovf, ovfie, swp, cb, topcb, nvic, pc, req, chan, left, newtop>>
      /\ running' \in BOOLEAN /\ guard' \in Guards \cup {0}
  BY DEF SetGuard, StartStop, timer, data, Inv, Types
<1>2. Types'
  BY <1>1 DEF Inv, Types
<1>3. pc' = [pc EXCEPT !["thread"] = pc'["thread"]]
  BY <1>1 DEF Inv, Types
<1>. QED
  BY <1>1, <1>2, <1>3, ThreadStep

-----------------------------------------------------------------------------
(* The handler *)

\* A step of the handler that leaves all channels as they are.
LEMMA HandlerStep ==
  ASSUME Inv, Types', Places', UNCHANGED <<cnt, top, cc, flag, ie, swp, cb, left>>,
         pc'["thread"] = pc["thread"], req'["thread"] = req["thread"],
         pc["isr"] \in {"idle", "callback"}, pc'["isr"] = "idle",
         \A d \in Channels : swp[d] => nvic' \/ chan' > d \/ chan' = d
  PROVE  Inv'
<1>1. \A y \in Contexts, d \in Channels : (Busy(y, d)' <=> Busy(y, d)) /\ (Setting(y, d)' <=> Setting(y, d))
  BY DEF Busy, Setting, Contexts
<1>2. \A d \in Channels : Owned(d)'
  BY <1>1, OwnedStays DEF Inv
<1>3. Set("thread")'
  BY SetStays DEF Inv, Contexts
<1>4. Set("isr")'
  BY DEF Set
<1>5. ASSUME NEW d \in Channels, ie'[d] PROVE Counting(d)'
  BY <1>5, CountStays DEF Inv
<1>. QED
  BY <1>2, <1>3, <1>4, <1>5 DEF Inv, Contexts

LEMMA EnterInv ==
  ASSUME Inv, Enter
  PROVE  Inv'
<1>1. /\ chan = Away /\ chan' = NumChannels /\ nvic' = FALSE
      /\ UNCHANGED <<cnt, top, running, cc, flag, ie, ovf, ovfie, swp, cb, topcb, guard, pc, req, left, newtop>>
  BY DEF Enter, timer
<1>2. pc["isr"] = "idle" /\ chan' \in Channels /\ \A d \in Channels : chan' > d \/ chan' = d
  BY <1>1, ChannelsAssumption DEF Inv, Places, Channels, Away
<1>3. Types'
  BY <1>1, <1>2 DEF Inv, Types
<1>4. Places'
  BY <1>1, <1>2 DEF Inv, Places
<1>. QED
  BY <1>1, <1>2, <1>3, <1>4, HandlerStep

LEMMA OverflowInv ==
  ASSUME Inv, HandleOverflow
  PROVE  Inv'
<1>1. /\ chan = 0 /\ chan' = Away /\ ovf' = (ovf /\ ~ovfie)
      /\ UNCHANGED <<cnt, top, running, cc, flag, ie, ovfie, swp, cb, topcb, guard, nvic, pc, req, left, newtop>>
  BY DEF HandleOverflow, data
<1>2. pc["isr"] = "idle" /\ \A d \in Channels : swp[d] => nvic
  BY <1>1, ChannelsAssumption DEF Inv, Places, Channels, Owned
<1>3. Types'
  BY <1>1 DEF Inv, Types
<1>4. Places'
  BY <1>1, <1>2 DEF Inv, Places
<1>. QED
  BY <1>1, <1>2, <1>3, <1>4, HandlerStep

LEMMA CallbackInv ==
  ASSUME Inv, CallbackReturns
  PROVE  Inv'
<1>1. /\ pc["isr"] = "callback" /\ Return("isr")
      /\ UNCHANGED <<cnt, top, running, cc, flag, ie, ovf, ovfie, swp, cb, topcb, guard, nvic, left, newtop>>
  BY DEF CallbackReturns, timer, data
<1>2. chan \in Channels /\ ~swp[chan]
  BY <1>1 DEF Inv, Places, Owned
<1>3. /\ pc' \in [Contexts -> {"idle", "read", "write", "judge", "cancel", "top", "topenable", "callback"}]
      /\ pc'["thread"] # "callback" /\ pc'["isr"] = "idle"
      /\ req' \in [Contexts -> Alarm]
      /\ chan' \in Channels \cup {0, Away} /\ Places'
      /\ pc'["thread"] = pc["thread"] /\ req'["thread"] = req["thread"]
      /\ \A d \in Channels : d # chan /\ swp[d] => nvic \/ chan' > d \/ chan' = d
  BY <1>1, <1>2, ReturnParts DEF Contexts, Runs
<1>4. Types'
  BY <1>1, <1>3 DEF Inv, Types
<1>. QED
  BY <1>1, <1>2, <1>3, <1>4, HandlerStep

LEMMA HandleInv ==
  ASSUME Inv, HandleChannel
  PROVE  Inv'
<1>1. PICK c : c = chan
  OBVIOUS
<1>2. /\ c \in Channels /\ chan = c /\ pc["isr"] = "idle"
      /\ UNCHANGED <<cnt, top, running, cc, ovf, ovfie, topcb, guard, nvic, req, newtop>>
  BY <1>1 DEF HandleChannel
<1>3. CASE ~(flag[c] /\ ie[c]) /\ ~swp[c]
  <2>1. chan' = c - 1 /\ UNCHANGED <<flag, swp, ie, cb, left, pc>>
    BY <1>1, <1>3 DEF HandleChannel
  <2>2. chan' \in Channels \cup {0} /\ \A d \in Channels : swp[d] => nvic' \/ chan' > d \/ chan' = d
    BY <1>2, <1>3, <2>1, ChannelsAssumption DEF Channels, Inv, Owned
  <2>3. Types'
    BY <1>2, <2>1, <2>2 DEF Inv, Types
  <2>4. Places'
    BY <1>2, <2>1 DEF Inv, Places
  <2>. QED
    BY <1>2, <2>1, <2>2, <2>3, <2>4, HandlerStep
<1>4. CASE (flag[c] /\ ie[c]) \/ swp[c]
  <2>1. cb[c] /\ ~Busy("thread", c)
    BY <1>2, <1>4 DEF Inv, Owned
  <2>2. /\ flag' = [flag EXCEPT ![c] = @ /\ ~ie[c]]
        /\ swp' = [swp EXCEPT ![c] = FALSE] /\ ie' = [ie EXCEPT ![c] = FALSE] /\ cb' = [cb EXCEPT ![c] = FALSE]
        /\ left' = [left EXCEPT ![c] = None] /\ pc' = [pc EXCEPT !["isr"] = "callback"] /\ chan' = chan
    BY <1>1, <1>4, <2>1 DEF HandleChannel, AlarmIrqHandle
  <2>3. /\ pc'["isr"] = "callback" /\ pc'["thread"] = pc["thread"] /\ pc["thread"] # "top"
        /\ ~swp'[c] /\ ~ie'[c] /\ ~cb'[c] /\ left'[c] = None
        /\ \A d \in Channels \ {c} : /\ flag'[d] = flag[d] /\ swp'[d] = swp[d] /\ ie'[d] = ie[d]
                                     /\ cb'[d] = cb[d] /\ left'[d] = left[d]
    BY <1>2, <2>1, <2>2 DEF Inv, Types, Places, Contexts
  <2>4. Types'
    <3>1. pc' \in [Contexts -> {"idle", "read", "write", "judge", "cancel", "top", "topenable", "callback"}]
      BY <2>2 DEF Inv, Types
    <3>2. left' \in [Channels -> {None} \cup 0 .. top + 1]
      BY <2>2 DEF Inv, Types
    <3>3. /\ flag' \in [Channels -> BOOLEAN] /\ swp' \in [Channels -> BOOLEAN]
          /\ ie' \in [Channels -> BOOLEAN] /\ cb' \in [Channels -> BOOLEAN]
      BY <2>2 DEF Inv, Types
    <3>. QED
      BY <1>2, <2>2, <2>3, <3>1, <3>2, <3>3 DEF Inv, Types
  <2>5. \A y \in Contexts, d \in Channels : (Busy(y, d)' <=> Busy(y, d)) /\ (Setting(y, d)' <=> Setting(y, d))
    BY <1>2, <2>3 DEF Busy, Setting, Contexts
  <2>6. Places'
    <3>1. ~Busy("thread", chan)'
      BY <1>2, <2>1, <2>2, <2>3 DEF Busy
    <3>. QED
      BY <1>2, <2>2, <2>3, <3>1 DEF Places
  <2>7. Owned(c)'
    <3>1. \A y \in Contexts : ~Busy(y, c) /\ ~Setting(y, c)
      BY <1>2, <2>1 DEF Busy, Setting, Contexts
    <3>. QED
      BY <1>2, <2>3, <2>5, <3>1 DEF Owned, Contexts
  <2>8. ASSUME NEW d \in Channels \ {c} PROVE Owned(d)'
    <3>1. swp[d] => nvic' \/ chan' > d \/ (chan' = d /\ pc'["isr"] = "idle")
      BY <1>2, <2>2, <2>8 DEF Inv, Owned
    <3>. QED
      BY <2>3, <2>5, <2>8, <3>1, OwnedStays DEF Inv
  <2>9. Set("isr")'
    BY <2>3 DEF Set
  <2>10. Set("thread")'
    <3>1. pc["thread"] \in {"read", "write", "judge"} => req["thread"].ch \in Channels \ {c}
      BY <2>1 DEF Inv, Types, Alarm, Contexts, Busy
    <3>. QED
      BY <1>2, <2>3, <3>1, SetStays DEF Inv, Contexts
  <2>11. ASSUME NEW d \in Channels, ie'[d] PROVE Counting(d)'
    <3>1. d # c
      BY <2>3, <2>11
    <3>. QED
      BY <1>2, <2>3, <2>11, <3>1, CountStays DEF Inv
  <2>. QED
    BY <2>4, <2>6, <2>7, <2>8, <2>9, <2>10, <2>11 DEF Inv, Contexts
<1>. QED
  BY <1>3, <1>4

-----------------------------------------------------------------------------
(* The timer *)

\* What a tick does to a channel whose compare value lies on the circle.
LEMMA TickCounts ==
  ASSUME Inv, Tick, NEW c \in Channels, Counting(c)
  PROVE  Counting(c)'
<1>1. top \in Nat /\ cnt \in 0 .. top /\ left[c] \in 0 .. top + 1 /\ cc[c] \in 0 .. top /\ flag[c] \in BOOLEAN
  BY Bounds DEF Inv, Counting, Types
<1>2. /\ cnt' = (IF cnt = top THEN 0 ELSE cnt + 1) /\ top' = top /\ cc'[c] = cc[c]
      /\ flag'[c] = (flag[c] \/ cc[c] = cnt')
      /\ left'[c] = (IF left[c] > 0 THEN left[c] - 1 ELSE left[c])
  BY DEF Tick
<1>3. left[c] > 0 => left[c] = IF cnt = cc[c] THEN top + 1 ELSE IF cc[c] >= cnt THEN cc[c] - cnt ELSE cc[c] - cnt + top + 1
  BY DEF Counting, Gap
<1>4. left'[c] > 0 => left'[c] = IF cnt' = cc'[c] THEN top + 1
                                 ELSE IF cc'[c] >= cnt' THEN cc'[c] - cnt' ELSE cc'[c] - cnt' + top + 1
  BY <1>1, <1>2, <1>3
<1>5. left'[c] = 0 <=> flag'[c]
  <2>1. left[c] = 0 <=> flag[c]
    BY DEF Counting
  <2>2. left[c] > 0 => (left[c] = 1 <=> cc[c] = cnt')
    BY <1>1, <1>2, <1>3
  <2>3. CASE left[c] = 0
    <3>1. flag[c] /\ left'[c] = 0
      BY <1>2, <2>1, <2>3
    <3>2. flag'[c]
      BY <1>1, <1>2, <3>1
    <3>. QED
      BY <3>1, <3>2
  <2>4. CASE left[c] > 0
    <3>1. ~flag[c]
      BY <2>1, <2>4
    <3>2. flag'[c] <=> left[c] = 1
      BY <1>2, <2>2, <2>4, <3>1
    <3>3. left'[c] = 0 <=> left[c] = 1
      BY <1>1, <1>2, <2>4
    <3>. QED
      BY <3>2, <3>3
  <2>. QED
    BY <1>1, <2>3, <2>4
<1>6. left'[c] \in 0 .. top + 1
  BY <1>1, <1>2
<1>. QED
  BY <1>1, <1>2, <1>4, <1>5, <1>6 DEF Counting, Gap

LEMMA TickInv ==
  ASSUME Inv, Tick
  PROVE  Inv'
<1>1. /\ top \in Nat /\ cnt \in 0 .. top /\ Latency \in Nat /\ Latency < top \div 2
      /\ 2 * (top \div 2) <= top /\ top \div 2 \in Nat
  BY Bounds DEF Inv
<1>2. PICK next : next = (IF cnt = top THEN 0 ELSE cnt + 1)
  OBVIOUS
<1>3. /\ InTime /\ cnt' = next
      /\ flag' = [c \in Channels |-> flag[c] \/ cc[c] = next]
      /\ ovf' = (ovf \/ cnt = top)
      /\ left' = [c \in Channels |-> IF left[c] > 0 THEN left[c] - 1 ELSE left[c]]
      /\ UNCHANGED <<top, running, cc, ie, ovfie, swp, cb, topcb, guard, nvic, pc, req, chan, newtop>>
  BY <1>2 DEF Tick, data
<1>4. next \in 0 .. top
  BY <1>1, <1>2
<1>5. Types'
  <2>1. \A c \in Channels : (IF left[c] > 0 THEN left[c] - 1 ELSE left[c]) \in {None} \cup 0 .. top + 1
    BY <1>1 DEF Inv, Types, None
  <2>2. left' \in [Channels -> {None} \cup 0 .. top + 1]
    BY <1>3, <2>1
  <2>3. flag' \in [Channels -> BOOLEAN] /\ ovf' \in BOOLEAN
    BY <1>3 DEF Inv, Types
  <2>. QED
    BY <1>3, <1>4, <2>2, <2>3 DEF Inv, Types
<1>6. Places'
  BY <1>3 DEF Inv, Places, Busy
<1>7. ASSUME NEW d \in Channels PROVE Owned(d)'
  <2>1. (left'[d] = 0 \/ left'[d] # None => left[d] # None) /\ (left[d] = 0 => left'[d] = 0)
    BY <1>3 DEF None
  <2>2. left'[d] # None => left[d] # None
    BY <1>3 DEF None
  <2>. QED
    BY <1>3, <2>1, <2>2 DEF Inv, Owned, Busy, Setting
<1>8. ASSUME NEW d \in Channels, ie'[d] PROVE Counting(d)'
  BY <1>3, <1>8, TickCounts DEF Inv
<1>9. ASSUME NEW x \in Contexts PROVE Set(x)'
  <2>1. PICK r : r = req[x]
    OBVIOUS
  <2>2. /\ r \in Alarm /\ r.ch \in Channels /\ r.ticks \in Nat /\ req'[x] = r /\ pc'[x] = pc[x]
        /\ left[r.ch] \in {None} \cup 0 .. top + 1 /\ flag[r.ch] \in BOOLEAN
        /\ flag'[r.ch] = (flag[r.ch] \/ cc[r.ch] = next)
        /\ left'[r.ch] = (IF left[r.ch] > 0 THEN left[r.ch] - 1 ELSE left[r.ch])
    BY <1>3, <2>1 DEF Inv, Types, Alarm
  <2>3. ASSUME pc[x] \in {"read", "write", "judge"} PROVE r.ticks <= top /\ (r.expire => r.absolute)
    BY <2>1, <2>3 DEF Inv, Set
  <2>4. ASSUME pc[x] \in {"write", "judge"}
        PROVE  /\ r.now \in 0 .. top /\ r.val \in 0 .. top
               /\ Gap(r.now, cnt) \in 0 .. top /\ Gap(r.now, cnt) < Latency
               /\ (~r.absolute => Relative(r, Gap(r.now, cnt)))
    <3>1. r.now \in 0 .. top /\ r.val \in 0 .. top /\ (~r.absolute => Relative(r, Gap(r.now, cnt)))
      BY <2>1, <2>4 DEF Inv, Set
    <3>2. Ahead(r.now, cnt) < Latency
      BY <1>3, <2>1, <2>4 DEF InTime
    <3>3. Ahead(r.now, cnt) = Gap(r.now, cnt) /\ Gap(r.now, cnt) \in 0 .. top
      BY <1>1, <3>1, Circle DEF Inv
    <3>. QED
      BY <3>1, <3>2, <3>3
  <2>5. PICK e : e = Gap(r.now, cnt)
    OBVIOUS
  <2>6. ASSUME pc[x] \in {"write", "judge"}
        PROVE  e \in Nat /\ e < Latency /\ Gap(r.now, cnt)' = e + 1 /\ next # r.now
    BY <1>1, <1>2, <1>3, <2>4, <2>5, <2>6 DEF Gap
  <2>7. ASSUME pc[x] \in {"write", "judge"}, ~r.absolute PROVE Relative(r, e + 1)'
    <3>1. /\ left[r.ch] = (IF e < r.ticks THEN r.ticks - e ELSE 0)
          /\ r.val = (IF r.ticks <= top - r.now THEN r.now + r.ticks ELSE r.now + r.ticks - top - 1)
      BY <2>4, <2>5, <2>7 DEF Relative
    <3>2. left'[r.ch] = (IF e + 1 < r.ticks THEN r.ticks - (e + 1) ELSE 0)
      BY <2>2, <2>6, <2>7, <3>1
    <3>. QED
      BY <1>3, <3>1, <3>2 DEF Relative
  <2>8. pc[x] = "read" => left'[r.ch] = None
    BY <2>1, <2>2 DEF Inv, Set, None
  <2>9. pc[x] = "write" => cc'[r.ch] = r.now /\ ~flag'[r.ch] /\ (r.absolute => left'[r.ch] = None)
    BY <1>3, <2>1, <2>2, <2>6 DEF Inv, Set, None
  <2>10. ASSUME pc[x] = "judge", r.absolute PROVE Counting(r.ch)'
    <3>1. Counting(r.ch)
      BY <2>1, <2>10 DEF Inv, Set
    <3>. QED
      BY <2>2, <3>1, TickCounts
  <2>11. ASSUME pc[x] = "judge", ~r.absolute, flag'[r.ch] PROVE left'[r.ch] = 0
    <3>1. CASE flag[r.ch]
      <4>1. left[r.ch] = 0
        BY <2>1, <2>11, <3>1 DEF Inv, Set
      <4>. QED
        BY <2>2, <4>1
    <3>2. CASE cc[r.ch] = next
      <4>1. r.val = next
        BY <2>1, <2>11, <3>2 DEF Inv, Set
      <4>2. /\ left[r.ch] = (IF e < r.ticks THEN r.ticks - e ELSE 0)
            /\ r.val = (IF r.ticks <= top - r.now THEN r.now + r.ticks ELSE r.now + r.ticks - top - 1)
        BY <2>4, <2>5, <2>11 DEF Relative
      <4>3. e = (IF cnt >= r.now THEN cnt - r.now ELSE cnt - r.now + top + 1)
        BY <2>5 DEF Gap
      <4>4. r.ticks <= e + 1
        BY <1>1, <1>2, <2>2, <2>3, <2>4, <2>6, <2>11, <4>1, <4>2, <4>3
      <4>. QED
        BY <2>2, <2>6, <2>11, <4>2, <4>4
    <3>. QED
      BY <2>2, <2>11, <3>1, <3>2
  <2>12. pc[x] = "judge" => cc'[r.ch] = r.val
    BY <1>3, <2>1 DEF Inv, Set
  <2>. QED
    BY <1>1, <1>3, <2>2, <2>3, <2>4, <2>6, <2>7, <2>8, <2>9, <2>10, <2>11, <2>12 DEF Set
<1>. QED
  BY <1>5, <1>6, <1>7, <1>8, <1>9 DEF Inv

-----------------------------------------------------------------------------
(* The theorems *)

LEMMA NextInv ==
  ASSUME MaskTops, Inv, [Next]_vars
  PROVE  Inv'
<1>1. ASSUME NEW x \in Contexts, SetCc(x) PROVE Inv'
  BY <1>1, ParkInv, WriteInv, JudgeInv DEF SetCc
<1>2. CASE Thread
  BY <1>1, <1>2, CancelForgetInv, TopInv DEF Thread, Contexts
<1>3. CASE Isr
  BY <1>1, <1>3, EnterInv, HandleInv, CallbackInv, OverflowInv DEF Isr, Contexts
<1>4. CASE Call
  <2>1. ThreadRuns /\ pc["thread"] = "idle"
    BY <1>4 DEF Call
  <2>2. ASSUME NEW c \in Channels, NEW a \in Alarms, SetAlarm("thread", c, a) PROVE Inv'
    BY <2>1, <2>2, SetAlarmInv DEF Contexts
  <2>3. ASSUME NEW c \in Channels, CancelDisable(c) PROVE Inv'
    BY <2>1, <2>3, CancelDisableInv
  <2>4. ASSUME NEW t \in Tops, NEW f \in BOOLEAN, NEW keep \in BOOLEAN, TopDisable(t, f, keep) PROVE Inv'
    BY <2>1, <2>4, TopInv
  <2>5. CASE (\E g \in Guards : SetGuard(g)) \/ StartStop
    BY <2>1, <2>5, SettingsInv
  <2>. QED
    BY <1>4, <2>2, <2>3, <2>4, <2>5 DEF Call
<1>5. CASE Rearm
  <2>1. PICK a \in Alarms : pc["isr"] = "callback" /\ SetAlarm("isr", chan, a)
    BY <1>5 DEF Rearm
  <2>2. chan \in Channels
    BY <2>1 DEF Inv, Places
  <2>. QED
    BY <2>1, <2>2, SetAlarmInv DEF Contexts
<1>6. CASE UNCHANGED vars
  <2>1. UNCHANGED <<cnt, top, running, cc, flag, ie, ovf, ovfie, swp, cb, topcb, guard, nvic, pc, req,
                    newtop, chan, left>>
    BY <1>6 DEF vars, timer, data
  <2>2. Types' /\ Places'
    BY <2>1 DEF Inv, Types, Places, Busy
  <2>3. \A c \in Channels : Owned(c)' /\ (ie'[c] => Counting(c)')
    BY <2>1 DEF Inv, Owned, Busy, Setting, Counting, Gap
  <2>4. \A x \in Contexts : Set(x)'
    BY <2>1, SetStays DEF Inv
  <2>. QED
    BY <2>2, <2>3, <2>4 DEF Inv
<1>. QED
  BY <1>2, <1>3, <1>4, <1>5, <1>6, TickInv DEF Next

\* Registers and tables keep their ranges, and what is written into a compare
\* register is a value the counter can have, for any channels, tops of the form
\* 2^k - 1 and ticks (counter_at32_set_cc, counter_at32_ticks_add).
THEOREM TypeCorrect ==
  ASSUME MaskTops
  PROVE  Spec => []TypeOK
<1>1. Inv => TypeOK
  <2> SUFFICES ASSUME Inv PROVE TypeOK
    OBVIOUS
  <2>1. \A x \in Contexts : pc[x] \in {"write", "judge"} => req[x].val \in 0 .. top
    BY DEF Inv, Set
  <2>2. /\ pc["thread"] \in {"idle", "read", "write", "judge", "cancel", "top", "topenable"}
        /\ pc["isr"] \in {"idle", "callback", "read", "write", "judge"}
    BY DEF Inv, Types, Contexts
  <2>3. \A c \in Channels : left[c] \in {None} \cup 0 .. top + 1
    BY DEF Inv, Types
  <2>. QED
    BY <2>1, <2>2, <2>3 DEF Inv, Types, TypeOK
<1>. QED
  BY <1>1, InitInv, NextInv, PTL DEF Spec

\* An accepted alarm is never lost, however the counter, the handler and the
\* callbacks fall between the steps of a call that sets one, for any number of
\* channels, ticks and guard periods (counter_at32_set_cc,
\* counter_at32_irq_handler); tops are of the form 2^k - 1, for others it does
\* not hold.
THEOREM NoAlarmLost ==
  ASSUME MaskTops
  PROVE  Spec => []AlarmsKept
<1>1. Inv => AlarmsKept
  <2> SUFFICES ASSUME Inv, NEW c \in Channels, left[c] # None, ~InCall(c)
               PROVE  /\ cb[c]
                      /\ IF left[c] = 0
                         THEN (flag[c] /\ ie[c]) \/ (swp[c] /\ (nvic \/ chan >= c))
                         ELSE ie[c] /\ Ahead(cnt, cc[c]) = left[c] % (top + 1)
    BY DEF AlarmsKept
  <2>1. ~Busy("thread", c) /\ ~Busy("isr", c)
    BY DEF InCall, Busy, Contexts
  <2>2. cb[c] /\ (ie[c] \/ swp[c])
    BY <2>1 DEF Inv, Owned
  <2>3. CASE swp[c]
    <3>1. left[c] = 0 /\ (nvic \/ chan > c \/ chan = c)
      BY <2>3 DEF Inv, Owned
    <3>2. nvic \/ chan >= c
      BY <3>1, ChannelsAssumption DEF Inv, Types, Channels, Away
    <3>. QED
      BY <2>2, <2>3, <3>1, <3>2
  <2>4. CASE ie[c]
    <3>1. Counting(c)
      BY <2>4 DEF Inv
    <3>2. CASE left[c] = 0
      BY <2>2, <2>4, <3>1, <3>2 DEF Counting
    <3>3. CASE left[c] # 0
      <4>1. /\ left[c] \in 0 .. top + 1 /\ left[c] > 0 /\ cc[c] \in 0 .. top
            /\ left[c] = IF cnt = cc[c] THEN top + 1 ELSE Gap(cnt, cc[c])
        BY <3>1, <3>3, Bounds DEF Counting, Inv
      <4>2. top \in Nat /\ cnt \in 0 .. top
        BY Bounds DEF Inv
      <4>3. Ahead(cnt, cc[c]) = Gap(cnt, cc[c]) /\ Gap(cnt, cc[c]) \in 0 .. top
        BY <4>1, <4>2, Circle DEF Inv
      <4>4. left[c] % (top + 1) = IF left[c] = top + 1 THEN 0 ELSE left[c]
        BY <4>1, Round DEF Inv
      <4>5. cnt = cc[c] => Gap(cnt, cc[c]) = 0
        BY <4>1, <4>2 DEF Gap
      <4>6. Ahead(cnt, cc[c]) = left[c] % (top + 1)
        BY <4>1, <4>2, <4>3, <4>4, <4>5
      <4>. QED
        BY <2>2, <2>4, <3>3, <4>6
    <3>. QED
      BY <3>2, <3>3
  <2>. QED
    BY <2>2, <2>3, <2>4
<1>. QED
  BY <1>1, InitInv, NextInv, PTL DEF Spec

\* A callback comes when its alarm is due: never before, never after a cancel or
\* a refusal, never twice; under the same hypothesis (counter_at32_irq_handler,
\* counter_at32_alarm_irq_handle, counter_at32_cancel_alarm).
THEOREM NoneEarly ==
  ASSUME MaskTops
  PROVE  Spec => NeverEarly
<1>1. Inv /\ [Next]_vars =>
        [\A c \in Channels : chan = c /\ pc["isr"] = "idle" /\ cb[c] /\ ~cb'[c] => left[c] = 0]_vars
  <2> SUFFICES ASSUME Inv, Next, NEW c \in Channels, chan = c, pc["isr"] = "idle", cb[c], ~cb'[c]
               PROVE  left[c] = 0
    OBVIOUS
  <2>1. ~ThreadRuns /\ pc["isr"] = "idle"
    BY ThreadAlone, ChannelsAssumption DEF Channels, Away
  <2>2. \A x \in Contexts : ~SetCc(x)
    BY <2>1 DEF SetCc, Runs, Park, WriteCompare, Judge, Contexts
  <2>3. HandleChannel
    <3>1. chan # Away /\ chan # 0
      BY ChannelsAssumption DEF Channels, Away
    <3>2. ~Tick
      BY DEF Tick, data
    <3>. QED
      BY <2>1, <2>2, <3>1, <3>2 DEF Next, Thread, Isr, Call, Rearm, Enter, CallbackReturns,
                                   HandleOverflow, Contexts
  <2>4. (flag[c] /\ ie[c]) \/ swp[c]
    BY <2>3 DEF HandleChannel
  <2>. QED
    BY <2>4 DEF Inv, Owned, Counting
<1>. QED
  BY <1>1, InitInv, NextInv, PTL DEF Spec, NeverEarly
=============================================================================
