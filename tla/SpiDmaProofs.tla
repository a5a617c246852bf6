---------------------------- MODULE SpiDmaProofs ----------------------------
(***************************************************************************)
(* For any requests, lengths and faults of the bus or the DMA controller:  *)
(* if the wait does not expire before a transfer that still moves, the SPI *)
(* is quiet between calls (QuietInv).  If, besides, nothing preempts the   *)
(* caller between the enabling of the two DMA requests, the channels work  *)
(* on the same chunk and touch only the memory of the call (MoveInv), and  *)
(* what they have moved is accounted for (Accounts): a call that succeeds  *)
(* has moved everything, where dtcnt holds the length of every buffer.     *)
(*                                                                         *)
(* Total is a recursive function over sequences: its equation is proved    *)
(* here, by least counterexamples (TotalIs).                               *)
(***************************************************************************)
EXTENDS SpiDma, WellFoundedInduction, TLAPS

\* A channel has the fields of a channel, and no interrupt but that of a block.
Shaped(ch) ==
  /\ DOMAIN ch = {"busy", "on", "left", "ints", "flags", "buffer"}
  /\ ch.ints \subseteq {"FDT"}

\* Nothing comes of a channel any more, or of neither.
Over == \A d \in Dirs : ~chan[d].on /\ ~Asserted(chan[d])

NoneAsserted == \A d \in Dirs : ~Asserted(chan[d])

\* Where the requests are off; where a completion may be given; what it leaves; and
\* what a wait that has ended leaves.
QuietInv ==
  /\ hasDma \in BOOLEAN /\ sync \in {0, 1} /\ intsOn \in BOOLEAN
  /\ pc \in {"idle", "setup", "transmitter", "receiver", "ints", "wait", "quiesce", "deselect"}
  /\ chan = [d \in Dirs |-> chan[d]] /\ \A d \in Dirs : Shaped(chan[d])
  /\ dmaen \subseteq Dirs
  /\ intsOn => pc = "wait" /\ ~hasDma
  /\ ~hasDma => dmaen = {} /\ Over
  /\ pc \in {"setup", "transmitter", "receiver"} => hasDma
  /\ pc = "ints" => ~hasDma
  /\ pc \in {"idle", "setup", "transmitter", "ints", "deselect"} =>
       dmaen = {} /\ sync = 0 /\ NoneAsserted
  /\ sync = 1 => pc \in {"receiver", "wait"} /\ ~intsOn /\ Over
  /\ pc = "quiesce" =>
       sync = 0 /\ NoneAsserted /\ ~Transmitting /\ ~(Receiving /\ full)

-----------------------------------------------------------------------------
(* What the operations of Dma make of a channel *)

LEMMA SetUpShape ==
  ASSUME NEW ch, Shaped(ch), NEW s, NEW n, NEW z, z = SetUp(ch, s, n)
  PROVE  Shaped(z) /\ ~Asserted(z)
<1> DEFINE b == IF s = <<>> THEN "dummy" ELSE "own"
<1>1. PICK y : y = Configured(ch, b, n)
  OBVIOUS
<1>2. Shaped(y) /\ y.flags = {}
  <2>. HIDE DEF b
  <2>. QED
    BY <1>1 DEF Configured, Shaped
<1>3. z = [y EXCEPT !.on = TRUE, !.busy = TRUE]
  BY <1>1 DEF SetUp, Started
<1>4. Shaped(z) /\ z.flags = {}
  BY <1>2, <1>3 DEF Shaped
<1>. QED
  BY <1>4 DEF Asserted

LEMMA StoppedShape ==
  ASSUME NEW ch, Shaped(ch), NEW z, z = Stopped(ch)
  PROVE  Shaped(z) /\ ~Asserted(z) /\ ~z.on
<1>1. Shaped(z) /\ z.ints = {} /\ z.on = FALSE
  BY DEF Stopped, Shaped
<1>. QED
  BY <1>1 DEF Asserted

LEMMA AcknowledgedShape ==
  ASSUME NEW ch, Shaped(ch), NEW z, z = Acknowledged(ch)
  PROVE  Shaped(z)
BY DEF Acknowledged, Shaped

LEMMA MovedShape ==
  ASSUME NEW ch, Shaped(ch), NEW z, z = Moved(ch)
  PROVE  Shaped(z) /\ z.on = ch.on
<1>1. z.ints = ch.ints /\ z.on = ch.on /\ DOMAIN z = DOMAIN ch
  BY DEF Moved, Shaped
<1>. QED
  BY <1>1 DEF Shaped

\* An error turns the channel off and asserts nothing: its interrupt is not enabled.
LEMMA ErroredShape ==
  ASSUME NEW ch, Shaped(ch), NEW z, z = Errored(ch)
  PROVE  Shaped(z) /\ ~z.on /\ (Asserted(z) <=> Asserted(ch))
<1>1. z.ints = ch.ints /\ z.on = FALSE /\ DOMAIN z = DOMAIN ch
      /\ z.flags = ch.flags \cup {"DTERR"}
  BY DEF Errored, Shaped
<1>. QED
  BY <1>1 DEF Shaped, Asserted

LEMMA ProgrammedShape ==
  ASSUME NEW cs0, \A d \in Dirs : Shaped(cs0[d]), NEW counts, NEW t, NEW r,
         NEW z, z = Programmed(cs0, counts, t, r)
  PROVE  /\ z = [d \in Dirs |-> z[d]]
         /\ \A d \in Dirs : Shaped(z[d]) /\ (Asserted(z[d]) => Asserted(cs0[d]))
<1>1. \A d \in Dirs : z[d] = cs0[d] \/ z[d] = SetUp(cs0[d], IF d = "TX" THEN t ELSE r, ChunkOf(t, r))
  BY DEF Programmed
<1>2. z = [d \in Dirs |-> z[d]]
  BY DEF Programmed
<1>3. ASSUME NEW d \in Dirs
      PROVE  Shaped(z[d]) /\ (Asserted(z[d]) => Asserted(cs0[d]))
  BY <1>1, SetUpShape
<1>. QED
  BY <1>2, <1>3

-----------------------------------------------------------------------------
(* The invariant *)

LEMMA InitQuiet == Init => QuietInv
<1> SUFFICES ASSUME Init PROVE QuietInv
  OBVIOUS
<1>1. /\ chan = [d \in Dirs |-> chan[d]]
      /\ \A d \in Dirs : chan[d] = Reset("none")
  BY DEF Init
<1>2. \A d \in Dirs : Shaped(chan[d]) /\ ~Asserted(chan[d]) /\ ~chan[d].on
  BY <1>1 DEF Reset, Shaped, Asserted
<1>3. /\ hasDma \in BOOLEAN /\ pc = "idle" /\ sync = 0 /\ intsOn = FALSE /\ dmaen = {}
  BY DEF Init
<1>4. Over /\ NoneAsserted
  BY <1>2 DEF Over, NoneAsserted
<1>5. intsOn \in BOOLEAN /\ ~intsOn
  BY <1>3
<1>6. chan = [d \in Dirs |-> chan[d]] /\ \A d \in Dirs : Shaped(chan[d])
  BY <1>1, <1>2
<1>7. sync \in {0, 1} /\ sync # 1 /\ dmaen \subseteq Dirs
  BY <1>3
<1>. QED
  BY <1>3, <1>4, <1>5, <1>6, <1>7 DEF QuietInv

\* The steps of the call.
LEMMA CallQuiet ==
  ASSUME QuietInv, "slow" \notin Hazards, Call
  PROVE  QuietInv'
<1>1. ~intsOn /\ NoneAsserted
  BY DEF Call, ThreadRuns, SpiLine, NoneAsserted
<1>2. CASE SetUpChannels
  <2>1. /\ chan' = [d \in Dirs |-> chan'[d]]
        /\ \A d \in Dirs : Shaped(chan'[d]) /\ ~Asserted(chan'[d])
    BY <1>1, <1>2, ProgrammedShape DEF SetUpChannels, QuietInv, NoneAsserted
  <2>. QED
    BY <1>1, <1>2, <2>1 DEF SetUpChannels, QuietInv, NoneAsserted
<1>3. CASE EnableTransmitter
  BY <1>1, <1>3 DEF EnableTransmitter, QuietInv, Dirs, Over
<1>4. CASE EnableReceiver
  BY <1>1, <1>4 DEF EnableReceiver, QuietInv, Dirs, Over
<1>5. CASE EnableInterrupts
  BY <1>1, <1>5 DEF EnableInterrupts, QuietInv, Over
<1>6. CASE TakeSync
  <2>1. Over /\ UNCHANGED <<chan, dmaen, full>>
    BY <1>6 DEF TakeSync, QuietInv
  <2>2. ~Transmitting' /\ ~Receiving'
    BY <2>1 DEF Transmitting, Receiving, Live, Over, Dirs
  <2>. QED
    BY <1>1, <1>6, <2>1, <2>2 DEF TakeSync, QuietInv, Over, NoneAsserted
<1>7. CASE TimeOut
  <2>1. ~Transmitting /\ ~(Receiving /\ full) /\ UNCHANGED <<chan, dmaen, full>>
    BY <1>7 DEF TimeOut
  <2>2. ~Transmitting' /\ ~(Receiving /\ full)'
    BY <2>1 DEF Transmitting, Receiving, Live
  <2>. QED
    BY <1>1, <1>7, <2>1, <2>2 DEF TimeOut, QuietInv, Over, NoneAsserted
<1>8. CASE Quiesce
  BY <1>1, <1>8 DEF Quiesce, QuietInv, Over, NoneAsserted
<1>9. CASE Deselect
  BY <1>1, <1>9 DEF Deselect, QuietInv, Over, NoneAsserted
<1>. QED
  BY <1>2, <1>3, <1>4, <1>5, <1>6, <1>7, <1>8, <1>9 DEF Call

LEMMA EnterQuiet ==
  ASSUME QuietInv, Enter
  PROVE  QuietInv'
<1>1. pc = "idle" /\ dmaen = {} /\ sync = 0 /\ ~intsOn /\ NoneAsserted
  BY DEF Enter, Begin, QuietInv
<1>2. /\ chan' = [d \in Dirs |-> [chan[d] EXCEPT !.buffer = IF @ = "own" THEN "old" ELSE @]]
      /\ pc' = IF hasDma THEN "setup" ELSE "ints"
      /\ UNCHANGED <<hasDma, dmaen, intsOn, sync>>
  BY DEF Enter, Begin
<1>3. ASSUME NEW d \in Dirs
      PROVE  Shaped(chan'[d]) /\ ~Asserted(chan'[d]) /\ chan'[d].on = chan[d].on
  <2>1. chan'[d].ints = chan[d].ints /\ chan'[d].flags = chan[d].flags
        /\ chan'[d].on = chan[d].on /\ DOMAIN chan'[d] = DOMAIN chan[d]
    BY <1>2 DEF QuietInv, Shaped
  <2>. QED
    BY <1>1, <2>1 DEF QuietInv, Shaped, Asserted, NoneAsserted
<1>4. chan' = [d \in Dirs |-> chan'[d]]
  BY <1>2
<1>. QED
  BY <1>1, <1>2, <1>3, <1>4 DEF QuietInv, Over, NoneAsserted

\* A completion: both channels stopped, the semaphore given.
LEMMA CompleteQuiet ==
  ASSUME NEW cs0, \A d \in Dirs : Shaped(cs0[d]), cs0 = [d \in Dirs |-> cs0[d]],
         NEW r, Complete(cs0, r), ~hasDma => \A d \in Dirs : ~cs0[d].on /\ ~Asserted(cs0[d])
  PROVE  /\ Over' /\ intsOn' \in BOOLEAN /\ ~intsOn' /\ sync' = 1
         /\ chan' = [d \in Dirs |-> chan'[d]] /\ \A d \in Dirs : Shaped(chan'[d])
<1>1. /\ chan' = [d \in Dirs |-> IF hasDma THEN Stopped(cs0[d]) ELSE cs0[d]]
      /\ intsOn' = FALSE /\ sync' = 1
  BY DEF Complete
<1>2. ASSUME NEW d \in Dirs
      PROVE  Shaped(chan'[d]) /\ ~Asserted(chan'[d]) /\ ~chan'[d].on
  BY <1>1, StoppedShape
<1>. QED
  BY <1>1, <1>2 DEF Over

LEMMA DmaIsrQuiet ==
  ASSUME QuietInv, NEW d \in Dirs, DmaIsr(d)
  PROVE  QuietInv'
<1>1. Asserted(chan[d]) /\ UNCHANGED <<hasDma, pc, full>>
  BY DEF DmaIsr
<1>2. hasDma /\ ~intsOn /\ sync = 0 /\ pc \in {"receiver", "wait"}
  BY <1>1 DEF QuietInv, Over, NoneAsserted
<1> DEFINE n == ChunkOf(tx, rx)
           cs0 == [chan EXCEPT ![d] = Acknowledged(@)]
           counts == [count EXCEPT ![d] = @ + n]
<1>3. \A e \in Dirs : Shaped(cs0[e])
  BY AcknowledgedShape DEF QuietInv
<1>4. cs0 = [e \in Dirs |-> cs0[e]]
  BY DEF QuietInv
<1>5. CASE Complete(cs0, "ok")
  <2>1. /\ Over' /\ intsOn' \in BOOLEAN /\ ~intsOn' /\ sync' = 1
        /\ chan' = [e \in Dirs |-> chan'[e]] /\ \A e \in Dirs : Shaped(chan'[e])
    <3>. HIDE DEF cs0
    <3>. QED
      BY <1>2, <1>3, <1>4, <1>5, CompleteQuiet
  <2>2. UNCHANGED dmaen
    BY <1>5 DEF Complete
  <2>. QED
    BY <1>1, <1>2, <2>1, <2>2 DEF QuietInv
<1>6. CASE \E cnt, t, r : /\ chan' = Programmed(cs0, cnt, t, r)
                          /\ dmaen' = Dirs /\ UNCHANGED <<sync, intsOn>>
  <2>1. chan' = [e \in Dirs |-> chan'[e]] /\ \A e \in Dirs : Shaped(chan'[e])
    <3>. HIDE DEF cs0
    <3>. QED
      BY <1>3, <1>6, ProgrammedShape
  <2>. QED
    BY <1>1, <1>2, <1>6, <2>1 DEF QuietInv
<1>7. \/ Complete(cs0, "ok")
      \/ /\ chan' = Programmed(cs0, counts, tx, rx)
         /\ dmaen' = Dirs /\ UNCHANGED <<sync, intsOn>>
      \/ /\ chan' = Programmed(cs0, count', tx', rx')
         /\ dmaen' = Dirs /\ UNCHANGED <<sync, intsOn>>
  BY Zenon DEF DmaIsr
<1>. QED
  BY <1>5, <1>6, <1>7, Zenon

LEMMA SpiIsrQuiet ==
  ASSUME QuietInv, SpiIsr
  PROVE  QuietInv'
<1>1. pc = "wait" /\ ~hasDma /\ Over /\ dmaen = {} /\ UNCHANGED <<hasDma, pc, full>>
  BY DEF SpiIsr, SpiLine, QuietInv
<1>2. CASE \E r : Complete(chan, r)
  <2>1. /\ Over' /\ intsOn' \in BOOLEAN /\ ~intsOn' /\ sync' = 1
        /\ chan' = [e \in Dirs |-> chan'[e]] /\ \A e \in Dirs : Shaped(chan'[e])
    BY <1>1, <1>2, CompleteQuiet DEF QuietInv, Over
  <2>2. UNCHANGED dmaen
    BY <1>2 DEF Complete
  <2>. QED
    BY <1>1, <2>1, <2>2 DEF QuietInv
<1>3. CASE UNCHANGED <<chan, sync, intsOn, dmaen>>
  BY <1>1, <1>3 DEF QuietInv, Over
<1>4. (\E r : Complete(chan, r)) \/ UNCHANGED <<chan, sync, intsOn, dmaen>>
  BY Zenon DEF SpiIsr
<1>. QED
  BY <1>2, <1>3, <1>4

\* The wire moves an item only where a request is on, and after the wait none.
LEMMA WireQuiet ==
  ASSUME QuietInv, Wire
  PROVE  QuietInv'
<1>1. PICK d \in Dirs : Move(d) /\ Live(chan[d]) /\ d \in dmaen
  BY DEF Wire, ExtTransmit, ExtReceive, Transmitting, Receiving, Dirs
<1>2. UNCHANGED <<hasDma, pc, dmaen, intsOn, sync>>
  BY DEF Wire, ExtTransmit, ExtReceive, ExtOnly
<1>3. pc \in {"receiver", "wait"} /\ sync = 0 /\ hasDma
  BY <1>1 DEF QuietInv, Over, Live, Wire, ExtTransmit, ExtReceive
<1>4. chan' = [chan EXCEPT ![d] = Moved(@)]
  BY <1>1 DEF Move
<1>5. chan' = [e \in Dirs |-> chan'[e]] /\ \A e \in Dirs : Shaped(chan'[e])
  BY <1>4, MovedShape DEF QuietInv
<1>. QED
  BY <1>2, <1>3, <1>5 DEF QuietInv

LEMMA DmaErrorQuiet ==
  ASSUME QuietInv, NEW d \in Dirs, ExtDmaError(d)
  PROVE  QuietInv'
<1>1. /\ Live(chan[d]) /\ d \in dmaen /\ chan' = [chan EXCEPT ![d] = Errored(@)]
      /\ UNCHANGED <<hasDma, pc, dmaen, intsOn, sync, full>>
  BY DEF ExtDmaError, ExtOnly
<1>2. chan' = [e \in Dirs |-> chan'[e]] /\ \A e \in Dirs : Shaped(chan'[e])
  BY <1>1, ErroredShape DEF QuietInv
<1>3. \A e \in Dirs : /\ Asserted(chan'[e]) <=> Asserted(chan[e])
                      /\ Live(chan'[e]) => Live(chan[e]) /\ chan'[e] = chan[e]
  BY <1>1, ErroredShape DEF QuietInv, Live
<1>4. ~Live(chan'[d])
  BY <1>1, ErroredShape DEF QuietInv, Live
<1>5. pc = "quiesce" => ~Transmitting' /\ ~(Receiving /\ full)'
  BY <1>1, <1>3, <1>4 DEF QuietInv, Transmitting, Receiving, Dirs
<1>6. pc \in {"receiver", "wait", "quiesce"} /\ sync = 0 /\ hasDma
  BY <1>1 DEF QuietInv, Over, Live
<1>. QED
  BY <1>1, <1>2, <1>3, <1>5, <1>6 DEF QuietInv, NoneAsserted

\* Every step keeps the invariant.
LEMMA NextQuiet ==
  ASSUME QuietInv, "slow" \notin Hazards, [Next]_vars
  PROVE  QuietInv'
<1>1. CASE Call
  BY <1>1, CallQuiet
<1>2. CASE Enter
  BY <1>2, EnterQuiet
<1>3. CASE \E d \in Dirs : DmaIsr(d) \/ ExtDmaError(d)
  BY <1>3, DmaIsrQuiet, DmaErrorQuiet
<1>4. CASE SpiIsr
  BY <1>4, SpiIsrQuiet
<1>5. CASE Wire
  BY <1>5, WireQuiet
<1>6. CASE ExtSpiError
  BY <1>6 DEF ExtSpiError, ExtOnly, QuietInv, Over, NoneAsserted, Transmitting, Receiving, Live
<1>7. CASE UNCHANGED vars
  BY <1>7 DEF vars, QuietInv, Over, NoneAsserted, Transmitting, Receiving, Live
<1>. QED
  BY <1>1, <1>2, <1>3, <1>4, <1>5, <1>6, <1>7 DEF Next

\* Between calls the SPI raises no request and no interrupt, and ctx->sync holds no
\* completion of an old transfer for the next one: after a success, an error flag of
\* the SPI, a DMA error and a timeout (spi_at32_transceive_impl,
\* spi_at32_complete).
THEOREM SpiQuietBetweenCalls ==
  ASSUME "slow" \notin Hazards
  PROVE  Spec => []QuietWhenIdle
<1>1. Init => QuietInv
  BY InitQuiet
<1>2. QuietInv /\ [Next]_vars => QuietInv'
  BY NextQuiet
<1>3. QuietInv => QuietWhenIdle
  BY DEF QuietInv, QuietWhenIdle
<1>. QED
  BY <1>1, <1>2, <1>3, PTL DEF Spec

-----------------------------------------------------------------------------
(* Total: a recursive function over sequences has the value its definition gives,  *)
(* by least counterexamples.                                                        *)

LEMMA Least ==
  ASSUME NEW S \in SUBSET Nat, S # {}
  PROVE  \E m \in S : \A k \in S : m <= k
<1> DEFINE R == {ss \in Nat \X Nat : ss[1] < ss[2]}
<1>1. IsWellFoundedOn(R, Nat)
  BY NatLessThanWellFounded DEF OpToRel
<1>2. ASSUME NEW m \in Nat, NEW k \in Nat, <<k, m>> \notin R
      PROVE  m <= k
  BY <1>2
<1>. HIDE DEF R
<1>3. \E m \in S : \A k \in S : ~ (<<k, m>> \in R)
  BY <1>1, WFMin
<1>. QED
  BY <1>2, <1>3

\* The tail of a sequence of lengths is one, and shorter.
LEMMA TailLengths ==
  ASSUME NEW s \in Lengths, s # <<>>
  PROVE  /\ Tail(s) \in Lengths /\ Len(Tail(s)) = Len(s) - 1 /\ Len(s) \in Nat \ {0}
         /\ s[1] \in Nat \ {0}
BY DEF Lengths

LEMMA NoLengths == <<>> \in Lengths /\ Len(<<>>) = 0
BY DEF Lengths

Short(n)   == {s \in Lengths : Len(s) <= n}
Sums(n)    == {f \in [Short(n) -> Nat] :
                 \A s \in Short(n) : f[s] = IF s = <<>> THEN 0 ELSE s[1] + f[Tail(s)]}

\* Two functions that sum up agree where both are defined.
LEMMA SumsAgree ==
  ASSUME NEW n \in Nat, NEW m \in Nat, NEW f \in Sums(n), NEW g \in Sums(m),
         NEW s \in Short(n), s \in Short(m)
  PROVE  f[s] = g[s]
<1> DEFINE Bad == {Len(x) : x \in {y \in Short(n) \cap Short(m) : f[y] # g[y]}}
<1> SUFFICES ASSUME f[s] # g[s] PROVE FALSE
  OBVIOUS
<1>1. Bad \in SUBSET Nat /\ Bad # {}
  <2>1. \A x \in Short(n) : Len(x) \in Nat
    BY DEF Short, Lengths
  <2>2. Len(s) \in Bad
    OBVIOUS
  <2>. QED
    BY <2>1, <2>2
<1>2. PICK k \in Bad : \A l \in Bad : k <= l
  <2>. HIDE DEF Bad
  <2>. QED
    BY <1>1, Least
<1>3. PICK x \in Short(n) \cap Short(m) : f[x] # g[x] /\ Len(x) = k
  BY <1>2
<1>4. CASE x = <<>>
  BY <1>3, <1>4 DEF Sums
<1>5. CASE x # <<>>
  <2>1. /\ Tail(x) \in Lengths /\ Len(Tail(x)) = k - 1 /\ k \in Nat
    BY <1>3, <1>5, TailLengths DEF Short
  <2>2. Tail(x) \in Short(n) \cap Short(m)
    BY <1>3, <2>1 DEF Short
  <2>3. f[x] = x[1] + f[Tail(x)] /\ g[x] = x[1] + g[Tail(x)]
    BY <1>3, <1>5 DEF Sums
  <2>4. f[Tail(x)] # g[Tail(x)]
    BY <1>3, <2>3
  <2>5. k - 1 \in Bad
    BY <2>1, <2>2, <2>4
  <2>. HIDE DEF Bad
  <2>. QED
    BY <1>2, <2>1, <2>5
<1>. QED
  BY <1>4, <1>5

LEMMA SumsExist ==
  ASSUME NEW n \in Nat
  PROVE  Sums(n) # {}
<1> DEFINE Bad == {k \in Nat : Sums(k) = {}}
<1> SUFFICES ASSUME Sums(n) = {} PROVE FALSE
  OBVIOUS
<1>1. Bad \in SUBSET Nat /\ Bad # {}
  OBVIOUS
<1>2. PICK k \in Bad : \A l \in Bad : k <= l
  <2>. HIDE DEF Bad
  <2>. QED
    BY <1>1, Least
<1>3. CASE k = 0
  <2> DEFINE f == [s \in Short(0) |-> 0]
  <2>1. \A s \in Short(0) : s = <<>>
    BY DEF Short, Lengths
  <2>2. f \in Sums(0)
    BY <2>1 DEF Sums
  <2>. QED
    BY <1>2, <1>3, <2>2
<1>4. CASE k # 0
  <2>1. k - 1 \in Nat /\ k - 1 \notin Bad
    BY <1>2, <1>4
  <2>2. PICK f \in Sums(k - 1) : TRUE
    BY <2>1
  <2> DEFINE g == [s \in Short(k) |-> IF s = <<>> THEN 0 ELSE s[1] + f[Tail(s)]]
  <2>3. ASSUME NEW s \in Short(k), s # <<>>
        PROVE  /\ Tail(s) \in Short(k - 1) /\ Tail(s) \in Short(k) /\ s[1] \in Nat
               /\ f[Tail(s)] \in Nat
    <3>1. Tail(s) \in Short(k - 1) /\ Tail(s) \in Short(k) /\ s[1] \in Nat
      BY <1>2, <2>1, <2>3, TailLengths DEF Short
    <3>. QED
      BY <2>2, <3>1 DEF Sums
  <2>4. ASSUME NEW s \in Short(k)
        PROVE  g[s] = IF s = <<>> THEN 0 ELSE s[1] + g[Tail(s)]
    <3>1. CASE s = <<>>
      BY <3>1
    <3>2. CASE s # <<>>
      <4>1. Tail(s) \in Short(k - 1) /\ Tail(s) \in Short(k)
        BY <2>3, <3>2
      <4>2. f[Tail(s)] = IF Tail(s) = <<>> THEN 0 ELSE Tail(s)[1] + f[Tail(Tail(s))]
        BY <2>2, <4>1 DEF Sums
      <4>3. g[Tail(s)] = f[Tail(s)]
        BY <4>1, <4>2
      <4>4. g[s] = s[1] + f[Tail(s)]
        BY <3>2
      <4>. QED
        BY <3>2, <4>3, <4>4
    <3>. QED
      BY <3>1, <3>2
  <2>5. g \in [Short(k) -> Nat]
    BY <2>3
  <2>6. g \in Sums(k)
    <3>. HIDE DEF g
    <3>. QED
      BY <2>4, <2>5 DEF Sums
  <2>. QED
    BY <1>2, <2>6
<1>. QED
  BY <1>3, <1>4

\* The equation of Total.
LEMMA TotalIs ==
  ASSUME NEW s \in Lengths
  PROVE  /\ Total[s] \in Nat
         /\ Total[s] = IF s = <<>> THEN 0 ELSE s[1] + Total[Tail(s)]
<1> DEFINE Of(x) == CHOOSE f : f \in Sums(Len(x))
           F == [x \in Lengths |-> Of(x)[x]]
<1>1. ASSUME NEW x \in Lengths
      PROVE  Len(x) \in Nat /\ Of(x) \in Sums(Len(x)) /\ x \in Short(Len(x))
  <2>1. Len(x) \in Nat
    BY DEF Lengths
  <2>. QED
    BY <2>1, SumsExist DEF Short
<1>. HIDE DEF Of
<1>2. ASSUME NEW x \in Lengths
      PROVE  F[x] \in Nat /\ F[x] = IF x = <<>> THEN 0 ELSE x[1] + F[Tail(x)]
  <2>1. Of(x)[x] \in Nat /\ Of(x)[x] = IF x = <<>> THEN 0 ELSE x[1] + Of(x)[Tail(x)]
    BY <1>1 DEF Sums
  <2>2. CASE x # <<>>
    <3>1. Tail(x) \in Lengths /\ Tail(x) \in Short(Len(x))
      BY <2>2, TailLengths DEF Short
    <3>2. Of(x)[Tail(x)] = Of(Tail(x))[Tail(x)]
      BY <1>1, <3>1, SumsAgree
    <3>. QED
      BY <2>1, <3>1, <3>2
  <2>. QED
    BY <2>1, <2>2
<1>3. F = [x \in Lengths |-> IF x = <<>> THEN 0 ELSE x[1] + F[Tail(x)]]
  <2>1. F = [x \in Lengths |-> F[x]]
    OBVIOUS
  <2>. HIDE DEF F
  <2>. QED
    BY <1>2, <2>1, Zenon
<1>. HIDE DEF F
<1>4. Total = [x \in Lengths |-> IF x = <<>> THEN 0 ELSE x[1] + Total[Tail(x)]]
  BY <1>3, Zenon DEF Total
<1>5. \A x \in Lengths : Total[x] = IF x = <<>> THEN 0 ELSE x[1] + Total[Tail(x)]
  BY <1>4, Zenon
<1>6. ASSUME NEW x \in Lengths, Total[x] \notin Nat PROVE FALSE
  <2> DEFINE Bad == {Len(y) : y \in {z \in Lengths : Total[z] \notin Nat}}
  <2>1. Bad \in SUBSET Nat /\ Bad # {}
    <3>1. \A y \in Lengths : Len(y) \in Nat
      BY DEF Lengths
    <3>2. Len(x) \in Bad
      BY <1>6
    <3>. QED
      BY <3>1, <3>2
  <2>2. PICK k \in Bad : \A l \in Bad : k <= l
    <3>. HIDE DEF Bad
    <3>. QED
      BY <2>1, Least
  <2>3. PICK y \in Lengths : Total[y] \notin Nat /\ Len(y) = k
    BY <2>2
  <2>4. y # <<>> /\ Total[y] = y[1] + Total[Tail(y)]
    BY <1>5, <2>3
  <2>5. Tail(y) \in Lengths /\ Len(Tail(y)) = k - 1 /\ k \in Nat /\ y[1] \in Nat
    BY <2>3, <2>4, TailLengths
  <2>6. Total[Tail(y)] \notin Nat
    BY <2>3, <2>4, <2>5
  <2>7. k - 1 \in Bad
    BY <2>5, <2>6
  <2>. HIDE DEF Bad
  <2>. QED
    BY <2>2, <2>5, <2>7
<1>. QED
  BY <1>5, <1>6

\* What remains of the lengths after n bytes of the first.
LEMMA UpdatedTotal ==
  ASSUME NEW s \in Lengths, s # <<>>, NEW n \in 0 .. s[1]
  PROVE  Updated(s, n) \in Lengths /\ Total[Updated(s, n)] = Total[s] - n
<1>1. /\ s[1] \in Nat \ {0} /\ Tail(s) \in Lengths /\ Total[Tail(s)] \in Nat
      /\ Total[s] = s[1] + Total[Tail(s)]
  BY TailLengths, TotalIs
<1>2. CASE n = s[1]
  BY <1>1, <1>2 DEF Updated
<1>3. CASE n < s[1]
  <2> DEFINE z == [s EXCEPT ![1] = s[1] - n]
  <2>1. Updated(s, n) = z
    BY <1>1, <1>3 DEF Updated
  <2>2. s[1] - n \in Nat \ {0}
    BY <1>1, <1>3
  <2>3. z \in Lengths /\ z # <<>> /\ z[1] = s[1] - n /\ Len(z) = Len(s)
    BY <2>2 DEF Lengths
  <2>4. Tail(z) = Tail(s)
    BY <2>3 DEF Lengths
  <2>5. Total[z] = z[1] + Total[Tail(z)]
    BY <2>3, TotalIs
  <2>. HIDE DEF z
  <2>6. Total[z] = (s[1] - n) + Total[Tail(s)]
    BY <2>3, <2>4, <2>5
  <2>7. Total[z] = Total[s] - n
    BY <1>1, <2>6
  <2>. QED
    BY <2>1, <2>3, <2>7
<1>. QED
  BY <1>1, <1>2, <1>3

-----------------------------------------------------------------------------
(* The invariant *)

\* What a channel may be doing, by its registers and data->channels[].busy: nothing,
\* with its interrupt to be taken, moving items, stopped by a bus error, or started
\* with a count that is zero after dtcnt has wrapped.
Finished(ch) == ~ch.busy /\ ch.left = 0 /\ ~Asserted(ch)
Due(ch)      == ch.busy /\ ch.on /\ ch.left = 0 /\ Asserted(ch)
Running(ch)  == ch.busy /\ ch.on /\ ch.left > 0 /\ ~Asserted(ch) /\ ch.ints = {"FDT"}
Failed(ch)   == ch.busy /\ ~ch.on /\ ch.left > 0 /\ ~Asserted(ch)
Void(ch)     == ch.busy /\ ch.on /\ ch.left = 0 /\ ~Asserted(ch)
State(ch)    == Finished(ch) \/ Due(ch) \/ Running(ch) \/ Failed(ch) \/ Void(ch)

\* The receiver follows the transmitter, by the byte in the register; it does not
\* finish first, and it moves nothing for a transmitter that will not.
Paired(r, t) ==
  /\ Finished(r) \/ Due(r) => ~full /\ (Finished(t) \/ Due(t))
  /\ Running(r) => r.left = t.left + (IF full THEN 1 ELSE 0) /\ ~Void(t)
  /\ Void(r) => ~full /\ Void(t)

\* The channel moves items of this request, or has just moved the last.
WorksTx(t)    == Running(t) \/ Due(t)
WorksRx(r, t) == Due(r) \/ (Running(r) /\ (full \/ ~Failed(t)))
Works(d) == IF d = "TX" THEN WorksTx(chan["TX"]) ELSE WorksRx(chan["RX"], chan["TX"])

Part(d)   == IF d = "TX" THEN tx ELSE rx
Target(s) == IF s = <<>> THEN "dummy" ELSE "own"
Chunk     == ChunkOf(tx, rx)
InCall    == hasDma /\ pc \in {"transmitter", "receiver", "wait"} /\ sync = 0

Types ==
  /\ QuietInv
  /\ chan \in [Dirs -> Channel]
  /\ error \in BOOLEAN /\ full \in BOOLEAN /\ cs \in BOOLEAN
  /\ tx \in Lengths /\ rx \in Lengths
  /\ count \in [Dirs -> Nat]
  /\ status \in {"ok", "eio"} /\ ret \in {"none", "ok", "eio", "timeout"}

\* The channels, the requests of the SPI and the counts.
Channels ==
  /\ \A d \in Dirs : State(chan[d])
  /\ Paired(chan["RX"], chan["TX"])
  /\ ~hasDma => ~full /\ \A d \in Dirs : Finished(chan[d])
  /\ \A d \in Dirs : Works(d) => InCall

Chunks ==
  /\ pc = "receiver" => "TX" \in dmaen
  /\ hasDma /\ pc = "wait" => dmaen = Dirs
  /\ pc = "setup" => \A d \in Dirs : count[d] = 0
  /\ \A d \in Dirs : Works(d) => Chunk > 0 /\ chan[d].buffer = Target(Part(d))
  /\ InCall => \A d \in Dirs :
       /\ count[d] = IF chan[d].busy THEN 0 ELSE Chunk
       /\ ~chan[d].busy /\ Chunk > 0 => chan[d].buffer = Target(Part(d))
  /\ sync = 1 => ~full

MoveInv == Types /\ Channels /\ Chunks

\* Every length is one that dtcnt can hold.
Fits == Requests \subseteq [tx : Seq(1 .. (ItemLimit - 1)), rx : Seq(1 .. (ItemLimit - 1))]

\* What is owed when the rest of a list and what is left of a channel are known:
\* never less than this, and exactly this when no count wraps.
Owes(n, s, ch, k) ==
  /\ s = <<>> => ch.buffer # "own"
  /\ LET m == IF ch.buffer = "own" THEN ch.left + Total[s] - k ELSE Total[s] IN
     n >= m /\ (Fits => n = m)

Nothing == Fits => \A d \in Dirs : owed[d] = 0

Accounts ==
  /\ MoveInv
  /\ Fits => tx \in Seq(1 .. (ItemLimit - 1)) /\ rx \in Seq(1 .. (ItemLimit - 1))
  /\ owed \in [Dirs -> Nat]
  /\ pc = "setup" => \A d \in Dirs : chan[d].buffer # "own"
  /\ InCall \/ pc = "setup" => \A d \in Dirs : Owes(owed[d], Part(d), chan[d], Chunk)
  /\ ~hasDma /\ pc \in {"ints", "wait"} /\ sync = 0 => \A d \in Dirs : owed[d] = Total[Part(d)]
  /\ sync = 1 /\ status = "ok" => Nothing
  /\ pc \in {"quiesce", "deselect"} /\ ret = "ok" => ~full /\ Nothing

-----------------------------------------------------------------------------
(* What a channel may be doing, and what the operations make of it *)

LEMMA SetUpState ==
  ASSUME NEW ch \in Channel, NEW s, NEW n \in Nat, NEW z, z = SetUp(ch, s, n)
  PROVE  /\ z \in Channel /\ z.busy = TRUE /\ z.left = n % ItemLimit /\ z.buffer = Target(s)
         /\ State(z)
         /\ z.left > 0 => Running(z)
         /\ z.left = 0 => Void(z)
<1>1. n % ItemLimit \in Nat
  BY ItemAssumption
<1>2. PICK b \in Buffers : b = Target(s)
  BY BuffersAssumption DEF Target
<1>3. PICK y : y = Configured(ch, b, n)
  OBVIOUS
<1>4. /\ y \in Channel /\ y.left = n % ItemLimit /\ y.ints = {"FDT"} /\ y.flags = {}
      /\ y.buffer = b
  BY <1>1, <1>3 DEF Configured, Channel
<1>5. z = [y EXCEPT !.on = TRUE, !.busy = TRUE]
  BY <1>2, <1>3 DEF SetUp, Started, Target
<1>6. /\ z \in Channel /\ z.busy = TRUE /\ z.on = TRUE /\ z.left = n % ItemLimit
      /\ z.ints = {"FDT"} /\ z.flags = {} /\ z.buffer = b
  BY <1>4, <1>5 DEF Channel
<1>7. ~Asserted(z)
  BY <1>6 DEF Asserted
<1>8. (z.left > 0 => Running(z)) /\ (z.left = 0 => Void(z)) /\ (z.left > 0 \/ z.left = 0)
  BY <1>1, <1>6, <1>7 DEF Running, Void
<1>. QED
  BY <1>2, <1>6, <1>8 DEF State

LEMMA StoppedState ==
  ASSUME NEW ch \in Channel, Finished(ch), NEW z, z = Stopped(ch)
  PROVE  z \in Channel /\ Finished(z) /\ z.buffer = ch.buffer /\ z.left = 0
<1>1. /\ z \in Channel /\ z.busy = FALSE /\ z.left = ch.left /\ z.ints = {}
      /\ z.buffer = ch.buffer
  BY DEF Stopped, Channel
<1>2. ~Asserted(z)
  BY <1>1 DEF Asserted
<1>. QED
  BY <1>1, <1>2 DEF Finished

LEMMA AcknowledgedState ==
  ASSUME NEW ch \in Channel, Due(ch), NEW z, z = Acknowledged(ch)
  PROVE  z \in Channel /\ Finished(z) /\ z.buffer = ch.buffer /\ z.left = 0
<1>1. /\ z \in Channel /\ z.busy = FALSE /\ z.left = ch.left /\ z.ints = ch.ints
      /\ z.flags = ch.flags \ {"FDT"} /\ z.buffer = ch.buffer
  BY DEF Acknowledged, Channel
<1>2. ch.ints \subseteq {"FDT"}
  BY DEF Channel
<1>3. ~Asserted(z)
  BY <1>1, <1>2 DEF Asserted
<1>. QED
  BY <1>1, <1>3 DEF Finished, Due

\* The last item raises the interrupt.
LEMMA MovedState ==
  ASSUME NEW ch \in Channel, Running(ch), NEW z, z = Moved(ch)
  PROVE  /\ z \in Channel /\ z.left = ch.left - 1 /\ z.buffer = ch.buffer /\ z.busy = ch.busy
         /\ ch.left > 1 => Running(z)
         /\ ch.left = 1 => Due(z)
<1>1. ch.left \in Nat /\ ch.left > 0 /\ ch.ints = {"FDT"} /\ ch.busy /\ ch.on
  BY DEF Channel, Running
<1>2. PICK f \in SUBSET {"FDT", "DTERR"} :
        f = IF ch.left = 1 THEN ch.flags \cup {"FDT"} ELSE ch.flags
  BY DEF Channel
<1> PICK k \in Nat : k = ch.left - 1
  BY <1>1
<1>3. z = [ch EXCEPT !.left = k, !.flags = f]
  BY <1>2 DEF Moved
<1>4. /\ z \in Channel /\ z.left = k /\ z.buffer = ch.buffer /\ z.busy = ch.busy
      /\ z.on = ch.on /\ z.ints = ch.ints /\ z.flags = f
  BY <1>3 DEF Channel
<1>5. ASSUME ch.left = 1 PROVE Due(z)
  <2>1. Asserted(z)
    BY <1>1, <1>2, <1>4, <1>5 DEF Asserted
  <2>. QED
    BY <1>1, <1>4, <1>5, <2>1 DEF Due
<1>6. ASSUME ch.left > 1 PROVE Running(z)
  <2>1. ~Asserted(z)
    BY <1>1, <1>2, <1>4, <1>6 DEF Asserted, Running
  <2>. QED
    BY <1>1, <1>4, <1>6, <2>1 DEF Running
<1>. QED
  BY <1>4, <1>5, <1>6

LEMMA ErroredState ==
  ASSUME NEW ch \in Channel, Running(ch), NEW z, z = Errored(ch)
  PROVE  /\ z \in Channel /\ Failed(z)
         /\ z.left = ch.left /\ z.buffer = ch.buffer /\ z.busy = ch.busy
<1>1. /\ z \in Channel /\ z.left = ch.left /\ z.buffer = ch.buffer /\ z.busy = ch.busy
      /\ z.on = FALSE /\ z.ints = ch.ints /\ z.flags = ch.flags \cup {"DTERR"}
  BY DEF Errored, Channel
<1>2. ~Asserted(z)
  BY <1>1 DEF Asserted, Running
<1>. QED
  BY <1>1, <1>2 DEF Failed, Running

\* Nothing but the buffer is different.
Alike(z, ch) ==
  z.busy = ch.busy /\ z.on = ch.on /\ z.left = ch.left /\ z.ints = ch.ints /\ z.flags = ch.flags

LEMMA AlikeState ==
  ASSUME NEW ch, NEW z, Alike(z, ch)
  PROVE  /\ Finished(z) <=> Finished(ch)
         /\ Due(z) <=> Due(ch)
         /\ Running(z) <=> Running(ch)
         /\ Failed(z) <=> Failed(ch)
         /\ Void(z) <=> Void(ch)
         /\ State(z) <=> State(ch)
<1>1. Asserted(z) <=> Asserted(ch)
  BY DEF Alike, Asserted
<1>. QED
  BY <1>1 DEF Alike, Finished, Due, Running, Failed, Void, State

LEMMA OneState ==
  ASSUME NEW ch \in Channel, State(ch)
  PROVE  /\ Live(ch) => Running(ch)
         /\ Running(ch) => Live(ch)
         /\ Asserted(ch) => Due(ch)
         /\ ~ch.busy => Finished(ch)
         /\ Finished(ch) => ~Due(ch) /\ ~Running(ch) /\ ~Failed(ch) /\ ~Void(ch) /\ ch.left = 0
         /\ Due(ch) => ~Running(ch) /\ ~Failed(ch) /\ ~Void(ch) /\ ch.left = 0 /\ Asserted(ch)
         /\ Running(ch) => ~Failed(ch) /\ ~Void(ch) /\ ch.left > 0
         /\ Failed(ch) => ~Void(ch) /\ ch.left > 0
         /\ Void(ch) => ch.left = 0
         /\ ch.left \in Nat /\ ch.busy \in BOOLEAN
BY DEF Channel, State, Finished, Due, Running, Failed, Void, Live

-----------------------------------------------------------------------------
(* Chunks *)

LEMMA ChunkFacts ==
  ASSUME NEW t \in Lengths, NEW r \in Lengths, NEW n, n = ChunkOf(t, r)
  PROVE  /\ n \in Nat /\ (n > 0 <=> Ongoing(t, r))
         /\ t # <<>> => n <= t[1]
         /\ r # <<>> => n <= r[1]
<1>1. (t # <<>> => t[1] \in Nat \ {0}) /\ (r # <<>> => r[1] \in Nat \ {0})
  BY TailLengths
<1>. QED
  BY <1>1 DEF ChunkOf, First, MinOf, Ongoing

LEMMA UpdatedLengths ==
  ASSUME NEW s \in Lengths, NEW n \in Nat
  PROVE  Updated(s, n) \in Lengths
<1>1. CASE s = <<>>
  BY <1>1 DEF Updated
<1>2. CASE s # <<>> /\ n <= s[1]
  BY <1>2, UpdatedTotal
<1>3. CASE s # <<>> /\ n > s[1]
  BY <1>3, TailLengths DEF Updated
<1>4. s # <<>> => s[1] \in Nat
  BY TailLengths
<1>. QED
  BY <1>1, <1>2, <1>3, <1>4

\* The loop over channels of which none works for the request: those that are finished
\* begin on the chunk, the others are left as they are.
LEMMA ProgrammedPair ==
  ASSUME NEW t \in Lengths, NEW r \in Lengths, NEW counts, \A d \in Dirs : counts[d] = 0,
         NEW cs0 \in [Dirs -> Channel], \A d \in Dirs : State(cs0[d]),
         Paired(cs0["RX"], cs0["TX"]), ~WorksTx(cs0["TX"]), ~WorksRx(cs0["RX"], cs0["TX"]),
         NEW z, z = Programmed(cs0, counts, t, r)
  PROVE  /\ z \in [Dirs -> Channel] /\ \A d \in Dirs : State(z[d])
         /\ Paired(z["RX"], z["TX"])
         /\ ChunkOf(t, r) > 0 => \A d \in Dirs : z[d].busy
         /\ ChunkOf(t, r) = 0 => z = cs0
         /\ ChunkOf(t, r) > 0 => \A d \in Dirs :
              IF cs0[d].busy THEN z[d] = cs0[d]
              ELSE /\ z[d].left = ChunkOf(t, r) % ItemLimit
                   /\ z[d].buffer = Target(IF d = "TX" THEN t ELSE r)
         /\ WorksTx(z["TX"]) => ChunkOf(t, r) > 0 /\ z["TX"].buffer = Target(t)
         /\ WorksRx(z["RX"], z["TX"]) => ChunkOf(t, r) > 0 /\ z["RX"].buffer = Target(r)
<1>1. PICK n \in Nat : n = ChunkOf(t, r)
  BY ChunkFacts
<1>2. z = [d \in Dirs |-> IF n # 0 /\ ~cs0[d].busy
                          THEN SetUp(cs0[d], IF d = "TX" THEN t ELSE r, n) ELSE cs0[d]]
  BY <1>1 DEF Programmed
<1>3. CASE n = 0
  <2>1. z = cs0
    BY <1>2, <1>3
  <2>. QED
    BY <1>1, <1>3, <2>1
<1>4. CASE n # 0
  <2>1. PICK m : m = n % ItemLimit
    OBVIOUS
  <2>2. ASSUME NEW d \in Dirs, cs0[d].busy
        PROVE  z[d] = cs0[d]
    BY <1>2, <2>2
  <2>3. ASSUME NEW d \in Dirs, ~cs0[d].busy
        PROVE  /\ z[d] \in Channel /\ State(z[d]) /\ z[d].busy = TRUE /\ z[d].left = m
               /\ z[d].buffer = Target(IF d = "TX" THEN t ELSE r)
               /\ m > 0 => Running(z[d])
               /\ m = 0 => Void(z[d])
    <3>1. PICK s : s = IF d = "TX" THEN t ELSE r
      OBVIOUS
    <3>2. z[d] = SetUp(cs0[d], s, n) /\ cs0[d] \in Channel
      BY <1>2, <1>4, <2>3, <3>1
    <3>3. PICK c, y : c = cs0[d] /\ y = z[d]
      OBVIOUS
    <3>4. c \in Channel /\ y = SetUp(c, s, n)
      BY <3>2, <3>3
    <3>5. /\ y \in Channel /\ y.busy = TRUE /\ y.left = n % ItemLimit
          /\ y.buffer = Target(s) /\ State(y)
          /\ y.left > 0 => Running(y)
          /\ y.left = 0 => Void(y)
      BY <3>4, SetUpState
    <3>6. y.left = m
      BY <2>1, <3>5
    <3>. QED
      BY <3>1, <3>3, <3>5, <3>6, Zenon
  <2>4. z \in [Dirs -> Channel] /\ \A d \in Dirs : State(z[d]) /\ z[d].busy
    BY <1>2, <2>2, <2>3
  <2>5. m \in Nat
    BY <2>1, ItemAssumption
  <2>6. "TX" \in Dirs /\ "RX" \in Dirs
    BY DEF Dirs
  <2>7. \A d \in Dirs : cs0[d] \in Channel
    OBVIOUS
  <2>8. PICK x, y, a, b : x = cs0["RX"] /\ y = cs0["TX"] /\ a = z["RX"] /\ b = z["TX"]
    OBVIOUS
  <2>9. /\ x \in Channel /\ State(x) /\ y \in Channel /\ State(y)
        /\ a \in Channel /\ State(a) /\ b \in Channel /\ State(b)
    BY <2>4, <2>6, <2>7, <2>8
  <2>10. /\ ~Due(y) /\ ~Running(y) /\ ~Due(x) /\ (Running(x) => ~full /\ Failed(y))
         /\ Paired(x, y)
    BY <2>8 DEF WorksTx, WorksRx
  <2>11. /\ IF x.busy THEN a = x
            ELSE a.left = m /\ a.buffer = Target(r) /\ (m > 0 => Running(a)) /\ (m = 0 => Void(a))
         /\ IF y.busy THEN b = y
            ELSE b.left = m /\ b.buffer = Target(t) /\ (m > 0 => Running(b)) /\ (m = 0 => Void(b))
    BY <2>2, <2>3, <2>6, <2>8
  <2>12. /\ Finished(x) <=> ~x.busy
         /\ Finished(y) <=> ~y.busy
    BY <2>9 DEF State, Finished, Due, Running, Failed, Void
  <2>13. Paired(a, b)
    <3>1. CASE ~x.busy
      <4>1. ~full /\ ~y.busy
        BY <2>10, <2>12, <3>1 DEF Paired
      <4>2. CASE m = 0
        <5>1. Void(a) /\ Void(b) /\ ~Finished(a) /\ ~Due(a) /\ ~Running(a)
          BY <2>9, <2>11, <3>1, <4>1, <4>2, OneState
        <5>. QED
          BY <4>1, <5>1 DEF Paired
      <4>3. CASE m > 0
        <5>1. /\ Running(a) /\ Running(b) /\ a.left = b.left /\ a.left = m
          BY <2>11, <3>1, <4>1, <4>3
        <5>2. ~Finished(a) /\ ~Due(a) /\ ~Void(a) /\ ~Void(b)
          BY <2>9, <5>1, OneState
        <5>. QED
          BY <2>5, <4>1, <5>1, <5>2 DEF Paired
      <4>. QED
        BY <2>5, <4>2, <4>3
    <3>2. CASE x.busy
      <4>1. a = x /\ ~Finished(x)
        BY <2>11, <2>12, <3>2
      <4>2. CASE Running(x)
        <5>1. Failed(y)
          BY <2>10, <4>2
        <5>2. y.busy
          BY <5>1 DEF Failed
        <5>. QED
          BY <2>10, <2>11, <4>1, <5>2
      <4>3. CASE Void(x)
        <5>1. Void(y)
          BY <2>10, <4>3 DEF Paired
        <5>2. y.busy
          BY <5>1 DEF Void
        <5>. QED
          BY <2>10, <2>11, <4>1, <5>2
      <4>4. CASE ~Running(x) /\ ~Void(x)
        BY <2>10, <4>1, <4>4 DEF Paired
      <4>. QED
        BY <4>2, <4>3, <4>4
    <3>. QED
      BY <2>9, <3>1, <3>2, OneState
  <2>14. WorksTx(b) => b.buffer = Target(t)
    <3> SUFFICES ASSUME WorksTx(b) PROVE b.buffer = Target(t)
      OBVIOUS
    <3>1. b # y
      BY <2>10 DEF WorksTx
    <3>. QED
      BY <2>11, <3>1
  <2>15. WorksRx(a, b) => a.buffer = Target(r)
    <3> SUFFICES ASSUME WorksRx(a, b), x.busy PROVE FALSE
      BY <2>11
    <3>1. a = x /\ Running(x) /\ Failed(y) /\ ~full
      BY <2>10, <2>11 DEF WorksRx
    <3>2. b = y
      BY <2>11, <3>1 DEF Failed
    <3>. QED
      BY <3>1, <3>2, <2>10 DEF WorksRx
  <2>16. ASSUME NEW d \in Dirs
         PROVE  IF cs0[d].busy THEN z[d] = cs0[d]
                ELSE z[d].left = m /\ z[d].buffer = Target(IF d = "TX" THEN t ELSE r)
    BY <2>2, <2>3
  <2>17. n > 0 /\ ChunkOf(t, r) > 0 /\ ChunkOf(t, r) # 0 /\ m = ChunkOf(t, r) % ItemLimit
    BY <1>1, <1>4, <2>1
  <2>. QED
    BY <2>4, <2>8, <2>13, <2>14, <2>15, <2>16, <2>17
<1>. QED
  BY <1>3, <1>4

-----------------------------------------------------------------------------
(* The channels and the chunks, step by step *)

\* What the invariant says of the two channels.
LEMMA PairKnown ==
  ASSUME MoveInv
  PROVE  /\ chan["RX"] \in Channel /\ chan["TX"] \in Channel
         /\ State(chan["RX"]) /\ State(chan["TX"]) /\ Paired(chan["RX"], chan["TX"])
         /\ Works("TX") <=> WorksTx(chan["TX"])
         /\ Works("RX") <=> WorksRx(chan["RX"], chan["TX"])
         /\ WorksTx(chan["TX"]) => InCall
         /\ WorksRx(chan["RX"], chan["TX"]) => InCall
         /\ Chunk \in Nat /\ full \in BOOLEAN
<1>1. Works("TX") <=> WorksTx(chan["TX"])
  BY DEF Works
<1>2. Works("RX") <=> WorksRx(chan["RX"], chan["TX"])
  BY DEF Works
<1>3. Chunk \in Nat
  BY ChunkFacts DEF MoveInv, Types, Chunk
<1>. QED
  BY <1>1, <1>2, <1>3 DEF MoveInv, Types, Channels, Dirs

\* A step that leaves the channels and the register alone.
LEMMA SameChannels ==
  ASSUME Channels, chan' = chan, full' = full, hasDma' = hasDma,
         (\A d \in Dirs : ~Works(d)) \/ (InCall => InCall')
  PROVE  /\ Channels'
         /\ \A d \in Dirs : Works(d)' <=> Works(d)
<1>1. Paired(chan["RX"], chan["TX"])' <=> Paired(chan["RX"], chan["TX"])
  BY DEF Paired
<1>2. \A d \in Dirs : Works(d)' <=> Works(d)
  BY DEF Works, WorksRx
<1>. QED
  BY <1>1, <1>2 DEF Channels

\* No channel works outside the calls.
LEMMA NoneWorks ==
  ASSUME MoveInv, ~InCall
  PROVE  \A d \in Dirs : ~Works(d)
BY DEF MoveInv, Channels

\* Where the thread runs and no DMA transfer can go on, no channel works.
LEMMA Exhausted ==
  ASSUME MoveInv, NoneAsserted, dmaen = Dirs, ~Transmitting, ~(Receiving /\ full)
  PROVE  \A d \in Dirs : ~Works(d)
<1> PICK r, t : r = chan["RX"] /\ t = chan["TX"]
  OBVIOUS
<1>1. r \in Channel /\ t \in Channel /\ State(r) /\ State(t) /\ Paired(r, t) /\ full \in BOOLEAN
  BY PairKnown
<1>2. ~Asserted(r) /\ ~Asserted(t)
  BY DEF NoneAsserted, Dirs
<1>3. ~Due(r) /\ ~Due(t)
  BY <1>2 DEF Due
<1>4. Running(r) => ~full
  BY <1>1, OneState DEF Receiving, Dirs
<1>5. ~Running(t)
  <2> SUFFICES ASSUME Running(t) PROVE FALSE
    OBVIOUS
  <2>1. Live(t) /\ full /\ Live(r)
    BY <1>1, OneState DEF Transmitting, Dirs
  <2>2. Running(r)
    BY <1>1, <2>1, OneState
  <2>. QED
    BY <1>4, <2>1, <2>2
<1>6. Running(r) => ~full /\ Failed(t)
  <2> SUFFICES ASSUME Running(r) PROVE Failed(t)
    BY <1>4
  <2>1. ~full /\ r.left = t.left /\ r.left > 0 /\ ~Void(t)
    BY <1>1, <1>4, OneState DEF Paired
  <2>2. ~Finished(t)
    BY <1>1, <2>1, OneState
  <2>. QED
    BY <1>1, <1>3, <1>5, <2>1, <2>2 DEF State
<1>7. ~WorksTx(t) /\ ~WorksRx(r, t)
  BY <1>3, <1>5, <1>6 DEF WorksTx, WorksRx
<1>. QED
  BY <1>7 DEF Works

LEMMA SetUpChannelsMoves ==
  ASSUME MoveInv, SetUpChannels, QuietInv'
  PROVE  MoveInv'
<1>1. pc = "setup" /\ pc' = "transmitter" /\ hasDma /\ sync = 0
      /\ UNCHANGED <<hasDma, tx, rx, count, dmaen, intsOn, error, full, cs, sync, status, ret, owed>>
      /\ chan' = Programmed(chan, count, tx, rx)
  BY DEF SetUpChannels, MoveInv, Types, QuietInv
<1>2. ~InCall /\ InCall'
  BY <1>1 DEF InCall
<1>3. ~WorksTx(chan["TX"]) /\ ~WorksRx(chan["RX"], chan["TX"])
  BY <1>2, PairKnown
<1> PICK z : z = chan'
  OBVIOUS
<1>4. /\ z \in [Dirs -> Channel] /\ \A d \in Dirs : State(z[d])
      /\ Paired(z["RX"], z["TX"])
      /\ Chunk > 0 => \A d \in Dirs : z[d].busy
      /\ Chunk = 0 => z = chan
      /\ WorksTx(z["TX"]) => Chunk > 0 /\ z["TX"].buffer = Target(tx)
      /\ WorksRx(z["RX"], z["TX"]) => Chunk > 0 /\ z["RX"].buffer = Target(rx)
  <2>1. \A d \in Dirs : count[d] = 0
    BY <1>1 DEF MoveInv, Chunks
  <2>2. /\ tx \in Lengths /\ rx \in Lengths /\ chan \in [Dirs -> Channel]
        /\ (\A d \in Dirs : State(chan[d])) /\ Paired(chan["RX"], chan["TX"])
    BY DEF MoveInv, Types, Channels
  <2>. QED
    BY <1>1, <1>3, <2>1, <2>2, ProgrammedPair DEF Chunk
<1>5. Paired(z["RX"], z["TX"])' /\ (WorksRx(z["RX"], z["TX"])' <=> WorksRx(z["RX"], z["TX"]))
  BY <1>1, <1>4 DEF Paired, WorksRx
<1>6. Chunk' = Chunk /\ Chunk \in Nat /\ \A d \in Dirs : Part(d)' = Part(d)
  BY <1>1, PairKnown DEF Chunk, Part
<1>7. Channels'
  BY <1>1, <1>2, <1>4, <1>5 DEF Channels
<1>8. \A d \in Dirs : Works(d)' => Chunk > 0 /\ chan'[d].buffer = Target(Part(d))
  BY <1>4, <1>5 DEF Works, Part, Dirs
<1>9. \A d \in Dirs : /\ count[d] = 0
                      /\ count[d] = IF chan'[d].busy THEN 0 ELSE Chunk
                      /\ Chunk > 0 => chan'[d].busy
  BY <1>1, <1>4, <1>6 DEF MoveInv, Chunks
<1>10. Chunks'
  BY <1>1, <1>6, <1>8, <1>9 DEF Chunks
<1>11. Types'
  BY <1>1, <1>4 DEF MoveInv, Types
<1>. QED
  BY <1>7, <1>10, <1>11 DEF MoveInv

\* The steps of the call that leave the channels alone.
LEMMA CallMoves ==
  ASSUME MoveInv, QuietInv', "slow" \notin Hazards, ThreadRuns,
         \/ EnableTransmitter \/ EnableReceiver \/ EnableInterrupts
         \/ TakeSync \/ TimeOut \/ Quiesce \/ Deselect
  PROVE  MoveInv'
<1>1. chan' = chan /\ hasDma' = hasDma /\ UNCHANGED count
  BY DEF EnableTransmitter, EnableReceiver, EnableInterrupts, TakeSync, TimeOut, Quiesce, Deselect
<1>2. full' = full
  <2>1. ASSUME EnableInterrupts PROVE full = FALSE /\ full' = FALSE
    BY <2>1 DEF EnableInterrupts, MoveInv, Types, QuietInv, Channels
  <2>. QED
    BY <2>1 DEF EnableTransmitter, EnableReceiver, TakeSync, TimeOut, Quiesce, Deselect
<1>3. (\A d \in Dirs : ~Works(d)) \/ (InCall /\ InCall' /\ UNCHANGED <<tx, rx>>)
  <2>1. CASE EnableTransmitter
    BY <2>1 DEF EnableTransmitter, MoveInv, Types, QuietInv, InCall
  <2>2. CASE EnableReceiver
    <3>1. InCall => InCall' /\ UNCHANGED <<tx, rx>>
      BY <2>2 DEF EnableReceiver, InCall
    <3>. QED
      BY <3>1, NoneWorks
  <2>3. CASE EnableInterrupts \/ TakeSync \/ Quiesce \/ Deselect
    <3>1. ~InCall
      BY <2>3 DEF EnableInterrupts, TakeSync, Quiesce, Deselect, InCall
    <3>. QED
      BY <3>1, NoneWorks
  <2>4. CASE TimeOut
    <3>1. CASE ~hasDma
      BY <3>1, NoneWorks DEF InCall
    <3>2. CASE hasDma
      <4>1. dmaen = Dirs /\ ~Transmitting /\ ~(Receiving /\ full) /\ NoneAsserted
        BY <2>4, <3>2 DEF TimeOut, ThreadRuns, NoneAsserted, MoveInv, Chunks
      <4>. QED
        BY <4>1, Exhausted
    <3>. QED
      BY <3>1, <3>2
  <2>. QED
    BY <2>1, <2>2, <2>3, <2>4
<1>4. Channels' /\ \A d \in Dirs : Works(d)' <=> Works(d)
  BY <1>1, <1>2, <1>3, SameChannels DEF MoveInv
<1>5. InCall' => InCall /\ UNCHANGED <<tx, rx>>
  BY DEF EnableTransmitter, EnableReceiver, EnableInterrupts, TakeSync, TimeOut, Quiesce,
         Deselect, InCall, MoveInv, Types, QuietInv
<1>6. ASSUME UNCHANGED <<tx, rx>>
      PROVE  Chunk' = Chunk /\ \A d \in Dirs : Part(d)' = Part(d)
  BY <1>6 DEF Chunk, Part
<1>7. \A d \in Dirs : Works(d)' => Chunk' > 0 /\ chan'[d].buffer = Target(Part(d)')
  <2> SUFFICES ASSUME NEW d \in Dirs, Works(d)'
               PROVE  Chunk' > 0 /\ chan'[d].buffer = Target(Part(d)')
    OBVIOUS
  <2>1. Works(d) /\ Chunk > 0 /\ chan[d].buffer = Target(Part(d))
    BY <1>4 DEF MoveInv, Chunks
  <2>2. Chunk' = Chunk /\ Part(d)' = Part(d)
    BY <1>3, <1>6, <2>1
  <2>. QED
    BY <1>1, <2>1, <2>2
<1>8. InCall' => \A d \in Dirs :
        /\ count'[d] = IF chan'[d].busy THEN 0 ELSE Chunk'
        /\ ~chan'[d].busy /\ Chunk' > 0 => chan'[d].buffer = Target(Part(d)')
  BY <1>1, <1>5, <1>6 DEF MoveInv, Chunks
<1>9. /\ pc' = "receiver" => "TX" \in dmaen'
      /\ hasDma' /\ pc' = "wait" => dmaen' = Dirs
      /\ pc' # "setup"
      /\ sync' = 1 => sync = 1
  BY DEF EnableTransmitter, EnableReceiver, EnableInterrupts, TakeSync, TimeOut, Quiesce,
         Deselect, MoveInv, Types, QuietInv, Chunks, Dirs
<1>10. Chunks'
  BY <1>2, <1>7, <1>8, <1>9 DEF Chunks, MoveInv
<1>11. Types'
  <2>1. UNCHANGED <<status, tx, rx>> \/ (UNCHANGED status /\ tx' = <<>> /\ rx' = <<>>)
    BY DEF EnableTransmitter, EnableReceiver, EnableInterrupts, TakeSync, TimeOut, Quiesce, Deselect
  <2>2. error' \in BOOLEAN /\ cs' \in BOOLEAN /\ ret' \in {"none", "ok", "eio", "timeout"}
    BY DEF EnableTransmitter, EnableReceiver, EnableInterrupts, TakeSync, TimeOut, Quiesce,
           Deselect, MoveInv, Types
  <2>. QED
    BY <1>1, <1>2, <2>1, <2>2, NoLengths DEF MoveInv, Types
<1>. QED
  BY <1>4, <1>10, <1>11 DEF MoveInv

LEMMA BeginMoves ==
  ASSUME MoveInv, QuietInv', NEW q \in Requests, Begin(q)
  PROVE  MoveInv'
<1>1. /\ pc = "idle" /\ sync = 0 /\ tx' = q.tx /\ rx' = q.rx /\ cs' = TRUE
      /\ count' = [d \in Dirs |-> 0]
      /\ chan' = [d \in Dirs |-> [chan[d] EXCEPT !.buffer = IF @ = "own" THEN "old" ELSE @]]
      /\ pc' = IF hasDma THEN "setup" ELSE "ints"
      /\ UNCHANGED <<hasDma, dmaen, intsOn, error, full, sync, status, ret>>
  BY DEF Begin, MoveInv, Types, QuietInv
<1>2. ~InCall /\ ~InCall'
  BY <1>1 DEF InCall
<1>3. ASSUME NEW d \in Dirs
      PROVE  chan'[d] \in Channel /\ Alike(chan'[d], chan[d])
  <2>1. PICK b \in Buffers : b = IF chan[d].buffer = "own" THEN "old" ELSE chan[d].buffer
    BY BuffersAssumption DEF MoveInv, Types, Channel
  <2>2. chan[d] \in Channel /\ chan'[d] = [chan[d] EXCEPT !.buffer = b]
    BY <1>1, <2>1 DEF MoveInv, Types
  <2>. QED
    BY <2>2 DEF Channel, Alike
<1>4. PICK r, t, x, y : r = chan["RX"] /\ t = chan["TX"] /\ x = chan'["RX"] /\ y = chan'["TX"]
  OBVIOUS
<1>5. /\ Alike(x, r) /\ Alike(y, t) /\ Paired(r, t) /\ ~WorksTx(t) /\ ~WorksRx(r, t)
      /\ State(r) /\ State(t)
  BY <1>2, <1>3, <1>4, PairKnown DEF Dirs
<1>6. x.left = r.left /\ y.left = t.left
  BY <1>5 DEF Alike
<1>7. Paired(x, y)' /\ ~WorksTx(y) /\ ~WorksRx(x, y)'
  BY <1>1, <1>5, <1>6, AlikeState DEF Paired, WorksTx, WorksRx
<1>8. \A d \in Dirs : ~Works(d)'
  BY <1>4, <1>7 DEF Works
<1>9. \A d \in Dirs : State(chan'[d]) /\ (Finished(chan[d]) => Finished(chan'[d]))
  BY <1>3, AlikeState DEF MoveInv, Channels
<1>10. Channels'
  BY <1>1, <1>4, <1>7, <1>8, <1>9 DEF Channels, MoveInv
<1>11. Chunks'
  BY <1>1, <1>2, <1>8 DEF Chunks
<1>12. Types'
  <2>1. q.tx \in Lengths /\ q.rx \in Lengths
    BY RequestsAssumption
  <2>2. count' \in [Dirs -> Nat] /\ chan' \in [Dirs -> Channel]
    BY <1>1, <1>3
  <2>. QED
    BY <1>1, <2>1, <2>2 DEF MoveInv, Types
<1>. QED
  BY <1>10, <1>11, <1>12 DEF MoveInv

\* What the interrupt of a channel leaves, when `c` is the channels with this one
\* acknowledged: the other is still at work on the chunk and the handler only counts; or
\* both have finished, and the next chunk or the end follows.
Outcome(d, c) ==
  /\ Finished(c[d]) /\ ~c[d].busy /\ c[d].left = 0 /\ c[d].buffer = chan[d].buffer
  /\ \A e \in Dirs \ {d} : c[e] = chan[e]
  /\ \/ /\ \A e \in Dirs \ {d} : chan[e].busy
        /\ chan' = c /\ count' = [count EXCEPT ![d] = Chunk] /\ dmaen' = Dirs
        /\ UNCHANGED <<tx, rx, sync, status, intsOn>>
     \/ /\ \A e \in Dirs \ {d} : ~chan[e].busy /\ Finished(chan[e])
        /\ tx' = Updated(tx, Chunk) /\ rx' = Updated(rx, Chunk)
        /\ \/ /\ Ongoing(tx', rx')
              /\ count' = [e \in Dirs |-> 0] /\ dmaen' = Dirs
              /\ chan' = Programmed(c, count', tx', rx')
              /\ UNCHANGED <<sync, status, intsOn>>
           \/ /\ ~Ongoing(tx', rx')
              /\ count' = [count EXCEPT ![d] = Chunk] /\ UNCHANGED dmaen
              /\ chan' = [e \in Dirs |-> Stopped(c[e])]
              /\ sync' = 1 /\ status' = "ok"

LEMMA IsrCases ==
  ASSUME MoveInv, NEW d \in Dirs, DmaIsr(d)
  PROVE  /\ InCall /\ Chunk > 0 /\ Works(d) /\ chan[d].busy /\ Due(chan[d])
         /\ UNCHANGED <<hasDma, pc, error, full, cs, ret, owed>>
         /\ \E c \in [Dirs -> Channel] : Outcome(d, c)
<1>1. /\ chan \in [Dirs -> Channel] /\ \A e \in Dirs : State(chan[e]) /\ chan[e] \in Channel
      /\ count \in [Dirs -> Nat]
  BY DEF MoveInv, Types, Channels
<1>2. Due(chan[d])
  BY <1>1, OneState DEF DmaIsr
<1>3. Works(d)
  BY <1>2 DEF Works, WorksTx, WorksRx, Dirs
<1>4. InCall /\ Chunk > 0 /\ chan[d].busy
  BY <1>2, <1>3 DEF MoveInv, Channels, Chunks, Due
<1>17. Chunk \in Nat
  BY PairKnown
<1>5. PICK a : a = Acknowledged(chan[d])
  OBVIOUS
<1>6. a \in Channel /\ Finished(a) /\ ~a.busy /\ a.left = 0 /\ a.buffer = chan[d].buffer
  BY <1>1, <1>2, <1>5, AcknowledgedState DEF Finished
<1> PICK cs0 : cs0 = [chan EXCEPT ![d] = a]
  OBVIOUS
<1> PICK counts : counts = [count EXCEPT ![d] = count[d] + Chunk]
  OBVIOUS
<1>18. Chunk > 0 /\ Chunk = ChunkOf(tx, rx)
  BY <1>4 DEF Chunk
<1>7. /\ cs0 \in [Dirs -> Channel] /\ cs0[d] = a /\ \A e \in Dirs \ {d} : cs0[e] = chan[e]
  BY <1>1, <1>6
<1>8. /\ counts[d] = Chunk
      /\ \A e \in Dirs \ {d} : counts[e] = IF chan[e].busy THEN 0 ELSE Chunk
      /\ counts = [count EXCEPT ![d] = Chunk]
  <2>1. count[d] = 0
    BY <1>4 DEF MoveInv, Chunks
  <2>2. count[d] + Chunk = Chunk
    BY <1>17, <2>1
  <2>. QED
    BY <1>1, <1>4, <2>2 DEF MoveInv, Chunks
<1>10. ChunkFinished(counts) <=> \A e \in Dirs \ {d} : ~chan[e].busy
  BY <1>8, <1>17, <1>18 DEF ChunkFinished, MinOf, Dirs
<1>11. /\ UNCHANGED <<hasDma, pc, error, full, cs, ret, owed>>
       /\ \/ /\ ~ChunkFinished(counts)
             /\ count' = counts /\ chan' = Programmed(cs0, counts, tx, rx) /\ dmaen' = Dirs
             /\ UNCHANGED <<tx, rx, sync, status, intsOn>>
          \/ /\ ChunkFinished(counts)
             /\ tx' = Updated(tx, Chunk) /\ rx' = Updated(rx, Chunk)
             /\ \/ /\ Ongoing(tx', rx')
                   /\ count' = [e \in Dirs |-> 0] /\ dmaen' = Dirs
                   /\ chan' = Programmed(cs0, count', tx', rx')
                   /\ UNCHANGED <<sync, status, intsOn>>
                \/ /\ ~Ongoing(tx', rx')
                   /\ count' = counts
                   /\ Complete(cs0, "ok")
  BY <1>5, <1>18, Zenon DEF DmaIsr
<1>12. ASSUME ~ChunkFinished(counts)
       PROVE  Programmed(cs0, counts, tx, rx) = cs0 /\ \A e \in Dirs \ {d} : chan[e].busy
  <2>1. \A e \in Dirs \ {d} : chan[e].busy
    BY <1>10, <1>12 DEF Dirs
  <2>2. \A e \in Dirs : ~(Chunk # counts[e] /\ ~cs0[e].busy)
    BY <1>7, <1>8, <2>1
  <2>. QED
    BY <1>7, <1>18, <2>1, <2>2 DEF Programmed
<1>13. ASSUME ChunkFinished(counts)
       PROVE  \A e \in Dirs \ {d} : ~chan[e].busy /\ Finished(chan[e])
  BY <1>1, <1>10, <1>13, OneState
<1>14. ASSUME Complete(cs0, "ok")
       PROVE  chan' = [e \in Dirs |-> Stopped(cs0[e])] /\ sync' = 1 /\ status' = "ok"
              /\ UNCHANGED dmaen
  BY <1>4, <1>14 DEF Complete, InCall
<1>15. \/ /\ \A e \in Dirs \ {d} : chan[e].busy
          /\ chan' = cs0 /\ count' = [count EXCEPT ![d] = Chunk] /\ dmaen' = Dirs
          /\ UNCHANGED <<tx, rx, sync, status, intsOn>>
       \/ /\ \A e \in Dirs \ {d} : ~chan[e].busy /\ Finished(chan[e])
          /\ tx' = Updated(tx, Chunk) /\ rx' = Updated(rx, Chunk)
          /\ \/ /\ Ongoing(tx', rx')
                /\ count' = [e \in Dirs |-> 0] /\ dmaen' = Dirs
                /\ chan' = Programmed(cs0, count', tx', rx')
                /\ UNCHANGED <<sync, status, intsOn>>
             \/ /\ ~Ongoing(tx', rx')
                /\ count' = [count EXCEPT ![d] = Chunk] /\ UNCHANGED dmaen
                /\ chan' = [e \in Dirs |-> Stopped(cs0[e])]
                /\ sync' = 1 /\ status' = "ok"
  <2>1. CASE ~ChunkFinished(counts)
    BY <1>8, <1>11, <1>12, <2>1, Zenon
  <2>2. CASE ChunkFinished(counts)
    BY <1>8, <1>11, <1>13, <1>14, <2>2, Zenon
  <2>. QED
    BY <2>1, <2>2
<1>16. /\ cs0 \in [Dirs -> Channel] /\ Finished(cs0[d]) /\ ~cs0[d].busy /\ cs0[d].left = 0
       /\ cs0[d].buffer = chan[d].buffer
       /\ \A e \in Dirs \ {d} : cs0[e] = chan[e]
  BY <1>6, <1>7
<1>. QED
  BY <1>2, <1>3, <1>4, <1>11, <1>15, <1>16 DEF Outcome

LEMMA DmaIsrMoves ==
  ASSUME MoveInv, QuietInv', NEW d \in Dirs, DmaIsr(d)
  PROVE  MoveInv'
<1>1. /\ InCall /\ Chunk > 0 /\ Works(d) /\ chan[d].busy /\ Due(chan[d])
      /\ UNCHANGED <<hasDma, pc, error, full, cs, ret, owed>>
  BY IsrCases
<1>2. PICK cs0 \in [Dirs -> Channel] : Outcome(d, cs0)
  BY IsrCases
<1>10. /\ Finished(cs0[d]) /\ ~cs0[d].busy /\ cs0[d].left = 0
       /\ cs0[d].buffer = chan[d].buffer
       /\ \A e \in Dirs \ {d} : cs0[e] = chan[e]
  BY <1>2 DEF Outcome
<1>3. hasDma /\ sync = 0 /\ pc \in {"receiver", "wait"} /\ Chunk \in Nat
  <2>1. Asserted(chan[d])
    BY DEF DmaIsr
  <2>. QED
    BY <1>1, <2>1, PairKnown DEF InCall, MoveInv, Types, QuietInv, NoneAsserted
<1>4. /\ tx \in Lengths /\ rx \in Lengths /\ count \in [Dirs -> Nat] /\ chan \in [Dirs -> Channel]
      /\ \A e \in Dirs : State(chan[e]) /\ chan[e] \in Channel
      /\ Paired(chan["RX"], chan["TX"])
      /\ dmaen = Dirs \/ ("TX" \in dmaen /\ pc = "receiver")
  BY <1>3 DEF MoveInv, Types, Channels, Chunks, Paired
<1>5. State(cs0[d])
  BY <1>10 DEF State
<1> PICK r, t, x, y : r = chan["RX"] /\ t = chan["TX"] /\ x = cs0["RX"] /\ y = cs0["TX"]
  OBVIOUS
<1>6. /\ r \in Channel /\ State(r) /\ t \in Channel /\ State(t) /\ Paired(r, t)
      /\ x \in Channel /\ State(x) /\ y \in Channel /\ State(y)
      /\ WorksTx(t) => Chunk > 0 /\ t.buffer = Target(tx)
      /\ WorksRx(r, t) => Chunk > 0 /\ r.buffer = Target(rx)
  BY <1>10, <1>4, <1>5, PairKnown DEF Dirs, MoveInv, Chunks, Part
\* The channel is finished now; the other is as it was.
<1>7. /\ Paired(x, y)
      /\ WorksTx(y) => WorksTx(t) /\ y = t
      /\ WorksRx(x, y) => WorksRx(r, t) /\ x = r
  <2>1. CASE d = "RX"
    <3>1. Due(r) /\ Finished(x) /\ y = t
      BY <1>1, <1>10, <2>1 DEF Dirs
    <3>2. ~full /\ (Finished(t) \/ Due(t)) /\ ~Running(x) /\ ~Due(x) /\ ~Void(x)
      BY <1>6, <3>1, OneState DEF Paired
    <3>. QED
      BY <3>1, <3>2 DEF Paired, WorksTx, WorksRx
  <2>2. CASE d = "TX"
    <3>1. Due(t) /\ Finished(y) /\ x = r /\ y.left = t.left
      BY <1>1, <1>10, <1>6, <2>2, OneState DEF Dirs
    <3>2. ~Running(y) /\ ~Due(y) /\ ~Void(y) /\ ~Failed(y) /\ ~Failed(t) /\ ~Void(t)
      BY <1>6, <3>1, OneState
    <3>3. Paired(x, y)
      BY <1>6, <3>1, <3>2 DEF Paired
    <3>. QED
      BY <3>1, <3>2, <3>3 DEF WorksTx, WorksRx
  <2>. QED
    BY <2>1, <2>2 DEF Dirs
<1>8. CASE /\ \A e \in Dirs \ {d} : chan[e].busy
           /\ chan' = cs0 /\ count' = [count EXCEPT ![d] = Chunk] /\ dmaen' = Dirs
           /\ UNCHANGED <<tx, rx, sync, status, intsOn>>
  <2>1. InCall' /\ Chunk' = Chunk /\ \A e \in Dirs : Part(e)' = Part(e)
    BY <1>1, <1>8 DEF InCall, Chunk, Part
  <2>2. Paired(chan["RX"], chan["TX"])'
    BY <1>1, <1>7, <1>8 DEF Paired
  <2>3. (WorksTx(chan["TX"])' => WorksTx(y)) /\ (WorksRx(chan["RX"], chan["TX"])' => WorksRx(x, y))
    BY <1>1, <1>8 DEF WorksTx, WorksRx
  <2>4. \A e \in Dirs : Works(e)' => Chunk > 0 /\ chan'[e].buffer = Target(Part(e))
    BY <1>6, <1>7, <1>8, <2>3 DEF Works, Part, Dirs
  <2>5. Channels'
    BY <1>1, <1>10, <1>3, <1>4, <1>5, <1>8, <2>1, <2>2 DEF Channels
  <2>6. ASSUME NEW e \in Dirs
        PROVE  /\ count'[e] = IF chan'[e].busy THEN 0 ELSE Chunk
               /\ ~chan'[e].busy /\ Chunk > 0 => chan'[e].buffer = Target(Part(e))
    <3>1. CASE e = d
      <4>1. chan[d].buffer = Target(Part(d))
        BY <1>1 DEF MoveInv, Chunks
      <4>. QED
        BY <1>10, <1>4, <1>8, <3>1, <4>1
    <3>2. CASE e # d
      <4>1. chan'[e] = chan[e] /\ chan[e].busy /\ count'[e] = count[e]
        BY <1>10, <1>4, <1>8, <3>2
      <4>. QED
        BY <1>1, <4>1 DEF MoveInv, Chunks
    <3>. QED
      BY <3>1, <3>2
  <2>7. Chunks'
    BY <1>1, <1>3, <1>8, <2>1, <2>4, <2>6 DEF Chunks, Dirs
  <2>8. Types'
    <3>1. count' \in [Dirs -> Nat]
      BY <1>3, <1>4, <1>8
    <3>. QED
      BY <1>1, <1>10, <1>8, <3>1 DEF MoveInv, Types
  <2>. QED
    BY <2>5, <2>7, <2>8 DEF MoveInv
<1>9. CASE /\ \A e \in Dirs \ {d} : ~chan[e].busy /\ Finished(chan[e])
           /\ tx' = Updated(tx, Chunk) /\ rx' = Updated(rx, Chunk)
  <2>1. tx' \in Lengths /\ rx' \in Lengths
    BY <1>3, <1>4, <1>9, UpdatedLengths
  <2>2. \A e \in Dirs : Finished(cs0[e]) /\ State(cs0[e]) /\ cs0[e] \in Channel
    BY <1>10, <1>9 DEF State
  <2>3. Finished(x) /\ Finished(y)
    BY <2>2 DEF Dirs
  <2>4. ~full /\ ~WorksTx(y) /\ ~WorksRx(x, y)
    BY <1>6, <1>7, <2>3, OneState DEF Paired, WorksTx, WorksRx
  <2>5. CASE /\ Ongoing(tx', rx')
             /\ count' = [e \in Dirs |-> 0] /\ dmaen' = Dirs
             /\ chan' = Programmed(cs0, count', tx', rx')
             /\ UNCHANGED <<sync, status, intsOn>>
    <3> PICK z, s1, s2, c0 : z = chan' /\ s1 = tx' /\ s2 = rx' /\ c0 = count'
      OBVIOUS
    <3> PICK n : n = ChunkOf(s1, s2)
      OBVIOUS
    <3>1. n \in Nat /\ n > 0 /\ Chunk' = n
      BY <2>1, <2>5, ChunkFacts DEF Chunk
    <3>2. /\ z \in [Dirs -> Channel] /\ \A e \in Dirs : State(z[e])
          /\ Paired(z["RX"], z["TX"])
          /\ \A e \in Dirs : z[e].busy
          /\ WorksTx(z["TX"]) => z["TX"].buffer = Target(s1)
          /\ WorksRx(z["RX"], z["TX"]) => z["RX"].buffer = Target(s2)
      <4>1. \A e \in Dirs : c0[e] = 0
        BY <2>5
      <4>2. z = Programmed(cs0, c0, s1, s2) /\ s1 \in Lengths /\ s2 \in Lengths
        BY <2>1, <2>5
      <4>. QED
        BY <1>7, <2>2, <2>4, <3>1, <4>1, <4>2, ProgrammedPair
    <3>3. InCall' /\ \A e \in Dirs : Part(e)' = IF e = "TX" THEN s1 ELSE s2
      BY <1>1, <2>5 DEF InCall, Part
    <3>4. Paired(chan["RX"], chan["TX"])'
      BY <1>1, <3>2 DEF Paired
    <3>5. \A e \in Dirs : Works(e)' => chan'[e].buffer = Target(Part(e)')
      BY <1>1, <3>2, <3>3 DEF Works, WorksTx, WorksRx, Dirs
    <3>6. Channels'
      BY <1>1, <1>3, <3>2, <3>3, <3>4 DEF Channels
    <3>7. Chunks'
      BY <1>1, <1>3, <2>5, <3>1, <3>2, <3>3, <3>5 DEF Chunks, Dirs
    <3>8. Types'
      <4>1. count' \in [Dirs -> Nat]
        BY <2>5
      <4>. QED
        BY <1>1, <2>1, <2>5, <3>2, <4>1 DEF MoveInv, Types
    <3>. QED
      BY <3>6, <3>7, <3>8 DEF MoveInv
  <2>6. CASE /\ ~Ongoing(tx', rx')
             /\ count' = [count EXCEPT ![d] = Chunk] /\ UNCHANGED dmaen
             /\ chan' = [e \in Dirs |-> Stopped(cs0[e])]
             /\ sync' = 1 /\ status' = "ok"
    <3>1. ASSUME NEW e \in Dirs
          PROVE  chan'[e] \in Channel /\ Finished(chan'[e]) /\ State(chan'[e])
      <4>1. chan'[e] = Stopped(cs0[e])
        BY <2>6
      <4>. QED
        BY <2>2, <4>1, StoppedState DEF State
    <3> PICK p, q : p = chan'["RX"] /\ q = chan'["TX"]
      OBVIOUS
    <3>2. p \in Channel /\ Finished(p) /\ q \in Channel /\ Finished(q)
      BY <3>1 DEF Dirs
    <3>3. ~Due(p) /\ ~Running(p) /\ ~Void(p) /\ ~Due(q) /\ ~Running(q)
      BY <3>2, OneState DEF State
    <3>4. Paired(p, q)' /\ ~WorksTx(q) /\ ~WorksRx(p, q)'
      BY <1>1, <2>4, <3>2, <3>3 DEF Paired, WorksTx, WorksRx
    <3>5. \A e \in Dirs : ~Works(e)'
      BY <3>4 DEF Works, WorksTx
    <3>6. Channels'
      BY <1>1, <1>3, <3>1, <3>4, <3>5 DEF Channels
    <3>7. ~InCall'
      BY <2>6 DEF InCall
    <3>8. Chunks'
      BY <1>1, <1>3, <1>4, <2>4, <2>6, <3>5, <3>7 DEF Chunks, Dirs
    <3>9. Types'
      <4>1. count' \in [Dirs -> Nat] /\ chan' \in [Dirs -> Channel]
        BY <1>3, <1>4, <2>6, <3>1
      <4>. QED
        BY <1>1, <2>1, <2>6, <4>1 DEF MoveInv, Types
    <3>. QED
      BY <3>6, <3>8, <3>9 DEF MoveInv
  <2>. QED
    BY <1>2, <1>8, <1>9, <2>5, <2>6, Zenon DEF Outcome
<1>. QED
  BY <1>2, <1>8, <1>9, Zenon DEF Outcome

LEMMA SpiIsrMoves ==
  ASSUME MoveInv, QuietInv', SpiIsr
  PROVE  MoveInv'
<1>1. /\ pc = "wait" /\ ~hasDma /\ UNCHANGED <<hasDma, pc, count, full, cs, ret>>
      /\ chan \in [Dirs -> Channel] /\ tx \in Lengths /\ rx \in Lengths /\ full = FALSE
  BY DEF SpiIsr, SpiLine, MoveInv, Types, Channels, QuietInv
<1>2. /\ \/ UNCHANGED <<tx, rx>>
         \/ tx' = Updated(tx, 1) /\ rx' = Updated(rx, 1)
      /\ \/ \E o \in {"ok", "eio"} : Complete(chan, o)
         \/ UNCHANGED <<chan, sync, status, dmaen>>
      /\ error' \in BOOLEAN
  <2>1. CASE error /\ Complete(chan, "eio") /\ UNCHANGED <<tx, rx, error>>
    BY <2>1 DEF MoveInv, Types
  <2>2. CASE tx' = Updated(tx, 1) /\ rx' = Updated(rx, 1) /\ SpiIsr /\ ~error
    <3>1. PICK err \in FrameEnds : /\ error' = (err = "eio")
                                  /\ IF err = "eio" \/ ~Ongoing(tx', rx')
                                     THEN Complete(chan, err)
                                     ELSE UNCHANGED <<chan, sync, status, intsOn, dmaen>>
      BY <2>2, Zenon DEF SpiIsr
    <3>2. err \in {"ok", "eio"} /\ error' \in BOOLEAN
      BY <3>1 DEF FrameEnds
    <3>3. (\E o \in {"ok", "eio"} : Complete(chan, o)) \/ UNCHANGED <<chan, sync, status, dmaen>>
      BY <3>1, <3>2, Zenon
    <3>. QED
      BY <2>2, <3>2, <3>3, Zenon
  <2>. QED
    BY <2>1, <2>2, Zenon DEF SpiIsr
<1>3. ASSUME NEW o \in {"ok", "eio"}, Complete(chan, o)
      PROVE  chan' = chan /\ status' = o /\ UNCHANGED dmaen
  <2>1. chan' = [d \in Dirs |-> chan[d]]
    BY <1>1, <1>3 DEF Complete
  <2>. QED
    BY <1>1, <1>3, <2>1 DEF Complete
<1>4. chan' = chan /\ status' \in {"ok", "eio"} /\ UNCHANGED dmaen
  BY <1>2, <1>3 DEF MoveInv, Types
<1>5. ~InCall /\ ~InCall' /\ \A d \in Dirs : ~Works(d)
  <2>1. ~InCall /\ ~InCall'
    BY <1>1 DEF InCall
  <2>. QED
    BY <2>1, NoneWorks
<1>6. Channels' /\ \A d \in Dirs : ~Works(d)'
  BY <1>1, <1>4, <1>5, SameChannels DEF MoveInv
<1>7. Chunks'
  BY <1>1, <1>5, <1>6 DEF Chunks
<1>8. tx' \in Lengths /\ rx' \in Lengths
  BY <1>1, <1>2, UpdatedLengths
<1>9. Types'
  BY <1>1, <1>2, <1>4, <1>8 DEF MoveInv, Types
<1>. QED
  BY <1>6, <1>7, <1>9 DEF MoveInv

\* A channel that moves or fails is one that works for this request, and after the
\* step one that worked still does, or has nothing to move.
LEMMA OnWire ==
  ASSUME MoveInv, QuietInv', NEW d \in Dirs, Works(d), NEW z \in Channel,
         chan' = [chan EXCEPT ![d] = z],
         State(z), z.busy = chan[d].busy, z.buffer = chan[d].buffer,
         Paired(chan["RX"], chan["TX"])', \A e \in Dirs : Works(e)' => Works(e),
         UNCHANGED <<hasDma, pc, tx, rx, count, dmaen, intsOn, cs, sync, status, ret>>,
         error' \in BOOLEAN, full' \in BOOLEAN
  PROVE  MoveInv'
<1>1. InCall /\ InCall' /\ hasDma /\ sync = 0
  BY DEF MoveInv, Channels, InCall
<1>2. chan \in [Dirs -> Channel] /\ chan' \in [Dirs -> Channel]
  BY DEF MoveInv, Types
<1>3. \A e \in Dirs : /\ State(chan'[e]) /\ chan'[e].busy = chan[e].busy
                      /\ chan'[e].buffer = chan[e].buffer
  BY <1>2 DEF MoveInv, Channels
<1>4. Chunk' = Chunk /\ \A e \in Dirs : Part(e)' = Part(e)
  BY DEF Chunk, Part
<1>5. Channels'
  BY <1>1, <1>3 DEF Channels
<1>6. Chunks'
  BY <1>1, <1>3, <1>4 DEF MoveInv, Chunks
<1>7. Types'
  BY <1>2 DEF MoveInv, Types
<1>. QED
  BY <1>5, <1>6, <1>7 DEF MoveInv

\* What the transmitter does when it moves an item.
LEMMA TransmitStep ==
  ASSUME MoveInv, "preempt" \notin Hazards, ExtTransmit
  PROVE  /\ Running(chan["TX"]) /\ Works("TX") /\ chan' = [chan EXCEPT !["TX"] = Moved(chan["TX"])]
         /\ Running(chan["RX"]) => ~full
         /\ full' = TRUE /\ error' = error
         /\ owed' = [owed EXCEPT !["TX"] = IF chan["TX"].buffer = "own" THEN @ - 1 ELSE @]
         /\ UNCHANGED <<hasDma, pc, tx, rx, count, dmaen, intsOn, cs, sync, status, ret>>
<1>1. Running(chan["TX"])
  BY PairKnown, OneState DEF ExtTransmit, Transmitting
<1>2. Running(chan["RX"]) => ~full
  BY PairKnown, OneState DEF ExtTransmit, Transmitting
<1>. QED
  BY <1>1, <1>2 DEF ExtTransmit, Move, ExtOnly, Works, WorksTx

LEMMA ReceiveStep ==
  ASSUME MoveInv, ExtReceive
  PROVE  /\ Running(chan["RX"]) /\ Works("RX") /\ chan' = [chan EXCEPT !["RX"] = Moved(chan["RX"])]
         /\ full = TRUE /\ full' = FALSE /\ error' = error
         /\ owed' = [owed EXCEPT !["RX"] = IF chan["RX"].buffer = "own" THEN @ - 1 ELSE @]
         /\ UNCHANGED <<hasDma, pc, tx, rx, count, dmaen, intsOn, cs, sync, status, ret>>
<1>1. Running(chan["RX"]) /\ full
  BY PairKnown, OneState DEF ExtReceive, Receiving
<1>2. full = TRUE
  BY <1>1, PairKnown
<1>. QED
  BY <1>1, <1>2 DEF ExtReceive, Move, ExtOnly, Works, WorksRx

LEMMA TransmitMoves ==
  ASSUME MoveInv, QuietInv', "preempt" \notin Hazards, ExtTransmit
  PROVE  MoveInv'
<1>1. /\ Running(chan["TX"]) /\ Works("TX") /\ chan' = [chan EXCEPT !["TX"] = Moved(chan["TX"])]
      /\ Running(chan["RX"]) => ~full
      /\ full' = TRUE /\ error' = error
      /\ UNCHANGED <<hasDma, pc, tx, rx, count, dmaen, intsOn, cs, sync, status, ret>>
  BY TransmitStep
<1> PICK r, t, y : r = chan["RX"] /\ t = chan["TX"] /\ y = Moved(t)
  OBVIOUS
<1>2. /\ r \in Channel /\ t \in Channel /\ State(r) /\ State(t) /\ Paired(r, t) /\ Running(t)
      /\ Running(r) => ~full
  BY <1>1, PairKnown
<1>3. /\ y \in Channel /\ y.left = t.left - 1 /\ y.buffer = t.buffer /\ y.busy = t.busy
      /\ (Running(y) \/ Due(y)) /\ t.left \in Nat
  <2>1. t.left \in Nat /\ t.left > 0
    BY <1>2, OneState
  <2>2. t.left > 1 \/ t.left = 1
    BY <2>1
  <2>. QED
    BY <1>2, <2>1, <2>2, MovedState
<1>4. State(y) /\ ~Finished(y) /\ ~Failed(y) /\ ~Void(y)
  BY <1>3, OneState DEF State
<1>5. /\ chan' = [chan EXCEPT !["TX"] = y] /\ chan'["RX"] = r /\ chan'["TX"] = y
  BY <1>1, <1>3 DEF MoveInv, Types, Dirs
\* The receiver still moves, or has failed.
<1>6. ~Finished(r) /\ ~Due(r) /\ ~Void(r)
  BY <1>2, OneState DEF Paired
<1>7. Running(r) => r.left = y.left + 1
  <2>1. t.left \in Nat /\ Running(r) => r.left = t.left + 0
    BY <1>2, OneState DEF Paired
  <2>. QED
    BY <1>2, <1>3, <2>1, OneState
<1>8. Paired(chan["RX"], chan["TX"])'
  BY <1>1, <1>4, <1>5, <1>6, <1>7 DEF Paired
<1>9. Works("RX")' => Works("RX")
  <2>1. ~Failed(t)
    BY <1>2, OneState
  <2>. QED
    BY <1>5, <1>6, <2>1 DEF Works, WorksRx
<1>10. \A e \in Dirs : Works(e)' => Works(e)
  BY <1>1, <1>9 DEF Dirs
<1>. QED
  BY <1>1, <1>3, <1>4, <1>5, <1>8, <1>10, OnWire DEF Dirs, MoveInv, Types

LEMMA ReceiveMoves ==
  ASSUME MoveInv, QuietInv', ExtReceive
  PROVE  MoveInv'
<1>1. /\ Running(chan["RX"]) /\ Works("RX") /\ chan' = [chan EXCEPT !["RX"] = Moved(chan["RX"])]
      /\ full = TRUE /\ full' = FALSE /\ error' = error
      /\ UNCHANGED <<hasDma, pc, tx, rx, count, dmaen, intsOn, cs, sync, status, ret>>
  BY ReceiveStep
<1> PICK r, t, x : r = chan["RX"] /\ t = chan["TX"] /\ x = Moved(r)
  OBVIOUS
<1>2. r \in Channel /\ t \in Channel /\ State(r) /\ State(t) /\ Paired(r, t) /\ Running(r)
  BY <1>1, PairKnown
<1>3. /\ r.left \in Nat /\ t.left \in Nat /\ r.left = t.left + 1 /\ ~Void(t)
  BY <1>1, <1>2, OneState DEF Paired
<1>4. /\ x \in Channel /\ x.left = t.left /\ x.buffer = r.buffer /\ x.busy = r.busy
      /\ t.left > 0 => Running(x)
      /\ t.left = 0 => Due(x)
  <2>1. (r.left > 1 <=> t.left > 0) /\ (r.left = 1 <=> t.left = 0) /\ r.left - 1 = t.left
    BY <1>3
  <2>. QED
    BY <1>2, <2>1, MovedState
<1>5. /\ chan' = [chan EXCEPT !["RX"] = x] /\ chan'["RX"] = x /\ chan'["TX"] = t
  BY <1>1, <1>4 DEF MoveInv, Types, Dirs
<1>6. State(x) /\ ~Finished(x) /\ ~Void(x) /\ (Running(x) => ~Due(x))
  BY <1>3, <1>4, OneState DEF State
<1>7. Due(x) => Finished(t) \/ Due(t)
  <2> SUFFICES ASSUME Due(x) PROVE Finished(t) \/ Due(t)
    OBVIOUS
  <2>1. t.left = 0
    BY <1>4 DEF Due
  <2>. QED
    BY <1>2, <1>3, <2>1, OneState DEF State
<1>8. Running(x) => x.left = t.left + 0
  BY <1>3, <1>4
<1>9. Paired(chan["RX"], chan["TX"])'
  BY <1>1, <1>3, <1>5, <1>6, <1>7, <1>8 DEF Paired
<1>10. \A e \in Dirs : Works(e)' => Works(e)
  <2>1. Works("TX")' => Works("TX")
    BY <1>5 DEF Works, WorksTx
  <2>. QED
    BY <1>1, <2>1 DEF Dirs
<1>. QED
  BY <1>1, <1>4, <1>5, <1>6, <1>9, <1>10, OnWire DEF Dirs, MoveInv, Types

\* Only a channel that works can meet an error; the other one goes on alone, or stops
\* with it.
LEMMA DmaErrorStep ==
  ASSUME MoveInv, NEW d \in Dirs, ExtDmaError(d)
  PROVE  /\ Running(chan[d]) /\ chan' = [chan EXCEPT ![d] = Errored(chan[d])]
         /\ UNCHANGED <<hasDma, pc, tx, rx, count, dmaen, intsOn, cs, sync, status, ret, full, error, owed>>
<1>1. Running(chan[d])
  <2>1. chan[d] \in Channel /\ State(chan[d])
    BY DEF MoveInv, Types, Channels
  <2>. QED
    BY <2>1, OneState DEF ExtDmaError
<1>. QED
  BY <1>1 DEF ExtDmaError, ExtOnly

LEMMA DmaErrorMoves ==
  ASSUME MoveInv, QuietInv', NEW d \in Dirs, ExtDmaError(d)
  PROVE  MoveInv'
<1>1. /\ Running(chan[d]) /\ chan' = [chan EXCEPT ![d] = Errored(chan[d])]
      /\ UNCHANGED <<hasDma, pc, tx, rx, count, dmaen, intsOn, cs, sync, status, ret, full, error>>
  BY DmaErrorStep
<1> PICK r, t, z, x, y : /\ r = chan["RX"] /\ t = chan["TX"] /\ z = Errored(chan[d])
                         /\ x = chan'["RX"] /\ y = chan'["TX"]
  OBVIOUS
<1>2. /\ r \in Channel /\ t \in Channel /\ State(r) /\ State(t) /\ Paired(r, t)
      /\ chan[d] \in Channel /\ chan \in [Dirs -> Channel]
  BY PairKnown DEF MoveInv, Types
<1>3. /\ z \in Channel /\ Failed(z) /\ z.left = chan[d].left /\ z.buffer = chan[d].buffer
      /\ z.busy = chan[d].busy
  BY <1>1, <1>2, ErroredState
<1>4. State(z) /\ ~Finished(z) /\ ~Due(z) /\ ~Running(z) /\ ~Void(z)
  BY <1>3, OneState DEF State
<1>5. chan' = [chan EXCEPT ![d] = z]
  BY <1>1
<1>6. /\ Paired(x, y) /\ (WorksTx(y) => WorksTx(t)) /\ (WorksRx(x, y) => WorksRx(r, t))
  <2>1. CASE d = "RX"
    <3>1. x = z /\ y = t
      BY <1>2, <1>5, <2>1 DEF Dirs
    <3>. QED
      BY <1>4, <3>1 DEF Paired, WorksRx
  <2>2. CASE d = "TX"
    <3>1. x = r /\ y = z /\ y.left = t.left /\ Running(t)
      BY <1>1, <1>2, <1>3, <1>5, <2>2 DEF Dirs
    <3>2. ~Failed(t) /\ ~Finished(t) /\ ~Due(t) /\ ~Void(t)
      BY <1>2, <3>1, OneState
    <3>. QED
      BY <1>2, <1>3, <1>4, <3>1, <3>2 DEF Paired, WorksTx, WorksRx
  <2>. QED
    BY <2>1, <2>2 DEF Dirs
<1>7. Paired(chan["RX"], chan["TX"])'
  BY <1>1, <1>6 DEF Paired
<1>8. \A e \in Dirs : Works(e)' => Works(e)
  BY <1>1, <1>6 DEF Works, WorksTx, WorksRx, Dirs
<1>9. CASE Works(d)
  BY <1>1, <1>3, <1>4, <1>5, <1>7, <1>8, <1>9, OnWire DEF MoveInv, Types
<1>10. CASE ~Works(d)
\* A receiver left over from a transfer that has failed.
  <2>1. InCall' <=> InCall
    BY <1>1 DEF InCall
  <2>2. \A e \in Dirs : /\ State(chan'[e]) /\ chan'[e] \in Channel /\ chan'[e].busy = chan[e].busy
                        /\ chan'[e].buffer = chan[e].buffer
    BY <1>2, <1>3, <1>4, <1>5 DEF MoveInv, Channels
  <2>3. Chunk' = Chunk /\ \A e \in Dirs : Part(e)' = Part(e)
    BY <1>1 DEF Chunk, Part
  <2>4. hasDma
    <3>1. ~Finished(chan[d])
      BY <1>1, <1>2, OneState DEF MoveInv, Channels
    <3>. QED
      BY <3>1 DEF MoveInv, Channels
  <2>5. Channels'
    BY <1>1, <1>7, <1>8, <2>1, <2>2, <2>4 DEF MoveInv, Channels
  <2>6. Chunks'
    BY <1>1, <1>8, <2>1, <2>2, <2>3 DEF MoveInv, Chunks
  <2>7. Types'
    BY <1>1, <1>2, <1>3, <1>5 DEF MoveInv, Types
  <2>. QED
    BY <2>5, <2>6, <2>7 DEF MoveInv
<1>. QED
  BY <1>9, <1>10

LEMMA RestMoves ==
  ASSUME MoveInv, QuietInv', ExtSpiError \/ UNCHANGED vars
  PROVE  MoveInv'
<1>1. /\ UNCHANGED <<hasDma, pc, tx, rx, count, chan, dmaen, intsOn, full, cs, sync, status, ret>>
      /\ error' \in BOOLEAN
  BY DEF ExtSpiError, ExtOnly, vars, MoveInv, Types
<1>2. InCall' <=> InCall
  BY <1>1 DEF InCall
<1>3. Channels' /\ \A d \in Dirs : Works(d)' <=> Works(d)
  BY <1>1, <1>2, SameChannels DEF MoveInv
<1>4. Chunk' = Chunk /\ \A d \in Dirs : Part(d)' = Part(d)
  BY <1>1 DEF Chunk, Part
<1>5. Chunks'
  BY <1>1, <1>2, <1>3, <1>4 DEF MoveInv, Chunks
<1>6. Types'
  BY <1>1 DEF MoveInv, Types
<1>. QED
  BY <1>3, <1>5, <1>6 DEF MoveInv

LEMMA InitMoves == Init => MoveInv
<1> SUFFICES ASSUME Init PROVE MoveInv
  OBVIOUS
<1>1. Types
  <2>1. QuietInv
    BY InitQuiet
  <2>2. Reset("none") \in Channel
    BY BuffersAssumption DEF Reset, Channel
  <2>3. chan \in [Dirs -> Channel] /\ count \in [Dirs -> Nat]
    BY <2>2 DEF Init
  <2>. QED
    BY <2>1, <2>3, NoLengths DEF Init, Types
<1>2. \A d \in Dirs : Finished(chan[d]) /\ State(chan[d]) /\ chan[d] \in Channel
  <2>1. \A d \in Dirs : chan[d] = Reset("none")
    BY DEF Init
  <2>2. Finished(Reset("none"))
    BY DEF Finished, Reset, Asserted
  <2>. QED
    BY <1>1, <2>1, <2>2 DEF State, Types
<1> PICK r, t : r = chan["RX"] /\ t = chan["TX"]
  OBVIOUS
<1>3. /\ Finished(r) /\ ~Running(r) /\ ~Due(r) /\ ~Void(r)
      /\ Finished(t) /\ ~Running(t) /\ ~Due(t) /\ ~full
  BY <1>2, OneState DEF Dirs, Init
<1>4. Paired(r, t) /\ ~WorksTx(t) /\ ~WorksRx(r, t)
  BY <1>3 DEF Paired, WorksTx, WorksRx
<1>5. Channels
  BY <1>2, <1>3, <1>4 DEF Channels, Works
<1>6. Chunks
  BY <1>4 DEF Chunks, Init, InCall, Works
<1>. QED
  BY <1>1, <1>5, <1>6 DEF MoveInv

LEMMA NextMoves ==
  ASSUME MoveInv, Hazards \cap {"slow", "preempt"} = {}, [Next]_vars
  PROVE  MoveInv'
<1>1. QuietInv'
  BY NextQuiet DEF MoveInv, Types
<1>2. CASE Call
  BY <1>1, <1>2, SetUpChannelsMoves, CallMoves DEF Call
<1>3. CASE Enter
  BY <1>1, <1>3, BeginMoves DEF Enter
<1>4. CASE \E d \in Dirs : DmaIsr(d) \/ ExtDmaError(d)
  BY <1>1, <1>4, DmaIsrMoves, DmaErrorMoves
<1>5. CASE SpiIsr
  BY <1>1, <1>5, SpiIsrMoves
<1>6. CASE Wire
  BY <1>1, <1>6, TransmitMoves, ReceiveMoves DEF Wire
<1>7. CASE ExtSpiError \/ UNCHANGED vars
  BY <1>1, <1>7, RestMoves
<1>. QED
  BY <1>2, <1>3, <1>4, <1>5, <1>6, <1>7 DEF Next

-----------------------------------------------------------------------------
(* The channels agree; no memory of an earlier request is touched. *)

LEMMA StepMoves == Hazards \cap {"slow", "preempt"} = {} => (Spec => []MoveInv)
<1> SUFFICES ASSUME Hazards \cap {"slow", "preempt"} = {} PROVE Spec => []MoveInv
  OBVIOUS
<1>1. MoveInv /\ [Next]_vars => MoveInv'
  BY NextMoves
<1>. QED
  BY <1>1, InitMoves, PTL DEF Spec

LEMMA MoveMatches == MoveInv => ChunksMatch
<1> SUFFICES ASSUME MoveInv, \A d \in Dirs : chan[d].on /\ chan[d].busy
             PROVE  chan["RX"].left = chan["TX"].left + (IF full THEN 1 ELSE 0)
  BY DEF ChunksMatch
<1> PICK r, t : r = chan["RX"] /\ t = chan["TX"]
  OBVIOUS
<1>1. /\ r \in Channel /\ t \in Channel /\ State(r) /\ State(t) /\ Paired(r, t)
      /\ r.on /\ r.busy /\ t.on /\ t.busy
  BY PairKnown DEF Dirs
<1>2. /\ ~Finished(r) /\ ~Failed(r) /\ ~Finished(t) /\ ~Failed(t)
  BY <1>1 DEF Finished, Failed
<1>3. CASE Due(r) \/ Void(r)
  <2>1. ~full /\ (Due(t) \/ Void(t))
    BY <1>1, <1>2, <1>3 DEF Paired
  <2>2. r.left = 0 /\ t.left = 0
    BY <1>1, <1>3, <2>1, OneState
  <2>. QED
    BY <2>1, <2>2
<1>4. CASE Running(r)
  BY <1>1, <1>4 DEF Paired
<1>. QED
  BY <1>1, <1>2, <1>3, <1>4 DEF State

\* A channel whose count goes down works for the request of the call.
LEMMA OnlyWorkersMove ==
  ASSUME MoveInv, MoveInv', "preempt" \notin Hazards, [Next]_vars,
         NEW d \in Dirs, chan'[d].left < chan[d].left
  PROVE  Works(d)
<1>1. /\ chan \in [Dirs -> Channel] /\ chan' \in [Dirs -> Channel]
      /\ chan[d] \in Channel /\ chan'[d] \in Channel /\ State(chan[d])
      /\ chan[d].left \in Nat /\ chan'[d].left \in Nat
  BY DEF MoveInv, Types, Channels, Channel
<1>2. chan'[d].left # chan[d].left /\ chan[d].left # 0
  BY <1>1
<1>3. chan[d].busy
  BY <1>1, <1>2, OneState
<1>4. CASE SetUpChannels
  BY <1>1, <1>2, <1>3, <1>4 DEF SetUpChannels, Programmed
<1>5. CASE chan' = chan
  BY <1>2, <1>5
<1>6. CASE \E r \in Requests : Begin(r)
  <2>1. chan'[d] = [chan[d] EXCEPT !.buffer = IF @ = "own" THEN "old" ELSE @]
    BY <1>6 DEF Begin
  <2>2. chan'[d].left = chan[d].left
    BY <1>1, <2>1 DEF Channel
  <2>. QED
    BY <1>2, <2>2
<1>7. ASSUME NEW e \in Dirs, DmaIsr(e) PROVE Works(d)
  <2>1. Due(chan[e])
    BY <1>7, IsrCases
  <2>2. d # e
    BY <1>1, <1>2, <2>1, OneState
  <2>3. PICK c \in [Dirs -> Channel] : Outcome(e, c)
    BY <1>7, IsrCases
  <2>4. chan' = c /\ c[d] = chan[d]
    BY <1>3, <2>2, <2>3, Zenon DEF Outcome
  <2>. QED
    BY <1>2, <2>4
<1>8. ASSUME NEW e \in Dirs, ExtDmaError(e) PROVE Works(d)
  <2>1. chan' = [chan EXCEPT ![e] = Errored(chan[e])] /\ Running(chan[e]) /\ chan[e] \in Channel
    BY <1>8, DmaErrorStep DEF MoveInv, Types
  <2>2. Errored(chan[e]).left = chan[e].left
    BY <2>1, ErroredState
  <2>. QED
    BY <1>1, <1>2, <2>1, <2>2
<1>9. CASE SpiIsr
  <2>1. ~hasDma
    BY <1>9 DEF SpiIsr, SpiLine, MoveInv, Types, QuietInv
  <2>2. Finished(chan[d])
    BY <2>1 DEF MoveInv, Channels
  <2>. QED
    BY <1>3, <2>2 DEF Finished
<1>10. CASE ExtTransmit
  BY <1>1, <1>2, <1>10, TransmitStep DEF Dirs
<1>11. CASE ExtReceive
  BY <1>1, <1>2, <1>11, ReceiveStep DEF Dirs
<1>12. CASE Call
  <2>1. SetUpChannels \/ chan' = chan
    BY <1>12 DEF Call, EnableTransmitter, EnableReceiver, EnableInterrupts, TakeSync, TimeOut,
                 Quiesce, Deselect
  <2>. QED
    BY <1>4, <1>5, <2>1
<1>13. CASE ExtSpiError \/ UNCHANGED vars
  <2>1. chan' = chan
    BY <1>13 DEF ExtSpiError, vars
  <2>. QED
    BY <1>5, <2>1
<1>. QED
  BY <1>6, <1>7, <1>8, <1>9, <1>10, <1>11, <1>12, <1>13 DEF Next, Enter, Wire

\* While both channels are started they are on the same chunk, and the receiver is behind
\* by the byte in the register: spi_at32_dma_callback programs both anew, or none.
THEOREM ChunksAgree == Hazards \cap {"slow", "preempt"} = {} => (Spec => []ChunksMatch)
<1> SUFFICES ASSUME Hazards \cap {"slow", "preempt"} = {} PROVE Spec => []ChunksMatch
  OBVIOUS
<1>1. Spec => []MoveInv
  BY StepMoves
<1>. QED
  BY <1>1, MoveMatches, PTL

\* spi_at32_dma_setup has pointed a channel into the buffers of this call, or at the dummy
\* byte, before an item moves through it; also when an earlier call has ended in an error
\* and has left channels started.
THEOREM NoStray == Hazards \cap {"slow", "preempt"} = {} => (Spec => NoStrayAccess)
<1> SUFFICES ASSUME Hazards \cap {"slow", "preempt"} = {} PROVE Spec => NoStrayAccess
  OBVIOUS
<1>1. ASSUME MoveInv, MoveInv', [Next]_vars, NEW d \in Dirs, chan'[d].left < chan[d].left
      PROVE  chan[d].buffer # "old"
  <2>1. Works(d)
    BY <1>1, OnlyWorkersMove
  <2>. QED
    BY <1>1, <2>1 DEF MoveInv, Chunks, Target
<1>2. MoveInv /\ MoveInv' /\ [Next]_vars =>
        [\A d \in Dirs : chan'[d].left < chan[d].left => chan[d].buffer # "old"]_vars
  BY <1>1
<1>3. Spec => []MoveInv
  BY StepMoves
<1>. QED
  BY <1>2, <1>3, PTL DEF Spec, NoStrayAccess

-----------------------------------------------------------------------------
(* What is owed *)

LEMMA InSeq ==
  ASSUME NEW S, NEW s \in Seq(S), s # <<>>
  PROVE  /\ s[1] \in S /\ Tail(s) \in Seq(S)
         /\ \A x \in S : [s EXCEPT ![1] = x] \in Seq(S)
OBVIOUS

LEMMA UpdatedFits ==
  ASSUME NEW s \in Lengths, NEW n \in Nat, s \in Seq(1 .. (ItemLimit - 1))
  PROVE  Updated(s, n) \in Seq(1 .. (ItemLimit - 1))
<1> PICK T : T = 1 .. (ItemLimit - 1)
  OBVIOUS
<1>1. CASE s = <<>>
  BY <1>1 DEF Updated
<1>2. CASE s # <<>>
  <2>1. s \in Seq(T)
    OBVIOUS
  <2>2. /\ s[1] \in T /\ Tail(s) \in Seq(T)
        /\ \A x \in T : [s EXCEPT ![1] = x] \in Seq(T)
    BY <1>2, <2>1, InSeq
  <2>3. s[1] \in Nat /\ ItemLimit \in Nat
    BY <1>2, TailLengths, ItemAssumption
  <2>4. CASE n >= s[1]
    <3>1. Updated(s, n) = Tail(s)
      BY <1>2, <2>4 DEF Updated
    <3>. QED
      BY <2>2, <3>1
  <2>5. CASE n < s[1]
    <3>1. Updated(s, n) = [s EXCEPT ![1] = s[1] - n]
      BY <1>2, <2>3, <2>5 DEF Updated
    <3>2. s[1] - n \in T
      BY <2>2, <2>3, <2>5
    <3>. QED
      BY <2>2, <3>1, <3>2
  <2>. QED
    BY <2>3, <2>4, <2>5
<1>. QED
  BY <1>1, <1>2

\* The first length is no more than the total.
LEMMA FirstOfTotal ==
  ASSUME NEW s \in Lengths, s # <<>>
  PROVE  s[1] \in Nat \ {0} /\ Total[s] \in Nat /\ s[1] <= Total[s]
<1>1. /\ s[1] \in Nat \ {0} /\ Tail(s) \in Lengths /\ Total[Tail(s)] \in Nat
      /\ Total[s] = s[1] + Total[Tail(s)]
  BY TailLengths, TotalIs
<1>. QED
  BY <1>1

LEMMA NoTotal == Total[<<>>] = 0
BY NoLengths, TotalIs

\* A number below the limit is not wrapped.
LEMMA SmallMod ==
  ASSUME NEW k \in Nat, NEW l \in Nat, k < l
  PROVE  k % l = k
OBVIOUS

\* A channel that is set up takes a chunk of what is owed.
LEMMA OwesFresh ==
  ASSUME NEW s \in Lengths, NEW k \in Nat, s # <<>> => k <= s[1],
         Fits => s \in Seq(1 .. (ItemLimit - 1)),
         NEW n \in Nat, n >= Total[s], Fits => n = Total[s],
         NEW z, z.left = k % ItemLimit, z.buffer = Target(s)
  PROVE  Owes(n, s, z, k)
<1>1. CASE s = <<>>
  BY <1>1 DEF Owes, Target
<1>2. CASE s # <<>>
  <2>1. s[1] \in Nat /\ Total[s] \in Nat /\ s[1] <= Total[s] /\ k <= s[1]
    BY <1>2, FirstOfTotal
  <2>2. k % ItemLimit \in Nat /\ k % ItemLimit <= k
    BY ItemAssumption
  <2>3. Fits => k % ItemLimit = k
    <3> SUFFICES ASSUME Fits PROVE k % ItemLimit = k
      OBVIOUS
    <3>1. s[1] \in 1 .. (ItemLimit - 1)
      BY <1>2, InSeq
    <3>2. ItemLimit \in Nat
      BY ItemAssumption
    <3> PICK f, l : f = s[1] /\ l = ItemLimit
      OBVIOUS
    <3>3. f \in 1 .. (l - 1) /\ l \in Nat /\ k <= f
      BY <2>1, <3>1, <3>2
    <3>4. k < l
      BY <3>3
    <3>. QED
      BY <3>3, <3>4, SmallMod
  <2> PICK l, m : l = k % ItemLimit /\ m = Total[s]
    OBVIOUS
  <2>4. l + m - k <= m /\ (l = k => l + m - k = m)
    BY <2>1, <2>2
  <2>5. z.left = l /\ z.buffer = "own" /\ m \in Nat /\ l \in Nat
    BY <1>2, <2>1, <2>2 DEF Target
  <2>6. n >= l + m - k /\ (Fits => n = l + m - k)
    BY <2>1, <2>3, <2>4, <2>5
  <2>. QED
    BY <1>2, <2>5, <2>6 DEF Owes
<1>. QED
  BY <1>1, <1>2

\* A channel that has finished the chunk leaves what remains.
LEMMA OwesDone ==
  ASSUME NEW s \in Lengths, NEW k \in Nat, s # <<>> => k <= s[1],
         NEW n \in Nat, NEW ch, ch.left = 0, ch.buffer = Target(s), Owes(n, s, ch, k)
  PROVE  /\ Updated(s, k) \in Lengths
         /\ n >= Total[Updated(s, k)] /\ (Fits => n = Total[Updated(s, k)])
<1>1. CASE s = <<>>
  BY <1>1, NoLengths, NoTotal DEF Owes, Target, Updated
<1>2. CASE s # <<>>
  <2>1. s[1] \in Nat /\ Total[s] \in Nat
    BY <1>2, FirstOfTotal
  <2>2. k \in 0 .. s[1]
    BY <1>2, <2>1
  <2>3. Updated(s, k) \in Lengths /\ Total[Updated(s, k)] = Total[s] - k
    BY <1>2, <2>2, UpdatedTotal
  <2>4. n >= 0 + Total[s] - k /\ (Fits => n = 0 + Total[s] - k)
    BY <1>2 DEF Owes, Target
  <2>. QED
    BY <2>1, <2>3, <2>4
<1>. QED
  BY <1>1, <1>2

\* An item that moves is taken from what is owed.
LEMMA OwesLess ==
  ASSUME NEW s \in Lengths, NEW k \in Nat, s # <<>> => k <= s[1], NEW n \in Nat,
         NEW ch \in Channel, ch.left > 0, Owes(n, s, ch, k),
         NEW z, z.left = ch.left - 1, z.buffer = ch.buffer,
         NEW m, m = IF ch.buffer = "own" THEN n - 1 ELSE n
  PROVE  m \in Nat /\ Owes(m, s, z, k)
<1>1. CASE ch.buffer # "own"
  BY <1>1 DEF Owes
<1>2. CASE ch.buffer = "own"
  <2>1. s # <<>>
    BY <1>2 DEF Owes
  <2>2. s[1] \in Nat /\ Total[s] \in Nat /\ s[1] <= Total[s] /\ k <= s[1]
    BY <2>1, FirstOfTotal
  <2> PICK l, u : l = ch.left /\ u = Total[s]
    OBVIOUS
  <2>3. l \in Nat /\ l > 0 /\ u \in Nat /\ k <= u
    BY <2>2 DEF Channel
  <2>4. n >= l + u - k /\ (Fits => n = l + u - k)
    BY <1>2 DEF Owes
  <2>5. m = n - 1 /\ z.left = l - 1 /\ z.buffer = "own"
    BY <1>2
  <2>6. m \in Nat /\ m >= (l - 1) + u - k
    BY <2>3, <2>4, <2>5
  <2>7. Fits => m = (l - 1) + u - k
    BY <2>3, <2>4, <2>5
  <2>. QED
    BY <2>1, <2>5, <2>6, <2>7 DEF Owes
<1>. QED
  BY <1>1, <1>2

\* The parts of the request and the chunk.
LEMMA PartFacts ==
  ASSUME Accounts, NEW d \in Dirs
  PROVE  /\ Part(d) \in Lengths /\ Chunk \in Nat
         /\ Part(d) # <<>> => Chunk <= Part(d)[1]
         /\ Fits => Part(d) \in Seq(1 .. (ItemLimit - 1))
         /\ owed[d] \in Nat /\ chan[d] \in Channel /\ State(chan[d])
<1>1. tx \in Lengths /\ rx \in Lengths
  BY DEF Accounts, MoveInv, Types
<1>2. Chunk \in Nat /\ (tx # <<>> => Chunk <= tx[1]) /\ (rx # <<>> => Chunk <= rx[1])
  BY <1>1, ChunkFacts DEF Chunk
<1>. QED
  BY <1>1, <1>2 DEF Accounts, Part, MoveInv, Types, Channels

\* A step that changes neither what is owed nor the channels, within or outside a call.
LEMMA SameAccounts ==
  ASSUME Accounts, MoveInv', UNCHANGED <<hasDma, tx, rx, owed, full>>,
         \/ chan' = chan
         \/ /\ \A d \in Dirs : chan'[d].left = chan[d].left /\ chan'[d].buffer = chan[d].buffer,
         InCall' => InCall \/ pc = "setup",
         pc' = "setup" => pc = "setup",
         pc' \in {"ints", "wait"} /\ sync' = 0 => (pc \in {"ints", "wait"} /\ sync = 0) \/ hasDma,
         sync' = 1 /\ status' = "ok" => sync = 1 /\ status = "ok",
         pc' \in {"quiesce", "deselect"} /\ ret' = "ok" =>
           \/ pc \in {"quiesce", "deselect"} /\ ret = "ok"
           \/ sync = 1 /\ status = "ok"
  PROVE  Accounts'
<1>1. Chunk' = Chunk /\ (Fits' <=> Fits) /\ \A d \in Dirs : Part(d)' = Part(d)
  BY DEF Chunk, Part, Fits
<1>2. ASSUME NEW d \in Dirs, NEW n, NEW s, NEW k, Owes(n, s, chan[d], k)
      PROVE  Owes(n, s, chan'[d], k)
  BY <1>2 DEF Owes
<1>3. \A d \in Dirs : chan[d].buffer # "own" => chan'[d].buffer # "own"
  OBVIOUS
<1>4. InCall' \/ pc' = "setup" => \A d \in Dirs : Owes(owed[d], Part(d), chan'[d], Chunk)
  BY <1>2 DEF Accounts
<1>5. InCall' \/ pc' = "setup" => \A d \in Dirs : Owes(owed[d], Part(d), chan[d], Chunk)'
  BY <1>1, <1>4 DEF Owes
<1>6. Nothing' <=> Nothing
  BY <1>1 DEF Nothing
<1>7. sync = 1 => ~full
  BY DEF Accounts, MoveInv, Chunks
<1>. QED
  BY <1>1, <1>3, <1>5, <1>6, <1>7 DEF Accounts

LEMMA CallAccounts ==
  ASSUME Accounts, MoveInv',
         EnableTransmitter \/ EnableReceiver \/ EnableInterrupts \/ TakeSync \/ TimeOut \/ Quiesce
  PROVE  Accounts'
<1>1. /\ pc \in {"transmitter", "receiver", "ints", "wait", "quiesce"}
      /\ sync \in {0, 1} /\ status \in {"ok", "eio"} /\ MoveInv
  BY DEF Accounts, MoveInv, Types, QuietInv, EnableTransmitter, EnableReceiver,
         EnableInterrupts, TakeSync, TimeOut, Quiesce
<1>2. full' = full
  <2>1. ASSUME EnableInterrupts PROVE full = FALSE /\ full' = FALSE
    BY <1>1, <2>1 DEF EnableInterrupts, MoveInv, Types, QuietInv, Channels
  <2>. QED
    BY <2>1 DEF EnableTransmitter, EnableReceiver, TakeSync, TimeOut, Quiesce
<1>3. UNCHANGED <<hasDma, tx, rx, owed, chan>>
  BY DEF EnableTransmitter, EnableReceiver, EnableInterrupts, TakeSync, TimeOut, Quiesce
<1>4. /\ InCall' => InCall
      /\ pc' # "setup"
      /\ pc' \in {"ints", "wait"} /\ sync' = 0 => (pc \in {"ints", "wait"} /\ sync = 0) \/ hasDma
      /\ sync' = 1 /\ status' = "ok" => sync = 1 /\ status = "ok"
  BY <1>1 DEF EnableTransmitter, EnableReceiver, EnableInterrupts, TakeSync, TimeOut, Quiesce,
              InCall, MoveInv, Types, QuietInv
<1>5. pc' \in {"quiesce", "deselect"} /\ ret' = "ok" =>
        \/ pc \in {"quiesce", "deselect"} /\ ret = "ok"
        \/ sync = 1 /\ status = "ok"
  BY <1>1 DEF EnableTransmitter, EnableReceiver, EnableInterrupts, TakeSync, TimeOut, Quiesce
<1>. QED
  BY <1>2, <1>3, <1>4, <1>5, SameAccounts

LEMMA DeselectAccounts ==
  ASSUME Accounts, MoveInv', Deselect
  PROVE  Accounts'
<1>1. /\ pc' = "idle" /\ tx' = <<>> /\ rx' = <<>> /\ sync' = 0
      /\ owed' = [d \in Dirs |-> 0]
  BY DEF Deselect, Accounts, MoveInv, Types, QuietInv
<1>2. ~InCall'
  BY <1>1 DEF InCall
<1>3. owed' \in [Dirs -> Nat]
  BY <1>1
<1>4. tx' \in Seq(1 .. (ItemLimit - 1)) /\ rx' \in Seq(1 .. (ItemLimit - 1))
  BY <1>1
<1>. QED
  BY <1>1, <1>2, <1>3, <1>4 DEF Accounts

LEMMA BeginAccounts ==
  ASSUME Accounts, MoveInv', NEW q \in Requests, Begin(q)
  PROVE  Accounts'
<1>1. /\ pc = "idle" /\ sync = 0 /\ tx' = q.tx /\ rx' = q.rx
      /\ chan' = [d \in Dirs |-> [chan[d] EXCEPT !.buffer = IF @ = "own" THEN "old" ELSE @]]
      /\ owed' = [TX |-> Total[q.tx], RX |-> Total[q.rx]]
      /\ pc' = IF hasDma THEN "setup" ELSE "ints"
      /\ UNCHANGED <<hasDma, full, sync, status, ret>>
  BY DEF Begin, Accounts, MoveInv, Types, QuietInv
<1>2. ~InCall' /\ sync' = 0
  BY <1>1 DEF InCall
<1>3. ASSUME NEW d \in Dirs PROVE chan'[d].buffer # "own"
  <2>1. PICK b : b = (IF chan[d].buffer = "own" THEN "old" ELSE chan[d].buffer) /\ b # "own"
    OBVIOUS
  <2>2. chan[d] \in Channel /\ chan'[d] = [chan[d] EXCEPT !.buffer = b]
    BY <1>1, <2>1 DEF Accounts, MoveInv, Types
  <2>. QED
    BY <2>1, <2>2 DEF Channel
<1>4. ASSUME NEW d \in Dirs
      PROVE  owed'[d] = Total[Part(d)'] /\ owed'[d] \in Nat
  <2>1. q.tx \in Lengths /\ q.rx \in Lengths
    BY RequestsAssumption
  <2>2. Total[q.tx] \in Nat /\ Total[q.rx] \in Nat
    BY <2>1, TotalIs
  <2>. QED
    BY <1>1, <2>2 DEF Part, Dirs
<1>5. owed' \in [Dirs -> Nat]
  BY <1>1, <1>4 DEF Dirs
<1>6. ASSUME NEW d \in Dirs, NEW k
      PROVE  Owes(owed'[d], Part(d)', chan'[d], k)
  BY <1>3, <1>4 DEF Owes
<1>7. \A d \in Dirs : Owes(owed[d], Part(d), chan[d], Chunk)'
  BY <1>6 DEF Owes, Fits
<1>8. Fits' => tx' \in Seq(1 .. (ItemLimit - 1)) /\ rx' \in Seq(1 .. (ItemLimit - 1))
  BY <1>1 DEF Fits
<1>9. pc' \in {"setup", "ints"}
  BY <1>1
<1>10. \A d \in Dirs : owed'[d] = Total[Part(d)']
  BY <1>4
<1>. QED
  BY <1>2, <1>3, <1>5, <1>7, <1>8, <1>9, <1>10 DEF Accounts

\* What the loop over the channels makes of one.
LEMMA ProgrammedOne ==
  ASSUME NEW t \in Lengths, NEW r \in Lengths, NEW counts, NEW d \in Dirs, counts[d] = 0,
         NEW cs0 \in [Dirs -> Channel], NEW z, z = Programmed(cs0, counts, t, r),
         NEW s, s = IF d = "TX" THEN t ELSE r
  PROVE  IF ChunkOf(t, r) # 0 /\ ~cs0[d].busy
         THEN z[d].left = ChunkOf(t, r) % ItemLimit /\ z[d].buffer = Target(s)
         ELSE z[d] = cs0[d]
<1>1. PICK n \in Nat : n = ChunkOf(t, r)
  BY ChunkFacts
<1>2. PICK c \in Channel : c = cs0[d]
  OBVIOUS
<1>3. z[d] = IF n # 0 /\ ~c.busy THEN SetUp(c, s, n) ELSE c
  BY <1>1, <1>2 DEF Programmed
<1>4. PICK y : y = SetUp(c, s, n)
  OBVIOUS
<1>5. y.left = n % ItemLimit /\ y.buffer = Target(s)
  BY <1>4, SetUpState
<1>. QED
  BY <1>1, <1>2, <1>3, <1>4, <1>5

LEMMA SetUpChannelsAccounts ==
  ASSUME Accounts, MoveInv', SetUpChannels
  PROVE  Accounts'
<1>1. /\ pc = "setup" /\ pc' = "transmitter" /\ hasDma /\ sync = 0
      /\ UNCHANGED <<hasDma, tx, rx, sync, status, ret, owed, full>>
      /\ chan' = Programmed(chan, count, tx, rx)
  BY DEF SetUpChannels, Accounts, MoveInv, Types, QuietInv
<1>2. Chunk' = Chunk /\ \A d \in Dirs : Part(d)' = Part(d)
  BY <1>1 DEF Chunk, Part
<1>3. ASSUME NEW d \in Dirs
      PROVE  Owes(owed[d], Part(d), chan'[d], Chunk)
  <2>1. PICK s, k, n, z : s = Part(d) /\ k = Chunk /\ n = owed[d] /\ z = chan'[d]
    OBVIOUS
  <2>2. /\ s \in Lengths /\ k \in Nat /\ n \in Nat /\ (s # <<>> => k <= s[1])
        /\ Fits => s \in Seq(1 .. (ItemLimit - 1))
    BY <2>1, PartFacts
  <2>3. Owes(n, s, chan[d], k) /\ n >= Total[s] /\ (Fits => n = Total[s])
    <3>1. Owes(n, s, chan[d], k) /\ chan[d].buffer # "own"
      BY <1>1, <2>1 DEF Accounts
    <3>. QED
      BY <3>1 DEF Owes
  <2>4. IF k # 0 /\ ~chan[d].busy THEN z.left = k % ItemLimit /\ z.buffer = Target(s)
        ELSE z = chan[d]
    <3>1. count[d] = 0 /\ s = (IF d = "TX" THEN tx ELSE rx) /\ k = ChunkOf(tx, rx)
      BY <1>1, <2>1 DEF Accounts, MoveInv, Chunks, Part, Chunk
    <3>2. tx \in Lengths /\ rx \in Lengths /\ chan \in [Dirs -> Channel]
      BY DEF Accounts, MoveInv, Types
    <3>. QED
      BY <1>1, <2>1, <3>1, <3>2, ProgrammedOne
  <2>5. CASE k # 0 /\ ~chan[d].busy
    <3>1. Owes(n, s, z, k)
      BY <2>2, <2>3, <2>4, <2>5, OwesFresh
    <3>. QED
      BY <2>1, <3>1
  <2>6. CASE ~(k # 0 /\ ~chan[d].busy)
    BY <2>1, <2>3, <2>4, <2>6
  <2>. QED
    BY <2>5, <2>6
<1>4. \A d \in Dirs : Owes(owed[d], Part(d), chan[d], Chunk)'
  BY <1>1, <1>2, <1>3 DEF Owes, Fits
<1>. QED
  BY <1>1, <1>4 DEF Accounts, Fits

LEMMA DmaIsrAccounts ==
  ASSUME Accounts, MoveInv', NEW d \in Dirs, DmaIsr(d)
  PROVE  Accounts'
<1>0. MoveInv
  BY DEF Accounts
<1>1. /\ InCall /\ Chunk > 0 /\ Works(d) /\ chan[d].busy /\ Due(chan[d])
      /\ UNCHANGED <<hasDma, pc, error, full, cs, ret, owed>>
  BY <1>0, IsrCases
<1>2. PICK c \in [Dirs -> Channel] : Outcome(d, c)
  BY <1>0, IsrCases
<1>3. /\ ~c[d].busy /\ c[d].left = 0 /\ c[d].buffer = chan[d].buffer
      /\ \A e \in Dirs \ {d} : c[e] = chan[e]
  BY <1>2 DEF Outcome
<1>4. /\ hasDma /\ pc \in {"transmitter", "receiver", "wait"} /\ sync = 0
      /\ chan[d].left = 0
  BY <1>1, PartFacts, OneState DEF InCall
<1>5. CASE chan' = c /\ UNCHANGED <<tx, rx, sync, status>>
  <2>1. \A e \in Dirs : chan'[e].left = chan[e].left /\ chan'[e].buffer = chan[e].buffer
    BY <1>3, <1>4, <1>5
  <2>2. InCall' => InCall
    BY <1>1
  <2>. QED
    BY <1>1, <1>4, <1>5, <2>1, <2>2, SameAccounts
<1>6. CASE /\ \A e \in Dirs \ {d} : ~chan[e].busy /\ Finished(chan[e])
           /\ tx' = Updated(tx, Chunk) /\ rx' = Updated(rx, Chunk)
  <2>1. ASSUME NEW e \in Dirs
        PROVE  /\ Part(e)' = Updated(Part(e), Chunk) /\ Part(e)' \in Lengths
               /\ owed[e] >= Total[Part(e)'] /\ (Fits => owed[e] = Total[Part(e)'])
               /\ Fits => Part(e)' \in Seq(1 .. (ItemLimit - 1))
               /\ ~c[e].busy
    <3>1. PICK s, k, n, ch : s = Part(e) /\ k = Chunk /\ n = owed[e] /\ ch = chan[e]
      OBVIOUS
    <3>2. /\ s \in Lengths /\ k \in Nat /\ n \in Nat /\ (s # <<>> => k <= s[1])
          /\ Fits => s \in Seq(1 .. (ItemLimit - 1))
      BY <3>1, PartFacts
    <3>3. Owes(n, s, ch, k)
      BY <1>1, <3>1 DEF Accounts
    <3>4. ch.left = 0 /\ ch.buffer = Target(s)
      <4>1. CASE e = d
        BY <1>0, <1>1, <1>4, <3>1, <4>1 DEF MoveInv, Chunks
      <4>2. CASE e # d
        BY <1>0, <1>1, <1>6, <3>1, <4>2 DEF MoveInv, Chunks, Finished
      <4>. QED
        BY <4>1, <4>2
    <3>5. /\ Updated(s, k) \in Lengths
          /\ n >= Total[Updated(s, k)] /\ (Fits => n = Total[Updated(s, k)])
      BY <3>2, <3>3, <3>4, OwesDone
    <3>6. Fits => Updated(s, k) \in Seq(1 .. (ItemLimit - 1))
      BY <3>2, UpdatedFits
    <3>7. Part(e)' = Updated(s, k)
      BY <1>6, <3>1 DEF Part
    <3>8. ~c[e].busy
      BY <1>3, <1>6
    <3>. QED
      BY <3>1, <3>5, <3>6, <3>7, <3>8
  <2>2. Fits' => tx' \in Seq(1 .. (ItemLimit - 1)) /\ rx' \in Seq(1 .. (ItemLimit - 1))
    BY <2>1 DEF Part, Dirs, Fits
  <2>3. CASE /\ Ongoing(tx', rx')
             /\ count' = [e \in Dirs |-> 0]
             /\ chan' = Programmed(c, count', tx', rx')
             /\ UNCHANGED <<sync, status>>
    <3>1. PICK t, r, k, z, c0 : t = tx' /\ r = rx' /\ k = Chunk' /\ z = chan' /\ c0 = count'
      OBVIOUS
    <3>2. /\ t \in Lengths /\ r \in Lengths /\ k \in Nat /\ k = ChunkOf(t, r) /\ k # 0
          /\ t # <<>> => k <= t[1]
          /\ r # <<>> => k <= r[1]
      <4>1. t \in Lengths /\ r \in Lengths /\ k = ChunkOf(t, r)
        BY <2>1, <3>1 DEF Part, Dirs, Chunk
      <4>. QED
        BY <2>3, <3>1, <4>1, ChunkFacts
    <3>3. ASSUME NEW e \in Dirs
          PROVE  Owes(owed[e], Part(e)', z[e], k)
      <4>1. PICK s, n, y : s = (IF e = "TX" THEN t ELSE r) /\ n = owed[e] /\ y = z[e]
        OBVIOUS
      <4>2. s = Part(e)'
        BY <3>1, <4>1 DEF Part
      <4>3. /\ s \in Lengths /\ n \in Nat /\ (s # <<>> => k <= s[1])
            /\ n >= Total[s] /\ (Fits => n = Total[s])
            /\ Fits => s \in Seq(1 .. (ItemLimit - 1))
        BY <2>1, <3>2, <4>1, <4>2, PartFacts
      <4>4. y.left = k % ItemLimit /\ y.buffer = Target(s)
        <5>1. c0[e] = 0 /\ z = Programmed(c, c0, t, r)
          BY <2>3, <3>1
        <5>. QED
          BY <2>1, <3>2, <4>1, <5>1, ProgrammedOne
      <4>5. Owes(n, s, y, k)
        BY <3>2, <4>3, <4>4, OwesFresh
      <4>. QED
        BY <4>1, <4>2, <4>5
    <3>4. \A e \in Dirs : Owes(owed[e], Part(e), chan[e], Chunk)'
      BY <1>1, <3>1, <3>3 DEF Owes, Fits
    <3>. QED
      BY <1>1, <1>4, <2>2, <2>3, <3>4 DEF Accounts
  <2>4. CASE ~Ongoing(tx', rx') /\ sync' = 1
    <3>1. \A e \in Dirs : Part(e)' = <<>>
      BY <2>4 DEF Ongoing, Part
    <3>2. Nothing'
      BY <1>1, <2>1, <3>1, NoTotal DEF Nothing, Fits
    <3>3. ~InCall'
      BY <2>4 DEF InCall
    <3>. QED
      BY <1>1, <1>4, <2>2, <2>4, <3>2, <3>3 DEF Accounts
  <2>. QED
    BY <1>2, <1>5, <1>6, <2>3, <2>4, Zenon DEF Outcome
<1>. QED
  BY <1>2, <1>5, <1>6, Zenon DEF Outcome

LEMMA SpiIsrAccounts ==
  ASSUME Accounts, MoveInv', SpiIsr
  PROVE  Accounts'
<1>1. /\ pc = "wait" /\ pc' = "wait" /\ ~hasDma /\ sync = 0
      /\ UNCHANGED <<hasDma, full, ret>>
      /\ tx \in Lengths /\ rx \in Lengths
  BY DEF SpiIsr, SpiLine, Accounts, MoveInv, Types, QuietInv
<1>2. ~InCall'
  BY <1>1 DEF InCall
<1>3. ASSUME NEW d \in Dirs
      PROVE  owed[d] = Total[Part(d)] /\ Part(d) \in Lengths
  BY <1>1, PartFacts DEF Accounts
<1>4. CASE Complete(chan, "eio") /\ UNCHANGED <<tx, rx, owed>>
  <2>1. sync' = 1 /\ status' = "eio"
    BY <1>4 DEF Complete
  <2>. QED
    BY <1>1, <1>2, <1>4, <2>1 DEF Accounts, Fits
<1>5. CASE /\ tx' = Updated(tx, 1) /\ rx' = Updated(rx, 1)
           /\ owed' = [TX |-> IF tx # <<>> THEN owed["TX"] - 1 ELSE owed["TX"],
                       RX |-> IF rx # <<>> THEN owed["RX"] - 1 ELSE owed["RX"]]
           /\ ~Ongoing(tx', rx') \/ UNCHANGED sync \/ (sync' = 1 /\ status' = "eio")
  <2>1. ASSUME NEW d \in Dirs
        PROVE  /\ Part(d)' = Updated(Part(d), 1) /\ Part(d)' \in Lengths
               /\ owed'[d] = Total[Part(d)'] /\ owed'[d] \in Nat
    <3>1. Part(d)' = Updated(Part(d), 1) /\ Updated(Part(d), 1) \in Lengths
      BY <1>3, <1>5, UpdatedLengths DEF Part
    <3>2. owed'[d] = IF Part(d) # <<>> THEN owed[d] - 1 ELSE owed[d]
      BY <1>5 DEF Part, Dirs
    <3>3. CASE Part(d) = <<>>
      BY <1>3, <3>1, <3>2, <3>3, NoTotal DEF Updated
    <3>4. CASE Part(d) # <<>>
      <4>1. 1 \in 0 .. Part(d)[1] /\ Total[Part(d)] \in Nat
        BY <1>3, <3>4, FirstOfTotal
      <4>2. Total[Updated(Part(d), 1)] = Total[Part(d)] - 1
        BY <1>3, <3>4, <4>1, UpdatedTotal
      <4>3. Total[Updated(Part(d), 1)] \in Nat
        BY <3>1, TotalIs
      <4>. QED
        BY <1>3, <3>1, <3>2, <3>4, <4>2, <4>3
    <3>. QED
      BY <3>3, <3>4
  <2>2. owed' \in [Dirs -> Nat]
    <3>1. \A d \in Dirs : owed'[d] \in Nat
      BY <2>1
    <3>. QED
      BY <1>5, <3>1 DEF Dirs
  <2>3. Fits' => tx' \in Seq(1 .. (ItemLimit - 1)) /\ rx' \in Seq(1 .. (ItemLimit - 1))
    BY <1>1, <1>5, UpdatedFits DEF Accounts, Fits
  <2>4. \A d \in Dirs : owed'[d] = Total[Part(d)']
    BY <2>1
  <2>5. CASE ~Ongoing(tx', rx')
    <3>1. \A d \in Dirs : Part(d)' = <<>>
      BY <2>5 DEF Ongoing, Part
    <3>2. \A d \in Dirs : owed'[d] = 0
      BY <2>4, <3>1, NoTotal
    <3>3. Nothing'
      BY <3>2 DEF Nothing
    <3>. QED
      BY <1>1, <1>2, <2>2, <2>3, <2>4, <3>3 DEF Accounts
  <2>6. CASE UNCHANGED sync
    BY <1>1, <1>2, <2>2, <2>3, <2>4, <2>6 DEF Accounts
  <2>7. CASE sync' = 1 /\ status' = "eio"
    BY <1>1, <1>2, <2>2, <2>3, <2>4, <2>7 DEF Accounts
  <2>. QED
    BY <1>5, <2>5, <2>6, <2>7
<1>6. \/ Complete(chan, "eio") /\ UNCHANGED <<tx, rx, owed>>
      \/ /\ tx' = Updated(tx, 1) /\ rx' = Updated(rx, 1)
         /\ owed' = [TX |-> IF tx # <<>> THEN owed["TX"] - 1 ELSE owed["TX"],
                     RX |-> IF rx # <<>> THEN owed["RX"] - 1 ELSE owed["RX"]]
         /\ ~Ongoing(tx', rx') \/ UNCHANGED sync \/ (sync' = 1 /\ status' = "eio")
  <2>1. CASE Complete(chan, "eio") /\ UNCHANGED <<tx, rx, owed>>
    BY <2>1
  <2>2. ASSUME NEW err \in FrameEnds,
               IF err = "eio" \/ ~Ongoing(tx', rx')
               THEN Complete(chan, err)
               ELSE UNCHANGED <<chan, sync, status, intsOn, dmaen>>
        PROVE  ~Ongoing(tx', rx') \/ UNCHANGED sync \/ (sync' = 1 /\ status' = "eio")
    BY <2>2 DEF Complete
  <2>. QED
    BY <2>1, <2>2, Zenon DEF SpiIsr
<1>. QED
  BY <1>4, <1>5, <1>6

\* An item crosses the wire.
LEMMA MoveAccounts ==
  ASSUME Accounts, MoveInv', NEW d \in Dirs, Works(d), Running(chan[d]),
         chan' = [chan EXCEPT ![d] = Moved(chan[d])],
         owed' = [owed EXCEPT ![d] = IF chan[d].buffer = "own" THEN @ - 1 ELSE @],
         UNCHANGED <<hasDma, pc, tx, rx, sync, status, ret>>
  PROVE  Accounts'
<1>1. InCall /\ hasDma /\ pc \in {"transmitter", "receiver", "wait"} /\ sync = 0
  BY DEF Accounts, MoveInv, Channels, InCall
<1>2. Chunk' = Chunk /\ \A e \in Dirs : Part(e)' = Part(e)
  BY DEF Chunk, Part
<1>3. ASSUME NEW e \in Dirs
      PROVE  owed'[e] \in Nat /\ Owes(owed'[e], Part(e), chan'[e], Chunk)
  <2>1. PICK s, k, n, ch, m, z : /\ s = Part(e) /\ k = Chunk /\ n = owed[e] /\ ch = chan[e]
                                 /\ m = owed'[e] /\ z = chan'[e]
    OBVIOUS
  <2>2. /\ s \in Lengths /\ k \in Nat /\ n \in Nat /\ (s # <<>> => k <= s[1])
        /\ ch \in Channel /\ State(ch) /\ Owes(n, s, ch, k)
        /\ owed \in [Dirs -> Nat] /\ chan \in [Dirs -> Channel]
    BY <1>1, <2>1, PartFacts DEF Accounts, MoveInv, Types
  <2>3. CASE e # d
    BY <2>1, <2>2, <2>3
  <2>4. CASE e = d
    <3>1. ch.left > 0 /\ z = Moved(ch) /\ m = IF ch.buffer = "own" THEN n - 1 ELSE n
      BY <2>1, <2>2, <2>4, OneState
    <3>2. z.left = ch.left - 1 /\ z.buffer = ch.buffer
      BY <2>1, <2>2, <2>4, <3>1, MovedState
    <3>3. m \in Nat /\ Owes(m, s, z, k)
      BY <2>2, <3>1, <3>2, OwesLess
    <3>. QED
      BY <2>1, <3>3
  <2>. QED
    BY <2>3, <2>4
<1>4. owed' \in [Dirs -> Nat]
  <2>1. owed \in [Dirs -> Nat] /\ \A e \in Dirs : owed'[e] \in Nat
    BY <1>3 DEF Accounts
  <2>. QED
    BY <2>1
<1>5. \A e \in Dirs : Owes(owed[e], Part(e), chan[e], Chunk)'
  BY <1>2, <1>3 DEF Owes, Fits
<1>. QED
  BY <1>1, <1>4, <1>5 DEF Accounts, Fits

LEMMA RestAccounts ==
  ASSUME Accounts, MoveInv', (\E d \in Dirs : ExtDmaError(d)) \/ ExtSpiError \/ UNCHANGED vars
  PROVE  Accounts'
<1>1. UNCHANGED <<hasDma, pc, tx, rx, owed, full, sync, status, ret>>
  BY DEF ExtDmaError, ExtSpiError, ExtOnly, vars
<1>2. \A e \in Dirs : chan'[e].left = chan[e].left /\ chan'[e].buffer = chan[e].buffer
  <2>1. CASE chan' = chan
    BY <2>1
  <2>2. ASSUME NEW d \in Dirs, ExtDmaError(d)
        PROVE  \A e \in Dirs : chan'[e].left = chan[e].left /\ chan'[e].buffer = chan[e].buffer
    <3>1. /\ chan' = [chan EXCEPT ![d] = Errored(chan[d])] /\ Running(chan[d])
          /\ chan \in [Dirs -> Channel]
      BY <2>2, DmaErrorStep DEF Accounts, MoveInv, Types
    <3>2. PICK z : z = Errored(chan[d])
      OBVIOUS
    <3>3. z.left = chan[d].left /\ z.buffer = chan[d].buffer
      BY <3>1, <3>2, ErroredState
    <3>. QED
      BY <3>1, <3>2, <3>3
  <2>. QED
    BY <2>1, <2>2 DEF ExtSpiError, vars
<1>3. InCall' => InCall
  BY <1>1 DEF InCall
<1>. QED
  BY <1>1, <1>2, <1>3, SameAccounts

LEMMA InitAccounts == Init => Accounts
<1> SUFFICES ASSUME Init PROVE Accounts
  OBVIOUS
<1>1. MoveInv /\ ~InCall /\ owed \in [Dirs -> Nat]
  BY InitMoves DEF Init, InCall
<1>2. <<>> \in Seq(1 .. (ItemLimit - 1))
  OBVIOUS
<1>. QED
  BY <1>1, <1>2 DEF Accounts, Init

LEMMA NextAccounts ==
  ASSUME Accounts, Hazards \cap {"slow", "preempt"} = {}, [Next]_vars
  PROVE  Accounts'
<1>1. MoveInv /\ MoveInv'
  BY NextMoves DEF Accounts
<1>2. CASE Call
  BY <1>1, <1>2, CallAccounts, DeselectAccounts, SetUpChannelsAccounts DEF Call
<1>3. CASE Enter
  BY <1>1, <1>3, BeginAccounts DEF Enter
<1>4. CASE \E d \in Dirs : DmaIsr(d) \/ ExtDmaError(d)
  BY <1>1, <1>4, DmaIsrAccounts, RestAccounts
<1>5. CASE SpiIsr
  BY <1>1, <1>5, SpiIsrAccounts
<1>6. CASE ExtTransmit
  BY <1>1, <1>6, TransmitStep, MoveAccounts DEF Dirs
<1>7. CASE ExtReceive
  BY <1>1, <1>7, ReceiveStep, MoveAccounts DEF Dirs
<1>8. CASE ExtSpiError \/ UNCHANGED vars
  BY <1>1, <1>8, RestAccounts
<1>. QED
  BY <1>2, <1>3, <1>4, <1>5, <1>6, <1>7, <1>8 DEF Next, Wire

LEMMA StepAccounts == Hazards \cap {"slow", "preempt"} = {} => (Spec => []Accounts)
<1> SUFFICES ASSUME Hazards \cap {"slow", "preempt"} = {} PROVE Spec => []Accounts
  OBVIOUS
<1>1. Accounts /\ [Next]_vars => Accounts'
  BY NextAccounts
<1>. QED
  BY <1>1, InitAccounts, PTL DEF Spec

\* Types; in particular the bytes the channels move never exceed those of the request, also
\* where a length is more than dtcnt holds.
THEOREM TypeCorrect == Hazards \cap {"slow", "preempt"} = {} => (Spec => []TypeOK)
<1> SUFFICES ASSUME Hazards \cap {"slow", "preempt"} = {} PROVE Spec => []TypeOK
  OBVIOUS
<1>1. Accounts => TypeOK
  BY DEF Accounts, MoveInv, Types, QuietInv, TypeOK
<1>2. Spec => []Accounts
  BY StepAccounts
<1>. QED
  BY <1>1, <1>2, PTL

\* A call that returns 0 has moved every byte of both buffer sets and has taken the last one
\* from the register, whatever the lists of buffers, if dtcnt holds the length of each:
\* spi_at32_chunk_transfer_finished waits for both channels, and
\* spi_at32_transfer_ongoing keeps the call waiting while a list is not empty.
THEOREM SuccessMoved ==
  Fits /\ Hazards \cap {"slow", "preempt"} = {} => (Spec => SuccessMeansMoved)
<1> SUFFICES ASSUME Fits, Hazards \cap {"slow", "preempt"} = {} PROVE Spec => SuccessMeansMoved
  OBVIOUS
<1>1. Accounts =>
        [pc = "deselect" /\ pc' = "idle" /\ ret = "ok" => ~full /\ \A d \in Dirs : owed[d] = 0]_vars
  BY DEF Accounts, Nothing
<1>2. Spec => []Accounts
  BY StepAccounts
<1>. QED
  BY <1>1, <1>2, PTL DEF Spec, SuccessMeansMoved
=============================================================================
