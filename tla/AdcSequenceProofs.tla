------------------------- MODULE AdcSequenceProofs -------------------------
(***************************************************************************)
(* Safety of AdcSequence for any sequences of reads, channels, ranks,      *)
(* repeats and sizes, in both builds, DMA bus errors included: types, the  *)
(* count of the power lock, and samples in order; where the converter      *)
(* waits for adc_at32_isr and no read begins before the last caller is     *)
(* out.                                                                    *)
(***************************************************************************)
EXTENDS AdcSequence, FiniteSetTheorems, TLAPS

NoSlip == Hazards \cap {"late", "overtake"} = {}

\* Where a channel's samples are in a sampling.
Rank(S, c) == Cardinality({d \in S : d < c})

\* What start_read begins a read with.
Sound(r) == r \in Reads /\ r.channels # {} /\ Count(r) * (1 + r.extra) <= r.size

\* The ranks that are converted are the first channels of the read's: all of them, as
\* long as there is a rank for each.
Programmed ==
  oclen \in 1 .. Count(req) /\ \A k \in 1 .. oclen : osq[k] = Ranked(req.channels)[k]

\* A read that began and is not complete; a sampling of it that is not done.
On     == outcome = "none" /\ (shot > 0 \/ timer)
Flying == On /\ (req.interval => requested > 0)

\* The first k samples of the sampling that began last are stored.
Fresh(k) ==
  \A c \in req.channels :
    Rank(req.channels, c) < k =>
      mem[repeatBuffer + Rank(req.channels, c)] = [channel |-> c, shot |-> shot]

\* The samples of the n samplings that were kept.
Kept(n) ==
  \A i \in 0 .. (n - 1), c \in req.channels :
    mem[i * Count(req) + Rank(req.channels, c)] = [channel |-> c, shot |-> accepted[i]]

AllKept ==
  \A i \in 0 .. index, c \in req.channels :
    mem[i * Count(req) + Rank(req.channels, c)] = [channel |-> c, shot |-> accepted[i]]

Types ==
  /\ useDma \in BOOLEAN
  /\ pc \in [Callers -> {"idle", "start", "wait", "release"}]
  /\ call \in [Callers -> Reads \cup {NoRead}] /\ req \in Reads \cup {NoRead}
  /\ ret \in [Callers -> {"ok", "ebusy"} \cup Refusals]
  /\ lock \in 0 .. 1 /\ sync \in 0 .. 1 /\ async \in BOOLEAN /\ timer \in BOOLEAN
  /\ status \in {"ok", "ebusy"} /\ index \in 0 .. req.extra /\ requested \in 0 .. MaxRequested
  /\ buffer \in 0 .. BufferSize /\ repeatBuffer \in 0 .. BufferSize
  /\ count \in 0 .. Count(req)
  /\ res \subseteq {0, 1} /\ chan \in Channel /\ eoc \in BOOLEAN /\ left \in Nat
  /\ oclen \in 1 .. Ranks /\ held \in Int /\ owed \in Int /\ shot \in Nat
  /\ outcome \in {"none", "ok", "ebusy"}
  /\ mem = [s \in Buffers |-> mem[s]] /\ accepted = [i \in Buffers |-> accepted[i]]

\* One caller at a time; nothing is on, and no completion is left over, where a
\* read may begin.
Protocol ==
  /\ \A c, d \in Callers : pc[c] # "idle" /\ pc[d] # "idle" => c = d
  /\ lock = 1 => ~On /\ sync = 0
  /\ sync = 1 => ~On /\ ~async /\ outcome # "none" /\ \A c \in Callers : pc[c] \in {"idle", "wait"}
  /\ \A c \in Callers :
       /\ pc[c] = "start" =>
            /\ lock = 0 /\ sync = 0 /\ shot = 0 /\ ~timer /\ outcome = "none"
            /\ call[c] \in Reads /\ call[c].async = async
       /\ pc[c] = "wait" => async \/ (lock = 0 /\ (On \/ sync = 1))
       /\ pc[c] = "release" => (async /\ ret[c] = "ok") \/ (lock = 0 /\ ~On /\ sync = 0)

\* The hardware works for a sampling and nothing else.
Converter ==
  /\ left > 0 \/ eoc \/ Live(chan) \/ "FDT" \in chan.flags => Flying
  /\ useDma => ~eoc
  /\ ~useDma => ~Live(chan) /\ chan.flags = {}
  /\ timer => req.interval /\ outcome = "none"
  /\ left \in 0 .. oclen

\* Where a read stands between samplings.
Reading ==
  On => /\ Sound(req) /\ Programmed
        /\ Kept(index)
        /\ IF Flying THEN repeatBuffer = index * Count(req) /\ shot > 0
                     ELSE buffer = index * Count(req) /\ (~useDma => count = 0)

\* How far a sampling is: with a DMA channel ...
Moving ==
  Flying /\ useDma =>
    /\ buffer = repeatBuffer
    /\ Live(chan) => /\ chan.left = Count(req) - oclen + left /\ chan.buffer = repeatBuffer
                     /\ "FDT" \notin chan.flags /\ Fresh(oclen - left)
    /\ "FDT" \in chan.flags => oclen = Count(req) /\ left = 0 /\ Fresh(oclen)

\* ... and with adc_at32_isr.
Reading1 ==
  Flying /\ ~useDma =>
    /\ buffer = repeatBuffer + count
    /\ count + left + (IF eoc THEN 1 ELSE 0) = oclen
    /\ Fresh(count)
    /\ eoc => data = [channel |-> osq[count + 1], shot |-> shot]

Completed ==
  outcome = "ok" => AllKept

\* The parts that are not about the callers.
ReadParts == Converter /\ Reading /\ Moving /\ Reading1 /\ Completed
ReadInv   == Protocol /\ ReadParts

LEMMA UpTo ==
  ASSUME NEW a \in Nat, NEW b \in Nat, b - 1 <= a, NEW i \in 0 .. (b - 1)
  PROVE  i \in 0 .. a
OBVIOUS

-----------------------------------------------------------------------------
(* Channels and their places *)

\* A mask of channels is a finite set, and has a place for each of them.
LEMMA Masks ==
  ASSUME NEW S, S \subseteq 0 .. 31
  PROVE  /\ IsFiniteSet(S) /\ Cardinality(S) \in Nat
         /\ S # {} => Cardinality(S) > 0
<1>1. IsFiniteSet(0 .. 31)
  <2>1. 0 \in Int /\ 31 \in Int
    OBVIOUS
  <2>. QED
    BY <2>1, FS_Interval, Zenon
<1>2. IsFiniteSet(S) /\ Cardinality(S) \in Nat
  BY <1>1, FS_Subset, FS_CardinalityType
<1>3. S # {} => Cardinality(S) > 0
  BY <1>2, FS_EmptySet
<1>. QED
  BY <1>2, <1>3

LEMMA RankRange ==
  ASSUME NEW S, S \subseteq 0 .. 31, NEW c \in S
  PROVE  Rank(S, c) \in 0 .. (Cardinality(S) - 1)
<1> DEFINE L == {d \in S : d < c}
<1>1. IsFiniteSet(S) /\ Cardinality(S) \in Nat /\ IsFiniteSet(L) /\ Cardinality(L) \in Nat
  <2>1. L \subseteq 0 .. 31
    OBVIOUS
  <2>. QED
    BY <2>1, Masks
<1>2. L \subseteq S /\ L # S
  OBVIOUS
<1>3. Cardinality(L) < Cardinality(S)
  BY <1>1, <1>2, FS_Subset
<1>. QED
  BY <1>1, <1>3 DEF Rank

\* No two channels have one place.
LEMMA RankOrder ==
  ASSUME NEW S, S \subseteq 0 .. 31, NEW c \in S, NEW d \in S, c < d
  PROVE  Rank(S, c) < Rank(S, d)
<1> DEFINE L == {e \in S : e < c}
           M == {e \in S : e < d}
<1>0. c \in Int /\ d \in Int /\ \A e \in S : e \in Int
  OBVIOUS
<1>1. M \subseteq 0 .. 31
  OBVIOUS
<1>2. \A e \in S : e < c => e < d
  BY <1>0
<1>3. L \subseteq M /\ c \in M
  BY <1>2
<1>4. c \notin L
  BY <1>0
<1>. HIDE DEF L, M
<1>5. IsFiniteSet(M) /\ L # M /\ L \in SUBSET M
  BY <1>1, <1>3, <1>4, Masks
<1>6. Cardinality(L) \in Nat /\ Cardinality(M) \in Nat
  BY <1>5, FS_Subset, FS_CardinalityType
<1>7. Cardinality(L) <= Cardinality(M) /\ Cardinality(L) # Cardinality(M)
  BY <1>5, FS_Subset
<1>8. Cardinality(L) < Cardinality(M)
  BY <1>6, <1>7
<1>. USE DEF L, M
<1>. QED
  BY <1>8 DEF Rank

LEMMA RankedRight ==
  ASSUME NEW S, S \subseteq 0 .. 31
  PROVE  /\ Len(Ranked(S)) = Cardinality(S)
         /\ \A c \in S : Ranked(S)[Rank(S, c) + 1] = c
<1> DEFINE n == Cardinality(S)
           s == Ranked(S)
           R == {s[k] : k \in 1 .. n}
<1>1. n \in Nat
  BY Masks
<1>2. Len(s) = n
  <2>1. s \in [1 .. n -> R]
    <3> DEFINE f(k) == CHOOSE c \in S : Cardinality({d \in S : d < c}) = k - 1
    <3>1. s = [k \in 1 .. n |-> f(k)]
      BY DEF Ranked
    <3>. HIDE DEF s, n, f
    <3>. QED
      BY <3>1
  <2>. HIDE DEF s, n, R
  <2>2. s \in Seq(R)
    BY <1>1, <2>1
  <2>. QED
    BY <1>1, <2>1, <2>2
<1>3. ASSUME NEW c \in S
      PROVE  s[Rank(S, c) + 1] = c
  <2> DEFINE k == Rank(S, c) + 1
             P(d) == Cardinality({e \in S : e < d}) = k - 1
  <2>0. Rank(S, c) \in 0 .. (n - 1)
    BY RankRange
  <2>1. k \in 1 .. n
    BY <1>1, <2>0
  <2>2. s[k] = CHOOSE d \in S : P(d)
    BY <2>1 DEF Ranked
  <2>3. P(c)
    <3>1. Rank(S, c) \in Int
      BY <2>0, <1>1
    <3>. QED
      BY <3>1 DEF Rank
  <2>4. ASSUME NEW d \in S, P(d) PROVE d = c
    <3>1. Rank(S, d) = Rank(S, c) /\ Rank(S, c) \in Int
      BY <2>0, <2>4, <1>1 DEF Rank
    <3>2. ASSUME d < c PROVE FALSE
      <4>1. Rank(S, d) < Rank(S, c)
        BY <3>2, RankOrder
      <4>. QED
        BY <3>1, <4>1
    <3>3. ASSUME c < d PROVE FALSE
      <4>1. Rank(S, c) < Rank(S, d)
        BY <3>3, RankOrder
      <4>. QED
        BY <3>1, <4>1
    <3>4. c \in Int /\ d \in Int
      OBVIOUS
    <3>. QED
      BY <3>2, <3>3, <3>4
  <2>. HIDE DEF P, k
  <2>5. s[k] \in S /\ P(s[k])
    BY <2>2, <2>3
  <2>. QED
    BY <2>4, <2>5 DEF k
<1>. QED
  BY <1>2, <1>3

\* The ranks that are converted: some, and no more than there are.
LEMMA RankCount ==
  ASSUME NEW n \in Nat \ {0}
  PROVE  ((n - 1) % Ranks) + 1 \in 1 .. n /\ ((n - 1) % Ranks) + 1 \in 1 .. Ranks
<1>1. ASSUME NEW a \in Nat, NEW b \in Nat \ {0}
      PROVE  a % b \in 0 .. (b - 1) /\ a % b <= a
  OBVIOUS
<1>2. PICK m : m = (n - 1) % Ranks
  OBVIOUS
<1>3. n - 1 \in Nat /\ Ranks \in Nat \ {0}
  BY RanksAssumption
<1>4. m \in 0 .. (Ranks - 1) /\ m <= n - 1
  BY <1>1, <1>2, <1>3
<1>5. m + 1 \in 1 .. n /\ m + 1 \in 1 .. Ranks
  BY <1>3, <1>4
<1>. QED
  BY <1>2, <1>5

\* set_sequencer programs the first channels of a mask.
LEMMA SetEffect ==
  ASSUME NEW r, r.channels \subseteq 0 .. 31, Count(r) \in Nat \ {0}, SetSequencer(r)
  PROVE  /\ oclen' \in 1 .. Count(r) /\ oclen' \in 1 .. Ranks
         /\ \A k \in 1 .. oclen' : osq'[k] = Ranked(r.channels)[k]
<1>1. PICK m : m = ((Count(r) - 1) % Ranks) + 1
  OBVIOUS
<1>2. m \in 1 .. Count(r) /\ m \in 1 .. Ranks
  BY <1>1, RankCount
<1>3. oclen' = m
  BY <1>1 DEF SetSequencer
<1>4. ASSUME NEW k \in 1 .. m
      PROVE  osq'[k] = Ranked(r.channels)[k]
  <2>1. k \in 1 .. Ranks /\ k <= Count(r)
    BY <1>2, RanksAssumption
  <2>2. osq' = [j \in 1 .. Ranks |-> IF j <= Count(r) THEN Ranked(r.channels)[j] ELSE osq[j]]
    BY DEF SetSequencer
  <2>. QED
    BY <2>1, <2>2
<1>. QED
  BY <1>2, <1>3, <1>4

\* The samples of different samplings lie apart.
LEMMA Apart ==
  ASSUME NEW i \in Nat, NEW j \in Nat, NEW n \in Nat, i < j
  PROVE  i * n + n <= j * n /\ i * n \in Nat /\ j * n \in Nat
<1>1. PICK k \in Nat : j = i + 1 + k
  <2>1. j - i - 1 \in Nat /\ j = i + 1 + (j - i - 1)
    OBVIOUS
  <2>. QED
    BY <2>1
<1>2. j * n = i * n + n + k * n /\ k * n \in Nat /\ i * n \in Nat
  BY <1>1
<1>. QED
  BY <1>2

\* What check_buffer makes sure of.
LEMMA Fits ==
  ASSUME NEW r, Sound(r)
  PROVE  /\ r.channels \subseteq 0 .. 31 /\ Count(r) \in Nat /\ Count(r) > 0
         /\ Count(r) < ItemLimit /\ Count(r) % ItemLimit = Count(r)
         /\ r.extra \in Nat /\ r.size \in Nat /\ r.size <= BufferSize
         /\ \A i \in 0 .. r.extra : i * Count(r) \in Nat /\ i * Count(r) + Count(r) <= r.size
<1>1. r.channels \subseteq 0 .. 31 /\ r.channels # {} /\ r.extra \in Nat /\ r.size \in 0 .. BufferSize
  BY ReadsAssumption DEF Sound
<1>2. Count(r) \in Nat /\ Count(r) > 0
  BY <1>1, Masks DEF Count
<1>3. ASSUME NEW i \in 0 .. r.extra
      PROVE  i * Count(r) \in Nat /\ i * Count(r) + Count(r) <= r.size
  <2>1. i \in Nat /\ 1 + r.extra \in Nat /\ i < 1 + r.extra
    BY <1>1
  <2>2. i * Count(r) + Count(r) <= (1 + r.extra) * Count(r) /\ i * Count(r) \in Nat
        /\ (1 + r.extra) * Count(r) \in Nat
    BY <1>2, <2>1, Apart
  <2>3. (1 + r.extra) * Count(r) = Count(r) * (1 + r.extra)
    BY <1>1, <1>2
  <2>. QED
    BY <1>1, <1>2, <2>2, <2>3, SlotsAssumption DEF Sound
<1>5. Count(r) < ItemLimit
  BY BlockAssumption DEF Sound, Count
<1>6. Count(r) % ItemLimit = Count(r)
  BY <1>2, <1>5, ItemAssumption
<1>4. r.size \in Nat /\ r.size <= BufferSize
  BY <1>1, SlotsAssumption
<1>. QED
  BY <1>1, <1>2, <1>3, <1>4, <1>5, <1>6

-----------------------------------------------------------------------------
(* What the operations of Dma make of the channel *)

LEMMA StartedEffect ==
  \A ch \in Channel, at \in Buffers, n \in Nat :
    LET z == Started(Configured(ch, at, n))
    IN  z \in Channel /\ z.buffer = at /\ z.left = n % ItemLimit /\ z.flags = {}
<1> SUFFICES ASSUME NEW ch \in Channel, NEW at \in Buffers, NEW n \in Nat,
                    NEW z, z = Started(Configured(ch, at, n))
             PROVE  z \in Channel /\ z.buffer = at /\ z.left = n % ItemLimit /\ z.flags = {}
  OBVIOUS
<1> DEFINE F == {"FDT"}
           m == n % ItemLimit
<1>1. m \in Nat /\ F \in SUBSET {"FDT"} /\ {} \in SUBSET {"FDT", "DTERR"}
  BY ItemAssumption
<1>2. PICK y : y = [ch EXCEPT !.on = FALSE, !.left = m, !.ints = F, !.flags = {}, !.buffer = at]
  OBVIOUS
<1>3. z = [y EXCEPT !.on = TRUE, !.busy = TRUE]
  BY <1>2 DEF Configured, Started
<1>. HIDE DEF F, m
<1>4. y \in Channel /\ y.buffer = at /\ y.left = m /\ y.flags = {}
  BY <1>1, <1>2 DEF Channel
<1>5. z \in Channel /\ z.buffer = at /\ z.left = m /\ z.flags = {}
  BY <1>3, <1>4 DEF Channel
<1>. QED
  BY <1>5 DEF m

LEMMA StoppedEffect ==
  ASSUME NEW ch \in Channel, NEW z, z = Stopped(Acknowledged(ch))
  PROVE  z \in Channel /\ ~z.on /\ "FDT" \notin z.flags
<1>1. PICK y : y = Acknowledged(ch)
  OBVIOUS
<1> DEFINE G == ch.flags \ {"FDT"}
           H == y.flags \ {"FDT"}
<1>2. y = [ch EXCEPT !.busy = FALSE, !.flags = G]
  BY <1>1 DEF Acknowledged
<1>3. G \in SUBSET {"FDT", "DTERR"}
  BY DEF Channel
<1>4. y \in Channel
  <2>. HIDE DEF G
  <2>. QED
    BY <1>2, <1>3 DEF Channel
<1>5. z = [y EXCEPT !.ints = {}, !.flags = H, !.on = FALSE, !.busy = FALSE]
  BY <1>1 DEF Stopped
<1>6. H \in SUBSET {"FDT", "DTERR"} /\ "FDT" \notin H /\ {} \in SUBSET {"FDT"}
  BY <1>4 DEF Channel
<1>7. z \in Channel /\ z.on = FALSE /\ z.flags = H
  <2>. HIDE DEF H
  <2>. QED
    BY <1>4, <1>5, <1>6 DEF Channel
<1>. QED
  BY <1>6, <1>7

LEMMA MovedEffect ==
  ASSUME NEW ch \in Channel, Live(ch), NEW z, z = Moved(ch)
  PROVE  /\ z \in Channel /\ z.left = ch.left - 1 /\ z.buffer = ch.buffer
         /\ ("FDT" \in z.flags <=> ch.left = 1 \/ "FDT" \in ch.flags)
<1> DEFINE G == IF ch.left = 1 THEN ch.flags \cup {"FDT"} ELSE ch.flags
           m == ch.left - 1
<1>1. z = [ch EXCEPT !.left = m, !.flags = G]
  BY DEF Moved
<1>2. G \in SUBSET {"FDT", "DTERR"} /\ m \in Nat
  BY DEF Channel, Live
<1>3. z \in Channel /\ z.left = m /\ z.buffer = ch.buffer /\ z.flags = G
  <2>. HIDE DEF G, m
  <2>. QED
    BY <1>1, <1>2 DEF Channel
<1>. QED
  BY <1>3

LEMMA ErroredEffect ==
  ASSUME NEW ch \in Channel, NEW z, z = Errored(ch)
  PROVE  z \in Channel /\ ~z.on /\ ("FDT" \in z.flags <=> "FDT" \in ch.flags)
<1> DEFINE G == ch.flags \cup {"DTERR"}
<1>1. z = [ch EXCEPT !.on = FALSE, !.flags = G]
  BY DEF Errored
<1>2. G \in SUBSET {"FDT", "DTERR"}
  BY DEF Channel
<1>3. z \in Channel /\ z.on = FALSE /\ z.flags = G
  <2>. HIDE DEF G
  <2>. QED
    BY <1>1, <1>2 DEF Channel
<1>. QED
  BY <1>3

-----------------------------------------------------------------------------
(* Storing a sample *)

\* The places of a read's samples are in the buffer.
LEMMA Places ==
  ASSUME NEW r, Sound(r), NEW i \in 0 .. r.extra, NEW k \in 0 .. (Count(r) - 1)
  PROVE  i * Count(r) + k \in Buffers /\ i * Count(r) \in Buffers /\ i \in Buffers
<1>1. /\ Count(r) \in Nat /\ Count(r) > 0 /\ r.size \in Nat /\ r.size <= BufferSize
      /\ i * Count(r) \in Nat /\ i * Count(r) + Count(r) <= r.size
  BY Fits
<1>2. i \in Nat /\ i <= i * Count(r)
  <2>1. r.extra \in Nat
    BY Fits
  <2>2. PICK m \in Nat : Count(r) = m + 1
    <3>1. Count(r) - 1 \in Nat /\ Count(r) = (Count(r) - 1) + 1
      BY <1>1
    <3>. QED
      BY <3>1
  <2>3. i \in Nat /\ i * (m + 1) = i * m + i /\ i * m \in Nat
    BY <2>1
  <2>. QED
    BY <2>2, <2>3
<1>3. Buffers = 0 .. (BufferSize - 1) /\ BufferSize \in Nat
  BY SlotsAssumption
<1> DEFINE q == i * Count(r)
<1>4. q \in Nat /\ q + Count(r) <= BufferSize /\ i <= q /\ i \in Nat
  <2>1. i \in Nat
    BY Fits
  <2>. QED
    BY <1>1, <1>2, <1>3, <2>1
<1>. HIDE DEF q
<1>5. q + k \in Buffers /\ q \in Buffers /\ i \in Buffers
  BY <1>1, <1>3, <1>4
<1>. QED
  BY <1>5 DEF q

LEMMA StoredEffect ==
  ASSUME mem = [s \in Buffers |-> mem[s]], NEW at \in Buffers, NEW x, NEW m, m = Stored(mem, at, x)
  PROVE  /\ m = [s \in Buffers |-> m[s]]
         /\ \A s \in Buffers : m[s] = IF s = at THEN x ELSE mem[s]
BY DEF Stored

\* The next sample of a sampling, stored at its place, leaves every sampling
\* before it alone.
LEMMA NextSample ==
  ASSUME Types, Sound(req), repeatBuffer = index * Count(req),
         NEW k \in 0 .. (Count(req) - 1), osq[k + 1] = Ranked(req.channels)[k + 1],
         Fresh(k), Kept(index),
         mem' = Stored(mem, repeatBuffer + k, [channel |-> osq[k + 1], shot |-> shot])
  PROVE  /\ mem' = [s \in Buffers |-> mem'[s]]
         /\ \A c \in req.channels :
              Rank(req.channels, c) < k + 1 =>
                mem'[index * Count(req) + Rank(req.channels, c)] = [channel |-> c, shot |-> shot]
         /\ \A i \in 0 .. (index - 1), c \in req.channels :
              mem'[i * Count(req) + Rank(req.channels, c)] = [channel |-> c, shot |-> accepted[i]]
<1> DEFINE n == Count(req)
           at == repeatBuffer + k
           S == req.channels
<1>1. S \subseteq 0 .. 31 /\ n \in Nat /\ n = Cardinality(S) /\ req.extra \in Nat
  BY Fits DEF Count
<1>2. index \in 0 .. req.extra /\ index \in Nat
  BY <1>1 DEF Types
<1>3. at \in Buffers
  BY <1>2, Places
<1>4. /\ mem' = [s \in Buffers |-> mem'[s]]
      /\ \A s \in Buffers : mem'[s] = IF s = at THEN [channel |-> osq[k + 1], shot |-> shot] ELSE mem[s]
  BY <1>3, StoredEffect DEF Types
<1>5. \A c \in S : Rank(S, c) \in 0 .. (n - 1) /\ (Rank(S, c) = k => osq[k + 1] = c)
  BY <1>1, RankRange, RankedRight
<1>6. index * n \in Nat
  BY <1>1, <1>2
<1>7. ASSUME NEW c \in S, Rank(S, c) < k + 1
      PROVE  mem'[index * n + Rank(S, c)] = [channel |-> c, shot |-> shot]
  <2>1. index * n + Rank(S, c) \in Buffers /\ Rank(S, c) \in Nat
    BY <1>1, <1>2, <1>5, Places
  <2>2. CASE Rank(S, c) = k
    BY <1>4, <1>5, <2>1, <2>2
  <2>3. CASE Rank(S, c) < k
    <3>1. index * n + Rank(S, c) # at
      BY <1>6, <2>1, <2>3
    <3>. QED
      BY <1>4, <2>1, <2>3, <3>1 DEF Fresh
  <2>. QED
    BY <1>7, <2>1, <2>2, <2>3
<1>8. ASSUME NEW i \in 0 .. (index - 1), NEW c \in S
      PROVE  mem'[i * n + Rank(S, c)] = [channel |-> c, shot |-> accepted[i]]
  <2>1. i \in 0 .. req.extra /\ i \in Nat /\ i < index
    BY <1>1, <1>2
  <2>2. Rank(S, c) \in 0 .. (n - 1)
    BY <1>5
  <2>3. i * n + Rank(S, c) \in Buffers
    BY <2>1, <2>2, Places
  <2>4. i * n + n <= index * n /\ i * n \in Nat
    BY <1>1, <1>2, <2>1, Apart
  <2>5. i * n + Rank(S, c) # at
    BY <1>1, <1>6, <2>2, <2>4
  <2>. QED
    BY <1>4, <2>3, <2>5 DEF Kept
<1>. QED
  BY <1>4, <1>7, <1>8

-----------------------------------------------------------------------------
(* Parts of steps *)

\* What the parts of the invariant that are not about the callers look at.
reading == <<useDma, req, timer, requested, index, buffer, repeatBuffer, count, osq, oclen,
             chan, left, eoc, data, mem, shot, accepted, outcome>>

LEMMA ReadFrame ==
  ASSUME ReadParts, UNCHANGED reading
  PROVE  ReadParts' /\ On' = On
<1>1. UNCHANGED <<useDma, req, timer, requested, index, buffer, repeatBuffer, count, osq, oclen,
                  chan, left, eoc, data, mem, shot, accepted, outcome>>
  BY DEF reading
<1>2. On' = On /\ Flying' = Flying
  BY <1>1 DEF On, Flying
<1>3. \A k : Fresh(k)' = Fresh(k) /\ Kept(k)' = Kept(k)
  BY <1>1 DEF Fresh, Kept
<1>4. Converter'
  BY <1>1, <1>2 DEF ReadParts, Converter, Live
<1>5. Reading'
  BY <1>1, <1>2, <1>3 DEF ReadParts, Reading, Programmed
<1>6. Moving'
  BY <1>1, <1>2, <1>3 DEF ReadParts, Moving, Live
<1>7. Reading1'
  BY <1>1, <1>2, <1>3 DEF ReadParts, Reading1
<1>8. Completed'
  <2>1. AllKept' = AllKept
    BY <1>1 DEF AllKept
  <2>. QED
    BY <1>1, <2>1 DEF ReadParts, Completed
<1>. QED
  BY <1>2, <1>4, <1>5, <1>6, <1>7, <1>8 DEF ReadParts

\* Where no read is on, the hardware is still.
LEMMA ReadOff ==
  ASSUME ~On', UNCHANGED <<useDma, chan, left, eoc>>, ReadParts, ~On, left' \in 0 .. oclen',
         ~timer', outcome' = "none"
  PROVE  ReadParts'
<1>1. left = 0 /\ ~eoc /\ ~Live(chan) /\ "FDT" \notin chan.flags /\ (~useDma => chan.flags = {})
  BY DEF ReadParts, Converter, Flying
<1>2. ~Flying'
  BY DEF Flying
<1>3. Converter'
  BY <1>1, <1>2 DEF Converter, Live
<1>. QED
  BY <1>2, <1>3 DEF ReadParts, Reading, Moving, Reading1, Completed

\* adc_context_start_sampling
LEMMA SamplingBegins ==
  ASSUME useDma \in BOOLEAN, useDma' = useDma, chan \in Channel, shot \in Nat,
         ~useDma => ~Live(chan) /\ chan.flags = {},
         NEW n, NEW at, StartSampling(at, n, oclen'),
         Sound(req'), n = Count(req'), index' \in 0 .. req'.extra, at = index' * n,
         Programmed', On', req'.interval => requested' > 0,
         timer' => req'.interval /\ outcome' = "none",
         ~eoc', ~useDma => count' = 0,
         Kept(index)'
  PROVE  /\ ReadParts' /\ chan' \in Channel /\ left' \in Nat /\ shot' \in Nat
         /\ buffer' \in 0 .. BufferSize /\ repeatBuffer' \in 0 .. BufferSize
<1>1. /\ n \in Nat /\ n > 0 /\ n % ItemLimit = n /\ req'.channels \subseteq 0 .. 31
      /\ n = Cardinality(req'.channels) /\ oclen' \in Nat /\ oclen' > 0 /\ oclen' <= n
      /\ oclen' - oclen' = 0 /\ n - oclen' + oclen' = n
  <2>1. /\ n \in Nat /\ n > 0 /\ n % ItemLimit = n /\ req'.channels \subseteq 0 .. 31
        /\ n = Cardinality(req'.channels) /\ oclen' \in 1 .. n
    BY Fits DEF Count, Programmed
  <2>. QED
    BY <2>1
<1>2. at \in Buffers /\ at \in Nat
  <2>1. 0 \in 0 .. (n - 1)
    BY <1>1
  <2>2. at \in Buffers
    BY <2>1, Places
  <2>. QED
    BY <2>2, SlotsAssumption
<1>3. buffer' = at /\ repeatBuffer' = at /\ left' = oclen' /\ shot' = shot + 1 /\ shot' \in Nat /\ shot' > 0
  BY DEF StartSampling
<1>4. /\ useDma => chan' \in Channel /\ chan'.buffer = at /\ chan'.left = n /\ chan'.flags = {}
      /\ ~useDma => chan' = chan
  <2>1. chan' = IF useDma THEN Started(Configured(chan, at, n)) ELSE chan
    BY DEF StartSampling, DmaStart
  <2>2. CASE useDma
    <3>1. chan' = Started(Configured(chan, at, n))
      BY <2>1, <2>2
    <3>2. chan' \in Channel /\ chan'.buffer = at /\ chan'.left = n % ItemLimit /\ chan'.flags = {}
      <4>1. n \in Nat /\ at \in Buffers /\ chan \in Channel
        BY <1>1, <1>2
      <4>. QED
        BY <3>1, <4>1, StartedEffect
    <3>. QED
      BY <1>1, <2>2, <3>2
  <2>. QED
    BY <2>1, <2>2
<1>5. Flying'
  BY DEF Flying
<1>6. \A c \in req'.channels : ~(Rank(req'.channels, c) < 0)
  BY <1>1, RankRange
<1>8. Converter'
  BY <1>3, <1>4, <1>5, <1>1 DEF Converter, Live
<1>9. Reading'
  BY <1>3, <1>5 DEF Reading
<1>10. Moving'
  <2>1. SUFFICES ASSUME useDma'
                 PROVE  /\ buffer' = repeatBuffer' /\ chan'.left = Count(req') - oclen' + left'
                        /\ chan'.buffer = repeatBuffer'
                        /\ "FDT" \notin chan'.flags /\ Fresh(oclen - left)'
    BY DEF Moving
  <2>2. oclen' - left' = 0
    BY <1>1, <1>3
  <2>3. Fresh(oclen - left)'
    BY <1>6, <2>2 DEF Fresh
  <2>. QED
    <3>1. chan'.left = n /\ chan'.buffer = repeatBuffer' /\ chan'.flags = {}
      BY <1>3, <1>4, <2>1
    <3>2. buffer' = repeatBuffer' /\ Count(req') - oclen' + left' = n
      BY <1>1, <1>3
    <3>. QED
      BY <2>3, <3>1, <3>2
<1>11. Reading1'
  <2>1. SUFFICES ASSUME ~useDma'
                 PROVE  buffer' = repeatBuffer' + count' /\ count' + left' + 0 = oclen' /\ Fresh(count)'
    BY DEF Reading1
  <2>2. count' = 0
    BY <2>1
  <2>3. Fresh(count)'
    BY <1>6, <2>2 DEF Fresh
  <2>. QED
    <3>1. buffer' = repeatBuffer' + count'
      BY <1>2, <1>3, <2>2
    <3>2. count' + left' + 0 = oclen'
      <4>1. \A a \in Nat : 0 + a + 0 = a
        OBVIOUS
      <4>2. oclen' \in Nat /\ left' = oclen'
        BY <1>1, <1>3
      <4>3. 0 + oclen' + 0 = oclen'
        BY <4>1, <4>2, Zenon
      <4>. QED
        BY <2>2, <4>2, <4>3, Zenon
    <3>. QED
      BY <2>3, <3>1, <3>2
<1>12. Completed'
  BY DEF On, Completed
<1>13. buffer' \in 0 .. BufferSize /\ repeatBuffer' \in 0 .. BufferSize
  BY <1>2, <1>3, SlotsAssumption
<1>. QED
  BY <1>3, <1>4, <1>8, <1>9, <1>10, <1>11, <1>12, <1>13, <1>1 DEF ReadParts

-----------------------------------------------------------------------------
(* The callers *)

Inv == Types /\ ReadInv

\* The number of channels is a number.
LEMMA CountNat ==
  ASSUME NEW r \in Reads \cup {NoRead}
  PROVE  Count(r) \in Nat /\ r.extra \in Nat
<1>1. r.channels \subseteq 0 .. 31 /\ r.extra \in Nat
  BY ReadsAssumption DEF NoRead
<1>. QED
  BY <1>1, Masks DEF Count

LEMMA InitInv == Init => Inv
<1> SUFFICES ASSUME Init PROVE Inv
  OBVIOUS
<1>1. /\ NoRead.extra = 0 /\ NoRead.channels = {} /\ Count(NoRead) = 0
  BY FS_EmptySet DEF NoRead, Count
<1>2. chan \in Channel /\ ~Live(chan) /\ chan.flags = {}
  <2>1. 0 \in Buffers
    BY SlotsAssumption
  <2>. QED
    BY <2>1 DEF Init, Reset, Channel, Live
<1>3. ~On /\ ~Flying
  BY DEF Init, On, Flying
<1>4. oclen = 1 /\ 1 \in 1 .. Ranks /\ 0 \in 0 .. 1
  BY RanksAssumption DEF Init
<1>5. mem = [s \in Buffers |-> mem[s]] /\ accepted = [i \in Buffers |-> accepted[i]]
  BY DEF Init
<1>6. Types
  <2>1. /\ pc \in [Callers -> {"idle", "start", "wait", "release"}]
        /\ call \in [Callers -> Reads \cup {NoRead}]
        /\ ret \in [Callers -> {"ok", "ebusy"} \cup Refusals]
    BY DEF Init
  <2>2. /\ index \in 0 .. req.extra /\ requested \in 0 .. MaxRequested
        /\ buffer \in 0 .. BufferSize /\ repeatBuffer \in 0 .. BufferSize
        /\ count \in 0 .. Count(req) /\ left \in Nat /\ shot \in Nat
    BY <1>1, BoundsAssumption, SlotsAssumption DEF Init
  <2>3. /\ useDma \in BOOLEAN /\ req \in Reads \cup {NoRead} /\ async \in BOOLEAN /\ timer \in BOOLEAN
        /\ eoc \in BOOLEAN
    BY DEF Init
  <2>4. lock \in 0 .. 1 /\ sync \in 0 .. 1 /\ res \subseteq {0, 1}
    BY DEF Init
  <2>5. /\ status \in {"ok", "ebusy"} /\ outcome \in {"none", "ok", "ebusy"}
    BY DEF Init
  <2>6. oclen \in 1 .. Ranks /\ held \in Int /\ owed \in Int
    BY <1>4 DEF Init
  <2>. QED
    BY <1>2, <1>5, <2>1, <2>2, <2>3, <2>4, <2>5, <2>6 DEF Types
<1>7. Protocol
  BY <1>3 DEF Init, Protocol
<1>8. ReadParts
  BY <1>2, <1>3, <1>4 DEF Init, ReadParts, Converter, Reading, Moving, Reading1, Completed
<1>. QED
  BY <1>6, <1>7, <1>8 DEF Inv, ReadInv

LEMMA LockInv ==
  ASSUME NoSlip, Inv, NEW c \in Callers, Lock(c)
  PROVE  Inv'
<1> USE DEF Inv, ReadInv
<1>1. \A d \in Callers : pc[d] = "idle"
  BY DEF Lock, NoSlip
<1>2. PICK r \in Reads : call' = [call EXCEPT ![c] = r] /\ async' = r.async
  BY DEF Lock
<1>3. ~On /\ sync = 0 /\ ~timer
  BY DEF Lock, Protocol, ReadParts, Converter, On
<1>4. ~On' /\ timer' = timer /\ outcome' = "none" /\ shot' = 0
  BY <1>3 DEF Lock, On
<1>5. UNCHANGED <<useDma, chan, left, eoc, osq, oclen>>
  BY DEF Lock, hw
<1>6. left' \in 0 .. oclen'
  BY <1>5 DEF ReadParts, Converter
<1>7. ReadParts'
  BY <1>3, <1>4, <1>5, <1>6, ReadOff
<1>8. r.async \in BOOLEAN
  BY ReadsAssumption
<1>9. Types'
  <2>1. call' \in [Callers -> Reads \cup {NoRead}] /\ pc' \in [Callers -> {"idle", "start", "wait", "release"}]
    BY <1>2 DEF Types, Lock
  <2>2. mem' = [s \in Buffers |-> mem'[s]] /\ accepted' = [i \in Buffers |-> accepted'[i]]
    BY DEF Lock
  <2>3. held' \in Int /\ owed' \in Int
    BY DEF Lock, Types
  <2>. QED
    BY <1>2, <1>8, <2>1, <2>2, <2>3 DEF Types, Lock, hw, position
<1>10. Protocol'
  <2>1. \A d \in Callers : pc'[d] = IF d = c THEN "start" ELSE "idle"
    BY <1>1 DEF Lock, Types
  <2>2. call'[c] = r /\ sync' = 0 /\ lock' = 0
    BY <1>2, <1>3 DEF Lock, Types
  <2>. QED
    BY <1>2, <1>3, <1>4, <2>1, <2>2 DEF Protocol
<1>. QED
  BY <1>7, <1>9, <1>10

LEMMA RefuseInv ==
  ASSUME Inv, NEW c \in Callers, Refuse(c)
  PROVE  Inv'
<1> USE DEF Inv, ReadInv
<1> DEFINE r == call[c]
<1>1. /\ pc[c] = "start" /\ lock = 0 /\ sync = 0 /\ shot = 0 /\ ~timer /\ outcome = "none"
      /\ r \in Reads /\ ~On
  BY DEF Refuse, Protocol, On
<1>2. UNCHANGED <<useDma, chan, left, eoc, timer, outcome, shot, lock, sync, async, call>>
  BY DEF Refuse, ctx, history
<1>3. ~On'
  BY <1>1, <1>2 DEF On
<1>4. left = 0
  BY <1>1 DEF ReadParts, Converter, Flying, Types
<1>5. left' \in 0 .. oclen' /\ oclen' \in 1 .. Ranks
  <2>1. CASE Refusal(r) \in {"enomem", "enotsup"}
    <3>1. SetSequencer(r) /\ r.channels # {} /\ r.channels \subseteq 0 .. 31
      BY <1>1, <2>1, ReadsAssumption DEF Refuse, Refusal
    <3>2. Count(r) \in Nat \ {0}
      BY <3>1, Masks DEF Count
    <3>3. oclen' \in 1 .. Ranks
      BY <3>1, <3>2, SetEffect
    <3>. QED
      BY <1>2, <1>4, <3>3, RanksAssumption
  <2>2. CASE Refusal(r) \notin {"enomem", "enotsup"}
    BY <2>2 DEF Refuse, Types, ReadParts, Converter
  <2>. QED
    BY <2>1, <2>2
<1>6. ReadParts'
  BY <1>1, <1>2, <1>3, <1>5, ReadOff
<1>7. Types'
  <2>1. Refusal(r) \in Refusals
    BY DEF Refuse, Refusal, Refusals
  <2>2. ret' \in [Callers -> {"ok", "ebusy"} \cup Refusals]
        /\ pc' \in [Callers -> {"idle", "start", "wait", "release"}]
    BY <2>1 DEF Types, Refuse
  <2>3. res' \subseteq {0, 1}
    BY DEF Refuse, SetResolution, ResBits, Types
  <2>4. count' = 0 /\ 0 \in 0 .. Count(req) /\ buffer' = 0 /\ 0 \in 0 .. BufferSize
    BY SlotsAssumption, CountNat DEF Refuse, FreshCount, Types
  <2>. QED
    BY <1>5, <2>2, <2>3, <2>4 DEF Types, Refuse, ctx, power, history
<1>8. Protocol'
  <2>1. \A d \in Callers : pc'[d] = IF d = c THEN "release" ELSE pc[d]
    BY DEF Refuse, Types
  <2>. QED
    BY <1>1, <1>2, <1>3, <2>1 DEF Protocol
<1>. QED
  BY <1>6, <1>7, <1>8

LEMMA StartInv ==
  ASSUME Inv, NEW c \in Callers, StartRead(c)
  PROVE  Inv'
<1> USE DEF Inv, ReadInv
<1> DEFINE r == call[c]
           n == Count(r)
<1>1. /\ pc[c] = "start" /\ lock = 0 /\ sync = 0 /\ shot = 0 /\ ~timer /\ outcome = "none"
      /\ r \in Reads /\ r.async = async /\ ~On
  BY DEF StartRead, Protocol, On
<1>2. Sound(r)
  <2>1. r.channels # {} /\ ~TooSmall(r)
    BY DEF StartRead, Refusal
  <2>2. r.size \in Nat /\ n \in Nat /\ r.extra \in Nat
    BY <1>1, CountNat, ReadsAssumption, SlotsAssumption
  <2>3. n * (1 + r.extra) \in Nat
    BY <2>2
  <2>4. n * (1 + r.extra) <= r.size
    BY <2>1, <2>2, <2>3 DEF TooSmall
  <2>. QED
    BY <1>1, <2>1, <2>4 DEF Sound
<1>3. /\ n \in Nat /\ n > 0 /\ r.extra \in Nat /\ r.channels \subseteq 0 .. 31
  BY <1>2, Fits
<1>4. left = 0 /\ ~eoc /\ ~Live(chan) /\ "FDT" \notin chan.flags /\ (~useDma => chan.flags = {})
  BY <1>1 DEF ReadParts, Converter, Flying, Types
<1>5. /\ req' = r /\ count' = 0 /\ index' = 0
      /\ UNCHANGED <<useDma, call, lock, async, sync, eoc, held, owed, outcome>>
  BY DEF StartRead, FreshCount, power
<1>6. Programmed' /\ oclen' \in 1 .. Ranks
  <2>1. SetSequencer(r) /\ n \in Nat \ {0}
    BY <1>3 DEF StartRead
  <2>2. /\ oclen' \in 1 .. Count(r) /\ oclen' \in 1 .. Ranks
        /\ \A k \in 1 .. oclen' : osq'[k] = Ranked(r.channels)[k]
    BY <1>3, <2>1, SetEffect
  <2>. QED
    BY <1>5, <2>2 DEF Programmed
<1>7. Kept(index)' /\ index' * n = 0
  <2>1. 0 .. (index' - 1) = {}
    BY <1>5
  <2>. QED
    BY <1>3, <1>5, <2>1 DEF Kept
<1>8. On' /\ ReadParts' /\ chan' \in Channel /\ left' \in Nat /\ shot' \in Nat
      /\ buffer' \in 0 .. BufferSize /\ repeatBuffer' \in 0 .. BufferSize
      /\ requested' \in 0 .. MaxRequested /\ timer' \in BOOLEAN
  <2>1. CASE r.interval
    <3>1. /\ requested' = 0 /\ timer' = TRUE /\ buffer' = 0
          /\ UNCHANGED <<repeatBuffer, chan, left, shot>>
      BY <2>1 DEF StartRead
    <3>2. On' /\ ~Flying'
      BY <1>1, <1>5, <2>1, <3>1 DEF On, Flying
    <3>3. Converter'
      <4>1. left' \in 0 .. oclen'
        BY <1>4, <1>6, <3>1, RanksAssumption
      <4>. QED
        BY <1>1, <1>3, <1>4, <1>5, <2>1, <3>1, <4>1 DEF Converter, Live
    <3>4. Reading'
      BY <1>1, <1>2, <1>3, <1>5, <1>6, <1>7, <3>1, <3>2 DEF Reading
    <3>5. Moving' /\ Reading1' /\ Completed'
      BY <1>1, <1>5, <3>2 DEF Moving, Reading1, Completed
    <3>. QED
      BY <3>1, <3>2, <3>3, <3>4, <3>5, SlotsAssumption, BoundsAssumption DEF ReadParts, Types
  <2>2. CASE ~r.interval
    <3>1. StartSampling(0, n, oclen') /\ UNCHANGED <<requested, timer>>
      BY <2>2 DEF StartRead
    <3>2. On' /\ shot' = 1
      BY <1>1, <1>5, <3>1 DEF StartSampling, On
    <3>3. useDma \in BOOLEAN /\ chan \in Channel /\ shot \in Nat /\ requested \in 0 .. MaxRequested
      BY DEF Types
    <3>4. index' \in 0 .. req'.extra
      BY <1>3, <1>5
    <3>5. ReadParts' /\ chan' \in Channel /\ left' \in Nat /\ shot' \in Nat
          /\ buffer' \in 0 .. BufferSize /\ repeatBuffer' \in 0 .. BufferSize
      <4>1. Sound(req') /\ n = Count(req')
        BY <1>2, <1>5
      <4>2. ~eoc' /\ (~useDma => count' = 0) /\ 0 = index' * n /\ (req'.interval => requested' > 0)
        BY <1>4, <1>5, <1>7, <2>2
      <4>3. (timer' => req'.interval /\ outcome' = "none") /\ useDma' = useDma
        BY <1>1, <1>5, <3>1
      <4>. HIDE DEF n, r, Inv, ReadInv
      <4>. QED
        BY <1>4, <1>6, <1>7, <3>1, <3>2, <3>3, <3>4, <4>1, <4>2, <4>3, SamplingBegins
    <3>. QED
      BY <1>1, <3>1, <3>2, <3>3, <3>5 DEF Types
  <2>. QED
    BY <2>1, <2>2
<1>9. Types'
  <2>1. pc' \in [Callers -> {"idle", "start", "wait", "release"}]
    BY DEF Types, StartRead
  <2>2. res' \subseteq {0, 1} /\ status' = "ok" /\ UNCHANGED <<ret, mem, accepted>>
    BY DEF StartRead, SetResolution, ResBits, Types
  <2>3. index' \in 0 .. req'.extra /\ count' \in 0 .. Count(req') /\ req' \in Reads
    BY <1>1, <1>3, <1>5
  <2>. QED
    BY <1>5, <1>6, <1>8, <2>1, <2>2, <2>3 DEF Types
<1>10. Protocol'
  <2>1. \A d \in Callers : pc'[d] = IF d = c THEN "wait" ELSE pc[d]
    BY DEF StartRead, Types
  <2>. QED
    BY <1>1, <1>5, <1>8, <2>1 DEF Protocol
<1>. QED
  BY <1>8, <1>9, <1>10

LEMMA WaitInv ==
  ASSUME Inv, NEW c \in Callers, Wait(c)
  PROVE  Inv'
<1> USE DEF Inv, ReadInv
<1>1. UNCHANGED reading
  BY DEF Wait, reading, position, hw, history
<1>2. ReadParts' /\ On' = On
  BY <1>1, ReadFrame
<1>3. Types'
  <2>1. ret' \in [Callers -> {"ok", "ebusy"} \cup Refusals]
        /\ pc' \in [Callers -> {"idle", "start", "wait", "release"}] /\ sync' \in 0 .. 1
    BY DEF Wait, Types
  <2>. QED
    BY <2>1 DEF Types, Wait, position, hw, power, history
<1>4. Protocol'
  <2>1. /\ \A d \in Callers : pc'[d] = IF d = c THEN "release" ELSE pc[d]
        /\ \A d \in Callers : d # c => ret'[d] = ret[d]
    BY DEF Wait, Types
  <2>2. /\ pc[c] = "wait"
        /\ UNCHANGED <<call, lock, async, timer, outcome, shot>>
    BY DEF Wait, history
  <2>3. \A d \in Callers : d # c => pc[d] = "idle"
    BY <2>2 DEF Protocol
  <2>4. CASE async
    <3>1. sync' = sync /\ ret'[c] = "ok"
      BY <2>4 DEF Wait, Types
    <3>. QED
      BY <1>2, <2>1, <2>2, <2>3, <2>4, <3>1 DEF Protocol
  <2>5. CASE ~async
    <3>1. sync = 1 /\ sync' = 0
      BY <2>5 DEF Wait
    <3>. QED
      BY <1>2, <2>1, <2>2, <2>3, <2>5, <3>1 DEF Protocol
  <2>. QED
    BY <2>4, <2>5
<1>. QED
  BY <1>2, <1>3, <1>4

LEMMA ReleaseInv ==
  ASSUME Inv, NEW c \in Callers, Release(c)
  PROVE  Inv'
<1> USE DEF Inv, ReadInv
<1>1. UNCHANGED reading
  BY DEF Release, reading, position, hw, history
<1>2. ReadParts' /\ On' = On
  BY <1>1, ReadFrame
<1>3. Types'
  <2>1. call' \in [Callers -> Reads \cup {NoRead}] /\ lock' \in 0 .. 1
        /\ pc' \in [Callers -> {"idle", "start", "wait", "release"}]
    BY DEF Release, Types
  <2>2. owed' \in Int
    BY DEF Release, Types
  <2>. QED
    BY <2>1, <2>2 DEF Types, Release, position, hw, history
<1>4. Protocol'
  <2>1. \A d \in Callers : pc'[d] = IF d = c THEN "idle" ELSE pc[d]
    BY DEF Release, Types
  <2>2. /\ pc[c] = "release" /\ UNCHANGED <<ret, async, sync, timer, outcome, shot>>
        /\ lock' = (IF async /\ ret[c] = "ok" THEN lock ELSE 1)
    BY DEF Release, history
  <2>3. \A d \in Callers : d # c => pc[d] = "idle"
    BY <2>2 DEF Protocol
  <2>4. \A d \in Callers : pc'[d] = "idle"
    BY <2>1, <2>3
  <2>. QED
    BY <1>2, <2>2, <2>4 DEF Protocol
<1>. QED
  BY <1>2, <1>3, <1>4

-----------------------------------------------------------------------------
(* The handlers *)

\* What a sampling leaves that is done: its samples, the samples of those before
\* it, and a channel that is stopped.
Sampled ==
  /\ mem' = [s \in Buffers |-> mem'[s]]
  /\ \A c \in req.channels :
       mem'[index * Count(req) + Rank(req.channels, c)] = [channel |-> c, shot |-> shot]
  /\ \A i \in 0 .. (index - 1), c \in req.channels :
       mem'[i * Count(req) + Rank(req.channels, c)] = [channel |-> c, shot |-> accepted[i]]
  /\ left = 0 /\ ~eoc' /\ count' \in 0 .. Count(req) /\ (~useDma => count' = 0)

LEMMA SampledInv ==
  ASSUME Inv, Flying, Sampled, NEW action \in {"continue", "finish", "repeat"},
         NEW ch \in Channel, ~Live(ch), "FDT" \notin ch.flags, ~useDma => ch = chan,
         OnSamplingDone(action, index * Count(req) + Count(req), ch),
         UNCHANGED <<useDma, callers, async, req, status, res, osq, oclen>>
  PROVE  Inv'
<1> USE DEF Inv, ReadInv
<1> DEFINE n == Count(req)
           S == req.channels
           finish == action = "finish" \/ (action # "repeat" /\ index = req.extra)
<1>1. /\ On /\ Sound(req) /\ Programmed /\ repeatBuffer = index * n /\ shot > 0 /\ shot \in Nat
      /\ outcome = "none"
  BY DEF ReadParts, Reading, Flying, On, Types
<1>2. /\ n \in Nat /\ n > 0 /\ req.extra \in Nat /\ S \subseteq 0 .. 31 /\ n = Cardinality(S)
      /\ index \in 0 .. req.extra /\ index \in Nat
  BY <1>1, Fits DEF Count, Types
<1>3. index \in Buffers
  <2>1. 0 \in 0 .. (n - 1)
    BY <1>2
  <2>. QED
    BY <1>1, <1>2, <2>1, Places
<1>4. /\ accepted' = [accepted EXCEPT ![index] = shot] /\ held' \in Int /\ owed' \in Int
      /\ UNCHANGED <<useDma, pc, call, ret, async, req, status, res, osq, oclen>>
      /\ Programmed' /\ oclen' \in 1 .. Ranks
  <2>1. held \in Int /\ owed \in Int /\ oclen \in 1 .. Ranks
    BY DEF Types
  <2>2. held' = held - 1 /\ (owed' = owed \/ owed' = owed - 1)
    BY DEF OnSamplingDone, PutLock
  <2>3. UNCHANGED <<useDma, pc, call, ret, async, req, status, res, osq, oclen>>
    BY DEF callers
  <2>4. Programmed'
    BY <1>1, <2>3 DEF Programmed
  <2>5. accepted' = [accepted EXCEPT ![index] = shot]
    BY DEF OnSamplingDone
  <2>. QED
    BY <2>1, <2>2, <2>3, <2>4, <2>5
<1>5. /\ accepted' = [i \in Buffers |-> accepted'[i]] /\ accepted'[index] = shot
      /\ \A i \in 0 .. (index - 1) : accepted'[i] = accepted[i]
  <2>1. accepted = [i \in Buffers |-> accepted[i]]
    BY DEF Types
  <2>2. \A i \in 0 .. (index - 1) : i # index
    BY <1>2
  <2>3. accepted' = [accepted EXCEPT ![index] = shot]
    BY <1>4
  <2>. QED
    BY <1>3, <2>1, <2>2, <2>3
<1>6. \A i \in 0 .. index, c \in S :
        mem'[i * n + Rank(S, c)] = [channel |-> c, shot |-> accepted'[i]]
  <2>1. ASSUME NEW i \in 0 .. index, NEW c \in S
        PROVE  mem'[i * n + Rank(S, c)] = [channel |-> c, shot |-> accepted'[i]]
    <3>1. CASE i = index
      BY <1>5, <3>1 DEF Sampled
    <3>2. CASE i \in 0 .. (index - 1)
      BY <1>5, <3>2 DEF Sampled
    <3>. QED
      BY <1>2, <3>1, <3>2
  <2>. QED
    BY <2>1
<1>7. lock = 0 /\ sync = 0 /\ (\A c \in Callers : pc[c] # "start")
      /\ (~async => \A c \in Callers : pc[c] \in {"idle", "wait"})
  BY <1>1 DEF Protocol, On, Types
<1>8. mem' = [s \in Buffers |-> mem'[s]] /\ ~eoc' /\ count' \in 0 .. n /\ left = 0
      /\ (~useDma => count' = 0) /\ eoc' \in BOOLEAN
  <2>1. eoc' = FALSE
    BY DEF Sampled
  <2>. QED
    BY <2>1 DEF Sampled
<1>9. useDma => ~eoc
  BY DEF ReadParts, Converter
<1>10. ~useDma => ~Live(chan) /\ chan.flags = {}
  BY DEF ReadParts, Converter
<1>11. /\ index * n + n \in 0 .. BufferSize /\ index * n \in Nat
  <2>1. index * n \in Nat /\ index * n + n <= req.size /\ req.size \in Nat /\ req.size <= BufferSize
    BY <1>1, <1>2, Fits
  <2>. QED
    BY <1>2, <2>1, SlotsAssumption
<1>12. CASE finish
  <2>1. /\ timer' = FALSE /\ outcome' = status /\ buffer' = index * n + n /\ chan' = ch
        /\ UNCHANGED <<index, requested, repeatBuffer, left, shot>>
        /\ IF async THEN lock' = 1 /\ sync' = sync ELSE sync' = 1 /\ lock' = lock
    BY <1>12 DEF OnSamplingDone, Complete
  <2>2. status # "none" /\ status \in {"ok", "ebusy"}
    BY DEF Types
  <2>3. ~On' /\ ~Flying'
    BY <2>1, <2>2 DEF On, Flying
  <2>4. AllKept'
    BY <1>4, <1>6, <2>1 DEF AllKept
  <2>5. ReadParts'
    <3>1. Converter'
      BY <1>4, <1>8, <1>10, <2>1, <2>3 DEF Converter, ReadParts, Live
    <3>2. Completed'
      BY <1>4, <2>4 DEF Completed
    <3>. QED
      BY <2>3, <3>1, <3>2 DEF ReadParts, Reading, Moving, Reading1
  <2>6. Types'
    <3>1. lock' \in 0 .. 1 /\ sync' \in 0 .. 1 /\ left' \in Nat
      BY <1>7, <1>8, <2>1
    <3>. QED
      BY <1>4, <1>5, <1>8, <1>11, <2>1, <2>2, <3>1 DEF Types
  <2>7. Protocol'
    <3>1. UNCHANGED <<pc, call, ret, async>> /\ outcome' # "none"
      BY <1>4, <2>1, <2>2
    <3>2. \A c, d \in Callers : pc'[c] # "idle" /\ pc'[d] # "idle" => c = d
      BY <3>1 DEF Protocol
    <3>3. CASE async
      <4>1. lock' = 1 /\ sync' = 0
        BY <1>7, <2>1, <3>3
      <4>. QED
        BY <1>1, <1>7, <2>3, <3>1, <3>2, <3>3, <4>1 DEF Protocol
    <3>4. CASE ~async
      <4>1. lock' = 0 /\ sync' = 1
        BY <1>7, <2>1, <3>4
      <4>. QED
        BY <1>1, <1>7, <2>3, <3>1, <3>2, <3>4, <4>1 DEF Protocol
    <3>. QED
      BY <3>3, <3>4
  <2>. QED
    BY <2>5, <2>6, <2>7
<1>13. CASE ~finish
  <2>1. /\ index' = (IF action = "repeat" THEN index ELSE index + 1)
        /\ requested' = (IF req.interval THEN requested - 1 ELSE requested)
        /\ UNCHANGED <<timer, lock, sync, outcome>>
        /\ IF ~req.interval \/ requested > 1
           THEN StartSampling(NextAt(action, index * n + n), n, oclen)
           ELSE /\ buffer' = NextAt(action, index * n + n) /\ chan' = ch
                /\ UNCHANGED <<repeatBuffer, left, shot>>
    BY <1>13 DEF OnSamplingDone
  <2>2. index' \in 0 .. req.extra /\ index' \in Nat /\ index' - 1 <= index
    <3>1. CASE action = "repeat"
      <4>1. index' = index
        BY <2>1, <3>1
      <4>. QED
        BY <1>2, <4>1
    <3>2. CASE action # "repeat"
      <4>1. index' = index + 1 /\ index # req.extra
        BY <1>13, <2>1, <3>2
      <4>. QED
        BY <1>2, <4>1
    <3>. QED
      BY <3>1, <3>2
  <2>3. NextAt(action, index * n + n) = index' * n
    BY <1>1, <1>2, <2>1 DEF NextAt
  <2>4. Kept(index)'
    <3>1. ASSUME NEW i \in 0 .. (index' - 1) PROVE i \in 0 .. index
      <4>1. PICK a, b : a = index /\ b = index'
        OBVIOUS
      <4>2. a \in Nat /\ b \in Nat /\ b - 1 <= a /\ i \in 0 .. (b - 1)
        BY <1>2, <2>2, <3>1, <4>1
      <4>3. i \in 0 .. a
        BY <4>2, UpTo
      <4>. QED
        BY <4>1, <4>3
    <3>. QED
      BY <1>4, <1>6, <3>1 DEF Kept
  <2>5. requested \in 0 .. MaxRequested /\ requested' \in 0 .. MaxRequested
        /\ (req.interval => requested > 0)
    BY <2>1, BoundsAssumption DEF Types, Flying
  <2>6. timer => req.interval
    BY DEF ReadParts, Converter
  <2>7. /\ On' /\ ReadParts' /\ chan' \in Channel /\ left' \in Nat /\ shot' \in Nat
        /\ buffer' \in 0 .. BufferSize /\ repeatBuffer' \in 0 .. BufferSize
    <3>1. CASE ~req.interval \/ requested > 1
      <4>1. StartSampling(index' * n, n, oclen')
        BY <1>4, <2>1, <2>3, <3>1
      <4>2. shot' = shot + 1
        BY <4>1 DEF StartSampling
      <4>3. On'
        BY <1>1, <2>1, <4>2 DEF On
      <4>4. useDma \in BOOLEAN /\ chan \in Channel
        BY DEF Types
      <4>5. Sound(req') /\ n = Count(req') /\ Programmed' /\ index' \in 0 .. req'.extra
        BY <1>1, <1>4, <2>2
      <4>6. (req'.interval => requested' > 0) /\ (timer' => req'.interval /\ outcome' = "none")
        BY <1>1, <1>4, <2>1, <2>5, <2>6, <3>1
      <4>7. useDma' = useDma /\ shot \in Nat
        BY <1>1, <1>4
      <4>. HIDE DEF n, S, finish, Inv, ReadInv
      <4>. QED
        BY <1>8, <1>10, <2>4, <4>1, <4>3, <4>4, <4>5, <4>6, <4>7, SamplingBegins
    <3>2. CASE req.interval /\ ~(requested > 1)
      <4>1. /\ buffer' = index' * n /\ chan' = ch /\ requested' = 0
            /\ UNCHANGED <<repeatBuffer, left, shot>>
        BY <2>1, <2>3, <2>5, <3>2
      <4>2. On' /\ ~Flying'
        BY <1>1, <1>4, <2>1, <3>2, <4>1 DEF On, Flying
      <4>3. Converter'
        BY <1>1, <1>4, <1>8, <1>10, <2>1, <2>6, <4>1, <4>2 DEF Converter, ReadParts, Live
      <4>4. Reading'
        BY <1>1, <1>4, <1>8, <2>4, <4>1, <4>2 DEF Reading
      <4>5. Moving' /\ Reading1' /\ Completed'
        BY <1>1, <2>1, <4>2 DEF Moving, Reading1, Completed
      <4>6. index' * n \in 0 .. BufferSize
        <5>1. index' * n \in Nat /\ index' * n + n <= req.size /\ req.size \in Nat /\ req.size <= BufferSize
          BY <1>1, <2>2, Fits
        <5>. QED
          BY <1>2, <5>1, SlotsAssumption
      <4>. QED
        BY <1>1, <1>8, <4>1, <4>2, <4>3, <4>4, <4>5, <4>6 DEF ReadParts, Types
    <3>. QED
      BY <3>1, <3>2
  <2>8. Types'
    BY <1>4, <1>5, <1>8, <2>1, <2>2, <2>5, <2>7 DEF Types
  <2>9. Protocol'
    BY <1>1, <1>4, <1>7, <2>1, <2>7 DEF Protocol
  <2>. QED
    BY <2>7, <2>8, <2>9
<1>. QED
  BY <1>12, <1>13

LEMMA IsrInv ==
  ASSUME Inv, NEW action \in {"continue", "finish", "repeat"}, Isr(action)
  PROVE  Inv'
<1> USE DEF Inv, ReadInv
<1> DEFINE n == Count(req)
<1>1. /\ ~useDma /\ eoc /\ Flying /\ Sound(req) /\ Programmed
      /\ repeatBuffer = index * n /\ buffer = repeatBuffer + count
      /\ count + left + 1 = oclen /\ Fresh(count) /\ Kept(index)
      /\ data = [channel |-> osq[count + 1], shot |-> shot]
  BY DEF Isr, ReadParts, Converter, Reading, Reading1, Flying
<1>2. /\ n \in Nat /\ n = Cardinality(req.channels) /\ req.channels \subseteq 0 .. 31
      /\ count \in Nat /\ left \in Nat /\ oclen \in 1 .. n
  BY <1>1, Fits DEF Count, Types, Programmed
<1>3. /\ count \in 0 .. (n - 1) /\ count + 1 \in 1 .. oclen
      /\ osq[count + 1] = Ranked(req.channels)[count + 1]
  <2>1. count \in 0 .. (n - 1) /\ count + 1 \in 1 .. oclen
    BY <1>1, <1>2
  <2>. QED
    BY <1>1, <2>1 DEF Programmed
<1>4. mem' = Stored(mem, repeatBuffer + count, [channel |-> osq[count + 1], shot |-> shot])
  BY <1>1 DEF Isr
<1>5. /\ mem' = [s \in Buffers |-> mem'[s]]
      /\ \A c \in req.channels :
           Rank(req.channels, c) < count + 1 =>
             mem'[index * Count(req) + Rank(req.channels, c)] = [channel |-> c, shot |-> shot]
      /\ \A i \in 0 .. (index - 1), c \in req.channels :
           mem'[i * Count(req) + Rank(req.channels, c)] = [channel |-> c, shot |-> accepted[i]]
  BY <1>1, <1>3, <1>4, NextSample
<1>6. eoc' = FALSE /\ UNCHANGED <<useDma, callers, async, req, status, res, osq, oclen, data>>
  BY DEF Isr
<1>7. CASE count + 1 = n
  <2>1. count' = 0 /\ OnSamplingDone(action, index * n + n, chan) /\ left = 0
    <3>1. count' = 0 /\ OnSamplingDone(action, buffer + 1, chan) /\ left = 0
      BY <1>1, <1>2, <1>7 DEF Isr
    <3>2. index * n \in Nat
      BY <1>1, <1>2, Fits DEF Types
    <3>3. buffer + 1 = index * n + n
      BY <1>1, <1>2, <1>7, <3>2
    <3>. QED
      BY <3>1, <3>3
  <2>2. Sampled
    <3>1. \A c \in req.channels : Rank(req.channels, c) < count + 1
      BY <1>2, <1>7, RankRange
    <3>. QED
      BY <1>1, <1>2, <1>5, <1>6, <2>1, <3>1 DEF Sampled
  <2>3. chan \in Channel /\ ~Live(chan) /\ "FDT" \notin chan.flags
    BY <1>1 DEF ReadParts, Converter, Types
  <2>. QED
    BY <1>1, <1>6, <2>1, <2>2, <2>3, SampledInv
<1>8. CASE count + 1 # n
  <2>1. /\ count' = count + 1 /\ buffer' = buffer + 1
        /\ UNCHANGED <<lock, sync, index, requested, timer, repeatBuffer, chan, left, held, owed, shot,
                       accepted, outcome>>
    BY <1>8 DEF Isr, power
  <2>2. UNCHANGED <<useDma, pc, call, ret, async, req, status, res, osq, oclen>> /\ Programmed'
    <3>1. UNCHANGED <<useDma, pc, call, ret, async, req, status, res, osq, oclen>>
      BY <1>6 DEF callers
    <3>. QED
      BY <1>1, <3>1 DEF Programmed
  <2>3. On' = On /\ Flying' = Flying
    BY <2>1, <2>2 DEF On, Flying
  <2>4. Kept(index)'
    BY <1>5, <2>1, <2>2 DEF Kept
  <2>5. Fresh(count)'
    BY <1>1, <1>5, <2>1, <2>2 DEF Fresh
  <2>6. ReadParts'
    <3>1. Converter'
      BY <1>1, <1>6, <2>1, <2>2, <2>3 DEF ReadParts, Converter, Live
    <3>2. Reading'
      BY <1>1, <2>1, <2>2, <2>3, <2>4 DEF ReadParts, Reading
    <3>3. Moving'
      BY <1>1, <2>2 DEF Moving
    <3>4. Reading1'
      <4>1. index * n \in Nat
        BY <1>1, <1>2, Fits DEF Types
      <4>2. buffer' = repeatBuffer' + count' /\ count' + left' + 0 = oclen'
        BY <1>1, <1>2, <2>1, <2>2, <4>1
      <4>. QED
        BY <1>6, <2>5, <4>2 DEF Reading1
    <3>5. Completed'
      BY <1>1, <2>1 DEF Flying, On, Completed
    <3>. QED
      BY <3>1, <3>2, <3>3, <3>4, <3>5 DEF ReadParts
  <2>7. Types'
    <3>1. count' \in 0 .. Count(req') /\ buffer' \in 0 .. BufferSize
      <4>1. index \in 0 .. req.extra
        BY DEF Types
      <4>2. index * n \in Nat /\ index * n + n <= req.size /\ req.size \in Nat /\ req.size <= BufferSize
        BY <1>1, <4>1, Fits
      <4>3. count' = count + 1 /\ count + 1 <= n /\ count + 1 \in Nat /\ req' = req
        BY <1>1, <1>2, <2>1, <2>2
      <4>4. buffer' = index * n + (count + 1)
        BY <1>1, <1>2, <2>1, <4>2
      <4>5. buffer' \in Nat /\ buffer' <= req.size
        BY <1>2, <4>2, <4>3, <4>4
      <4>. QED
        BY <1>2, <4>2, <4>3, <4>5, SlotsAssumption
    <3>2. eoc' \in BOOLEAN
      BY <1>6
    <3>. QED
      BY <1>5, <2>1, <2>2, <3>1, <3>2 DEF Types
  <2>8. Protocol'
    BY <2>1, <2>2, <2>3 DEF Protocol
  <2>. QED
    BY <2>6, <2>7, <2>8
<1>. QED
  BY <1>7, <1>8

LEMMA DmaIsrInv ==
  ASSUME Inv, NEW action \in {"continue", "finish", "repeat"}, DmaIsr(action)
  PROVE  Inv'
<1> USE DEF Inv, ReadInv
<1> DEFINE n == Count(req)
<1>1. useDma /\ chan \in Channel /\ "FDT" \in chan.flags
  BY DEF DmaIsr, Asserted, Channel, Types
<1>2. /\ Flying /\ Sound(req) /\ repeatBuffer = index * n /\ buffer = repeatBuffer
      /\ left = 0 /\ oclen = n /\ Fresh(n) /\ Kept(index)
  BY <1>1 DEF ReadParts, Converter, Reading, Moving, Flying
<1>3. n \in Nat /\ n = Cardinality(req.channels) /\ req.channels \subseteq 0 .. 31
  BY <1>2, Fits DEF Count
<1>4. /\ count' = n /\ OnSamplingDone(action, index * n + n, Stopped(Acknowledged(chan)))
      /\ UNCHANGED <<useDma, callers, async, req, status, res, osq, oclen, eoc, mem>>
  BY <1>2 DEF DmaIsr
<1>5. ~eoc'
  BY <1>1, <1>4 DEF ReadParts, Converter
<1>6. Sampled
  <2>1. \A c \in req.channels : Rank(req.channels, c) < n
    BY <1>3, RankRange
  <2>2. mem' = mem /\ mem = [s \in Buffers |-> mem[s]]
    BY <1>4 DEF Types
  <2>. QED
    BY <1>1, <1>2, <1>3, <1>4, <1>5, <2>1, <2>2 DEF Sampled, Fresh, Kept
<1>7. PICK ch : ch = Stopped(Acknowledged(chan))
  OBVIOUS
<1>8. ch \in Channel /\ ~Live(ch) /\ "FDT" \notin ch.flags
  BY <1>1, <1>7, StoppedEffect DEF Live
<1>. QED
  BY <1>1, <1>2, <1>4, <1>6, <1>7, <1>8, SampledInv

-----------------------------------------------------------------------------
(* The timer and the converter *)

LEMMA TimerInv ==
  ASSUME Inv, TimerExpires
  PROVE  Inv'
<1> USE DEF Inv, ReadInv
<1> DEFINE n == Count(req)
<1>1. /\ timer /\ req.interval /\ outcome = "none" /\ On /\ Sound(req)
      /\ Programmed /\ Kept(index)
      /\ requested' = requested + 1 /\ requested' \in 0 .. MaxRequested /\ requested' > 0
  <2>1. timer /\ req.interval /\ outcome = "none" /\ On
    BY DEF TimerExpires, ReadParts, Converter, On
  <2>2. Sound(req) /\ Programmed /\ Kept(index)
    BY <2>1 DEF ReadParts, Reading
  <2>3. requested' = requested + 1 /\ requested < MaxRequested /\ requested \in 0 .. MaxRequested
    BY DEF TimerExpires, Types
  <2>4. requested' \in 0 .. MaxRequested /\ requested' > 0
    BY <2>3, BoundsAssumption
  <2>. QED
    BY <2>1, <2>2, <2>3, <2>4
<1>2. /\ n \in Nat /\ n > 0 /\ req.extra \in Nat /\ index \in 0 .. req.extra
  BY <1>1, Fits DEF Types
<1>3. UNCHANGED <<useDma, callers, lock, async, req, sync, index, timer, count, res, osq, oclen, eoc,
                  data, held, owed, mem, accepted, outcome>>
  BY DEF TimerExpires, power
<1>4. On'
  BY <1>1, <1>3 DEF On
<1>5. Kept(index)' /\ Programmed' /\ oclen' \in 1 .. Ranks
  BY <1>1, <1>3 DEF Kept, Programmed, Types
<1>6. /\ ReadParts' /\ chan' \in Channel /\ left' \in Nat /\ shot' \in Nat
      /\ buffer' \in 0 .. BufferSize /\ repeatBuffer' \in 0 .. BufferSize /\ status' \in {"ok", "ebusy"}
  <2>1. CASE requested = 0
    <3>1. StartSampling(buffer, n, oclen') /\ status' = status
      BY <1>3, <2>1 DEF TimerExpires
    <3>2. ~Flying
      BY <1>1, <2>1 DEF Flying
    <3>3. /\ buffer = index * n /\ ~eoc /\ (~useDma => count = 0)
          /\ (~useDma => ~Live(chan) /\ chan.flags = {})
      BY <1>1, <3>2 DEF ReadParts, Converter, Reading
    <3>5. useDma \in BOOLEAN /\ chan \in Channel /\ shot \in Nat /\ useDma' = useDma
      BY <1>3 DEF Types
    <3>6. /\ Sound(req') /\ n = Count(req')
          /\ index' \in 0 .. req'.extra /\ buffer = index' * n
      BY <1>1, <1>2, <1>3, <3>3
    <3>7. /\ req'.interval => requested' > 0
          /\ timer' => req'.interval /\ outcome' = "none"
          /\ ~eoc' /\ (~useDma => count' = 0)
      BY <1>1, <1>3, <3>3
    <3>. HIDE DEF n, Inv, ReadInv
    <3>8. /\ ReadParts' /\ chan' \in Channel /\ left' \in Nat /\ shot' \in Nat
          /\ buffer' \in 0 .. BufferSize /\ repeatBuffer' \in 0 .. BufferSize
      BY <1>4, <1>5, <3>1, <3>3, <3>5, <3>6, <3>7, SamplingBegins
    <3>. QED
      BY <3>1, <3>8 DEF Types, Inv
  <2>2. CASE requested # 0
    <3>1. status' = "ebusy" /\ UNCHANGED <<buffer, repeatBuffer, chan, left, shot>>
      BY <2>2 DEF TimerExpires
    <3>2. Flying /\ Flying'
      <4>1. requested > 0
        BY <2>2, BoundsAssumption DEF Types
      <4>. QED
        BY <1>1, <1>4, <4>1 DEF Flying
    <3>3. Fresh(count)' = Fresh(count) /\ Fresh(oclen - left)' = Fresh(oclen - left)
          /\ Fresh(oclen)' = Fresh(oclen)
      BY <1>3, <3>1 DEF Fresh
    <3>4. Converter'
      BY <1>3, <3>1, <3>2 DEF ReadParts, Converter, Live
    <3>5. Reading'
      BY <1>1, <1>3, <1>5, <3>1, <3>2 DEF ReadParts, Reading
    <3>6. Moving'
      BY <1>3, <3>1, <3>2, <3>3 DEF ReadParts, Moving, Live
    <3>7. Reading1'
      BY <1>3, <3>1, <3>2, <3>3 DEF ReadParts, Reading1
    <3>8. Completed'
      BY <1>1, <1>3 DEF Completed
    <3>. QED
      BY <3>1, <3>4, <3>5, <3>6, <3>7, <3>8 DEF ReadParts, Types
  <2>. QED
    BY <2>1, <2>2
<1>7. Types'
  BY <1>1, <1>3, <1>6 DEF Types, callers
<1>8. Protocol'
  <2>1. UNCHANGED <<pc, call, ret, lock, async, sync, outcome>> /\ On' /\ On
    BY <1>1, <1>3, <1>4 DEF callers
  <2>2. \A c \in Callers : pc[c] # "start"
    BY <1>1 DEF Protocol
  <2>. QED
    BY <2>1, <2>2 DEF Protocol
<1>. QED
  BY <1>6, <1>7, <1>8

LEMMA ConvertInv ==
  ASSUME NoSlip, Inv, Convert
  PROVE  Inv'
<1> USE DEF Inv, ReadInv
<1> DEFINE n == Count(req)
           k == oclen - left
           sample == [channel |-> osq[k + 1], shot |-> shot]
<1>1. /\ left > 0 /\ left \in Nat /\ left' = left - 1
      /\ UNCHANGED <<useDma, callers, ctx, position, res, osq, oclen, power, shot, accepted, outcome>>
  BY DEF Convert, Types
<1>2. UNCHANGED <<useDma, pc, call, ret, lock, async, req, status, sync, index, requested, timer,
                  buffer, repeatBuffer, count, res, osq, oclen, held, owed, shot, accepted, outcome>>
  BY <1>1 DEF callers, ctx, position, power
<1>3. /\ Flying /\ On /\ Sound(req) /\ Programmed /\ repeatBuffer = index * n
      /\ Kept(index)
  BY <1>1 DEF ReadParts, Converter, Reading, Flying
<1>4. On' = On /\ Flying' /\ Programmed'
  <2>1. On' = On /\ Flying'
    BY <1>2, <1>3 DEF On, Flying
  <2>2. Programmed'
    BY <1>2, <1>3 DEF Programmed
  <2>. QED
    BY <2>1, <2>2
<1>5. /\ n \in Nat /\ n > 0 /\ oclen \in 1 .. n /\ req.channels \subseteq 0 .. 31 /\ n = Cardinality(req.channels)
      /\ left \in 0 .. oclen /\ left' \in 0 .. oclen'
  <2>1. n \in Nat /\ n > 0 /\ oclen \in 1 .. n /\ req.channels \subseteq 0 .. 31 /\ n = Cardinality(req.channels)
    BY <1>3, Fits DEF Count, Programmed
  <2>2. left \in 0 .. oclen /\ oclen' = oclen
    BY <1>2 DEF ReadParts, Converter
  <2>3. left' \in 0 .. oclen
    <3>. HIDE DEF n
    <3>. QED
      BY <1>1, <2>1, <2>2
  <2>. QED
    BY <2>1, <2>2, <2>3
<1>6. osq[oclen - left + 1] = osq[k + 1] /\ k \in 0 .. (n - 1) /\ osq[k + 1] = Ranked(req.channels)[k + 1]
  <2>1. k \in 0 .. (n - 1) /\ k + 1 \in 1 .. oclen
    BY <1>1, <1>5
  <2>. QED
    BY <1>3, <2>1 DEF Programmed
<1>7. ASSUME Converter', Reading', Moving', Reading1', chan' \in Channel, eoc' \in BOOLEAN,
             mem' = [s \in Buffers |-> mem'[s]]
      PROVE  Inv'
  <2>1. Completed'
    BY <1>2, <1>3 DEF On, Completed
  <2>2. Types'
    BY <1>1, <1>2, <1>7 DEF Types
  <2>3. Protocol'
    BY <1>2, <1>4 DEF Protocol
  <2>. QED
    BY <1>7, <2>1, <2>2, <2>3 DEF ReadParts
<1>8. CASE useDma /\ Live(chan)
  <2>1. /\ eoc' = eoc /\ chan' = Moved(chan)
        /\ mem' = Stored(mem, chan.buffer + (n - chan.left), sample)
    BY <1>6, <1>8 DEF Convert
  <2>2. /\ chan.left = n - oclen + left /\ chan.buffer = repeatBuffer /\ Fresh(k)
        /\ buffer = repeatBuffer /\ "FDT" \notin chan.flags /\ ~eoc
    BY <1>3, <1>8 DEF ReadParts, Moving, Converter
  <2>3. mem' = Stored(mem, repeatBuffer + k, [channel |-> osq[k + 1], shot |-> shot])
    <3>1. n - chan.left = k
      BY <1>1, <1>5, <2>2
    <3>. QED
      BY <2>1, <2>2, <3>1
  <2>4. /\ mem' = [s \in Buffers |-> mem'[s]]
        /\ \A c \in req.channels :
             Rank(req.channels, c) < k + 1 =>
               mem'[index * Count(req) + Rank(req.channels, c)] = [channel |-> c, shot |-> shot]
        /\ \A i \in 0 .. (index - 1), c \in req.channels :
             mem'[i * Count(req) + Rank(req.channels, c)] = [channel |-> c, shot |-> accepted[i]]
    <3>. HIDE DEF k
    <3>. QED
      BY <1>3, <1>6, <2>2, <2>3, NextSample
  <2>5. PICK z : z = Moved(chan)
    OBVIOUS
  <2>6. /\ z \in Channel /\ z.left = chan.left - 1 /\ z.buffer = chan.buffer
        /\ ("FDT" \in z.flags <=> chan.left = 1 \/ "FDT" \in chan.flags)
    BY <1>8, <2>5, MovedEffect DEF Types
  <2>7. /\ chan' \in Channel /\ chan'.left = Count(req') - oclen' + left'
        /\ chan'.buffer = repeatBuffer'
        /\ ("FDT" \in chan'.flags => oclen' = Count(req') /\ left' = 0)
        /\ (chan'.left # 0 => "FDT" \notin chan'.flags)
    <3>1. chan.left = 1 => n = oclen /\ left = 1
      BY <1>1, <1>5, <2>2
    <3>2. chan.left - 1 = n - oclen + left'
      BY <1>1, <1>5, <2>2
    <3>3. chan.left = 1 <=> chan.left - 1 = 0
      BY <1>1, <1>5, <2>2
    <3>4. left = 1 => left' = 0
      BY <1>1
    <3>. QED
      BY <1>2, <2>1, <2>2, <2>5, <2>6, <3>1, <3>2, <3>3, <3>4
  <2>8. Kept(index)'
    BY <1>2, <2>4 DEF Kept
  <2>9. Fresh(oclen - left)'
    <3>1. oclen' - left' = k + 1
      BY <1>1, <1>2, <1>5
    <3>. QED
      BY <1>2, <1>3, <2>4, <3>1 DEF Fresh
  <2>10. left' = 0 => Fresh(oclen)'
    <3>1. left' = 0 => k + 1 = oclen'
      BY <1>1, <1>2, <1>5
    <3>. QED
      BY <1>2, <1>3, <2>4, <3>1 DEF Fresh
  <2>11. Converter'
    BY <1>2, <1>4, <1>5, <1>8, <2>1, <2>2 DEF ReadParts, Converter
  <2>12. Reading'
    BY <1>2, <1>3, <1>4, <2>8 DEF ReadParts, Reading
  <2>13. Moving'
    <3>1. buffer' = repeatBuffer'
      BY <1>2, <2>2
    <3>2. Live(chan') => chan'.left # 0
      BY <2>7 DEF Live, Channel
    <3>. QED
      BY <2>7, <2>9, <2>10, <3>1, <3>2 DEF Moving
  <2>14. Reading1'
    BY <1>2, <1>8 DEF Reading1
  <2>. QED
    BY <1>7, <2>1, <2>2, <2>4, <2>7, <2>11, <2>12, <2>13, <2>14 DEF Types
<1>9. CASE useDma /\ ~Live(chan)
  <2>1. UNCHANGED <<eoc, data, mem, chan>>
    BY <1>9 DEF Convert
  <2>2. ~Live(chan') /\ "FDT" \notin chan'.flags /\ ~eoc
    BY <1>1, <1>3, <1>9, <2>1 DEF ReadParts, Moving, Converter, Live
  <2>3. Kept(index)'
    BY <1>2, <1>3, <2>1 DEF Kept
  <2>4. Converter'
    BY <1>2, <1>4, <1>5, <1>9, <2>1, <2>2 DEF ReadParts, Converter
  <2>5. Reading'
    BY <1>2, <1>3, <1>4, <2>3 DEF ReadParts, Reading
  <2>6. Moving'
    <3>1. buffer' = repeatBuffer'
      BY <1>2, <1>3, <1>9 DEF ReadParts, Moving
    <3>. QED
      BY <2>2, <3>1 DEF Moving
  <2>7. Reading1'
    BY <1>2, <1>9 DEF Reading1
  <2>. QED
    BY <1>7, <2>1, <2>4, <2>5, <2>6, <2>7 DEF Types
<1>10. CASE ~useDma
  <2>1. ~eoc /\ eoc' = TRUE /\ data' = sample /\ UNCHANGED <<mem, chan>>
    BY <1>6, <1>10 DEF Convert, NoSlip
  <2>2. buffer = repeatBuffer + count /\ count + left + 0 = oclen /\ Fresh(count) /\ count \in Nat
    BY <1>3, <1>5, <1>10, <2>1 DEF ReadParts, Reading1, Types
  <2>3. count = k
    BY <1>1, <1>5, <2>2
  <2>4. Kept(index)' /\ Fresh(count)'
    BY <1>2, <1>3, <2>1, <2>2 DEF Kept, Fresh
  <2>5. Converter'
    BY <1>2, <1>4, <1>5, <1>10, <2>1, <1>3 DEF ReadParts, Converter
  <2>6. Reading'
    BY <1>2, <1>3, <1>4, <2>4 DEF ReadParts, Reading
  <2>7. Moving'
    BY <1>2, <1>10 DEF Moving
  <2>8. Reading1'
    <3>1. count' + left' + 1 = oclen' /\ buffer' = repeatBuffer' + count'
      BY <1>1, <1>2, <1>5, <2>2
    <3>2. data' = [channel |-> osq'[count' + 1], shot |-> shot']
      BY <1>2, <2>1, <2>3
    <3>. QED
      BY <2>1, <2>4, <3>1, <3>2 DEF Reading1
  <2>. QED
    BY <1>7, <2>1, <2>5, <2>6, <2>7, <2>8 DEF Types
<1>. QED
  BY <1>8, <1>9, <1>10

LEMMA ErrorInv ==
  ASSUME Inv, DmaError
  PROVE  Inv'
<1> USE DEF Inv, ReadInv
<1>1. PICK z : z = Errored(chan)
  OBVIOUS
<1>2. chan' = z /\ useDma /\ Live(chan)
      /\ UNCHANGED <<useDma, callers, ctx, position, res, osq, oclen, left, eoc, data, power, history>>
  BY <1>1 DEF DmaError
<1>3. z \in Channel /\ ~z.on /\ ("FDT" \in z.flags <=> "FDT" \in chan.flags)
  BY <1>1, ErroredEffect DEF Types
<1>4. UNCHANGED <<useDma, pc, call, ret, lock, async, req, status, sync, index, requested, timer,
                  buffer, repeatBuffer, count, res, osq, oclen, left, eoc, data, held, owed, mem, shot,
                  accepted, outcome>>
  BY <1>2 DEF callers, ctx, position, power, history
<1>5. On' = On /\ Flying' = Flying /\ Flying
  BY <1>2, <1>4 DEF On, Flying, ReadParts, Converter
<1>6. ~Live(chan') /\ "FDT" \notin chan'.flags
  BY <1>2, <1>3, <1>5 DEF Live, ReadParts, Moving
<1>7. Kept(index)' /\ Programmed'
  BY <1>4, <1>5 DEF Kept, Programmed, ReadParts, Reading, Flying
<1>8. Converter'
  BY <1>2, <1>4, <1>5, <1>6 DEF ReadParts, Converter
<1>9. Reading'
  BY <1>4, <1>5, <1>7 DEF ReadParts, Reading
<1>10. Moving' /\ Reading1'
  BY <1>2, <1>4, <1>5, <1>6 DEF ReadParts, Moving, Reading1
<1>11. Completed'
  BY <1>4, <1>5 DEF Flying, On, Completed
<1>12. Types'
  BY <1>2, <1>3, <1>4 DEF Types
<1>13. Protocol'
  BY <1>4, <1>5 DEF Protocol
<1>. QED
  BY <1>8, <1>9, <1>10, <1>11, <1>12, <1>13 DEF ReadParts

-----------------------------------------------------------------------------
(* The theorems *)

LEMMA NextInv ==
  ASSUME NoSlip, Inv, [Next]_vars
  PROVE  Inv'
<1>1. ASSUME NEW c \in Callers, Lock(c) \/ CallerStep(c) PROVE Inv'
  BY <1>1, LockInv, RefuseInv, StartInv, WaitInv, ReleaseInv DEF CallerStep
<1>2. CASE Handler
  <2>1. PICK a \in {"continue", "finish", "repeat"} : Isr(a) \/ DmaIsr(a)
    BY <1>2 DEF Handler
  <2>. QED
    BY <2>1, IsrInv, DmaIsrInv
<1>3. CASE UNCHANGED vars
  <2>1. UNCHANGED <<useDma, pc, call, ret, lock, async, req, status, sync, index, requested, timer,
                    buffer, repeatBuffer, count, res, osq, oclen, chan, left, eoc, data, held, owed,
                    mem, shot, accepted, outcome>>
    BY <1>3 DEF vars, callers, ctx, position, hw, power, history
  <2>2. ReadParts' /\ On' = On
    BY <2>1, ReadFrame DEF Inv, ReadInv, reading
  <2>3. Types'
    BY <2>1 DEF Inv, Types
  <2>4. Protocol'
    BY <2>1, <2>2 DEF Inv, ReadInv, Protocol
  <2>. QED
    BY <2>2, <2>3, <2>4 DEF Inv, ReadInv
<1>. QED
  BY <1>1, <1>2, <1>3, TimerInv, ConvertInv, ErrorInv DEF Next

\* Every variable holds a value of its kind, for any sequences and buffers; in
\* particular no more conversions and samples are counted than a sequence has
\* channels (adc_at32_isr, dma_callback).
THEOREM TypeCorrect ==
  ASSUME Hazards \cap {"late", "overtake"} = {}
  PROVE  Spec => []TypeOK
<1>1. NoSlip
  BY DEF NoSlip
<1>2. Inv => TypeOK
  BY DEF Inv, ReadInv, ReadParts, Converter, Types, TypeOK
<1>. QED
  BY <1>1, <1>2, InitInv, NextInv, PTL DEF Spec

\* Where the count stands with the callers, and that the first sampling of a read is
\* kept at index 0 before anything else is.
Balance ==
  /\ PowerLock
  /\ outcome # "none" \/ (On /\ index > 0) => accepted[0] # 0
  /\ \A c \in Callers :
       /\ pc[c] = "start" => accepted[0] = 0
       /\ pc[c] = "release" =>
            IF ret[c] \in Refusals THEN lock = 0 /\ accepted[0] = 0
            ELSE (async /\ ret[c] = "ok") \/ accepted[0] # 0

\* Where nothing moves that the count depends on.
LEMMA BalanceFrame ==
  ASSUME Balance, UNCHANGED <<pc, ret, lock, async, held, owed, accepted>>,
         outcome' # "none" \/ (On' /\ index' > 0) => outcome # "none" \/ (On /\ index > 0)
  PROVE  Balance'
BY DEF Balance, PowerLock

LEMMA BalanceInit == Init => Balance
<1> SUFFICES ASSUME Init PROVE Balance
  OBVIOUS
<1>1. accepted[0] = 0
  <2>1. 0 \in Buffers
    BY SlotsAssumption
  <2>. QED
    BY <2>1 DEF Init
<1>. QED
  BY <1>1 DEF Init, Balance, PowerLock, On

\* A sampling that is done: the first one of a read gives the lock back, and a
\* later one takes from what is owed.
LEMMA BalanceSampled ==
  ASSUME Inv, Balance, Flying, NEW action, NEW at, NEW ch, OnSamplingDone(action, at, ch),
         UNCHANGED callers, async' = async
  PROVE  Balance'
<1> USE DEF Inv, ReadInv
<1>1. /\ Sound(req) /\ shot \in Nat /\ lock = 0 /\ held \in Int /\ owed \in Int
      /\ accepted = [i \in Buffers |-> accepted[i]]
      /\ \A c \in Callers : pc[c] # "start"
      /\ \A c \in Callers : pc[c] = "release" => async /\ ret[c] = "ok"
      /\ On
  BY DEF ReadParts, Reading, Protocol, Types, On, Flying
<1>2. index \in Nat /\ index \in Buffers
  <2>1. index \in 0 .. req.extra /\ 0 \in 0 .. (Count(req) - 1) /\ req.extra \in Nat
    BY <1>1, Fits DEF Types
  <2>. QED
    BY <1>1, <2>1, Places
<1>3. shot > 0
  BY DEF ReadParts, Reading, Flying
<1>4. /\ accepted' = [accepted EXCEPT ![index] = shot] /\ held' = held - 1
      /\ owed' = (IF accepted[0] = 0 THEN owed ELSE owed - 1)
      /\ UNCHANGED <<pc, ret, async>>
  BY DEF OnSamplingDone, PutLock, callers
<1>5. accepted[0] = 0 => index = 0
  BY <1>1, <1>2 DEF Balance
<1>6. accepted'[0] # 0
  <2>1. accepted' = [i \in Buffers |-> IF i = index THEN shot ELSE accepted[i]]
    BY <1>1, <1>4
  <2>2. 0 \in Buffers
    BY SlotsAssumption
  <2>. QED
    BY <1>1, <1>3, <1>5, <2>1, <2>2
<1>7. held' = owed'
  BY <1>1, <1>4 DEF Balance, PowerLock
<1>8. PowerLock'
  BY <1>4, <1>6, <1>7, <1>1 DEF PowerLock
<1>9. \A c \in Callers : pc'[c] # "start" /\ (pc'[c] = "release" => async' /\ ret'[c] = "ok")
  BY <1>1, <1>4
<1>. QED
  BY <1>6, <1>8, <1>9 DEF Balance, Refusals

LEMMA BalanceCaller ==
  ASSUME NoSlip, Inv, Balance, NEW c \in Callers, Lock(c) \/ CallerStep(c)
  PROVE  Balance'
<1> USE DEF Inv, ReadInv
<1>1. held \in Int /\ owed \in Int /\ lock \in 0 .. 1 /\ 0 \in Buffers
  BY SlotsAssumption DEF Types
<1>2. CASE Lock(c)
  <2>1. \A d \in Callers : pc[d] = "idle"
    BY <1>2 DEF Lock, NoSlip
  <2>2. accepted'[0] = 0 /\ lock' = 0 /\ lock = 1 /\ held' = held + 1 /\ owed' = owed
        /\ outcome' = "none" /\ shot' = 0 /\ timer' = timer /\ ~timer
    BY <1>1, <1>2 DEF Lock, Protocol, ReadParts, Converter, On
  <2>3. held = owed
    BY <1>1, <2>2 DEF Balance, PowerLock
  <2>4. \A d \in Callers : pc'[d] # "release"
    BY <1>2, <2>1 DEF Lock, Types
  <2>. QED
    BY <1>1, <2>2, <2>3, <2>4 DEF Balance, PowerLock, On
<1>3. CASE Refuse(c)
  <2>1. UNCHANGED <<lock, async, held, owed, accepted, outcome, shot, timer, index>>
    BY <1>3 DEF Refuse, ctx, power, history
  <2>2. /\ pc[c] = "start" /\ lock = 0 /\ Refusal(call[c]) \in Refusals
        /\ \A d \in Callers : pc'[d] = IF d = c THEN "release" ELSE pc[d]
        /\ \A d \in Callers : ret'[d] = IF d = c THEN Refusal(call[c]) ELSE ret[d]
    BY <1>3 DEF Refuse, Refusal, Refusals, Protocol, Types
  <2>3. accepted[0] = 0
    BY <2>2 DEF Balance
  <2>. QED
    BY <2>1, <2>2, <2>3 DEF Balance, PowerLock, On
<1>4. CASE StartRead(c)
  <2>1. UNCHANGED <<lock, async, held, owed, accepted, outcome, ret>> /\ index' = 0 /\ outcome = "none"
    BY <1>4 DEF StartRead, power, Protocol
  <2>2. \A d \in Callers : pc'[d] = IF d = c THEN "wait" ELSE pc[d]
    BY <1>4 DEF StartRead, Types
  <2>. QED
    BY <2>1, <2>2 DEF Balance, PowerLock
<1>5. CASE Wait(c)
  <2>1. UNCHANGED <<lock, async, held, owed, accepted, outcome, shot, timer, index>> /\ pc[c] = "wait"
    BY <1>5 DEF Wait, position, hw, power, history
  <2>2. /\ \A d \in Callers : pc'[d] = IF d = c THEN "release" ELSE pc[d]
        /\ \A d \in Callers : d # c => ret'[d] = ret[d]
        /\ ret'[c] \notin Refusals /\ (async => ret'[c] = "ok")
    BY <1>5 DEF Wait, Refusals, Types
  <2>3. ~async => accepted[0] # 0
    BY <1>5 DEF Wait, Protocol, Balance
  <2>. QED
    BY <2>1, <2>2, <2>3 DEF Balance, PowerLock, On
<1>6. CASE Release(c)
  <2>1. UNCHANGED <<ret, async, held, accepted, outcome, shot, timer, index>> /\ pc[c] = "release"
    BY <1>6 DEF Release, position, hw, history
  <2>2. \A d \in Callers : pc'[d] = "idle"
    BY <1>6 DEF Release, Protocol, Types
  <2>3. CASE ret[c] \in Refusals
    <3>1. lock = 0 /\ accepted[0] = 0 /\ lock' = 1 /\ owed' = owed + 1
      BY <1>6, <2>1, <2>3 DEF Release, Balance, Refusals
    <3>2. held' = owed'
      BY <1>1, <2>1, <3>1 DEF Balance, PowerLock
    <3>. QED
      BY <1>1, <2>1, <2>2, <3>1, <3>2 DEF Balance, PowerLock, On
  <2>4. CASE ret[c] \notin Refusals
    <3>1. owed' = owed /\ (lock' = lock \/ accepted[0] # 0)
      BY <1>6, <2>1, <2>4 DEF Release, Balance
    <3>. QED
      BY <1>1, <2>1, <2>2, <3>1 DEF Balance, PowerLock, On
  <2>. QED
    BY <2>3, <2>4
<1>. QED
  BY <1>2, <1>3, <1>4, <1>5, <1>6 DEF CallerStep

LEMMA BalanceNext ==
  ASSUME NoSlip, Inv, Balance, [Next]_vars
  PROVE  Balance'
<1>1. CASE \E c \in Callers : ~HandlerDue /\ (Lock(c) \/ CallerStep(c))
  BY <1>1, BalanceCaller
<1>2. CASE Handler
  <2>1. PICK a \in {"continue", "finish", "repeat"} : Isr(a) \/ DmaIsr(a)
    BY <1>2 DEF Handler
  <2>2. Flying
    BY <2>1 DEF Isr, DmaIsr, Asserted, Inv, ReadInv, ReadParts, Converter, Flying, Types, Channel
  <2>3. CASE Isr(a) /\ count + 1 # Count(req)
    <3>1. UNCHANGED <<pc, ret, lock, async, held, owed, accepted, outcome, shot, timer, index>>
      BY <2>3 DEF Isr, callers, power
    <3>. QED
      BY <3>1, BalanceFrame DEF On
  <2>4. CASE Isr(a) /\ count + 1 = Count(req)
    <3>1. OnSamplingDone(a, buffer + 1, chan) /\ UNCHANGED callers /\ async' = async
      BY <2>4 DEF Isr
    <3>. QED
      BY <2>2, <3>1, BalanceSampled
  <2>5. CASE DmaIsr(a)
    <3>1. /\ OnSamplingDone(a, buffer + Count(req), Stopped(Acknowledged(chan)))
          /\ UNCHANGED callers /\ async' = async
      BY <2>5 DEF DmaIsr
    <3>. QED
      BY <2>2, <3>1, BalanceSampled
  <2>. QED
    BY <2>1, <2>3, <2>4, <2>5
<1>3. CASE TimerExpires
  <2>1. UNCHANGED <<pc, ret, lock, async, held, owed, accepted, outcome, timer, index>> /\ timer
    BY <1>3 DEF TimerExpires, callers, power
  <2>. QED
    BY <2>1, BalanceFrame DEF On
<1>4. CASE Convert \/ DmaError \/ UNCHANGED vars
  <2>1. UNCHANGED <<pc, ret, lock, async, held, owed, accepted, outcome, shot, timer, index>>
    BY <1>4 DEF Convert, DmaError, vars, callers, ctx, power, history
  <2>. QED
    BY <2>1, BalanceFrame DEF On
<1>. QED
  BY <1>1, <1>2, <1>3, <1>4 DEF Next

\* The power lock counts 1 while the read under way has had no sampling, and 0
\* otherwise, but for the reads that were refused, which leave it taken, and the
\* samplings after the first one of a read, each of which puts it once more
\* (adc_at32_read, dma_callback, adc_at32_isr), for any sequences of reads, repeats
\* and DMA bus errors.
THEOREM PowerKept ==
  ASSUME Hazards \cap {"late", "overtake"} = {}
  PROVE  Spec => []PowerLock
<1>1. NoSlip
  BY DEF NoSlip
<1>2. Inv /\ Balance => PowerLock
  BY DEF Balance
<1>. QED
  BY <1>1, <1>2, InitInv, NextInv, BalanceInit, BalanceNext, PTL DEF Spec

\* A read completed without an error left one sample of each channel in order for
\* every sampling, the ones the callback let stand, and no sampling stores beyond
\* the caller's buffer, for any masks of channels, sizes and repeats, in both
\* builds (check_buffer, update_buffer_pointer, dma_callback, adc_at32_isr).
THEOREM SamplesRight ==
  ASSUME Hazards \cap {"late", "overtake"} = {}
  PROVE  Spec => []SamplesInOrder
<1>1. NoSlip
  BY DEF NoSlip
<1>2. Inv => SamplesInOrder
  <2> SUFFICES ASSUME Inv PROVE SamplesInOrder
    OBVIOUS
  <2>1. outcome = "ok" =>
          \A i \in 0 .. index, c \in req.channels :
            mem[i * Count(req) + Cardinality({d \in req.channels : d < c})] =
              [channel |-> c, shot |-> accepted[i]]
    BY DEF Inv, ReadInv, ReadParts, Completed, AllKept, Rank
  <2>2. ASSUME left > 0 PROVE repeatBuffer + Count(req) <= req.size
    <3>1. On /\ Flying
      BY <2>2 DEF Inv, ReadInv, ReadParts, Converter, Flying
    <3>2. Sound(req) /\ repeatBuffer = index * Count(req) /\ index \in 0 .. req.extra
      BY <3>1 DEF Inv, ReadInv, ReadParts, Reading, Types
    <3>. QED
      BY <3>2, Fits
  <2>. QED
    BY <2>1, <2>2 DEF SamplesInOrder
<1>. QED
  BY <1>1, <1>2, InitInv, NextInv, PTL DEF Spec
=============================================================================
