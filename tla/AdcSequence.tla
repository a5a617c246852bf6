---------------------------- MODULE AdcSequence ----------------------------
(***************************************************************************)
(* Reads of drivers/adc/adc_at32.c, in both builds: a DMA channel stores   *)
(* the samples (CONFIG_ADC_AT32_DMA), or adc_at32_isr does.                *)
(*                                                                         *)
(* adc_context, which is Zephyr's, is modelled from its use: the lock, the *)
(* asynchronous flag, the interval timer, the callback that may ask for a  *)
(* sampling again, and the completion.  A handler is one action, and no    *)
(* thread step runs while a handler is due.  A sample is known by its      *)
(* channel and the sampling (`shot`) it was taken in.                      *)
(***************************************************************************)
EXTENDS Dma, Integers, FiniteSets, Sequences

CONSTANTS
  Callers,      (* threads                                                 *)
  Reads,        (* sequences they pass, see ReadsAssumption                *)
  BufferSize,   (* samples the largest buffer has room for                 *)
  Ranks,        (* ranks of the sequencer: 16, on the AT32F423 32          *)
  ResTable,     (* config->res_table                                       *)
  MaxRepeats,   (* times a callback asks for a sampling again, per read    *)
  MaxRequested, (* bound of sampling_requested                             *)
  LockBound,    (* how far from 0 the power lock may count where a read    *)
                (* begins                                                  *)
  Hazards       (* what may happen:                                        *)
                (*   "late"     a conversion ends before adc_at32_isr has  *)
                (*              read the last one                          *)
                (*   "dterr"    a DMA bus error                            *)
                (*   "overtake" a read ends, and another begins, before    *)
                (*              the asynchronous call that began it is on  *)
                (*              its way out                                *)

\* `channels` is a mask of 32 bits; `size` counts samples; `interval` says whether
\* interval_us is not 0.
ASSUME ReadsAssumption ==
  Reads \subseteq [async: BOOLEAN, channels: SUBSET (0 .. 31), extra: Nat, interval: BOOLEAN,
                   callback: BOOLEAN, size: 0 .. BufferSize, resolution: Nat,
                   oversampling: BOOLEAN]
\* The block counter of the DMA channel can count the channels of any read.
ASSUME BlockAssumption   == \A r \in Reads : Cardinality(r.channels) < ItemLimit
ASSUME SlotsAssumption   == BufferSize \in Nat \ {0} /\ Buffers = 0 .. (BufferSize - 1)
ASSUME RanksAssumption   == Ranks \in Nat \ {0}
ASSUME BoundsAssumption  ==
  MaxRepeats \in Nat /\ MaxRequested \in Nat \ {0} /\ LockBound \in Nat
ASSUME HazardsAssumption == Hazards \subseteq {"late", "dterr", "overtake"}

VARIABLES
  useDma,    (* the build                                                  *)
  \* callers
  pc, call, ret,
  \* adc_context
  lock,      (* the semaphore                                              *)
  async,     (* ctx->asynchronous                                          *)
  req,       (* ctx->sequence                                              *)
  status, sync, index, requested,
  timer,     (* the interval timer runs                                    *)
  \* adc_at32_data
  buffer, repeatBuffer,  (* as offsets into the caller's buffer            *)
  count,     (* samples_count                                              *)
  \* hardware
  res,       (* the bits of the resolution field that are set              *)
  osq,       (* the sequencer: a channel for each rank,                    *)
  oclen,     (* and the ranks it converts                                  *)
  chan,      (* the DMA channel                                            *)
  left,      (* conversions the ADC has still to make                      *)
  eoc, data, (* adc_flag_get(adc, 0x2), and the data register              *)
  held,      (* the count of the power lock, pm_policy_state_lock          *)
  \* history
  mem,       (* the caller's buffer                                        *)
  shot,      (* samplings begun in this read                               *)
  accepted,  (* the sampling that was kept at each index                   *)
  outcome,   (* what the read was completed with                           *)
  owed       (* reads refused so far, less the samplings that came after   *)
             (* the first one of their read                                *)

callers  == <<pc, call, ret>>
ctx      == <<lock, async, req, status, sync, index, requested, timer>>
position == <<buffer, repeatBuffer, count>>
hw       == <<res, osq, oclen, chan, left, eoc, data>>
power    == <<held, owed>>
history  == <<mem, shot, accepted, outcome>>
vars     == <<useDma, callers, ctx, position, hw, power, history>>

None   == [channel |-> -1, shot |-> 0]
NoRead == [async |-> FALSE, channels |-> {}, extra |-> 0, interval |-> FALSE,
           callback |-> FALSE, size |-> 0, resolution |-> 0, oversampling |-> FALSE]

\* adc_at32_init, after which the context is unlocked.
Init ==
  /\ useDma \in BOOLEAN
  /\ pc = [c \in Callers |-> "idle"] /\ call = [c \in Callers |-> NoRead]
  /\ ret = [c \in Callers |-> "ok"]
  /\ lock = 1 /\ async = FALSE /\ req = NoRead /\ status = "ok" /\ sync = 0
  /\ index = 0 /\ requested = 0 /\ timer = FALSE
  /\ buffer = 0 /\ repeatBuffer = 0 /\ count = 0
  /\ res = {} /\ osq = [k \in 1 .. Ranks |-> 0] /\ oclen = 1
  /\ chan = Reset(0) /\ left = 0 /\ eoc = FALSE /\ data = None
  /\ held = 0 /\ owed = 0
  /\ mem = [s \in Buffers |-> None] /\ shot = 0 /\ accepted = [i \in Buffers |-> 0]
  /\ outcome = "none"

\* data->channel_count
Count(r) == Cardinality(r.channels)

HandlerDue == eoc \/ Asserted(chan)

-----------------------------------------------------------------------------
(* Beginning a sampling *)

\* adc_at32_dma_start (first the fault of not starting the channel).
DmaPrepared(at, n) == Configured(chan, at, n)
DmaStart(at, n)    == Started(Configured(chan, at, n))

\* adc_context_start_sampling at an offset: the DMA channel is set up anew,
\* whatever its state, and the ADC converts the ranks of the sequencer.
StartSampling(at, n, ranks) ==
  /\ buffer' = at /\ repeatBuffer' = at
  /\ chan' = IF useDma THEN DmaStart(at, n) ELSE chan
  /\ left' = ranks
  /\ shot' = shot + 1

-----------------------------------------------------------------------------
(* The callers *)

\* A caller comes with a sequence: adc_context_lock and
\* pm_policy_state_lock_get, which counts.
Lock(c) ==
  /\ pc[c] = "idle" /\ lock = 1
  /\ (\E d \in Callers : pc[d] # "idle") => "overtake" \in Hazards
  /\ \E r \in Reads : call' = [call EXCEPT ![c] = r] /\ async' = r.async
  /\ lock' = 0
  /\ held \in -LockBound .. LockBound /\ held' = held + 1
  /\ pc' = [pc EXCEPT ![c] = "start"]
  /\ mem' = [s \in Buffers |-> None] /\ shot' = 0 /\ outcome' = "none"
  /\ accepted' = [i \in Buffers |-> 0]
  /\ UNCHANGED <<useDma, ret, req, status, sync, index, requested, timer, position, hw, owed>>

\* set_resolution keeps the bits that were set before.
ResBits(resolution) ==
  CASE resolution = 6 -> {0, 1} [] resolution = 8 -> {1} [] resolution = 10 -> {0} [] OTHER -> {}
Multiple == \E a, b \in ResTable : a # b
SetResolution(r) ==
  res' = IF r.channels # {} /\ Multiple /\ r.resolution \in ResTable
         THEN res \cup ResBits(r.resolution) ELSE res

\* set_sequencer: the channels in the order of their numbers, as far as there are
\* ranks for them (at32_adc_sequencer_channel_set); the field of their number has no
\* room for more than the ranks either.
Ranked(S) == [k \in 1 .. Cardinality(S) |-> CHOOSE c \in S : Cardinality({d \in S : d < c}) = k - 1]
SetSequencer(r) ==
  /\ osq' = [k \in 1 .. Ranks |-> IF k <= Count(r) THEN Ranked(r.channels)[k] ELSE osq[k]]
  /\ oclen' = ((Count(r) - 1) % Ranks) + 1

\* check_buffer
TooSmall(r) == r.size < Count(r) * (1 + r.extra)

Refusal(r) ==
  IF r.channels = {} \/ (Multiple /\ r.resolution \notin ResTable) THEN "einval"
  ELSE IF TooSmall(r) THEN "enomem"
  ELSE IF r.oversampling THEN "enotsup" ELSE "ok"
Refusals == {"einval", "enomem", "enotsup"}

\* samples_count starts from nothing (first the fault of going on).
SameCount  == UNCHANGED count
FreshCount == count' = 0

\* start_read up to adc_context_start_read, when it refuses the sequence ...
Refuse(c) ==
  LET r == call[c] IN
  /\ pc[c] = "start" /\ Refusal(r) # "ok"
  /\ SetResolution(r)
  /\ IF Refusal(r) \in {"enomem", "enotsup"} THEN SetSequencer(r) ELSE UNCHANGED <<osq, oclen>>
  /\ buffer' = 0 /\ FreshCount
  /\ ret' = [ret EXCEPT ![c] = Refusal(r)]
  /\ pc' = [pc EXCEPT ![c] = "release"]
  /\ UNCHANGED <<useDma, call, ctx, repeatBuffer, chan, left, eoc, data, power, history>>

\* ... and when it begins the read.
StartRead(c) ==
  LET r == call[c] IN
  /\ pc[c] = "start" /\ Refusal(r) = "ok"
  /\ SetResolution(r) /\ SetSequencer(r)
  /\ FreshCount
  /\ req' = r /\ status' = "ok" /\ index' = 0
  /\ IF r.interval
     THEN /\ requested' = 0 /\ timer' = TRUE
          /\ buffer' = 0
          /\ UNCHANGED <<repeatBuffer, chan, left, shot>>
     ELSE StartSampling(0, Count(r), oclen') /\ UNCHANGED <<requested, timer>>
  /\ pc' = [pc EXCEPT ![c] = "wait"]
  /\ UNCHANGED <<useDma, call, ret, lock, async, sync, eoc, data, power, mem, accepted, outcome>>

\* adc_context_wait_for_completion; dma_error is 0 since the sampling began.
Wait(c) ==
  /\ pc[c] = "wait"
  /\ IF async THEN ret' = [ret EXCEPT ![c] = "ok"] /\ UNCHANGED sync
     ELSE sync = 1 /\ sync' = 0 /\ ret' = [ret EXCEPT ![c] = status]
  /\ pc' = [pc EXCEPT ![c] = "release"]
  /\ UNCHANGED <<useDma, call, lock, async, req, status, index, requested, timer, position, hw,
                 power, history>>

\* adc_context_release: an asynchronous read that began keeps the lock.  Nothing
\* puts the power lock of a read that was refused.
Release(c) ==
  /\ pc[c] = "release"
  /\ IF async /\ ret[c] = "ok" THEN UNCHANGED lock ELSE lock' = 1
  /\ pc' = [pc EXCEPT ![c] = "idle"] /\ call' = [call EXCEPT ![c] = NoRead]
  /\ owed' = IF ret[c] \in Refusals THEN owed + 1 ELSE owed
  /\ UNCHANGED <<useDma, ret, async, req, status, sync, index, requested, timer, position,
                 hw, held, history>>

-----------------------------------------------------------------------------
(* The end of a sampling *)

\* adc_context_complete
Complete ==
  /\ outcome' = status
  /\ IF async THEN lock' = 1 /\ UNCHANGED sync ELSE sync' = 1 /\ UNCHANGED lock

Actions == IF req.callback
           THEN {"continue", "finish"} \cup
                (IF shot - index - 1 < MaxRepeats THEN {"repeat"} ELSE {})
           ELSE {"continue"}

\* adc_context_update_buffer_pointer (first the fault of not going back).
AtEnd(action, at)  == at
NextAt(action, at) == IF action = "repeat" THEN repeatBuffer ELSE at

\* pm_policy_state_lock_put (first the fault of forgetting it).
KeepLock == UNCHANGED held
PutLock  == held' = held - 1

\* adc_context_on_sampling_done, and pm_policy_state_lock_put: the samples end
\* at `at`, and `ch` is what has become of the DMA channel.
OnSamplingDone(action, at, ch) ==
  LET finish == action = "finish" \/ (action # "repeat" /\ index = req.extra) IN
  /\ accepted' = [accepted EXCEPT ![index] = shot]
  /\ PutLock
  /\ owed' = IF accepted[0] = 0 THEN owed ELSE owed - 1
  /\ IF finish
     THEN /\ timer' = FALSE
          /\ Complete
          /\ buffer' = at /\ chan' = ch
          /\ UNCHANGED <<index, requested, repeatBuffer, left, shot>>
     ELSE /\ index' = IF action = "repeat" THEN index ELSE index + 1
          /\ requested' = IF req.interval THEN requested - 1 ELSE requested
          /\ IF ~req.interval \/ requested > 1
             THEN StartSampling(NextAt(action, at), Count(req), oclen)
             ELSE buffer' = NextAt(action, at) /\ chan' = ch /\ UNCHANGED <<repeatBuffer, left, shot>>
          /\ UNCHANGED <<timer, lock, sync, outcome>>

\* adc_at32_isr: a sample is read, and the last one ends the sampling.
Stored(m, at, sample) == IF at \in Buffers THEN [m EXCEPT ![at] = sample] ELSE m

Isr(action) ==
  /\ ~useDma /\ eoc /\ action \in Actions
  /\ eoc' = FALSE
  /\ mem' = Stored(mem, buffer, data)
  /\ IF count + 1 = Count(req)
     THEN count' = 0 /\ OnSamplingDone(action, buffer + 1, chan)
     ELSE /\ count' = count + 1 /\ buffer' = buffer + 1
          /\ UNCHANGED <<lock, sync, index, requested, timer, repeatBuffer, chan, left, power, shot,
                         accepted, outcome>>
  /\ UNCHANGED <<useDma, callers, async, req, status, res, osq, oclen, data>>

\* dma_at32_isr and dma_callback: the block is done, the channel is stopped.
DmaIsr(action) ==
  /\ useDma /\ Asserted(chan) /\ action \in Actions
  /\ count' = Count(req)
  /\ OnSamplingDone(action, buffer + Count(req), Stopped(Acknowledged(chan)))
  /\ UNCHANGED <<useDma, callers, async, req, status, res, osq, oclen, eoc, data, mem>>

\* The interval timer: adc_context_request_next_sampling.
TimerExpires ==
  /\ timer /\ requested < MaxRequested
  /\ requested' = requested + 1
  /\ IF requested = 0
     THEN StartSampling(buffer, Count(req), oclen) /\ UNCHANGED status
     ELSE status' = "ebusy" /\ UNCHANGED <<buffer, repeatBuffer, chan, left, shot>>
  /\ UNCHANGED <<useDma, callers, lock, async, req, sync, index, timer, count, res, osq, oclen, eoc, data,
                 power, mem, accepted, outcome>>

-----------------------------------------------------------------------------
(* The converter *)

Convert ==
  /\ left > 0 /\ left' = left - 1
  /\ LET sample == [channel |-> osq[oclen - left + 1], shot |-> shot] IN
     IF useDma
     THEN /\ UNCHANGED <<eoc, data>>
          /\ IF Live(chan)
             THEN /\ mem' = Stored(mem, chan.buffer + (Count(req) - chan.left), sample)
                  /\ chan' = Moved(chan)
             ELSE UNCHANGED <<mem, chan>>
     ELSE /\ eoc => "late" \in Hazards
          /\ eoc' = TRUE /\ data' = sample
          /\ UNCHANGED <<mem, chan>>
  /\ UNCHANGED <<useDma, callers, ctx, position, res, osq, oclen, power, shot, accepted, outcome>>

DmaError ==
  /\ "dterr" \in Hazards /\ useDma /\ Live(chan)
  /\ chan' = Errored(chan)
  /\ UNCHANGED <<useDma, callers, ctx, position, res, osq, oclen, left, eoc, data, power, history>>

-----------------------------------------------------------------------------

CallerStep(c) == Refuse(c) \/ StartRead(c) \/ Wait(c) \/ Release(c)
Handler       == \E a \in {"continue", "finish", "repeat"} : Isr(a) \/ DmaIsr(a)

Next ==
  \/ \E c \in Callers : ~HandlerDue /\ (Lock(c) \/ CallerStep(c))
  \/ Handler \/ TimerExpires \/ Convert \/ DmaError

\* Threads are scheduled, interrupts are taken, the converter converts and the
\* timer expires.
Fairness ==
  /\ \A c \in Callers : WF_vars(~HandlerDue /\ CallerStep(c))
  /\ WF_vars(Handler) /\ WF_vars(TimerExpires) /\ WF_vars(Convert)

Spec == Init /\ [][Next]_vars /\ Fairness

-----------------------------------------------------------------------------

\* Every variable holds a value of its kind; in particular no more conversions
\* and samples are counted than the sequence has channels.
TypeOK ==
  /\ useDma \in BOOLEAN
  /\ pc \in [Callers -> {"idle", "start", "wait", "release"}]
  /\ call \in [Callers -> Reads \cup {NoRead}] /\ req \in Reads \cup {NoRead}
  /\ ret \in [Callers -> {"ok", "ebusy"} \cup Refusals]
  /\ lock \in 0 .. 1 /\ sync \in 0 .. 1 /\ async \in BOOLEAN /\ timer \in BOOLEAN
  /\ status \in {"ok", "ebusy"} /\ index \in 0 .. req.extra /\ requested \in 0 .. MaxRequested
  /\ buffer \in 0 .. BufferSize /\ repeatBuffer \in 0 .. BufferSize
  /\ count \in 0 .. Count(req) /\ left \in 0 .. oclen /\ oclen \in 1 .. Ranks
  /\ res \subseteq {0, 1} /\ chan \in Channel /\ eoc \in BOOLEAN
  /\ held \in Int /\ owed \in Int

\* When a read is completed without an error, the buffer holds, for every
\* sampling that was asked for, one sample of each channel in order, all of the
\* sampling that the callback let stand (update_buffer_pointer, dma_callback,
\* adc_at32_isr); and no sampling begins where it would store beyond the buffer
\* (check_buffer).
SamplesInOrder ==
  /\ outcome = "ok" =>
       \A i \in 0 .. index, c \in req.channels :
         mem[i * Count(req) + Cardinality({d \in req.channels : d < c})] =
           [channel |-> c, shot |-> accepted[i]]
  /\ left > 0 => repeatBuffer + Count(req) <= req.size

\* The power lock is taken once for a read and put once for a sampling
\* (adc_at32_read, dma_callback, adc_at32_isr).  So it counts 1 while the read under
\* way has had no sampling, and 0 otherwise, but for what is owed: a read that was
\* refused leaves it taken for good, and every sampling after the first one of a read
\* takes 1 from the reads to come.  As long as nothing is owed, the first sampling of
\* a read runs under the lock, and nothing is locked between reads.
PowerLock == held = owed + (IF lock = 0 /\ accepted[0] = 0 THEN 1 ELSE 0)

\* The converter runs with the resolution that was asked for ("Check and set the
\* resolution", start_read).
ResolutionSet == left > 0 /\ Multiple => res = ResBits(req.resolution)

\* A read that has the lock returns, and an asynchronous one is completed as well;
\* only a DMA bus error, whose interrupt is not enabled, and a sequence of more
\* channels than there are ranks, some of which are never converted, make it wait for
\* good (adc_context_wait_for_completion, which has no limit, and dma_callback).
DmaFailed == "DTERR" \in chan.flags
TooWide   == Count(req) > Ranks
ReadReturns ==
  /\ \A c \in Callers : pc[c] = "start" ~> pc[c] = "idle" \/ DmaFailed \/ TooWide
  /\ lock = 0 ~> lock = 1 \/ DmaFailed \/ TooWide
=============================================================================
