------------------------------- MODULE SpiDma -------------------------------
(***************************************************************************)
(* Transfers of drivers/spi/spi_at32.c with CONFIG_SPI_AT32_INTERRUPT: on  *)
(* a device with DMA channels (spi_at32_start_dma_transceive and the DMA   *)
(* callback) and on one without (spi_at32_isr), 8-bit frames, master.      *)
(*                                                                         *)
(* spi_context, which is Zephyr's, is modelled from its use: a request is  *)
(* two lists of buffer lengths that shrink from the front, `sync` is a     *)
(* binary semaphore.  Callers take turns on the context's lock, so there   *)
(* is one caller.  All interrupts have one priority: a handler is one      *)
(* action, and no thread step runs while a handler is due.                 *)
(***************************************************************************)
EXTENDS Dma, Sequences

CONSTANTS
  Requests,   (* [tx, rx: sequences of buffer lengths] a caller may pass   *)
  Hazards     (* what may go wrong:                                        *)
              (*   "dterr"    a DMA bus error                              *)
              (*   "sperr"    an SPI error flag                            *)
              (*   "preempt"  a byte or more crosses the wire between the  *)
              (*              enabling of the two DMA requests             *)
              (*   "slow"     the wait expires before a working transfer   *)

Lengths == Seq(Nat \ {0})

ASSUME RequestsAssumption == Requests \subseteq [tx: Lengths, rx: Lengths]
ASSUME HazardsAssumption  == Hazards \subseteq {"dterr", "sperr", "preempt", "slow"}
ASSUME BuffersAssumption  == Buffers = {"none", "own", "dummy", "old"}

VARIABLES
  hasDma,    (* cfg->dma[TX].dev && cfg->dma[RX].dev                       *)
  pc,        (* where the caller is                                        *)
  tx, rx,    (* ctx: lengths of the buffers not yet done, current first    *)
  count,     (* data->dma[i].count                                         *)
  chan,      (* the two DMA channels                                       *)
  dmaen,     (* enabled DMA requests of the SPI                            *)
  intsOn,    (* RDBF, TDBE and error interrupts of the SPI                 *)
  error,     (* a status bit of SPI_AT32_ERR_MASK                          *)
  full,      (* the receive register holds a byte                          *)
  cs,        (* chip select and spien                                      *)
  sync,      (* ctx->sync                                                  *)
  status,    (* ctx->sync_status                                           *)
  ret,       (* what the call returns                                      *)
  owed       (* history: bytes of this request not moved, per direction    *)

vars == <<hasDma, pc, tx, rx, count, chan, dmaen, intsOn, error, full, cs, sync,
          status, ret, owed>>

Dirs == {"RX", "TX"}

MinOf(a, b) == IF a <= b THEN a ELSE b
First(s)    == IF s = <<>> THEN 0 ELSE s[1]

Total[s \in Lengths] == IF s = <<>> THEN 0 ELSE s[1] + Total[Tail(s)]

\* spi_context_max_continuous_chunk
ChunkOf(t, r) ==
  IF t = <<>> THEN First(r) ELSE IF r = <<>> THEN First(t) ELSE MinOf(t[1], r[1])

\* Seeded fault: a buffer is left one update too late.
UpdatedLate(s, n) ==
  CASE s = <<>> -> s
    [] n > s[1] -> Tail(s)
    [] OTHER    -> [s EXCEPT ![1] = @ - n]

\* spi_context_update_tx, spi_context_update_rx
Updated(s, n) ==
  CASE s = <<>>  -> s
    [] n >= s[1] -> Tail(s)
    [] OTHER     -> [s EXCEPT ![1] = @ - n]

Ongoing(t, r) == t # <<>> \/ r # <<>>

\* Somebody's handler is due: the SPI's, or a channel's.
SpiLine == intsOn     \* TDBE is set whenever no frame is being exchanged
ThreadRuns == ~SpiLine /\ \A d \in Dirs : ~Asserted(chan[d])

Init ==
  /\ hasDma \in BOOLEAN
  /\ pc = "idle" /\ tx = <<>> /\ rx = <<>>
  /\ count = [d \in Dirs |-> 0]
  /\ chan = [d \in Dirs |-> Reset("none")]
  /\ dmaen = {} /\ intsOn = FALSE /\ error = FALSE /\ full = FALSE /\ cs = FALSE
  /\ sync = 0 /\ status = "ok" /\ ret = "none"
  /\ owed = [d \in Dirs |-> 0]

-----------------------------------------------------------------------------
(* The caller: spi_at32_transceive_impl *)

\* Lock, configure, enable, set up the buffers, select.  What the channels
\* still point at belongs to an earlier request.
Begin(r) ==
  /\ pc = "idle"
  /\ tx' = r.tx /\ rx' = r.rx
  /\ cs' = TRUE
  /\ count' = [d \in Dirs |-> 0]
  /\ chan' = [d \in Dirs |->
                [chan[d] EXCEPT !.buffer = IF @ = "own" THEN "old" ELSE @]]
  /\ owed' = [TX |-> Total[r.tx], RX |-> Total[r.rx]]
  /\ pc' = IF hasDma THEN "setup" ELSE "ints"
  /\ UNCHANGED <<hasDma, dmaen, intsOn, error, full, sync, status, ret>>

\* Seeded fault: the addresses of the last configuration are kept.
SetUpKeepingAddress(ch, s, n) ==
  Started(Configured(ch, IF ch.buffer = "none" THEN "own" ELSE ch.buffer, n))

\* spi_at32_dma_setup: configure and start the channel.  A buffer that is NULL, for
\* which the dummy is taken too, is one the caller skips: its bytes count as moved, so
\* the requests tell only buffers and the end of the list apart.
SetUp(ch, s, n) == Started(Configured(ch, IF s = <<>> THEN "dummy" ELSE "own", n))

\* Seeded fault: a channel that has done its part is programmed again.
ProgrammedTwice(cs0, counts, t, r) ==
  LET n == ChunkOf(t, r)
  IN  [d \in Dirs |-> IF n # 0 /\ ~cs0[d].busy
                      THEN SetUp(cs0[d], IF d = "TX" THEN t ELSE r, n)
                      ELSE cs0[d]]

\* The loop of spi_at32_start_dma_transceive.
Programmed(cs0, counts, t, r) ==
  LET n == ChunkOf(t, r)
  IN  [d \in Dirs |-> IF n # counts[d] /\ ~cs0[d].busy
                      THEN SetUp(cs0[d], IF d = "TX" THEN t ELSE r, n)
                      ELSE cs0[d]]

\* In the caller the requests are still off, so no item moves during the loop.
SetUpChannels ==
  /\ pc = "setup"
  /\ chan' = Programmed(chan, count, tx, rx)
  /\ pc' = "transmitter"
  /\ UNCHANGED <<hasDma, tx, rx, count, dmaen, intsOn, error, full, cs, sync,
                 status, ret, owed>>

EnableTransmitter ==
  /\ pc = "transmitter"
  /\ dmaen' = dmaen \cup {"TX"}
  /\ pc' = "receiver"
  /\ UNCHANGED <<hasDma, tx, rx, count, chan, intsOn, error, full, cs, sync,
                 status, ret, owed>>

EnableReceiver ==
  /\ pc = "receiver"
  /\ dmaen' = dmaen \cup {"RX"}
  /\ pc' = "wait"
  /\ UNCHANGED <<hasDma, tx, rx, count, chan, intsOn, error, full, cs, sync,
                 status, ret, owed>>

\* Without DMA: clear the status, enable the interrupts.
EnableInterrupts ==
  /\ pc = "ints"
  /\ intsOn' = TRUE /\ error' = FALSE /\ full' = FALSE
  /\ pc' = "wait"
  /\ UNCHANGED <<hasDma, tx, rx, count, chan, dmaen, cs, sync, status, ret, owed>>

\* spi_context_wait_for_completion
TakeSync ==
  /\ pc = "wait"
  /\ sync = 1
  /\ sync' = 0
  /\ ret' = status
  /\ pc' = "quiesce"
  /\ UNCHANGED <<hasDma, tx, rx, count, chan, dmaen, intsOn, error, full, cs,
                 status, owed>>

\* The receiver can take the byte that is in the register.
Receiving == "RX" \in dmaen /\ Live(chan["RX"])

\* An item can be written: the register is free, or its byte will be lost.
Transmitting ==
  /\ "TX" \in dmaen /\ Live(chan["TX"])
  /\ \/ ~full
     \/ "RX" \in dmaen /\ ~Live(chan["RX"])
     \/ "RX" \notin dmaen /\ "preempt" \in Hazards

TimeOut ==
  /\ pc = "wait"
  /\ sync = 0
  /\ "slow" \in Hazards \/ ~(Transmitting \/ (Receiving /\ full))
  /\ ret' = "timeout"
  /\ pc' = "quiesce"
  /\ UNCHANGED <<hasDma, tx, rx, count, chan, dmaen, intsOn, error, full, cs, sync,
                 status, owed>>

\* Seeded fault: the requests stay enabled after the transfer.
QuiesceNot ==
  /\ pc = "quiesce"
  /\ pc' = "deselect"
  /\ UNCHANGED <<hasDma, tx, rx, count, chan, dmaen, intsOn, error, full, cs, sync,
                 status, ret, owed>>

\* From the wait for TDBE to the disabling of the DMA requests.
Quiesce ==
  /\ pc = "quiesce"
  /\ dmaen' = {}
  /\ pc' = "deselect"
  /\ UNCHANGED <<hasDma, tx, rx, count, chan, intsOn, error, full, cs, sync, status,
                 ret, owed>>

\* Deselect, disable the SPI, release the context, return.
Deselect ==
  /\ pc = "deselect"
  /\ cs' = FALSE
  /\ tx' = <<>> /\ rx' = <<>>
  /\ owed' = [d \in Dirs |-> 0]
  /\ pc' = "idle"
  /\ UNCHANGED <<hasDma, count, chan, dmaen, intsOn, error, full, sync, status, ret>>

-----------------------------------------------------------------------------
(* Interrupts *)

\* Seeded fault: the interrupts of the SPI stay enabled.
CompleteArmed(cs0, outcome) ==
  /\ chan' = [d \in Dirs |-> IF hasDma THEN Stopped(cs0[d]) ELSE cs0[d]]
  /\ sync' = 1
  /\ status' = outcome
  /\ UNCHANGED <<intsOn, dmaen>>

\* spi_at32_complete
Complete(cs0, outcome) ==
  /\ intsOn' = FALSE
  /\ chan' = [d \in Dirs |-> IF hasDma THEN Stopped(cs0[d]) ELSE cs0[d]]
  /\ sync' = 1
  /\ status' = outcome
  /\ UNCHANGED dmaen

\* Seeded fault: one direction is enough.
ChunkFinishedHalf(counts) ==
  counts["TX"] >= ChunkOf(tx, rx) \/ counts["RX"] >= ChunkOf(tx, rx)

\* spi_at32_chunk_transfer_finished
ChunkFinished(counts) ==
  MinOf(counts["TX"], counts["RX"]) >= ChunkOf(tx, rx)

\* dma_at32_isr for one channel, with spi_at32_dma_callback.
DmaIsr(d) ==
  /\ Asserted(chan[d])
  /\ LET n      == ChunkOf(tx, rx)
         cs0    == [chan EXCEPT ![d] = Acknowledged(@)]
         counts == [count EXCEPT ![d] = @ + n]
     IN  \/ /\ ~ChunkFinished(counts)
            /\ count' = counts
            /\ chan' = Programmed(cs0, counts, tx, rx)
            /\ dmaen' = Dirs
            /\ UNCHANGED <<tx, rx, sync, status, intsOn>>
         \/ /\ ChunkFinished(counts)
            /\ tx' = Updated(tx, n) /\ rx' = Updated(rx, n)
            /\ \/ /\ Ongoing(tx', rx')
                  /\ count' = [e \in Dirs |-> 0]
                  /\ chan' = Programmed(cs0, count', tx', rx')
                  /\ dmaen' = Dirs
                  /\ UNCHANGED <<sync, status, intsOn>>
               \/ /\ ~Ongoing(tx', rx')
                  /\ count' = counts
                  /\ Complete(cs0, "ok")
  /\ UNCHANGED <<hasDma, pc, error, full, cs, ret, owed>>

\* What spi_at32_frame_exchange returns: an error flag may be up at its end.
FrameEnds == IF "sperr" \in Hazards /\ Ongoing(tx, rx) THEN {"ok", "eio"} ELSE {"ok"}

\* spi_at32_isr: an error ends the request, otherwise a frame is exchanged --
\* the handler waits for it -- and the last frame, or an error, ends the request.
SpiIsr ==
  /\ SpiLine
  /\ \/ /\ error
        /\ Complete(chan, "eio")
        /\ UNCHANGED <<tx, rx, owed, error>>
     \/ /\ ~error
        /\ tx' = Updated(tx, 1) /\ rx' = Updated(rx, 1)
        /\ owed' = [TX |-> IF tx # <<>> THEN owed["TX"] - 1 ELSE owed["TX"],
                    RX |-> IF rx # <<>> THEN owed["RX"] - 1 ELSE owed["RX"]]
        /\ \E err \in FrameEnds :
             /\ error' = (err = "eio")
             /\ IF err = "eio" \/ ~Ongoing(tx', rx')
                THEN Complete(chan, err)
                ELSE UNCHANGED <<chan, sync, status, intsOn, dmaen>>
  /\ UNCHANGED <<hasDma, pc, count, full, cs, ret>>

-----------------------------------------------------------------------------
(* The wire and the DMA controller (external). *)

ExtOnly == UNCHANGED <<hasDma, pc, tx, rx, count, dmaen, intsOn, cs, sync, status,
                       ret>>

Move(d) ==
  /\ chan' = [chan EXCEPT ![d] = Moved(@)]
  /\ owed' = [owed EXCEPT ![d] = IF chan[d].buffer = "own" THEN @ - 1 ELSE @]

ExtTransmit ==
  /\ Transmitting
  /\ Move("TX")
  /\ full' = TRUE
  /\ UNCHANGED error
  /\ ExtOnly

ExtReceive ==
  /\ Receiving /\ full
  /\ Move("RX")
  /\ full' = FALSE
  /\ UNCHANGED error
  /\ ExtOnly

ExtDmaError(d) ==
  /\ "dterr" \in Hazards
  /\ d \in dmaen /\ Live(chan[d])
  /\ chan' = [chan EXCEPT ![d] = Errored(@)]
  /\ UNCHANGED <<owed, full, error>>
  /\ ExtOnly

ExtSpiError ==
  /\ "sperr" \in Hazards
  /\ intsOn /\ ~error
  /\ error' = TRUE
  /\ UNCHANGED <<chan, owed, full>>
  /\ ExtOnly

-----------------------------------------------------------------------------
Call ==
  /\ ThreadRuns
  /\ \/ SetUpChannels \/ EnableTransmitter \/ EnableReceiver \/ EnableInterrupts
     \/ TakeSync \/ TimeOut \/ Quiesce \/ Deselect

Enter == ThreadRuns /\ \E r \in Requests : Begin(r)

Wire == ExtTransmit \/ ExtReceive

Next ==
  \/ Call \/ Enter
  \/ \E d \in Dirs : DmaIsr(d) \/ ExtDmaError(d)
  \/ SpiIsr
  \/ Wire
  \/ ExtSpiError

Spec == Init /\ [][Next]_vars

\* The caller and the handlers run when they can; the wire carries what the
\* controller offers it.
FairSpec ==
  /\ Spec
  /\ WF_vars(Call) /\ WF_vars(SpiIsr) /\ WF_vars(Wire)
  /\ \A d \in Dirs : WF_vars(DmaIsr(d))

-----------------------------------------------------------------------------
(* Properties *)

\* Every variable keeps its type; no counter goes below zero.
TypeOK ==
  /\ hasDma \in BOOLEAN /\ intsOn \in BOOLEAN /\ error \in BOOLEAN
  /\ full \in BOOLEAN /\ cs \in BOOLEAN
  /\ pc \in {"idle", "setup", "transmitter", "receiver", "ints", "wait", "quiesce",
             "deselect"}
  /\ tx \in Lengths /\ rx \in Lengths
  /\ count \in [Dirs -> Nat] /\ owed \in [Dirs -> Nat]
  /\ chan \in [Dirs -> Channel]
  /\ dmaen \subseteq Dirs
  /\ sync \in {0, 1}
  /\ status \in {"ok", "eio"}
  /\ ret \in {"none", "ok", "eio", "timeout"}

\* Between calls the SPI raises no DMA request and no interrupt: no channel
\* touches the memory of a caller that has its buffers back.
QuietWhenIdle == pc = "idle" => dmaen = {} /\ ~intsOn /\ sync = 0

\* The two channels work on the same chunk: neither is more than the byte in
\* the register away from the other.
ChunksMatch ==
  pc # "idle" /\ (\A d \in Dirs : chan[d].on /\ chan[d].busy) =>
    chan["RX"].left = chan["TX"].left + (IF full THEN 1 ELSE 0)

\* transceive returns 0 only when every byte of both buffer sets has moved and
\* none is left in the receive register.
SuccessMeansMoved ==
  [][pc = "deselect" /\ pc' = "idle" /\ ret = "ok"
       => ~full /\ \A d \in Dirs : owed[d] = 0]_vars

\* No item moves through a channel that still points into the buffers of an
\* earlier request.
NoStrayAccess ==
  [][\A d \in Dirs : chan'[d].left < chan[d].left => chan[d].buffer # "old"]_vars

\* Every call returns, also after an error of the DMA controller or the SPI.
CallReturns == pc # "idle" ~> pc = "idle"

=============================================================================
