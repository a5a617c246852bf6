-------------------------------- MODULE Dma --------------------------------
(***************************************************************************)
(* The channels of one DMA controller, drivers/dma/dma_at32.c, as the      *)
(* drivers of this repository use them: one block per configuration, no    *)
(* loop mode (source_reload_en is never set) and no dma_reload.            *)
(*                                                                         *)
(* A driver owns its channels (dma_request_channel), so the module has no  *)
(* behaviour of its own: the operators give the next value of a channel,   *)
(* and the modules of the drivers compose them into their steps.           *)
(***************************************************************************)
EXTENDS Naturals

CONSTANTS
  Buffers,    (* what a channel may point into                             *)
  ItemLimit   (* dtcnt counts modulo this (2^16)                           *)

ASSUME ItemAssumption == ItemLimit \in Nat \ {0}

\* data->channels[ch].busy and the registers: chen, the items left in dtcnt,
\* the enabled interrupts, the status flags, and the memory behind maddr.
Channel ==
  [busy: BOOLEAN, on: BOOLEAN, left: Nat, ints: SUBSET {"FDT"},
   flags: SUBSET {"FDT", "DTERR"}, buffer: Buffers]

\* dma_at32_init: interrupts off, registers reset.
Reset(buffer) ==
  [busy |-> FALSE, on |-> FALSE, left |-> 0, ints |-> {}, flags |-> {},
   buffer |-> buffer]

\* dma_at32_configure: dma_reset clears the registers and the flags; busy is
\* not looked at and not changed.  The error interrupt is not enabled.
Configured(ch, buffer, items) ==
  [ch EXCEPT !.on = FALSE, !.left = items % ItemLimit, !.ints = {"FDT"},
             !.flags = {}, !.buffer = buffer]

\* dma_at32_start.
Started(ch) == [ch EXCEPT !.on = TRUE, !.busy = TRUE]

\* dma_at32_stop.
Stopped(ch) ==
  [ch EXCEPT !.ints = {}, !.flags = @ \ {"FDT"}, !.on = FALSE, !.busy = FALSE]

\* What dma_at32_isr looks for: flags whose interrupt is enabled.
Asserted(ch) == ch.flags \cap ch.ints # {}

\* dma_at32_isr up to the callback: the block is done.
Acknowledged(ch) == [ch EXCEPT !.busy = FALSE, !.flags = @ \ {"FDT"}]

\* The controller moves an item, or meets a bus error and turns itself off.
Live(ch)     == ch.on /\ ch.left > 0
Moved(ch)    == [ch EXCEPT !.left = @ - 1,
                           !.flags = IF ch.left = 1 THEN @ \cup {"FDT"} ELSE @]
Errored(ch)  == [ch EXCEPT !.on = FALSE, !.flags = @ \cup {"DTERR"}]
=============================================================================
