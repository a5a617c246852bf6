--------------------------- MODULE MCAdcSequence ---------------------------
(* Instances of AdcSequence: a buffer of at most six samples, a sequencer of
   two ranks. *)
EXTENDS AdcSequence

Read(a, channels, extra, interval, callback, size, resolution) ==
  [async |-> a, channels |-> channels, extra |-> extra, interval |-> interval,
   callback |-> callback, size |-> size, resolution |-> resolution, oversampling |-> FALSE]

Slots == 0 .. 5

\* No channel, one plain sampling, a buffer that is too small for the extra
\* samplings, extra samplings at once and by the timer, with a callback, an
\* asynchronous read, a resolution that is not in the table, oversampling, and more
\* channels than there are ranks.
SmallReads ==
  { Read(FALSE, {}, 0, FALSE, FALSE, 2, 12), Read(FALSE, {3, 14}, 0, FALSE, FALSE, 2, 12),
    Read(FALSE, {3, 14}, 1, FALSE, FALSE, 3, 12), Read(FALSE, {3, 14}, 1, FALSE, TRUE, 4, 12),
    Read(FALSE, {5}, 2, TRUE, TRUE, 3, 12), Read(TRUE, {3, 14}, 1, FALSE, TRUE, 4, 12),
    Read(TRUE, {3, 14}, 1, TRUE, FALSE, 4, 12), Read(FALSE, {5}, 0, FALSE, FALSE, 1, 7),
    [Read(FALSE, {14}, 0, FALSE, FALSE, 2, 12) EXCEPT !.oversampling = TRUE],
    Read(FALSE, {3, 5, 14}, 0, FALSE, FALSE, 3, 12) }

\* Reads at two resolutions.
TwoResolutions == { Read(FALSE, {5}, 0, FALSE, FALSE, 1, r) : r \in {8, 12} }
=============================================================================
