# Models of the AT32 drivers

TLA+ models, model checking and proofs for the drivers of `zephyr-at32-module`,
the out-of-tree Zephyr module for Artery AT32 microcontrollers. The repository is
a set of device drivers under `drivers/`; each runs on one core, in threads that
sleep on semaphores and in interrupt handlers that wake them. What can go wrong
in them is order: a handler between two register writes, two interrupts at once,
a timeout that races with a late completion, a channel or flag left over from the
call before. That is what these modules are about; register layouts, pin
multiplexing and logging are not.

Kernel services (semaphores, mutexes, `spi_context`, power-management locks), the
vendor's register library and the peripherals are not in the repository. They are
modelled from how the drivers use them, and `PROJECT.json` marks those
definitions external.

## 1. The system

| part | state it keeps | operations | made hard by |
|---|---|---|---|
| I2C master (`i2c_at32.c`, V2) | `bus_mutex`, `sync_sem`, `current`, error bits, reload mode, a power lock | transfer, configure; event and error handlers | chunks, continued messages, 500 ms timeout racing with handlers, several threads |
| I2C V1 (`i2c_at32.c` 98-1139) | `current`, `sync_sem`; an older peripheral without a byte counter | transfer, configure; event and error handlers, or polling | which handler meets which byte decides acks and STOPs; level interrupts |
| SPI (`spi_at32.c`) | `spi_context`, counts per direction, DMA set-up | transceive, frame handler, DMA callback | two channels finishing in either order, buffers cut into chunks, timeouts |
| DMA (`dma_at32.c`) | `busy` and configuration per channel | configure, start, stop, get_status, handler | 16-bit counters, error interrupts that are never enabled |
| EXINT lines (`intc_exint_at32.c`) | callback per line, source port per line, range table | set and remove callback, trigger, enable, disable, handlers of ranges | ports share lines, lines share registers and interrupts |
| GPIO (`gpio_at32.c`) | callback lists | configure, read and write, pin interrupts | partly failing interrupt configuration |
| Counter (`counter_at32_timer.c`) | callback per channel, `cc_int_pending`, guard period | set and cancel alarm, set top value, handler | the counter runs while an alarm is being set, and wraps |
| PWM (`pwm_at32.c`) | capture state, overflow count, interrupts to skip | set cycles, configure, enable, disable capture, handler | capture and overflow arriving together |
| ADC (`adc_at32.c`) | buffer pointers, sample count, power lock | read, handler, DMA callback | repeat paths, lock balance |
| Flash (`flash_at32*.c`) | lock and program bits of two banks | erase, write, read | an error in any step, empty semaphore macros, ranges checked in 32 bits |
| USART, clock control, reset, pin control, USB quirks | next to none | single register accesses | counter widths in the USART |

The parts interact in few ways. SPI and ADC own DMA channels and are called back
from the DMA handler. GPIO is the only client of EXINT, which calls it back. Every
driver switches its clock and reset line once, at initialisation. I2C, SPI, PWM,
ADC and counter use no lock against their own handlers: all interrupts have one
priority, so handlers do not preempt each other, but they run between any two
instructions of a thread. Flash has no handler, and its semaphore macros are empty: there
the threads themselves mix.

What makes each part correct:

- **I2C**: one thread in the bus section; success only with all bytes moved;
  nothing left in `sync_sem` or in reload mode for the next transfer; the power
  lock balanced; a repeated START where the caller asked for one; every call
  returns.
- **SPI and DMA**: success only with all bytes moved in both directions; no channel
  moves an item for a caller that has its buffers back; both channels on the same
  chunk; every call returns.
- **EXINT and GPIO**: a pin interrupt configured with success reaches the port that
  configured it, and every edge is reported.
- **Counter**: every accepted alarm fires once, not before its tick, and not later
  than its handler can run.
- **I2C V1**: success only with all bytes moved; the target is clocked for as many bytes
  as were asked for and the last one is not acked; the bus is given up where the caller asked.
- **PWM**: a report without an error is the period and pulse of one cycle; a capture reports
  when, and only when, it is on; an output keeps the pulse asked for through any captures on its timer, and the
  period as long as none is configured.
- **ADC**: samples land in order in the caller's buffer, and only there; the power lock is taken and put
  alike, or off by what is known; every read that no DMA error stops ends, at the resolution asked for.
- **Flash**: a call works through its range in order and returns 0 only at its end; a bank is
  locked and idle between calls; a power loss spoils at most one block or page.

`PROJECT.json` lists every component, and under `hazards` each place in the code
that a test would hardly reach, with the properties that watch it, or the reason
that none does.

## 2. Modules

| module | models | mostly from |
|---|---|---|
| `I2cMaster` | master transfers, configuration, both handlers, the controller | `i2c_at32.c` 1157-1560, 2000-2300 |
| `I2cService` | abstract: what `i2c_transfer` promises | |
| `I2cMasterProofs` | proofs about `I2cMaster` | |
| `I2cV1` | transfers of both builds of the V1 driver, and the bus | `i2c_at32.c` 98-1100 |
| `I2cV1Proofs` | proofs about `I2cV1` | |
| `Dma` | the operations on a DMA channel, as operators | `dma_at32.c` |
| `SpiDma` | transfers with DMA and with the frame handler, composed with `Dma` | `spi_at32.c` |
| `SpiDmaProofs` | proofs about `SpiDma` | |
| `GpioExint` | pin interrupts over the EXINT controller | `intc_exint_at32.c`, `gpio_at32.c` |
| `GpioExintProofs` | proofs about `GpioExint` | |
| `CounterAlarm` | alarms, top value and handler of a counter | `counter_at32_timer.c` |
| `CounterAlarmProofs` | proofs about `CounterAlarm` | |
| `PwmTimer` | capture and output on one timer | `pwm_at32.c` 300-800 |
| `PwmTimerProofs` | proofs about `PwmTimer` | |
| `AdcSequence` | reads with and without DMA, composed with `Dma` | `adc_at32.c` 300-760 |
| `AdcSequenceProofs` | proofs about `AdcSequence` | |
| `FlashService` | abstract: what writes and erases promise | |
| `Flash` | register sequences of writes and erases | `flash_at32.c`, `flash_at32_v1.c` |
| `FlashProofs` | proofs about `Flash`; that it implements `FlashService` | |
| `MC*` | constants for TLC | |

Every module follows the same rules. An action is a stretch of code that nothing
can observe half done: a handler (no handler preempts another), or what a thread
does up to the next register write or kernel call that a handler or another thread
can tell from the one before. Thread actions are guarded by "no handler is due":
on one core a pending interrupt runs first, so a handler falls between two thread
actions exactly when hardware (an `Ext...` or `Tick` action) raised its line
there. Variables keep the names of the source's fields; those under the
heading *history* exist only for the properties. An operator under the comment
*Seeded fault* is a plausible wrong version of the definition after it: it is used
by no specification, and putting it in the place of that definition makes a named
property fail, which shows that the property would notice.

### I2cMaster

A thread's `pc` follows `i2c_at32_transfer` and the functions below it: `lock`,
`setup` (the loop of `at32_i2c_transaction`), `enable`, `arm`, `wait` (the take with
500 ms), `timedout`, `drain` (the take with `K_FOREVER`), `check`, `release`.
`todo` and `rest` are the messages and bytes to go, `current` is what the handlers
see of the message: `current.owner` is the thread whose stack frame `current.msg`
points into, and a handler that looks at the flags of a frame that is gone reads
anything (`StopWanted`). `EventIsr` and `ErrorIsr` are the two handlers, `MasterModeEnd` is
`at32_i2c_master_mode_end`. The controller raises flags in its own actions, one byte
at a time. A status flag and an enabled interrupt make a line assert; a line that
asserts while the other handler runs stays latched (`pend`).

`I2cService` says what a caller may rely on, without chunks, interrupts or
semaphores: requests are served one at a time, bytes move only for the request
being served, and a request ends well only with nothing left. `I2cMaster`
implements it under the mapping `Stage`, `ret`, `left`.

### Dma and SpiDma

`Dma` has no behaviour of its own: a channel is a record, and `Configured`,
`Started`, `Stopped`, `Acknowledged` are what `dma_at32.c` does to one. `SpiDma`
composes them into the steps of `spi_at32_transceive_impl`, the DMA callback and
the frame handler. Requests are lists of buffer lengths; `owed` counts what has not
moved. `chan[d].buffer` records whose memory the channel points into; it turns from
`own` to `old` when the next call begins.

### GpioExint

`Begin` to `RemoveCallback` are the steps of `gpio_at32_pin_interrupt_configure`, with
the two halves of a source selection and of a trigger selection apart, since an
edge can come in between. `Enter`, `CheckLine` and `CallBack` are the handler of a
range; its loop runs one line further than the range, as the code's does. `Exclusive`
says whether callers leave a line alone that another port holds.

### CounterAlarm

A context (the thread, or a callback inside the handler) sets an alarm in the steps
`SetAlarm`, `Park`, `WriteCompare`, `Judge`; the counter ticks between any two.
`left` counts down from the moment the alarm is defined - a relative one when the
counter is read, an absolute one when its compare value is written - so it says
what the code's modular arithmetic should come to. `Wrap` is the modulus of
`uint32_t`: `val - 1U` at 0 gives `Wrap - 1`.

### I2cV1

`build` chooses between the two drivers in the file. With interrupts the thread is at
`init` (the semaphore reset), `setup`, `enable`, `wait`, `end` or `reset`, and the handlers are `HandleSb`,
`HandleHeader`, `HandleAddr`, `HandleTxe`, `HandleRxne`, `HandleBtf` and `HandleError`; with polling it goes through
the `p...` places itself. The bus has a data register (`dr`) and a shift register (`sh`) as the
peripheral does, since TDC (both full, or both empty) and RDBF/TDBE (one of them) are what the
handlers decide by. A byte is acked when it comes in, by the bit for this byte or, with
`pos = "next"`, by the one sampled a byte before. `moved` counts bytes that reached the other side,
`clocked` those the target was made to send, `owed` a STOP that is still to come.

### PwmTimer

Ticks and edges interleave with the steps of enabling and disabling a capture; a handler may be
`Latency` ticks late. `cycle` is the true period and pulse of the cycle an edge ended, `rep` what the
callback was told. An output on another channel of the same timer shares the period register
and the slave mode with the capture, which is why it is in the same module, and captures and
`set_cycles` come in any order. `pr` and `out.compare` are the buffered registers,
`top` and `out.active` what is in effect; every overflow event (`OverflowEvent`: of the counter, by software, or by a
captured edge in slave mode) loads the one into the other. On a channel that is off, `set_cycles` asks for one
(`StartOutput`); on a running one it only writes the registers, one after the other (`SetCompare`, `SetPeriod`).
`ready` says that no `set_cycles` has set the period since `configure_capture`. While no capture
is on, the signal goes on (its edges still flag and, in slave mode, restart the counter), but
captured values and ages are not told apart: the next capture starts with an edge of any age.

### AdcSequence

Zephyr's `adc_context` is modelled from its use; the driver's parts are the checks and registers of
`start_read`, the set-up of a sampling and its end in the DMA callback or in `adc_at32_isr`. A sample is
the pair of its channel and the sampling it belongs to (`shot`), so that a sample in the wrong place or
from a repeated sampling shows. `accepted` says which sampling was kept at each index. The sequencer is
`osq`, a channel for each rank, and `oclen`, the ranks it converts: a mask of more channels than `Ranks` loses
the last ones, and `oclen` wraps. `held` is the count of the power lock; `owed` is history: a read that is refused
leaves one in it, every sampling after the first of a read takes one out.

### Flash

Between any two register accesses another thread may run, the controller may finish, or power may
be lost. `keys` counts the unlock keys, `error` is any of the error flags, `job` what the controller
works on. `FlashService` says what a call promises: its range, in order, an item (block or page) at a
time; 0 only at the end; one spoilt item when power goes; ranges outside the flash refused, and no other that is not empty, by its own
condition (`Within`), which knows no width of an offset; `result` names the call it answers, so that an
answer to one call cannot pass for the answer to another. `Flash` implements it with `job`, `done` and
the same `content` and `result`. Its `ValidRange` is that of the code: the two ends of the range, in 32 bits
(`Wrap` write blocks), so that a call of length 0 at the beginning or the end of the flash is -EINVAL, and 0 elsewhere.

### What a clean run leaves out

Where the code does not keep a property in some situation the specification does not hide the
situation but names it: a member of `Hazards` (in `I2cMaster`, `LateIrq`; in `GpioExint`, `Exclusive`) turns it
on. The clean runs say under which conditions the properties hold; section 6 lists what turning each
on does.

## 3. Runs

| run | expects | shows |
|---|---|---|
| `i2c_clean` | pass | With interrupts that neither overlap each other nor a fired timeout: `IsrOwnsCurrent`, `RestartHonoured`, `SuccessMeansDone`, and the refinement `ImplementsService`. |
| `i2c_race` | pass | With interrupts at any moment, also between a timeout and the disabling of the interrupts: `BusExclusive`, `PmBalanced`, `DrainNeverBlocks`, and `CallReturns`. |
| `i2c_stale` | violation | `SuccessMeansDone` fails when they do overlap a fired timeout (see 5). |
| `i2cv1_clean` | pass | Both builds, 7 and 10 address bits, refused addresses and bytes, lost arbitration, bus errors, timeouts: `SuccessMeansDone`, `LastByteNacked`, `StopsAsAsked`, `TransferReturns`. |
| `spi_clean` | pass | Any order of completions, DMA and SPI errors anywhere: `SuccessMeansMoved`, `NoStrayAccess`, `QuietWhenIdle`, `ChunksMatch`, `CallReturns`. |
| `exint_clean` | pass | Lines used by one port at a time: `ArmedLinesWork`, `EdgeDelivered`. |
| `exint_share` | violation | `ArmedLinesWork` fails when two ports use a line (see 5). |
| `counter_clean` | pass | Top values of the form 2^k-1: `AlarmsKept`, `NeverEarly`, `AlarmFires`. |
| `pwm_clean` | pass | Single and continuous captures in both ways, overflows, a late handler, an output started, changed and switched off before, between and after `configure_capture` and `enable_capture`: `ReportTrue`, `ReportOnlyArmed`, `CaptureReports`, `OutputAsAsked`. |
| `adc_clean` | pass | With and without DMA, synchronous and asynchronous, extra, timed and repeated samplings, refused reads, more channels than ranks, DMA errors: `SamplesInOrder`, `PowerLock`, `ReadReturns`. |
| `adc_resolution` | violation | `ResolutionSet` fails for a read of 12 bits after one of 8 (see 5). |
| `flash_clean` | pass | Writes and erases in pages, across pages and banks and into a protected page, of no length, at and beyond the end, with a power loss anywhere: `QuietBetweenCalls`, the refinement `ImplementsService`, `CallReturns`. |

Each passing run also has the module's `TypeOK`, but for `i2c_race`, whose model is
that of `i2c_clean`.

**Bounds, and why they are enough.**

- *I2C*: two threads (all that exclusion can tell apart); chunks of 2 bytes instead
  of 255, with messages of 0, 1 and 3 bytes, so that one fits, one is empty and
  one is cut; register reads and gathered writes. `i2c_race` uses the one plan with
  a change of direction, since its properties do not look at data. `SemLimit` stands for
  `K_SEM_MAX_LIMIT`: with 2 or 3 the count saturates in `i2c_race`, which is worse for
  its properties than a count that does not.
- *SPI*: requests of at most three bytes in at most two buffers per direction, with
  equal, unequal, split, one-sided and no data; one more buffer repeats a boundary
  that has been met. `ItemLimit` is 8 instead of 2^16, above every length.
- *I2C V1*: reads of 1 to 5 bytes: 1, 2, 3 and more than 3 take ways of their own in the handlers, and 5
  is one more round of the last; writes of 1 to 3; transfers of two and three messages, with and
  without a repeated START. `SemBound` 3 lies above what can be given before `msg_init` resets it.
- *PWM*: a counter of four values and a signal whose edges are at least two ticks apart, with cycles
  shorter and longer than the counter; a longer gap than `MaxAge` 5 is beyond one overflow. `Latency` 1 is
  less than `MinGap`, else a second edge overwrites a captured value before the handler has read it.
  Two periods, one odd, shorter than what a capture counts to, and a pulse within and one beyond them.
- *ADC*: two callers; one and two channels (order matters from two on), one to three samplings, a buffer that
  fits and one that does not; a timer that runs ahead by two requests, as far as the counter tells
  apart. One repeat per read is enough to move the buffer pointer back. `Ranks` is 2 instead of 16, so that a mask of three channels
  is wider; `LockBound` 1 lets a read begin with a power lock that counts -1, 0 or 1, after each of which both signs go on.
- *Flash*: four pages of two blocks, the bank boundary in the middle, the last page protected; ranges that
  begin or end inside a page, across the banks, and beyond the end, and of no length at either end; one loss of
  power, after which the state is that after another. `Wrap` is 16 blocks, twice the flash.
- *EXINT*: two lines, each the range of an interrupt, and two ports: the handler of
  the first looks into the second, that of the second beyond both. One of the
  edges of a mode is enough next to both, which the modes `rise` and `both` give.
- *Counter*: one channel, tops 7 and 15 (the second fills `Wrap`, as a 32-bit timer
  does), alarms of 0, 2 and 7 ticks, which lie below, below and at or above half of
  the top. `Latency` of 2 ticks is the largest below half of 7: the code itself says that
  half the range is an arbitrary value, and a call that is held up for longer does
  lose its alarm for one round. With two channels and a smaller alphabet the
  properties hold as well, in a state space too large for a routine run.

**Fairness.** Handlers run when their line asserts (weak fairness: the NVIC), and a
ready thread runs in the end (weak fairness on a call). The SPI run also lets the
wire carry what the controller offers; the I2C runs assume nothing of the bus: it is
the timeout that ends a transfer, and `TimeOut` is an ordinary step of the waiting thread. In
I2C V1, where the timeout only exists while the thread may run, the handlers are fair and so is the
thread between them (strong fairness: a level interrupt that is served stops asserting), and bytes that
have begun to move go on moving; an address may stay without an answer. PWM, ADC and flash
assume that the thread and handlers run and that the counter counts, the converter converts, the
signal goes on, and the flash controller finishes: `adc_context` waits without limit, so nothing else could end
a read. The
EXINT and counter runs have strong fairness on entering a handler and on the
thread: no line is so busy, and no callback sets alarms so short, that the others
never get a turn; without that a real core starves too. Callers and edges are never obliged to come.

## 4. Proofs

TLC checks the instances above; `tlapm` proves the following for every value of the
constants, from the assumptions the modules name.

The theorems that rest on a hypothesis about `Hazards` (or `LateIrq`, `Exclusive`) state it; it is the one the
clean run of the module makes, so that there are states it holds in, and section 6 says what happens without it.
Each invariant below was checked by TLC on the instance of the module's run before it was proved.

### `I2cMasterProofs`

- `TypeCorrect`: `Spec => []TypeOK`. `TypeOK` alone is not inductive: the step to the next
  message takes the head of `todo`, so `TypeInv` adds that a thread inside a transfer has a
  message left (`TodoOK`). `FirstRestart` and `HeadTail` are the facts about arrays of
  messages it needs.
- `MutualExclusion`, `PmLockBalance`, `DrainSafe`: `BusExclusive`, `PmBalanced` and
  `DrainNeverBlocks`, together an inductive invariant `BusInv`. The three need
  each other: only the holder of `bus_mutex` takes `sync_sem`, so the give that
  `at32_i2c_master_mode_end` left for the drain cannot be taken by another thread, and the
  lock is held exactly by the thread the mutex admits. The proofs hold with
  `LateIrq` as well as without.
- `HandlersOwnMessage`, `SuccessTrue`, `RestartsHonoured` and `DoesTheService`: `IsrOwnsCurrent`, `SuccessMeansDone`,
  `RestartHonoured` and the refinement `ImplementsService`, under `OnTime`: no late interrupt, and every array of
  messages is `Orderly` - the last message ends in a STOP (`i2c_transfer` sets that flag), a message that goes on without
  START keeps its direction, and a START that is asked for follows a STOP or a message of one chunk that itself began
  with a START. What `Orderly` leaves out is the gathered or long write with a read behind it of section 6. All four
  follow from `Flow`: `Wire` ties the flags to the place on the wire, `Free` says that nothing is left (no give,
  no error bit, no control interrupt) where no thread is inside, and for the thread inside `InFlight` gives, at each
  place of the code, the bytes left as the message's rest less the chunk in flight, and one give for one end.
  `SuccessTrue` is then that `check` finds no error bit only where `left` is 0; for the
  refinement each action is a step of `I2cService` under `Stage`, `ret` and `left`, or leaves them alone.

### `I2cV1Proofs`

- `TypeCorrect`: `TypeOK`, whatever the messages, the build and the hazards. `Kinds` gives every record
  field by field, and says that there is a message wherever the code looks at one.
- `SuccessTrue`: `SuccessMeansDone`, with at most the hazards "fast" and "preempt", for any arrays at all. `Core` says where
  the bytes of a message are with which nothing has gone wrong (`Sane`): those moved, those left and, for a write, those in
  the two registers are as many as were asked for (`Accounted`); the semaphore is given only when none is left. `Route`
  says how far it has been addressed at each place of the code, `Resting` that nothing is due between two messages, and
  `Broken` that a message with an error no longer has the bus.
- `LastByteRefused`: `LastByteNacked`, with at most "fast", under `ReadsStart`: every read asks for a byte and begins with
  a START. `Reading` gives, for each number of bytes left and held, the ack bit and POS that the next byte will meet: the
  bit is off for the last two, and POS makes it that of the byte after for a read of two. `Called` gives them from the
  START on (`handle_addr` clears the address with the right ones set), `PreAck` in the polling build before it chooses,
  and `Lost` bounds what is clocked after an error. An array without `ReadsStart` holds the ReadOn or NoBytes of section
  6, for which the property fails; `Recv` describes these as well in the build with interrupts, because `SuccessTrue`
  holds of them.
- `StopsWhereAsked`: `StopsAsAsked`, with at most "preempt", under `ReadsStart` and `StopsLast`: only the last message
  asks for a STOP, and a read of one byte does (ByteFirst of section 6 does not). `StopInv` adds to the invariant that a
  STOP is asked for by the end of the message that wants it (`Stopped`) and that one still to come belongs to the transfer
  before (`Owing`). A STOP in the middle is left out because the property fails for it: the next message follows at once,
  and its START takes the place of the STOP as with "fast".

### `GpioExintProofs`

- `TypeCorrect`: `Spec => []TypeOK`. The handler goes at most one line beyond its range and
  calls back only for lines that exist.
- `ArmedLinesStayWired`: with `Exclusive`, `Spec => []ArmedLinesWork`. `ArmedLinesWork` speaks only of
  lines whose configuration has returned; `Underway` adds what holds of the one under
  way - the line is unarmed, its callback is free or the port's own, after `Register` it is the
  port's, after `SetSource` the line is routed - and makes the invariant inductive. Where
  lines are shared the same argument breaks at `Register`, which is the finding below.

### `SpiDmaProofs`

- `SpiQuietBetweenCalls`: if no wait expires before a transfer that still moves (`"slow" \notin Hazards`),
  `Spec => []QuietWhenIdle`, for any requests, DMA errors, SPI errors and preemption. A channel may stay
  configured, enabled and even flag its end after a call (a transfer that failed leaves it so), and nothing follows
  from it only because the requests are off and its interrupt was taken. `QuietInv` says from the set-up
  to the return who can still raise what: no request before `transmitter`, a completion only when
  neither channel can bring another (`sync = 1 => Over`), and a wait that ended only with nothing asserted.
- `ChunksAgree`, `NoStray`: `ChunksMatch` and `NoStrayAccess`, without "slow" and "preempt", for any requests, also with
  lengths that wrap `dtcnt`. The invariant `MoveInv` puts a channel in one of five states (`Finished`, `Due`, `Running`,
  `Failed`, `Void`), pairs the receiver with the transmitter by the byte in the register (`Paired`), and lets a channel
  work (`Works`) only inside a call, on its chunk, with its own buffer or the dummy byte. A channel that an error left
  started, which the next call does not program, is a state of its own: it never works again, for its transmitter does not.
- `TypeCorrect`: `TypeOK`, whose hard part is that the bytes owed never go below zero, and `SuccessMoved`:
  `SuccessMeansMoved`, where `dtcnt` holds the length of every buffer (`Fits`; with a longer one the call returns 0 with
  bytes unmoved, as under `hazards`). `Accounts` adds what is owed: what is left in the channel and the total of the list
  behind its chunk (`Owes`), at least, and exactly that under `Fits`. `Total` is recursive over the list; its equation
  (`TotalIs`) is proved without an induction theorem, from the least length of a counterexample (`Least`, from the
  library's `WFMin`): first that functions which sum up agree (`SumsAgree`), then that there is one for each length (`SumsExist`).

### `CounterAlarmProofs`

- `TypeCorrect`, `NoAlarmLost`, `NoneEarly`: `TypeOK`, `AlarmsKept` and `NeverEarly`, for any channels, ticks, guard
  periods and latency, under `MaskTops`: each top value is 2^k-1 and `Wrap` a multiple of 2^k, as 2^32 is. For
  other tops they do not hold (section 6). It enters in `SumIs` and `LateIs`: the code adds and subtracts modulo
  `Wrap` and masks with the top, which for these is the remainder modulo top+1 of the true sum or difference, by
  `ModMod` and `ModShift`.
- The invariant: `Counting` - the compare value is ahead of the counter by what is left of the alarm, and the flag is
  up when nothing is left - holds of every channel whose interrupt is on, and need not hold of one that is being set; `Set`
  gives for that one, at each step of `counter_at32_set_cc`, how far the counter has gone since it was read, which
  is no more than `Latency`. `Owned` says whose turn a channel is: the interrupt is never on while a context is in a
  call for it, a software-pended alarm is due, and the handler has still to come to it. `Places` is where thread and handler stand.

### `PwmTimerProofs`

- `TypeCorrect`: `TypeOK`, whatever the hazards. `OutputKept`: `OutputAsAsked`, without "zero", whatever
  captures come in between. `OutputInv` relates the buffered registers and what is in effect to what was asked
  for: the compare register always, the period register unless `set_cycles` is between its two writes or a capture has been
  configured since.
- `ReportsArmed`: `ReportOnlyArmed`, without "preempt": the callback runs only while a capture is on, whatever outputs
  are set and however late the handler is. `Stages` says which interrupts each place of the code leaves on,
  `Answered` that an edge is taken before the next, `Enabling` that enabling takes no time.
- `ReportsTrue`: `ReportTrue`, without "slow" and "preempt", beside any output, for counters of any width and handlers of any
  latency below the gap between edges. `CaptureInv` adds, with two channels, that the counter is the age of the
  pulse from the first edge on (`Synced`) unless an overflow is flagged or counted; with four, that it lags behind by no
  more than `Latency` (`FourChannels`), as does what the captured registers hold.
- The constants: a period has at least two ticks and a pulse is below `Wrap`; `MaxCount + Latency <= MaxAge`, so that the
  bound on a gap does not hide an overflow.

### `AdcSequenceProofs`

- `TypeCorrect`, `PowerKept`, `SamplesRight`: `TypeOK`, `PowerLock` and `SamplesInOrder`, without "late" and "overtake", for any
  sets of channels, ranks, sizes, repeats and callbacks, in both builds, and with DMA errors. `Protocol` says who may act (one
  caller, no completion left over where a read may begin), `Converter` that the hardware works only for a sampling under way,
  `Reading` where the buffer pointers stand between samplings, `Moving` and `Reading1` that the first k samples of the
  sampling are in place (`Fresh`) when k have moved, with DMA and with the handler. A channel's place is
  the number of smaller ones in the mask (`Rank`); `Ranked` lists them in that order, and `Programmed` says that the ranks
  converted are the first of them: all, unless there are more channels than ranks, where no sampling is ever done.
  `PowerKept` needs `Balance` beside it: who is in a read that was refused or not, and that the first sampling of a read is
  kept at index 0 before any other.
- The constants: `BlockAssumption` has fewer channels in a mask than `dtcnt` counts (at most 32 against 2^16), and `BufferSize`
  bounds the sizes of the reads; the check of the size against it is the code's own (`check_buffer`). `Ranks` is any positive number.

### `FlashProofs`

- `BanksQuiet`: with calls that do not overlap, errors flagged at once and operations in time
  and no erase that goes round (`Hazards = {}`), `Spec => []QuietBetweenCalls`, for any threads, calls, geometry, protected pages and losses of
  power. The invariant `QuietInv` has at most one thread in a call, the bank it is not in as
  after a reset, and `Stage`, which gives the registers of the other bank at each place of the code: every way
  out of the item, also by an error, passes through a state from which `Cleaned` makes a reset bank.
- `ServiceImplemented`: under the same hypothesis, `Spec => ImplementsService`: the initial states map to initial
  states of `FlashService`, and every step is one of its steps (`Begin`, `Work`, `Return`, `PowerLoss`) or leaves its
  variables alone. The invariant `ServiceInv` adds to `QuietInv` the `Progress` of the call: the
  number of items the banks completed is the index of the item in work, plus one from the completion until the loop goes on,
  and an error can only come before the item is done. That the code's check of the two ends is `Within` wherever a call of
  some length begins is `RangeJudged`; `Unwrapped` has the end of an accepted range below 2^32. So `Complete` is the abstract `Work` on the next
  item, and `Return` of 0 meets a call with all its items done.
- `TypeCorrect`: under the same hypothesis, `Spec => []TypeOK`. The item stays within its call and a bank works only on
  an item of the call under way, both of which `ServiceInv` knows; `TypedInv` adds the values of the blocks and the results.

### Only model-checked

All liveness (`CallReturns`, `TransferReturns`, `EdgeDelivered`, `AlarmFires`, `CaptureReports`,
`ReadReturns`), which is out of the prover's reach. The runs that expect a violation have nothing to prove.

## 5. What the violations show

- `i2c_stale`. The take with 500 ms fails; before `at32_i2c_master_mode_end` disables the
  interrupts, a completion is served: `sync_sem` gets two gives, the drain takes one.
  The next transfer finds the other, does not wait and returns 0. Nothing resets
  the semaphore in V2 (V1 does, in `msg_init`).
- `exint_share`. `gpio_at32_pin_interrupt_configure` ignores -EBUSY of the callback
  registration, routes the line to the new port and returns 0; the old port is called back.
- `adc_resolution`. `set_resolution` only ever sets bits of the field: after a read of 8 bits one of 12 converts
  with 8 and returns 0.

`PROJECT.json` quotes the line of the repository that each disagrees with.

## 6. Assumptions, and what happens without them

One core, all driver interrupts at one priority (as in the board's devicetree); vendor calls are single
steps.

- **I2C**. `LateIrq = FALSE` in `i2c_clean`: an error or completion does not come while another flag is being
  handled or after a timeout fired; `i2c_race` and `i2c_stale` drop it. The plans hold no gathered write
  followed by a read with RESTART (`GatherThenRead`): after a gathered write whose parts end in TCRLD,
  reload mode stays on, and the read only sets the count and goes out as a third part of the write
  (`RestartHonoured`, 1243). A write of more than one chunk before such a read ends in TCRLD too, and has the same effect.
- **I2C V1**. Every caller waits for the STOP of the transfer before; with "fast" a START cancels it
  (`StopsAsAsked`). "early": the data interrupt left on between two messages sends a byte before its START;
  "between": an error in between gives the semaphore and loses its flag (`SuccessMeansDone`). "buserr": a bus
  error while `handle_rxne` leaves a byte unread keeps the interrupt pending for ever (`TransferReturns`).
  "overrun": an overrun is counted as no error with interrupts. "preempt": in the polling build the ack of a
  byte that comes before `PollAck` is the wrong one (`LastByteNacked`). The transfers hold no read of a single byte before the last
  message (`ByteFirst`: it ends in a STOP whatever was asked), no read that goes on in another message
  (`ReadOn`: its last byte was refused), no empty read (`NoBytes`: no handler takes its byte) and no empty
  write (`WroteNone`: the polling build waits for TDC in vain and returns -EIO). A 10-bit read with interrupts always
  times out: `handle_addr` clears `is_restart` before the second START.
- **SPI**. A blocking call may time out only when nothing can move any more; "slow" drops
  that. With "preempt" the caller may lose the processor between enabling the transmitter's and the receiver's
  DMA request: a received byte is overrun, the transfer times out and leaves the RX channel
  busy; the next transfer does not program it, yet counts its interrupt as its own (`SuccessMeansMoved`). Buffers stay
  below 2^16 items.
- **EXINT, GPIO**. One thread configures pin interrupts at a time, and callbacks do not: the registers
  all lines share are changed by unlocked read-modify-write, so with two there would be lost updates.
- **Counter**. One thread calls a counter; a callback sets only the alarm of its own channel; a guard
  period stays below every top value; DONT_RESET comes with RESET_WHEN_LATE. With a
  callback that cancels and sets the alarm of another channel, `NeverEarly` fails: `cancel_alarm`
  does not clear `cc_int_pending`. For a top value that is not 2^k-1 and a compare value of 0, the late
  detection subtracts from `UINT32_MAX` and always says late; a relative alarm of half a
  round or more is dropped, though the call returns 0 (`AlarmsKept`).
- **PWM**. "slow": an overflow while the last capture is skipped, in a continuous two-channel capture, or while the handler
  waits for the update it caused itself is not told from the end of a cycle (`ReportTrue`). "preempt": so is one
  before the overflow interrupt is on. "zero": counting down, a pulse of 0 wraps to a compare value above every count.
  Two orders of calls are in the run, but promise nothing: `configure_capture` changes the period of a running output
  (617), so `OutputAsAsked` speaks of its period only where none came since (`~ready`); `set_cycles` between
  `configure_capture` and `enable_capture` takes the timer out of slave mode or sets a shorter period, and the capture then
  reports wrong cycles with status 0, so `ReportTrue` leaves such captures out (`ready`). Neither property
  holds without that condition.
- **ADC**. "overtake": an asynchronous read completes, and another begins, before the first call waits and releases;
  it then acts on the other's flag. "late": a sample overwritten before it is read leaves the caller waiting, for the wait has no
  limit (`ReadReturns`). "dterr", which is on in the clean run: so does a DMA error, which has no interrupt; `ReadReturns` says
  that only this does, and a mask of more channels than ranks, which no check refuses. The power lock is put at every
  sampling but taken once, and not put by a read that is refused: its count is not 0 between reads once either has
  happened, and `PowerLock` says how far it is off.
- **Flash**. "share": threads that call at once mix keys and commands. "late": an error flagged when the
  operation ends is reported by the next call, which leaves the bank unlocked. "slow": an
  operation that outlasts the timeout still runs when its bank is locked and the call over. "wrap": an erase whose
  range ends beyond 2^32, inside the flash again, passes the check of its two ends, and returns 0 with no page erased,
  or with some (`ImplementsService`); a write of that size has no source to come from.

## 7. Not modelled, and the plan

Components that are not modelled, and why:

- *USART*: every operation is one access to the hardware's FIFO. *Clock control*, *reset lines*, *pin control*: each call is a
  table lookup and one register access, without state of the driver's own. *USB quirks* and *board, SoC and
  build glue*: tables and configuration for code that is not in the repository. No order of steps can be wrong
  in these; unit tests reach all of them.
- *I2C*: the polling build of V2 (1626-1742); the device's runtime power management (2273-2275); the target role, which compiles for neither peripheral; SMBus alert, which
  nothing activates; the timing search (1781-2014) and the V1 clock register, which are arithmetic over
  the devicetree's constants.
- *SPI*: 16-bit frames, slave mode, the polling build and the asynchronous call. *DMA*: reload and loop mode, which no
  driver here uses, and the parameter checks.
- *GPIO*: single reads, masked writes and pin configuration.

Left of the plan, in order: the refinement of `I2cService` where interrupts are late and transfers end in an error; the polling build of V2.

## 8. Running

    tlc -config MCI2cMaster_clean.cfg MCI2cMaster
    tlapm I2cMasterProofs.tla

and likewise for the other configurations and proof modules.
