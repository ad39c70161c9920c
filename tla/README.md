# Verification of CaribouLite

TLA+ models of the software and firmware that drive the CaribouLite SDR board,
from the FPGA's sample paths through the kernel driver of the sample stream to the
library, its C++ API and its users. The models are translated from the code in
`src/`; paths below are relative to it, and `lib/` stands for
`software/libcariboulite/src/`.

## The system

A Raspberry Pi hat with an FPGA, an AT86RF215 modem with two transceivers (S1G
and HiF), an RFFC5072 mixer in front of the second, and a front end of switches.
Samples go from the modem to the FPGA over an I/Q interface and from the FPGA to
the Pi over the SMI bus, where DMA moves them.

| Part | State it keeps | Operations | What makes it correct |
|---|---|---|---|
| `firmware/*.v`: sample paths | two receivers, a transmitter, two fifos between clock domains, byte counters | frames of the modem, strobes of the host, channel and direction | words cross once and in order, frames are whole, byte counting finds the words again |
| `driver/smi_stream_dev.c` (kernel) | stream state, SMI address lines, cyclic DMA transfer with its bounce buffer and counters, two kfifos, three locks, a wait queue | open, release, SET_STREAM_STATUS, read, flush, write, poll; the DMA callback | calls are atomic, the DMA writes only for a live stream, no wake-up is lost, samples arrive whole and in order |
| `lib/caribou_smi` | the driver's stream as the library sees it, two buffers | set streaming state, read, write, flush, poll | its state follows the driver's; samples are found in the bytes and counted |
| `lib/cariboulite_radio.c` | per radio: active, direction, CW and LO flags; modem states, interface mode, FPGA registers, front end | init, activate/deactivate, set frequency, set CW, read/write, dispose | every stage of the way agrees on the one radio being streamed, no transceiver is left on |
| `lib/cariboulite_setup.c`, `cariboulite.c`, `soapy_api/CaribouliteSession.cpp`, test application | system status, signal callback, chip table of the SPI, files, a count of users | init (staged, retried), release, signal handler | a ready driver has what it needs, any other holds nothing, nothing is closed twice |
| `lib/caribou_fpga`, `caribou_programming` | registers, programmer's slot, retries | init, program, close, select channel, direction, front-end mode | a programmed FPGA or a reported failure |
| `lib/at86rf215`, `lib/rffc507x` | chip registers, event nodes | init, close, set state, CW, I/Q interface, PLLs | states as commanded |
| C++ API (`lib/CaribouLite*.cpp`) | per radio: flags, callback, receive thread | start, stop, destroy, signal handler | callbacks get the right samples and end with a stop, threads end before what they use |
| `lib/datatypes/tsqueue.c` | a ring of items, mutex, two semaphores | push with or without overriding, pop, peek, each with or without a time-out | a queue; calls wait for what they need and end |
| SoapySDR plugin, the rest of `lib/datatypes`, production programs, examples | see below | | |

The library is one process and calls its drivers synchronously; it reaches the
kernel driver by ioctl, read, write and poll on one device file and the chips over
one SPI under a mutex. Concurrency is in four places: threads of the process, the
DMA engine and its callback in the kernel driver; three clocks in the FPGA; two
receive threads and the application in the C++ API; signal handlers on top of any
call. Failures come from the kernel driver (-EAGAIN, a transfer that does not
start, an interrupted wait), from PLLs that do not lock, chips and files that are
not there, an FPGA that is not configured, time-outs, and from the death of a
process whose hardware keeps its state.

## The modules

| Module | Models | Proofs |
|---|---|---|
| `StreamControl` | abstract: recorded stream and running transfer; `SetStateResults`, the outcomes of one `set_state` | |
| `SmiStreamDev` | the kernel driver, implements `StreamControl` | `SmiStreamDevProofs` |
| `Radio` | the radios with all they share, takes the driver's outcomes from `StreamControl` | `RadioProofs` |
| `LifeCycle` | set-up, release, signals and deaths of the process, for three users | `LifeCycleProofs` |
| `RxThread` | the C++ API: two receive threads, application, signal | `RxThreadProofs` |
| `SmiSamples` | reading and writing samples in `caribou_smi` | `SmiSamplesProofs` |
| `TsQueue` | the library's thread-safe queue `datatypes/tsqueue.c` | `TsQueueProofs` |
| `BoundedFifo` | abstract: a bounded queue | |
| `ComplexFifo` | `complex_fifo.v` as operators, for any user | `ComplexFifoProofs` |
| `FpgaStream` | the FPGA's receive and transmit path with their `ComplexFifo`, which implements `BoundedFifo` | `FpgaStreamProofs` |
| `MC...` | what TLC needs | |

### SmiStreamDev

One variable per field of `struct smi_stream_dev_instance` that the control
depends on, and one program counter per calling thread. `set_state` is cut where
another actor can come between: taking `state_lock` with the stop of the transfer
(`SetStateSame`, `SetStateBusy`, `SetStateIdle`), and the rest under the same lock
(`StartRx`, `StartRxFails`, `StartTx`, `StartTxInterrupted`). Open and release do
their own work and call it. The DMA engine (`Capture`) goes round the bounce
buffer and does not wait for anybody; a callback copies (`CallbackCopy`) the slot
of its own counter and then wakes the poller (`CallbackWake`). A chunk has `Parts`
units, so that reads can split one and a late callback can copy a slot that is
half overwritten. `dmaengine_terminate_sync` waits for a running callback and
drops a due one (`TransferStop`).

Assumed: one open file (the library opens the device once; what a second opener
does is listed as a hazard). Nothing empties `tx_fifo`, as the transfer that would
is commented out in the driver, so only its fill level is kept; the transmit
callback is never started and not modelled.

### Radio

`sys` is the whole system as a record and each library function an operator from
a system to the set of its outcomes, so that `set_frequency`, which ends in
`activate_channel`, or the set-up, which activates and deactivates both radios, is
the composition it is in the code. Ignored return values are ignored in the model
(`Then`). A user call is one step: `cariboulite_radio.c` has no locks and its users
call it from one thread; `RxThread` is about those that do not.

Set-up finds the FPGA, and the driver's state, as the last process left them
(`Kill` closes the file and forgets what the process knew). That matters: when
the driver answers -EAGAIN to the closing `set_state`, its old receive state stays
recorded with no transfer behind it, and the next process inherits that. Then the
library believes "idle" while the driver records "rx0"; the invariants below hold
all the same because they speak of a running transfer or of a successful
activation. Stated of the recorded state they would be false.

Assumed: TRX_OFF is reached (the code retries it for erratum 6,
`lib/at86rf215/at86rf215_radio.c:152-165`), SPI writes to the FPGA arrive, and the
process holds no `write_lock` during a state change, so the ioctl is not
interrupted. A set-up or release is one step that succeeds; `LifeCycle` has their
stages. Gains, bandwidths, sample rates, RSSI and calibration write one register
each and are left out.

### LifeCycle

`m` is what the process has: status and signal callback of `sys_st`, the chip table
of the SPI with the file each slot keeps, the drivers' `initialized` and handles,
the sample device, the mapping, and the users' own flag or count. A set-up and a
release are sequences of stages (`pc.main`), one action each; a failing stage does
the clean-up that its branch in the code does. A signal puts its handler on top
(`pc.handler`), and its release runs the same stages on the same memory; the call
below never goes on. It may come at any stage, between the release of the I/O and the
reset of the status too, and while the call holds the mutex of the SPI (`call.locked`);
then the handler waits for ever where it needs that mutex, which the closing of the SPI
does as well. The session's callback takes the session's lock unless the signal is
SIGHUP, SIGQUIT or SIGBUS.
`Client` is the C library, the test application or the SoapySDR session: they
differ in when they set up and release, in their signal callback and in what they
do after a failure. The FPGA keeps its configuration between processes.

Files that refer to nothing (`past.lost`) and closings of what is not open
(`past.twice`) are history. A failed `open` of `/dev/smi` stands for every failure of
`caribou_smi_init`, all of which end closed.

### RxThread

A call of the API is the list of the steps it takes (`todo`), and any process may
run between two: each write of a member is a step, an activation two (the stream
stops, the stream starts). The thread's loop is cut at its reads of flags, the read
into the buffer that both threads share, the decoding from it, and the callback. A
callback may stop its own radio, so that the application's start and the callback's
stop interleave. `_rx_is_active` starts with any value, as nothing initialises it
before the thread reads it. A signal is taken in a call of the application, or on a
receive thread in its callback, also inside a call that the callback makes; `exit()` in its
handler runs the destructor on the thread that took it.

### SmiSamples

A byte is a number from which sample and place in it can be told, and which of its
bits the search for the constant bits looks at follows from its place; `like` says
what the data may look like. Batches, time-outs, errors, short reads and writes,
interpolation and the counts are as in the code; `call.accepted` is history, what the
driver gave or took. Where a stream begins within a
sample is any of four places, as the FPGA's byte counter never starts over.

### TsQueue

What a call does under the mutex is one step; the waits for semaphores and the posts
are steps of their own, and so is the one wait inside the mutex (`Override`). `usage`,
chosen once, says whether pushes may override, and whether waits may time out and may
fail. A wait that times out returns `TSQUEUE_TIMEOUT`, 1, which the callers take for success
(`lib/datatypes/tsqueue.c:136, 159`), so `WaitTimesOut` goes where a success goes. One
that fails returns `TSQUEUE_SEM_FAILED` and ends the call where it is: before the mutex is
taken (`WaitFails`), or with it (`OverrideFails`, line 185). `sem_timedwait` fails so when
it is given an invalid time, which a time-out of more than 2.1 s becomes where a `long` has
32 bits (line 99). Nothing in the library uses the queue; its test does.

### ComplexFifo and FpgaStream

`ComplexFifo` has the state of `complex_fifo.v` as a record and operators for an
edge of either clock or both, with the registers that synchronise the Gray codes of
the addresses; a code that changes on the edge that catches it is caught old or
new (`Caught`). `FpgaStream` has a fifo, the byte counters of `smi_ctrl.v` and the
state machines of `lvds_rx.v` or `lvds_tx.v`, wired as `top.v` does. Three clocks
are unrelated; the host's strobes come at least `StrobeEdges` system clocks apart. The host
reads on request: `smi_ctrl.v:119` asks for strobes while `rx_fifo` is not empty
(`ReadRequest`), `top.v:602` puts that on a pin and `caribou_smi` has the bus wait for it.
How many strobes a request is good for is the DMA's affair, so `RxStrobe` may come without
it, but is only sure to come with it. While the host writes, `top.v:602` shows "`tx_fifo` is
not full" on the same pin, and line 452 the host's own strobe on that of the write request;
nothing is assumed to hold the host's writes back.
The two paths share no register but the clock, so a behaviour follows one of them.

## The runs

| Run | Question | Bounds |
|---|---|---|
| `smi_control` | concurrent callers, signals, DMA, a writer and a poller: `DmaOnlyInLiveStream`, `LockHeldOrLeaked`, `NoCopyAfterStop`, `SetStateAtomic`, `ImplementsStreamControl` | two symmetric callers (one holds, one waits), two captured periods, one-unit fifos |
| `smi_data` | what a reader gets: `DeliveredInOrder`, `NoLostWakeup` | four periods as in the driver, two units each, fifo of two chunks, five chunks (a lap and one), callbacks up to two periods late |
| `smi_live` | `SetStateReturns` with both locks contended, and `PollerServed` | two callers, the writer and the poller, two periods, one captured, no signals |
| `radio` | all sequences of calls on a full board: `StreamPath`, `QuietWhenInactive`, `CarrierByMode` | none: finite as it stands |
| `fpga_stream` | both sample paths: `TxFramed`, `EveryWordOffered`, `SentOnceInOrder`, `ImplementsFifo`, `ReadInOrder`, `PulledIsSent`, `WholeFrames`, `CatchesUp` | fifo of four slots, four words, two switches of the radio, one fault on the transmit path |
| `lifecycle` | `TypeOK`, `ReadyIsWhole`, `NothingLeftBehind`, `ClosedOnce`, `CallsEnd` | three set-ups, five faults, two processes; all three users, both products |
| `rx_thread` | `TypeOK`, `NoUseAfterFree`, `OneMoreCallback`, `ForeignIsOld`, `StreamHasReader`, `InOrder`, `ReleaseEnds` | a fifo of one chunk, two chunks captured, one signal |
| `smi_samples` | `TypeOK`, `TimeBase`, `ChunkDecoded`, `AtMostOneShort`, `CallsEnd` | periods of 5, batches of 10, reads of 3, 12 and 25 samples, four periods, one restart |
| `ts_queue` | `LetThroughServed`, `ActsAsQueue`, `CallsReturn` | two producers, two consumers, a ring of two, three pushes, one wait outside the mutex that times out or fails |
| `smi_late_callback` | violated: `DeliveredInOrder` with callbacks three periods late | as `smi_data` |
| `smi_dead_stream` | violated: `RxStreamRuns` | as `smi_control` |
| `lifecycle_forced` | violated: `ForcedIsProgrammed` | two set-ups, no fault |

**The driver.** `MaxChunks` bounds the history counter `captured` and with it how
often the DMA completes a period; `MaxLag` how far the callback may fall behind over
a session; nothing else is cut off. Two captured chunks are enough for the control
properties, which see only whether a transfer, a callback and data are there. Five
show a wrap of the bounce buffer, an overflow of the fifo, a partial read and a
restart in one behaviour. Two units are the least that can be torn. `smi_control`
allows deadlock: once `state_lock` is leaked by the interrupted wait
(`driver/smi_stream_dev.c:266-268`), callers spin for ever, and with the bound on
captures reached nothing else moves. The abstraction that matters is `MaxLag`: the
code never compares its chunk counter with the DMA's position, so
`DeliveredInOrder` holds only while callbacks are at most `Periods - 2` periods late;
with `Periods - 1` the slot being copied is the one being written.

**The firmware.** Four words pass through a fifo of four slots, three of which can
be used: the addresses wrap, the fifo is full and empty, and the flags lag behind
either side. Half frames of two clocks (eight in the source) and one sync frame (ten)
shorten the modem's side only; the phases that matter are the last two of a frame.
Two switches of the radio bring a receiver back to one that was in use. One fault on
the transmit path is a byte out of place, a slip, or a change of direction. With
`StrobeEdges = 2` the host is as fast as `caribou_smi` programs the bus; with one
system clock between strobes words are lost. `CatchesUp` says of the receive path what the
read request can give: every word but the last reaches the host's side though the modem
falls silent; the last one stays in `rd_data` until another comes. `PulledIsSent` allows one
loss on the transmit path: the direction is turned in the clock after a word was pulled
(`lvds_tx.v:101-104`). The frame then on the line is repeated until the next one is
loaded, which no property excludes.

**The life cycle.** Three set-ups are one that fails, a retry and one after a
release; five faults fail the three attempts to configure the FPGA and two stages
more; two processes suffice as only the FPGA outlives one. Deadlock is allowed in
`lifecycle` (the bounds are reached, or a handler waits for its own process's lock)
and in `rx_thread` (the process has ended).

**The threads.** A fifo of one chunk is full or empty; two chunks are the least that
can come in the wrong order or from two radios. Nothing is captured and no call made
after a signal, so that its handler is seen on each state of the others once.

**Samples.** A batch is two periods as a batch of the driver is several, reads are
shorter than what the search needs (3 of 4 samples), shorter than, between and longer
than batches, and the fifo holds three periods, so that the fourth is dropped.

**The queue.** Three pushes into a ring of two wrap it and override an item; two threads
on either side are the least that can come between each other's semaphore and
mutex. Waits inside the mutex time out or fail without a bound. Deadlock is allowed, as the
pushes are bounded and an override may be stuck, or return, with the mutex. `CallsReturn`
names the two states in which they have (`LockedUp`): without that disjunct TLC finds each.

### What the violations show

- **Late callbacks** (`driver/smi_stream_dev.c:595`): one callback stands for several
  completed periods but advances the counter by one. The lag accumulates over a
  session and torn chunks are delivered, uncounted by `counter_missed`.
- **Dead stream** (`driver/smi_stream_dev.c:239`): -EAGAIN leaves the transfer stopped
  and the receive state recorded, against the comment above it; asking for that state
  again returns 0 and starts nothing. It takes a change to another state to recover.
- **Forced configuration** (`lib/caribou_fpga/caribou_fpga.c:202`): a release of a fully
  initialised driver does not close the FPGA, so the programmer keeps the slot of a
  chip table that is gone. At the next set-up with force every attempt to configure
  fails, after the reset that blanks the FPGA; the retry count is then -1, not 0, and
  the set-up succeeds.

### What the models say besides

Behaviour met while modelling that the properties allow for, as the code has it:

- A successful call for tx records nothing (`driver/smi_stream_dev.c:280`), so every
  `caribou_smi_write` takes the long way and empties `tx_fifo`.
- The LO output can never be enabled: the condition tests the state it is to set
  instead of the argument (`lib/cariboulite_radio.c:1233`); `RadioProofs` rests on it.
- `activate_channel` changes the direction and leaves the front-end switches as the last
  `set_frequency` set them (`lib/cariboulite_radio.c:1071`).
- A set-up that is tried again after a sub-module or the self-test failed skips the
  I/O set-up that the failure released, and dies of SIGSEGV
  (`lib/cariboulite_setup.c:697-709`). A failed self-test leaks files.
- Success on the last of three attempts to configure the FPGA is reported as failure.
- A signal handler that needs the mutex of the SPI, or of the session, while the call
  below holds it waits for ever; one on a receive thread joins itself and aborts.
- Both receive threads read into one buffer: a chunk may go to both radios or to the
  wrong one, though never back in time. Chunks of the old radio may come after a start.
- A buffer of 16 bytes or less is never aligned, and where the alignment changes inside
  a buffer (after a restart) its samples are mixed until the next.
- `caribou_smi_write` adds a batch to its count by what it asked for and takes from what
  is left what the driver took (`lib/caribou_smi/caribou_smi.c:757-758`). A write that
  fills `tx_fifo` reports up to a batch less one sample too many, where
  `lib/cariboulite_radio.h:605` promises "the number of samples written";
  `AtMostOneShort` is the bound that the code does keep. It transmits no sample of its
  caller (`caribou_smi_generate_data`), and the FPGA replaces each word by a counter
  (`firmware/smi_ctrl.v:245`). Words that find `tx_fifo` full are dropped; the only sign
  of it to the host is on the pin of the read request (`firmware/top.v:452, 602`). Words
  left in it are sent at the start of the next transmission.
- `tsqueue.c`: no time-out is ever reported, and each one leaves a semaphore too high,
  so that later pops return "empty" where the header says they block
  (`lib/datatypes/tsqueue.h:86-87`); an override of a full ring, for which "no waiting
  is needed" (`lib/datatypes/tsqueue.c:157`), waits for `full` with the mutex (line 184)
  and without a time-out can lock up the queue, when consumers took `full` down and wait
  for the mutex; if that wait fails it returns with the mutex locked (line 185). The
  counter of dropped items is never counted up; a popped item may be overwritten before
  its user has copied it, once the queue was full.
- With the receive fifo empty a strobe gives the host the last word again. The read request
  falls when the last word leaves the fifo, before the host has it.

### Fairness

`SmiStreamDev` assumes what kernel locks give: queued spinlocks are first come first
served, and mutexes hand over to a waiter that was passed over, so a thread in
`set_state` whose step is enabled again and again takes it (strong fairness of
`SetState`). A started callback finishes, a writer with the lock copies and
unlocks, an awake poller checks (weak fairness). No fairness for the DMA engine,
readers, writers that have not started, signals or timeouts. With signals
`SetStateReturns` is false by the leak above, and `smi_live` has none.

`FpgaStream`: the system clock does not stop, and the host strobes while it is requested
to read; no fairness for strobes without a request. The modem's clock may stop.
`LifeCycle`: a call and a handler go on with their next stage, unless it waits for a
lock; no fairness for users, signals or kills. `RxThread`: threads are scheduled,
`read()` and `poll()` return and so do callbacks; weak fairness, as no step but a join
and a wait for the mutex can be disabled by another process. `SmiSamples`: `poll()`
returns with data or at its time-out. `TsQueue`: a thread that can go on does (weak
fairness); nothing about who gets a semaphore or the mutex.

## What is proved

Every safety property of the passing runs, and the refinements, for all values of the
constants that the `ASSUME` of the module allows. Each proof has an inductive invariant
`IInv` (in the `...Proofs` module, or in the model), theorem `Invariance`, and the
properties follow from it.

**`SmiStreamDevProofs`**, for every set of callers, every number of periods, parts,
capacities and bounds allowed by `SmiAssumption`, with or without signals:

- `TypeCorrect`: `TypeOK`, including that no fifo exceeds its capacity.
- `Invariance`: `IInv`, from which `DmaSafe`, `LockSafe` and `WakeupSafe` follow.
- `NoCopyAfterStopHolds`: a copy into `rx_fifo` happens only with a transfer running
  and the buffers allocated.
- `Refinement`: the driver implements `StreamControl`.
- `SetStateAtomicHolds`: each call, however interleaved, returns a result of the
  indivisible `set_state` from the state found when it took the lock.
- `DeliveredInOrderHolds`: whole chunks in order, for every length of the bounce buffer
  that callbacks stay clear of (`MaxLag + 1 < Periods`). The hypothesis is the one that
  the run `smi_late_callback` shows to be needed, and nothing in the driver enforces it.

`DmaOnlyInLiveStream` is not inductive alone: that a stream starts in a file that is
open needs what a call in progress knows. `CallOnFile` says which file state goes with
which call and that open and release are alone; `HaltedAlone` that a caller between the
halves of `set_state` owns the lock, finds the state idle and the transfer stopped, and
asked for another state than the one it entered with (needed for atomicity); `pend =>
dmaOn` that a due callback dies with its transfer; `NoLostWakeup` needs the capacity
from `TypeOK`. The refinement rests on `TransferIsState`: by `DmaOnlyInLiveStream` the
address lines name the recorded stream. For the order (`OrderInv`), `SlotsNewer` says
that the periods not yet handled are in the bounce buffer in the order of capture, all
newer than the last unit copied, and `ChunkEnds` that this unit ended a chunk and that
no callback outlives a transfer; periods less than a lap apart have different slots
(`DifferentSlots`).

**`RadioProofs`**, for both products (`Product`): `TypeCorrect`, `StreamPathHolds`,
`QuietHolds` and `CarrierHolds`, after every sequence of calls with every refusal of the
driver and every PLL that fails to lock. The inductive invariant adds to the
types that a running transfer is the recorded stream (the invariant of `StreamControl`)
and that the LO output is never enabled, without which `CarrierByMode` does not survive
a call, and says of each transceiver, while the process is up, that it is as its
radio was last commanded. The lemmas follow the code's calls: what holds of every
outcome of `SetStream` gives what holds of `Rest`, of `ActivateRx` and `ActivateTx`, of
`Activate`, of `SetFrequency`, of the set-up and the release.

**`LifeCycleProofs`**, for any number of set-ups, faults and processes, all users and
products, and every table of chips with room for the four of a board: `TypeCorrect`,
`ReadyIsWholeHolds`, `NothingLeftBehindHolds`, `ClosedOnceHolds`. `Consistent` follows
the one thread of control and says what memory, chip table, sample device and FPGA hold
at each stage: with the board set up as far as the stage (`Boards`, `Whole`), taken down
as far (`Stripped`), or empty (`Rested`). It has to know the slots by number, since the
programmer may keep slot 1 from the first set-up on and the others move (`Next1`), and
that the FPGA stays programmed unless the retries ran out (`Configured`). Once a signal's
handler is on top it says only what is open (`OpenFiles`) and the types: the handler may
find any stage half done, and the properties say nothing of such a process.

**`RxThreadProofs`**, for every size of the fifo and any number of chunks: `TypeCorrect`,
`StreamHasReaderHolds`, `NoUseAfterFreeHolds`, `OneMoreCallbackHolds`,
`ForeignIsOldHolds`, `InOrderHolds`. What is left of a call is a sequence of steps; instead
of the calls themselves the proof speaks of what the rests of all of them have in common
(`CallsFormed`): a flag taken down is followed by the stop of the stream, a stream started
by its flag, a thread joined by nothing that uses its radio. With that, `OneStream`: a stream
is never that of one radio while the other is active, and who is about to start a radio
has stopped the other or will first. `ReaderOrBusy` gives `StreamHasReader`; `Joined`
and `Freed` (threads end before what they use, unless the signal was taken by one of
them) give `NoUseAfterFree`; `LateOnce` the one callback after a stop; `ChunksOrdered`,
along the way fifo, buffer, thread, callback, the order; and `OwnOrOld` that a
chunk of the other radio is older than the start.

**`SmiSamplesProofs`**, for periods, batches, fifos and reads of every length:
`TypeCorrect`, `TimeBaseHolds`, `ChunkDecodedHolds`, `AtMostOneShortHolds`.
`OffsetFound` is what the search for the constant bits returns: the first place where
four words show them, or that there is none. `InStream` gives each byte of `rx_fifo` its
place in what the modem sent, up to the periods dropped before it, so that the place
found is at most 3 bytes in and its samples are those sent, at their time but for the
periods dropped and at most one sample. `RxWhole` says that bytes come in whole samples,
`Counts` ties a read's array to the count it returns. For writes `ShortOnce` says that a
call has counted what the driver took, or has filled `tx_fifo` with its one short batch,
so that the next one ends it.

**`ComplexFifoProofs`**, for addresses of every width: the Gray code is injective
(`GrayInjective`) and changes in one bit from an address to the next (`OneBit`), so that
a register that catches it changing, each wire old or new, has the old code or the new
one (`CaughtOldOrNew`); and `FifoIsQueue`, the refinement step: for users who heed the
flags, every edge of either clock or both does to the items what a bounded queue does.
The copies of the addresses trail the addresses, so the flags are late on the safe side
only. Addresses are compared by their distance on the circle. What a recursive function
is for every number is proved by a lemma `Induction` about sets, from the
well-foundedness of finite sets.

**`FpgaStreamProofs`**, for fifos of every width, frames of every length and every number
of faults and switches: `TypeCorrect`, `TxFramedHolds`, `EveryWordOfferedHolds`,
`SentOnceInOrderHolds`, `ReadInOrderHolds`, `PulledIsSentHolds`, `WholeFramesHolds`, and
`ImplementsFifoHolds`,
that the path implements `BoundedFifo`. `Strobed` says how far the host's trigger has got
through the two registers of the system clock. `RxPushes` is why a word is not
pushed into a full fifo by the radio whose channel is selected; `RxWords` and `RxHost` say
which word each place holds; `TxWhole`, `TxHost` and `TxOffered` where in a frame, a word
and a strobe the transmit path is. The assumption `StrobeEdges >= 2` is the timing that
`caribou_smi` programs; with 1 words are lost.

**`TsQueueProofs`**, for any threads and any length of the ring: `TypeCorrect`, by which
the indices stay within it, `LetThroughServedHolds` and `ActsAsQueueHolds`. For the
former the invariant is `SemaphoresCount`: the items are those that `full` counts and
those of the threads that took it down or have yet to post it, and the places likewise.
It holds without overrides and time-outs only, and so does the theorem.
`ActsAsQueueHolds` has no such condition, and covers failing waits too; it has an
invariant of its own (`QueueInv`): `Whole` says that the next place is `num` behind the
oldest item, and `ClaimsFull` that a push that waits with the mutex found the ring full
and still does.

The invariants and lemmas of the `...Proofs` modules were model-checked on the bounds of the
runs before they were proved; as they are proved they are in no run.

Only model-checked:

- liveness and freedom from deadlock (`PollerServed`, `SetStateReturns`, `CatchesUp`,
  `CallsEnd`, `ReleaseEnds`, `CallsReturn`): they rest on fairness and so on `ENABLED`,
  which the prover does not reason about;
- the three violations, each a counterexample that TLC finds.

## Not modelled

- **Probe and removal of the driver, the ioctls that set the bus**: single calls of the
  kernel's bus interface. `ordering` at `smi_stream_dev.c:1042` (visible before it is
  initialised) needs a user that opens the device while the module loads.
- **Register coding** of the modem, the mixer and the FPGA, gains, bandwidths, sample
  rates, RSSI, calibration: one transfer each, without state the properties depend on.
  The mixer's dividers are floating-point arithmetic.
- **FPGA control** (`spi_if.v`, `spi_slave.v`, `sys_ctrl.v`, `io_ctrl.v`): register decoding
  behind one SPI; the debug modes of `smi_ctrl.v` and `lvds_tx.v`.
- **SoapySDR streams**: conversion of formats and forwarding; the asynchronous reader
  is compiled out, and with it the only user of `circular_buffer`. `tiny_list` and the
  rest of `lib/datatypes` are used by nothing but their tests, and `tsqueue`'s
  initialisation and release, which allow for no call in progress.
- **HAT and EEPROM, GPIO, I2C, production and menu programs, examples, GNU Radio
  blocks**: sequential I/O, parsing and terminal dialogue.
- **Vendored and generated code**: `io_utils/rpi` (pigpio), `zf_log`, the byte arrays of
  the firmware and of the driver's module (three copies of the one, one of the other),
  and `driver/smi_stream_dev_old.c`, which is not built. These, the production and
  test programs and the register drivers are most of the repository's lines, which is
  why the models cover a small share of them: what is left is nearly all of the code
  that keeps state between calls.

## Plan

Done: `SmiStreamDev` and `StreamControl`, `Radio`, `LifeCycle`, `RxThread`, `SmiSamples`,
`ComplexFifo` and `FpgaStream`, `TsQueue`. Left, in order:

1. A module that composes `FpgaStream`'s receive path, `SmiStreamDev` and `SmiSamples`, with
   the theorem that the samples lost between modem and reader are those that a full fifo, a
   missed chunk or a dropped period accounts for.
2. A second opener of the driver, and the driver's probe with a user who comes early.
3. The FPGA's control registers.
