---------------------------- MODULE SmiStreamDev -----------------------------
(***************************************************************************)
(* driver/smi_stream_dev.c: the kernel driver that moves the sample stream  *)
(* between the SMI block (behind it, the FPGA and the modem) and user space.*)
(*                                                                          *)
(* Four kinds of actor meet here:                                           *)
(*   - Callers: threads in open, release or ioctl(SET_STREAM_STATUS), all   *)
(*     of which end in set_state, serialised by the spinlock state_lock;    *)
(*   - the DMA engine, which fills the bounce buffer period after period    *)
(*     and raises the callback; the callback copies one period to rx_fifo;  *)
(*   - a reader, a writer and a poller in read, write and poll.             *)
(*                                                                          *)
(* rx_fifo is a sequence of units.  A period of the bounce buffer is Parts  *)
(* units long, so that a read can stop in the middle of one.  Nothing takes *)
(* data out of tx_fifo in this version of the driver (the transfer that     *)
(* would, set_state's MEM_TO_DEV one, is commented out), so only its fill   *)
(* level is kept.                                                           *)
(***************************************************************************)
EXTENDS Integers, Sequences, FiniteSets

CONSTANTS
  Callers,    (* threads that open, release or set the stream state         *)
  Writer,     (* the thread in write(2): a holder of write_lock             *)
  NoOne,      (* no holder of a lock                                        *)
  Periods,    (* periods of the cyclic transfer, DMA_BOUNCE_BUFFER_SIZE / its *)
              (* quarter: 4 in the driver                                   *)
  Parts,      (* units in a period                                          *)
  RxCap,      (* units that fit rx_fifo                                     *)
  TxCap,      (* units that fit tx_fifo                                     *)
  MaxLag,     (* how many periods a callback may come late, over a session  *)
  MaxChunks,  (* bound: periods captured in a behaviour                     *)
  Signals     (* may a signal interrupt a thread that waits for a mutex?    *)

ASSUME SmiAssumption ==
  /\ Periods \in Nat \ {0} /\ Parts \in Nat \ {0}
  /\ RxCap \in Nat /\ TxCap \in Nat /\ MaxLag \in Nat /\ MaxChunks \in Nat
  /\ Signals \in BOOLEAN
  /\ Writer \notin Callers /\ NoOne \notin Callers /\ NoOne # Writer

VARIABLES
  file,      (* the device file: "closed", "opening", "open" or "closing"   *)
  bufs,      (* are the two fifo buffers allocated?                         *)
  state,     (* inst->state                                                 *)
  address,   (* the SMI address lines, which tell the FPGA what to stream    *)
  lock,      (* holder of state_lock                                        *)
  wlock,     (* holder of write_lock                                        *)
  pc, op, want, ret, (* per caller: where it is, its call, argument, result  *)
  entry,     (* history: <<state, transfer>> when the call took state_lock   *)
  dmaOn,     (* is the cyclic transfer running?                             *)
  slots,     (* the bounce buffer, one captured chunk per period             *)
  done,      (* periods the DMA finished since the transfer started          *)
  pend,      (* a callback is due                                           *)
  cb,        (* the callback: "idle", or "copied" between copy and wake-up   *)
  cur,       (* inst->current_read_chunk                                    *)
  captured,  (* history: periods captured so far, the next chunk's identity  *)
  missed,    (* inst->counter_missed                                        *)
  rx, tx,    (* contents of rx_fifo, fill level of tx_fifo                   *)
  last,      (* history: the last unit that left rx_fifo                    *)
  poller, event (* the thread in poll, and the event it waits for            *)

control == <<file, bufs, state, address, lock, pc, op, want, ret, entry>>
transfer == <<dmaOn, slots, done, pend, cb, cur, captured, missed>>
vars == <<control, wlock, transfer, rx, tx, last, poller, event>>

(* smi_stream_state_en *)
RxStreams == {"rx0", "rx1"}
Streams == {"idle", "tx"} \cup RxStreams

(* Variant of Address: the channel offset is not applied. *)
AddressChannelUnused(s) == [dir |-> IF s \in RxStreams THEN 1 ELSE 0, ch |-> 0]

(* calc_address_from_state with the offsets the library sets (direction at    *)
(* bit 2, channel at bit 3).  idle and tx drive the same lines.               *)
Address(s) ==
  [dir |-> IF s \in RxStreams THEN 1 ELSE 0, ch |-> IF s = "rx1" THEN 1 ELSE 0]

(* The stream the running transfer delivers: what the lines ask the FPGA for. *)
Transfer == IF ~dmaOn THEN "off" ELSE IF address.ch = 1 THEN "rx1" ELSE "rx0"

SC == INSTANCE StreamControl WITH dma <- Transfer

Unit(id, p) == [id |-> id, part |-> p]
Units == [id : Int, part : 1..Parts]
NoChunk == -1

(* Units of whole chunks, in the order they were captured: a chunk may be     *)
(* missing, none is torn, repeated or out of place.                          *)
Follows(u, v) ==
  \/ v.id = u.id /\ v.part = u.part + 1
  \/ v.id > u.id /\ u.part = Parts /\ v.part = 1

Least(a, b) == IF a < b THEN a ELSE b

(* wake_up_interruptible(&inst->poll_event): a sleeping poller checks again. *)
WakePoller == poller' = IF poller = "asleep" THEN "check" ELSE poller

(* The first k units leave rx_fifo. *)
Take(k) ==
  /\ rx' = SubSeq(rx, k + 1, Len(rx))
  /\ last' = IF k = 0 THEN last ELSE rx[k]

AtRest == <<"idle", "off">>
-----------------------------------------------------------------------------
Init ==
  /\ file = "closed" /\ bufs = FALSE
  /\ state = "idle" /\ address = Address("idle")
  /\ lock = NoOne /\ wlock = NoOne
  /\ pc = [c \in Callers |-> "user"] /\ op = [c \in Callers |-> "ioctl"]
  /\ want = [c \in Callers |-> "idle"] /\ ret = [c \in Callers |-> SC!Success]
  /\ entry = [c \in Callers |-> AtRest]
  /\ dmaOn = FALSE /\ slots = [i \in 0..Periods-1 |-> NoChunk]
  /\ done = 0 /\ pend = FALSE /\ cb = "idle" /\ cur = 0
  /\ captured = 0 /\ missed = 0
  /\ rx = <<>> /\ tx = 0 /\ last = Unit(-1, Parts)
  /\ poller = "out" /\ event = "in"

-----------------------------------------------------------------------------
(* System calls that end in set_state. *)

(* The caller c leaves set_state with result r and its locals die; open and   *)
(* release ignore the result, and release frees the buffers next.            *)
Return(c, r) ==
  /\ pc' = [pc EXCEPT ![c] = "user"]
  /\ op' = [op EXCEPT ![c] = "ioctl"] /\ want' = [want EXCEPT ![c] = "idle"]
  /\ ret' = [ret EXCEPT ![c] = r]
  /\ entry' = [entry EXCEPT ![c] = AtRest]
  /\ file' = IF op[c] = "open" THEN "open" ELSE IF op[c] = "release" THEN "closed" ELSE file
  /\ bufs' = (bufs /\ op[c] # "release")

(* The thread c enters set_state(s) and waits for state_lock. *)
Call(c, o, s) ==
  /\ pc[c] = "user"
  /\ pc' = [pc EXCEPT ![c] = "spin"]
  /\ op' = [op EXCEPT ![c] = o]
  /\ want' = [want EXCEPT ![c] = s]

(* ioctl(SMI_STREAM_IOC_SET_STREAM_STATUS, s) *)
Ioctl(c, s) ==
  /\ file = "open"
  /\ Call(c, "ioctl", s)
  /\ UNCHANGED <<file, bufs, state, address, lock, ret, entry, wlock, transfer, rx, tx, last, poller, event>>

(* smi_stream_open: new buffers, empty fifos, then set_state(idle). *)
Open(c) ==
  /\ file = "closed"
  /\ file' = "opening" /\ bufs' = TRUE
  /\ Take(Len(rx)) /\ tx' = 0
  /\ Call(c, "open", "idle")
  /\ UNCHANGED <<state, address, lock, ret, entry, wlock, transfer, poller, event>>

(* smi_stream_release.  The kernel calls it when no other call is under way   *)
(* on the file: set_state(idle), and Return frees the buffers.                *)
Release(c) ==
  /\ file = "open"
  /\ \A d \in Callers : pc[d] = "user"
  /\ wlock # Writer /\ poller = "out"
  /\ file' = "closing"
  /\ Call(c, "release", "idle")
  /\ UNCHANGED <<bufs, state, address, lock, ret, entry, wlock, transfer, rx, tx, last, poller, event>>

-----------------------------------------------------------------------------
(* set_state *)

(* Variant of LockFree: no lock. *)
NoSpin == TRUE

LockFree == lock = NoOne

(* The requested state is the recorded one: nothing happens. *)
SetStateSame(c) ==
  /\ pc[c] = "spin" /\ LockFree
  /\ want[c] = state
  /\ Return(c, SC!Success)
  /\ UNCHANGED <<state, address, lock, wlock, transfer, rx, tx, last, poller, event>>

(* Variants of TransferStop: callbacks are not waited for; nothing is stopped. *)
TransferStopAsync ==
  /\ dmaOn' = FALSE
  /\ UNCHANGED <<slots, done, pend, cb, cur, captured, missed>>

TransferStopForgotten ==
  /\ cb = "idle"
  /\ UNCHANGED transfer

(* transfer_thread_stop: dmaengine_terminate_sync waits for a callback that   *)
(* is running and drops one that is due.                                      *)
TransferStop ==
  /\ cb = "idle"
  /\ dmaOn' = FALSE /\ pend' = FALSE
  /\ UNCHANGED <<slots, done, cb, cur, captured, missed>>

SetStateEnter(c) ==
  /\ pc[c] = "spin" /\ LockFree
  /\ want[c] # state
  /\ TransferStop

(* The SMI block is still active: -EAGAIN, and the recorded state stays. *)
SetStateBusy(c) ==
  /\ SetStateEnter(c)
  /\ Return(c, SC!Again)
  /\ UNCHANGED <<state, address, lock, wlock, rx, tx, last, poller, event>>

(* The transfer is stopped and idle recorded; a call for idle is finished. *)
SetStateIdle(c) ==
  /\ SetStateEnter(c)
  /\ state' = "idle" /\ address' = Address("idle")
  /\ IF want[c] = "idle"
     THEN Return(c, SC!Success) /\ lock' = NoOne
     ELSE /\ pc' = [pc EXCEPT ![c] = "halted"] /\ lock' = c
          /\ entry' = [entry EXCEPT ![c] = <<state, Transfer>>]
          /\ UNCHANGED <<op, want, ret, file, bufs>>
  /\ UNCHANGED <<wlock, rx, tx, last, poller, event>>

(* Variant of NewSession: current_read_chunk is not reset. *)
NewSessionKeepsChunk == missed' = 0 /\ UNCHANGED cur

(* The counters transfer_thread_init resets. *)
NewSession == cur' = 0 /\ missed' = 0

(* transfer_thread_init succeeded: the receive stream is recorded. *)
StartRx(c) ==
  /\ pc[c] = "halted" /\ want[c] \in RxStreams
  /\ address' = Address(want[c]) /\ state' = want[c]
  /\ dmaOn' = TRUE /\ done' = 0 /\ NewSession
  /\ lock' = NoOne
  /\ Return(c, SC!Success)
  /\ UNCHANGED <<wlock, slots, pend, cb, captured, rx, tx, last, poller, event>>

(* Variant of StartRxFails: the failing path does not unlock. *)
StartRxFailsLocked(c) ==
  /\ pc[c] = "halted" /\ want[c] \in RxStreams
  /\ address' = Address("idle") /\ state' = "idle"
  /\ Return(c, SC!Failed)
  /\ UNCHANGED <<lock, wlock, transfer, rx, tx, last, poller, event>>

(* transfer_thread_init failed, before or after it reset its counters: the    *)
(* lines go back to idle.                                                     *)
StartRxFails(c) ==
  /\ pc[c] = "halted" /\ want[c] \in RxStreams
  /\ address' = Address("idle") /\ state' = "idle"
  /\ \/ NewSession
     \/ UNCHANGED <<cur, missed>>
  /\ lock' = NoOne
  /\ Return(c, SC!Failed)
  /\ UNCHANGED <<wlock, dmaOn, slots, done, pend, cb, captured, rx, tx, last, poller, event>>

(* Variant of StartTx: its own return path does not unlock. *)
StartTxLocked(c) ==
  /\ pc[c] = "halted" /\ want[c] = "tx" /\ wlock = NoOne
  /\ address' = Address("tx") /\ tx' = 0 /\ WakePoller
  /\ Return(c, SC!Success)
  /\ UNCHANGED <<state, lock, wlock, transfer, rx, last, event>>

(* tx: the transmit fifo is emptied under write_lock and the poller woken;    *)
(* inst->state stays idle.                                                    *)
StartTx(c) ==
  /\ pc[c] = "halted" /\ want[c] = "tx"
  /\ wlock = NoOne
  /\ address' = Address("tx")
  /\ tx' = 0
  /\ WakePoller
  /\ lock' = NoOne
  /\ Return(c, SC!Success)
  /\ UNCHANGED <<state, wlock, transfer, rx, last, event>>

(* tx, and a signal arrives while write_lock is taken: -EINTR, with           *)
(* state_lock still held.                                                     *)
StartTxInterrupted(c) ==
  /\ Signals
  /\ pc[c] = "halted" /\ want[c] = "tx"
  /\ wlock # NoOne
  /\ address' = Address("tx")
  /\ Return(c, SC!Intr)
  /\ UNCHANGED <<state, lock, wlock, transfer, rx, tx, last, poller, event>>

-----------------------------------------------------------------------------
(* The cyclic receive transfer and its callback. *)

(* The DMA engine completes a period.  It runs on whether or not the callback *)
(* keeps up: several completions raise one callback.                          *)
Capture ==
  /\ dmaOn /\ captured < MaxChunks
  /\ done - cur <= MaxLag
  /\ slots' = [slots EXCEPT ![done % Periods] = captured]
  /\ captured' = captured + 1
  /\ done' = done + 1
  /\ pend' = TRUE
  /\ UNCHANGED <<control, wlock, dmaOn, cb, cur, missed, rx, tx, last, poller, event>>

(* What the callback copies: the slot of its own counter.  If the DMA has     *)
(* wrapped around to that slot, some of it is already the next chunk.         *)
ChunkAt(i, k) ==
  [p \in 1..Parts |-> Unit(IF i = done % Periods /\ p <= k THEN captured ELSE slots[i], p)]

(* kfifo_avail(&inst->rx_fifo) >= DMA_BOUNCE_BUFFER_SIZE/4 *)
ChunkFits == RxCap - Len(rx) >= Parts

(* The callback copies a chunk, or counts it as missed. *)
CallbackCopy ==
  /\ pend /\ cb = "idle"
  /\ pend' = FALSE /\ cb' = "copied"
  /\ IF ChunkFits
     THEN /\ \E k \in 0..Parts : rx' = rx \o ChunkAt(cur % Periods, k)
          /\ UNCHANGED missed
     ELSE missed' = missed + 1 /\ UNCHANGED rx
  /\ UNCHANGED <<control, wlock, dmaOn, slots, done, cur, captured, tx, last, poller, event>>

(* Variant of CallbackWake: nobody is woken. *)
CallbackNoWake ==
  /\ cb = "copied"
  /\ cb' = "idle" /\ cur' = cur + 1
  /\ UNCHANGED <<control, wlock, dmaOn, slots, done, pend, captured, missed, rx, tx, last, poller, event>>

(* The rest of the callback. *)
CallbackWake ==
  /\ cb = "copied"
  /\ cb' = "idle" /\ cur' = cur + 1
  /\ WakePoller
  /\ UNCHANGED <<control, wlock, dmaOn, slots, done, pend, captured, missed, rx, tx, last, event>>

-----------------------------------------------------------------------------
(* read, write and poll *)

(* read(buf, n): what rx_fifo holds, n units at most, under read_lock. *)
Read(n) ==
  /\ file = "open" /\ rx # <<>>
  /\ Take(Least(n, Len(rx)))
  /\ UNCHANGED <<control, wlock, transfer, tx, poller, event>>

(* read(NULL): drop what rx_fifo holds. *)
Flush ==
  /\ file = "open"
  /\ Take(Len(rx))
  /\ UNCHANGED <<control, wlock, transfer, tx, poller, event>>

WriteLock ==
  /\ file = "open" /\ wlock = NoOne
  /\ wlock' = Writer
  /\ UNCHANGED <<control, transfer, rx, tx, last, poller, event>>

(* write(n): what tx_fifo has room for, n units at most. *)
WriteCopy(n) ==
  /\ wlock = Writer
  /\ tx' = tx + Least(n, TxCap - tx)
  /\ wlock' = NoOne
  /\ UNCHANGED <<control, transfer, rx, last, poller, event>>

PollEnter(e) ==
  /\ file = "open" /\ poller = "out"
  /\ poller' = "check" /\ event' = e
  /\ UNCHANGED <<control, wlock, transfer, rx, tx, last>>

(* smi_stream_poll: both events are computed from rx_fifo. *)
PollMask == (IF rx # <<>> THEN {"in"} ELSE {}) \cup (IF Len(rx) < RxCap THEN {"out"} ELSE {})

(* poll(2) returns, and its event dies with it. *)
PollLeave == poller' = "out" /\ event' = "in"

(* The poller is on the wait queue already: a wake-up that comes between the  *)
(* check and the sleep is not lost.                                           *)
PollCheck ==
  /\ poller = "check"
  /\ IF event \in PollMask THEN PollLeave ELSE poller' = "asleep" /\ UNCHANGED event
  /\ UNCHANGED <<control, wlock, transfer, rx, tx, last>>

PollTimeout ==
  /\ poller = "asleep"
  /\ PollLeave
  /\ UNCHANGED <<control, wlock, transfer, rx, tx, last>>

-----------------------------------------------------------------------------
SetState(c) ==
  \/ SetStateSame(c) \/ SetStateBusy(c) \/ SetStateIdle(c)
  \/ StartRx(c) \/ StartRxFails(c) \/ StartTx(c) \/ StartTxInterrupted(c)

Next ==
  \/ \E c \in Callers :
       \/ Open(c) \/ Release(c)
       \/ \E s \in Streams : Ioctl(c, s)
       \/ SetState(c)
  \/ Capture \/ CallbackCopy \/ CallbackWake
  \/ \E n \in 1..RxCap : Read(n)
  \/ Flush
  \/ WriteLock
  \/ \E n \in 1..TxCap : WriteCopy(n)
  \/ \E e \in {"in", "out"} : PollEnter(e)
  \/ PollCheck \/ PollTimeout

Spec == Init /\ [][Next]_vars

(***************************************************************************)
(* What the kernel guarantees.  A thread in set_state proceeds: spinlocks    *)
(* and mutexes hand over in the order of arrival (queued spinlocks, mutex    *)
(* hand-off), which is the strong fairness.  A callback that runs finishes,  *)
(* a thread that holds write_lock copies and releases it, and a thread that  *)
(* is awake in poll checks its events.  Nothing forces the DMA engine, a      *)
(* reader or a timeout.                                                      *)
(***************************************************************************)
Fairness ==
  /\ \A c \in Callers : SF_vars(SetState(c))
  /\ WF_vars(CallbackWake)
  /\ WF_vars(\E n \in 1..TxCap : WriteCopy(n))
  /\ WF_vars(PollCheck)

FairSpec == Spec /\ Fairness
-----------------------------------------------------------------------------
ControlType ==
  /\ file \in {"closed", "opening", "open", "closing"} /\ bufs \in BOOLEAN
  /\ state \in {"idle"} \cup RxStreams
  /\ address \in [dir : {0, 1}, ch : {0, 1}]
  /\ lock \in Callers \cup {NoOne}
  /\ pc \in [Callers -> {"user", "spin", "halted"}]
  /\ op \in [Callers -> {"open", "release", "ioctl"}]
  /\ want \in [Callers -> Streams] /\ ret \in [Callers -> SC!Returns]
  /\ entry \in [Callers -> Streams \X (RxStreams \cup {"off"})]

TransferType ==
  /\ dmaOn \in BOOLEAN /\ pend \in BOOLEAN /\ cb \in {"idle", "copied"}
  /\ slots \in [0..Periods-1 -> Int]
  /\ done \in Nat /\ cur \in Nat /\ captured \in Nat /\ missed \in Nat

FileType ==
  /\ rx \in Seq(Units) /\ Len(rx) <= RxCap
  /\ tx \in 0..TxCap /\ wlock \in {Writer, NoOne}
  /\ last \in Units
  /\ poller \in {"out", "check", "asleep"} /\ event \in {"in", "out"}

(* Types, and the capacities of the fifos. *)
TypeOK == ControlType /\ TransferType /\ FileType

(* The DMA engine runs only for the receive stream that is recorded, with the *)
(* address lines selecting that stream, and never past the release of the     *)
(* file or without the buffers its callback writes to: transfer_thread_stop   *)
(* comes before every change of the three.                                    *)
DmaOnlyInLiveStream ==
  dmaOn => /\ state \in RxStreams /\ address = Address(state)
           /\ bufs /\ file \in {"open", "closing"}

(* The callback reaches rx_fifo only while a transfer runs and the fifo has    *)
(* its memory: dmaengine_terminate_sync leaves no callback behind for          *)
(* smi_stream_release to free the buffers under.                               *)
NoCopyAfterStop == [][Len(rx') > Len(rx) => dmaOn /\ bufs]_vars

(* read() sees whole chunks in the order of capture, across reads of any       *)
(* length, overflows, flushes and changes of stream, as long as the callback   *)
(* is less than a lap of the bounce buffer behind the DMA engine.              *)
DeliveredInOrder ==
  LET s == <<last>> \o rx IN \A i \in 1..Len(s)-1 : Follows(s[i], s[i+1])

(* A thread sleeping in poll(POLLIN) while rx_fifo holds data is about to be    *)
(* woken: the callback wakes after it copies.                                  *)
NoLostWakeup ==
  poller = "asleep" /\ event = "in" /\ rx # <<>> => cb = "copied"

(* However calls interleave, each behaves as one indivisible set_state from    *)
(* the state it found when it took state_lock.                                 *)
SetStateAtomic ==
  [][\A c \in Callers :
       pc[c] # "user" /\ pc'[c] = "user" =>
         LET e == IF pc[c] = "spin" THEN <<state, Transfer>> ELSE entry[c] IN
           SC!Result(state', Transfer', ret'[c]) \in SC!SetStateResults(e[1], e[2], want[c])]_vars

(* state_lock is held by a thread inside set_state, or it was leaked by the     *)
(* one path that returns without unlocking, an interrupted wait for write_lock. *)
LockHeldOrLeaked ==
  lock # NoOne => pc[lock] = "halted" \/ ret[lock] = SC!Intr

(* The driver implements the control of streams that StreamControl states. *)
ImplementsStreamControl == SC!Spec

(* What a call in progress knows.  Between its two halves set_state owns the    *)
(* lock, the transfer is at rest and the stream it will set is another one; an  *)
(* open or release is alone on the file.                                       *)
HaltedAlone ==
  \A c \in Callers : pc[c] = "halted" =>
    lock = c /\ state = "idle" /\ ~dmaOn /\ want[c] # "idle" /\ entry[c][1] # want[c]

CallOnFile ==
  /\ \A c \in Callers : pc[c] # "user" =>
       \/ op[c] = "ioctl" /\ file = "open"
       \/ op[c] = "open" /\ file = "opening" /\ want[c] = "idle"
       \/ op[c] = "release" /\ file = "closing" /\ want[c] = "idle"
  /\ \A c, d \in Callers :
       pc[c] # "user" /\ pc[d] # "user" /\ op[c] # "ioctl" => c = d
  /\ bufs = (file # "closed")

(* The inductive invariant. *)
IInv ==
  /\ TypeOK
  /\ HaltedAlone /\ CallOnFile /\ LockHeldOrLeaked
  /\ DmaOnlyInLiveStream /\ (pend => dmaOn)
  /\ NoLostWakeup

(* Every open, release and SET_STREAM_STATUS call returns, when no signal can   *)
(* interrupt the wait for write_lock.                                          *)
SetStateReturns == \A c \in Callers : pc[c] # "user" ~> pc[c] = "user"

(* A thread that polls for input while there is some gets to return, unless     *)
(* the input is taken away by then.                                            *)
PollerServed ==
  poller # "out" /\ event = "in" /\ rx # <<>> ~> poller = "out" \/ rx = <<>>
-----------------------------------------------------------------------------
(* What the code says of itself and does not keep. *)

(* The comment above the stop in set_state: "stop the current transfer and      *)
(* update the new state".  When the SMI is still active the transfer is stopped *)
(* and the old state stays; asking for it again then succeeds with no transfer. *)
RxStreamRuns == state \in RxStreams => dmaOn
=============================================================================
