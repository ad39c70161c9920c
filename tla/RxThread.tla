------------------------------ MODULE RxThread -------------------------------
(***************************************************************************)
(* The C++ API with its default, asynchronous radios: CaribouLiteCpp.cpp and  *)
(* CaribouLiteRadioCpp.cpp.  Each radio has a thread that reads samples and    *)
(* calls the application back.  The threads and the application share the     *)
(* flags of the radios, the one stream and fifo of the driver, and the one     *)
(* buffer of caribou_smi, all without a lock.                                *)
(*                                                                          *)
(* A call of the API is a sequence of steps, between which any other process   *)
(* may run: each write of a member is a step, and cariboulite_radio.c's        *)
(* activation is two, the stream's stop and its start (see Radio).  The        *)
(* application calls from one thread, and a callback may stop its own radio.   *)
(*                                                                          *)
(* Not modelled: gains, bandwidths and frequencies, the kinds of callback and    *)
(* the conversion of samples for them, and reception without a callback, as by   *)
(* the radios of the synchronous API, which have no thread.                    *)
(***************************************************************************)
EXTENDS Integers, Sequences

CONSTANTS
  FifoSize,  (* chunks that the driver's rx_fifo holds                         *)
  MaxChunks  (* bound: chunks captured                                         *)

ASSUME RxThreadAssumption ==
  FifoSize \in Nat \ {0} /\ MaxChunks \in Nat

VARIABLES
  radio,  (* per radio: the members of CaribouLiteRadio, see RadioStates         *)
  thread, (* per radio: its thread, see ThreadStates                            *)
  todo,   (* per process: the steps left of the call it is in                   *)
  dev,    (* the driver and the library below: see Devices                      *)
  past    (* history: see Pasts                                                *)

vars == <<radio, thread, todo, dev, past>>

Radios == {"s1g", "hif"}
App == "app"
Processes == Radios \cup {App}

Other(r) == IF r = "s1g" THEN "hif" ELSE "s1g"

(* A chunk of samples: its number, and the radio that it was captured from.   *)
(* Number 0 is the buffer before anything was read.                          *)
Chunks == [id : 0..MaxChunks, of : Radios]

RadioStates ==
  [ (* _rx_is_active, _rx_thread_running; is _rxCallbackType other than None? *)
    active : BOOLEAN, running : BOOLEAN, callback : BOOLEAN,
    (* deleted by ReleaseResources *)
    freed : BOOLEAN ]

(* Where the thread is in its loop, and the chunk it decoded.                 *)
ThreadStates ==
  [at : {"check", "read", "decode", "notify", "callback", "called", "done"}, got : Chunks]

Devices ==
  [ (* the radio whose samples the driver receives; is the driver released?   *)
    stream : Radios \cup {"idle"}, closed : BOOLEAN,
    (* rx_fifo, and read_temp_buffer of caribou_smi_st                        *)
    fifo : Seq(Chunks), temp : Chunks, captured : 0..MaxChunks ]

Pasts ==
  [ (* callbacks of a radio since its flag went down, counted up to 2; the last  *)
    (* chunk captured when it went up; the chunk of its last callback           *)
    late : [Radios -> 0..2], mark : [Radios -> 0..MaxChunks],
    given : [Radios -> 0..MaxChunks],
    (* the thread that took a signal, if any; the process: "up", "aborted" by   *)
    (* the C++ library, or "exited"                                           *)
    signal : Processes \cup {"none"}, end : {"up", "aborted", "exited"} ]

Operations == {"callback", "inactive", "active", "off", "on", "on_tx", "end", "join",
               "close", "exit", "locked"}

Op(op, r) == [op |-> op, of |-> r]

TypeOK ==
  /\ radio \in [Radios -> RadioStates]
  /\ thread \in [Radios -> ThreadStates]
  /\ todo \in [Processes -> Seq([op : Operations, of : Radios])]
  /\ dev \in Devices /\ Len(dev.fifo) <= FifoSize
  /\ past \in Pasts

NoChunk == [id |-> 0, of |-> "s1g"]

(* The constructor starts the thread and initialises every member that is used  *)
(* here but _rx_is_active, whose value is whatever the memory holds.           *)
Init ==
  /\ radio \in [Radios -> RadioStates]
  /\ \A r \in Radios : radio[r].running /\ ~radio[r].callback /\ ~radio[r].freed
  /\ thread = [r \in Radios |-> [at |-> "check", got |-> NoChunk]]
  /\ todo = [p \in Processes |-> <<>>]
  /\ dev = [stream |-> "idle", closed |-> FALSE, fifo |-> <<>>, temp |-> NoChunk, captured |-> 0]
  /\ past = [late |-> [r \in Radios |-> 0], mark |-> [r \in Radios |-> 0],
             given |-> [r \in Radios |-> 0], signal |-> "none", end |-> "up"]

Up == past.end = "up"

-----------------------------------------------------------------------------
(* The calls of the API, as the steps they take.  Where the code deactivates a   *)
(* channel twice in a row the second, which finds the stream idle, is left out. *)

(* Variant of StopReceiving: the channel first. *)
StopReceivingFlagLast(r) == <<Op("off", r), Op("inactive", r)>>

StopReceiving(r) == <<Op("inactive", r), Op("off", r)>>

(* Variant of StartReceiving: the other radio goes on. *)
StartReceivingBoth(r) == <<Op("callback", r), Op("off", r), Op("on", r), Op("active", r)>>

StartReceiving(r) ==
  <<Op("callback", r)>> \o StopReceiving(Other(r)) \o <<Op("on", r), Op("active", r)>>

(* StartTransmitting, and with a carrier or the LO. *)
StartTransmitting(r) == <<Op("inactive", r), Op("off", r), Op("on_tx", r)>>

StopTransmitting(r) == <<Op("off", r)>>

(* Variant of Delete: the thread is told to end and not waited for. *)
DeleteUnjoined(r) == StopReceiving(r) \o <<Op("end", r)>>

(* ~CaribouLiteRadio *)
Delete(r) == StopReceiving(r) \o <<Op("end", r), Op("join", r)>>

(* ~CaribouLite, at the exit of the process. *)
ReleaseResources == Delete("s1g") \o Delete("hif") \o <<Op("close", "s1g"), Op("exit", "s1g")>>

Begin(p, call) == todo' = [todo EXCEPT ![p] = call]

(* No calls and no captures after a signal (a bound).                          *)
Call ==
  /\ Up /\ todo[App] = <<>> /\ past.signal = "none"
  /\ \E r \in Radios :
       \E call \in {StartReceiving(r), StopReceiving(r), StartTransmitting(r),
                   StopTransmitting(r), ReleaseResources} : Begin(App, call)
  /\ UNCHANGED <<radio, thread, dev, past>>

(* The thread of r, unless it is inside a call of its callback. *)
Runs(r, at) == Up /\ todo[r] = <<>> /\ thread[r].at = at
Goto(r, at) ==
  thread' = [thread EXCEPT ![r].at = at, ![r].got = IF at = "check" THEN NoChunk ELSE @]

(* A signal in a call of the application or in a callback: elsewhere it is as   *)
(* good as a call of the destructor.  DefaultSignalHandler exits, and so runs    *)
(* the destructor on top of what the thread p was doing, if it had not begun.   *)
(* Where that holds the mutex of the SPI, the destructor waits for it for ever. *)
Releasing == \E p \in Processes : \E i \in DOMAIN todo[p] : todo[p][i].op = "exit"

Signal(p) ==
  /\ Up /\ past.signal = "none"
  /\ IF p = App THEN todo[p] # <<>> ELSE thread[p].at \in {"callback", "called"}
  /\ past' = [past EXCEPT !.signal = p]
  /\ \/ Begin(p, IF Releasing THEN <<Op("exit", "s1g")>> ELSE ReleaseResources)
     \/ /\ todo[p] # <<>> /\ Head(todo[p]).op \in {"off", "on", "on_tx", "close"} /\ ~Releasing
        /\ Begin(p, <<Op("locked", "s1g")>> \o ReleaseResources)
  /\ UNCHANGED <<radio, thread, dev>>

-----------------------------------------------------------------------------
(* The steps of a call. *)

Is(p, op) == Up /\ todo[p] # <<>> /\ Head(todo[p]).op = op
Rad(p) == Head(todo[p]).of
Proceed(p) == todo' = [todo EXCEPT ![p] = Tail(@)]

WriteFlag(p) ==
  /\ \/ Is(p, "callback") /\ radio' = [radio EXCEPT ![Rad(p)].callback = TRUE]
     \/ Is(p, "inactive") /\ radio' = [radio EXCEPT ![Rad(p)].active = FALSE]
     \/ Is(p, "end") /\ radio' = [radio EXCEPT ![Rad(p)].running = FALSE]
  /\ Proceed(p)
  /\ past' = IF Is(p, "inactive") THEN [past EXCEPT !.late[Rad(p)] = 0, !.mark[Rad(p)] = 0] ELSE past
  /\ UNCHANGED <<thread, dev>>

(* Whatever cariboulite_radio_activate_channel returned.                       *)
SetActive(p) ==
  /\ Is(p, "active") /\ Proceed(p)
  /\ radio' = [radio EXCEPT ![Rad(p)].active = TRUE]
  /\ past' = [past EXCEPT !.late[Rad(p)] = 0, !.mark[Rad(p)] = dev.captured]
  /\ UNCHANGED <<thread, dev>>

(* cariboulite_radio_activate_channel, when the SPI is free: any call stops the  *)
(* stream of either radio.  It may fail to start it; rx_fifo keeps what it       *)
(* holds.                                                                    *)
Activate(p) ==
  /\ \A q \in Processes : ~Is(q, "locked")
  /\ \/ Is(p, "off") /\ dev' = [dev EXCEPT !.stream = "idle"]
     \/ Is(p, "on") /\ \E s \in {"idle", Rad(p)} : dev' = [dev EXCEPT !.stream = s]
     \/ Is(p, "on_tx") /\ \E s \in {"idle", dev.stream} : dev' = [dev EXCEPT !.stream = s]
  /\ Proceed(p)
  /\ UNCHANGED <<radio, thread, past>>

(* std::thread::join.  A thread that waits for itself throws, in a destructor.  *)
Join(p) ==
  /\ Is(p, "join") /\ Proceed(p)
  /\ \/ Rad(p) = p /\ past' = [past EXCEPT !.end = "aborted"] /\ UNCHANGED radio
     \/ /\ Rad(p) # p /\ thread[Rad(p)].at = "done"
        /\ radio' = [radio EXCEPT ![Rad(p)].freed = TRUE]
        /\ UNCHANGED past
  /\ UNCHANGED <<thread, dev>>

CloseDriver(p) ==
  /\ Is(p, "close") /\ Proceed(p)
  /\ dev' = [dev EXCEPT !.closed = TRUE, !.stream = "idle"]
  /\ UNCHANGED <<radio, thread, past>>

Exit(p) ==
  /\ Is(p, "exit") /\ Proceed(p)
  /\ past' = [past EXCEPT !.end = "exited"]
  /\ UNCHANGED <<radio, thread, dev>>

CallStep(p) ==
  WriteFlag(p) \/ SetActive(p) \/ Activate(p) \/ Join(p) \/ CloseDriver(p) \/ Exit(p)

-----------------------------------------------------------------------------
(* Variant of Capture: the space in the fifo is not looked at.                   *)
CaptureUnchecked ==
  /\ Up /\ past.signal = "none"
  /\ dev.stream # "idle" /\ dev.captured < MaxChunks
  /\ dev' = [dev EXCEPT !.captured = @ + 1,
                        !.fifo = Append(@, [id |-> dev.captured + 1, of |-> dev.stream])]
  /\ UNCHANGED <<radio, thread, todo, past>>

(* The driver receives another chunk; a full fifo drops it.                    *)
Capture ==
  /\ Up /\ past.signal = "none"
  /\ dev.stream # "idle" /\ dev.captured < MaxChunks
  /\ LET c == [id |-> dev.captured + 1, of |-> dev.stream]
     IN dev' = [dev EXCEPT !.captured = c.id,
                           !.fifo = IF Len(@) < FifoSize THEN Append(@, c) ELSE @]
  /\ UNCHANGED <<radio, thread, todo, past>>

(* _rx_thread_running, then _rx_is_active; while that is down the thread        *)
(* sleeps and looks again.                                                    *)
Check(r) ==
  /\ Runs(r, "check")
  /\ \/ ~radio[r].running /\ Goto(r, "done")
     \/ radio[r].running /\ radio[r].active /\ Goto(r, "read")
  /\ UNCHANGED <<radio, todo, dev, past>>

(* read(), of the next chunk whatever radio it came from. *)
Read(r) ==
  /\ Runs(r, "read") /\ dev.fifo # <<>>
  /\ dev' = [dev EXCEPT !.temp = Head(dev.fifo), !.fifo = Tail(dev.fifo)]
  /\ Goto(r, "decode")
  /\ UNCHANGED <<radio, todo, past>>

(* Variants of ReadEmpty: what a read returned is not looked at; the poll waits  *)
(* for data.                                                                 *)
ReadEmptyAccepted(r) ==
  /\ Runs(r, "read") /\ dev.fifo = <<>>
  /\ Goto(r, "notify")
  /\ UNCHANGED <<radio, todo, dev, past>>

ReadEmptyWaits(r) ==
  /\ Runs(r, "read") /\ dev.fifo = <<>> /\ dev.stream # "idle"
  /\ Goto(r, "check")
  /\ UNCHANGED <<radio, todo, dev, past>>

(* Nothing to read until poll() times out, or an error: no callback. *)
ReadEmpty(r) ==
  /\ Runs(r, "read") /\ dev.fifo = <<>>
  /\ Goto(r, "check")
  /\ UNCHANGED <<radio, todo, dev, past>>

(* caribou_smi_rx_data_analyze, from the buffer that both threads read into; it *)
(* may find no samples in it.                                                 *)
Decode(r) ==
  /\ Runs(r, "decode")
  /\ \/ thread' = [thread EXCEPT ![r] = [at |-> "notify", got |-> dev.temp]]
     \/ Goto(r, "check")
  /\ UNCHANGED <<radio, todo, dev, past>>

(* The callback, by the type that is set now.  The flags are not looked at     *)
(* again.                                                                     *)
Notify(r) ==
  /\ Runs(r, "notify")
  /\ Goto(r, IF radio[r].callback THEN "callback" ELSE "check")
  /\ past' = IF ~radio[r].callback THEN past
             ELSE [past EXCEPT !.given[r] = thread[r].got.id,
                               !.late[r] = IF radio[r].active \/ @ = 2 THEN @ ELSE @ + 1]
  /\ UNCHANGED <<radio, todo, dev>>

CallbackStops(r) ==
  /\ Runs(r, "callback") /\ Goto(r, "called")
  /\ Begin(r, StopReceiving(r))
  /\ UNCHANGED <<radio, dev, past>>

(* Variant of CallbackReturns: the flags are not looked at before the next read. *)
CallbackReturnsUnchecked(r) ==
  /\ Runs(r, "callback") \/ Runs(r, "called")
  /\ Goto(r, "read")
  /\ UNCHANGED <<radio, todo, dev, past>>

CallbackReturns(r) ==
  /\ Runs(r, "callback") \/ Runs(r, "called")
  /\ Goto(r, "check")
  /\ UNCHANGED <<radio, todo, dev, past>>

Loop(r) ==
  Check(r) \/ Read(r) \/ ReadEmpty(r) \/ Decode(r) \/ Notify(r) \/ CallbackReturns(r)

Next ==
  \/ Call \/ Capture
  \/ \E p \in Processes :
       \/ Signal(p) \/ WriteFlag(p) \/ SetActive(p) \/ Activate(p)
       \/ Join(p) \/ CloseDriver(p) \/ Exit(p)
  \/ \E r \in Radios :
       \/ Check(r) \/ Read(r) \/ ReadEmpty(r) \/ Decode(r) \/ Notify(r)
       \/ CallbackStops(r) \/ CallbackReturns(r)

Spec == Init /\ [][Next]_vars

(* Threads are scheduled, read() and poll() return, and callbacks do.           *)
FairSpec ==
  Spec /\ \A p \in Processes : WF_vars(CallStep(p) \/ (p # App /\ Loop(p)))

-----------------------------------------------------------------------------
(* A thread has ended before the members it reads are freed and before the      *)
(* driver is released, and nothing is called of a freed radio.  The exception   *)
(* is a signal that arrives in the thread of a radio: it deletes the radios      *)
(* under the feet of the application (CaribouLiteCpp.cpp:113, 192-208).         *)
NoUseAfterFree ==
  /\ \A r \in Radios : radio[r].freed \/ dev.closed => thread[r].at = "done"
  /\ \A p \in Processes : todo[p] # <<>> /\ Up =>
       LET o == Head(todo[p]) IN
       o.op \notin {"exit", "close", "locked"} /\ radio[o.of].freed => past.signal \in Radios

(* After StopReceiving took the flag down the application is called back once   *)
(* more at most, until the radio is started again (CaribouLiteRadioCpp.cpp:16). *)
OneMoreCallback == \A r \in Radios : past.late[r] <= 1

(* A radio's callbacks are never given a chunk twice, or an older one after a   *)
(* newer, though the other thread may overwrite the buffer they share between   *)
(* a read and its decoding (caribou_smi.c:652, 664).                          *)
InOrder ==
  [][\A r \in Radios :
       thread[r].at # "callback" /\ thread'[r].at = "callback" =>
         thread[r].got.id > past.given[r]]_vars

(* An active radio's callback is given samples of the other radio only if they   *)
(* were captured before it was started: what rx_fifo still held, or a chunk on   *)
(* its way (smi_stream_dev.c:745, CaribouLiteRadioCpp.cpp:535-540).            *)
ForeignIsOld ==
  \A r \in Radios :
    Up /\ thread[r].at = "notify" /\ radio[r].callback /\ radio[r].active /\ thread[r].got.of # r
      => thread[r].got.id <= past.mark[r]

AtRest == \A p \in Processes : todo[p] = <<>>

(* Between calls samples are captured only for a radio whose thread reads them,  *)
(* however a stop of its callback falls into a start of the application.        *)
StreamHasReader == Up /\ AtRest /\ dev.stream \in Radios => radio[dev.stream].active

(* The destructor ends, whatever the threads were doing, unless a signal came   *)
(* inside a transfer: a stopped stream cannot hold a thread in a read, and a     *)
(* thread that waits for itself is aborted.                                   *)
ReleaseEnds ==
  Releasing ~> ~Up \/ \E p \in Processes : todo[p] # <<>> /\ Head(todo[p]).op = "locked"
=============================================================================
