---------------------------- MODULE RxThreadProofs ----------------------------
(***************************************************************************)
(* Proofs about RxThread, for every size of the fifo and any number of chunks. *)
(* The steps that are left of a call are reasoned about by what the rest of     *)
(* any call of the API has in common, whoever is in it and however far: see     *)
(* WellFormed.                                                               *)
(***************************************************************************)
EXTENDS RxThread, SequenceTheorems, TLAPS

Steps == [op : Operations, of : Radios]

(* The steps left of a call, as a set. *)
Left(p) == {todo[p][i] : i \in 1..Len(todo[p])}

(* Steps after which nothing of a radio is used. *)
Final == {"exit", "close", "locked"}

(* The rest of a call: a flag that is taken down is followed by the stop of the  *)
(* stream, a stream that is started by the flag, with which the call ends, and a  *)
(* thread that is joined by the exit and by nothing that uses its radio.         *)
WellFormed(t) ==
  \A i \in 1..Len(t) :
    /\ t[i].op = "inactive" => i < Len(t) /\ t[i + 1].op = "off"
    /\ t[i].op = "on" => i < Len(t) /\ t[i + 1] = Op("active", t[i].of)
    /\ t[i].op = "active" => i = Len(t)
    /\ t[i].op = "join" => /\ \E j \in (i + 1)..Len(t) : t[j].op = "exit"
                           /\ \A j \in (i + 1)..Len(t) : t[j].of = t[i].of => t[j].op \in Final

(* Before a radio is started the other one is stopped, and its flag first; both  *)
(* threads are joined before the driver is released.                           *)
Guarded(t) ==
  \A i \in 1..Len(t) :
    /\ t[i].op = "active" =>
         /\ \E j \in 1..(i - 1) : t[j] = Op("inactive", Other(t[i].of))
         /\ \E j \in 1..(i - 1) : t[j].op = "off"
    /\ t[i].op = "close" => \A r \in Radios : \E j \in 1..(i - 1) : t[j] = Op("join", r)

(* The inductive invariant, by what its parts are about.  The calls: radios'    *)
(* threads only ever stop things.                                             *)
CallsFormed ==
  /\ \A p \in Processes : WellFormed(todo[p])
  /\ \A r \in Radios : \A o \in Left(r) : o.op \notin {"callback", "active", "on", "on_tx"}

(* The stream: it is never that of one radio while the other is active, and     *)
(* whoever is about to start a radio has stopped the other one, or will first.   *)
StopsFirst(t) ==
  \A i \in 1..Len(t) :
    t[i].op = "active" =>
      /\ radio[Other(t[i].of)].active => \E j \in 1..(i - 1) : t[j] = Op("inactive", Other(t[i].of))
      /\ dev.stream = Other(t[i].of) => \E j \in 1..(i - 1) : t[j].op = "off"

OneStream ==
  /\ \A r \in Radios : dev.stream = r => ~radio[Other(r)].active
  /\ StopsFirst(todo[App])

(* A stream without a reader is one that is being started or stopped. *)
Stopping == \E p \in Processes : \E o \in Left(p) : o.op \in {"off"} \cup Final

ReaderOrBusy ==
  Up => \A r \in Radios :
          dev.stream = r => radio[r].active \/ Op("active", r) \in Left(App) \/ Stopping

(* The threads: joined before the driver is released, and, without a signal in   *)
(* one of them, before anything of their radio is gone.                        *)
Joined ==
  /\ dev.closed => \A r \in Radios : thread[r].at = "done"
  /\ Up => \A p \in Processes : \A i \in 1..Len(todo[p]) :
       todo[p][i].op = "close" =>
         \A r \in Radios : \/ thread[r].at = "done"
                           \/ \E j \in 1..(i - 1) : todo[p][j] = Op("join", r)

Freed ==
  /\ \A r \in Radios : radio[r].freed => thread[r].at = "done"
  /\ Up /\ past.signal \notin Radios =>
       /\ \A p \in Processes : \A o \in Left(p) : o.op \notin Final => ~radio[o.of].freed
       /\ \A r \in Radios : radio[r].freed => \E o \in Left(App) : o.op = "exit"
       /\ \A r \in Radios : /\ todo[r] # <<>> => thread[r].at = "called"
                            /\ \A o \in Left(r) : o.of = r /\ o.op \in {"inactive", "off"}

(* The callbacks: once more after the flag is down is when the flag is not up    *)
(* again and the thread has not gone past its check.                            *)
LateOnce ==
  \A r \in Radios :
    past.late[r] # 0 => /\ past.late[r] = 1 /\ ~radio[r].active
                        /\ thread[r].at \in {"callback", "called", "check", "done"}

(* The chunks are in the order of their numbers on the whole way. *)
ChunksOrdered ==
  /\ \A i, j \in 1..Len(dev.fifo) : i < j => dev.fifo[i].id < dev.fifo[j].id
  /\ \A i \in 1..Len(dev.fifo) : dev.temp.id < dev.fifo[i].id /\ dev.fifo[i].id <= dev.captured
  /\ dev.temp.id <= dev.captured
  /\ \A r \in Radios :
       /\ past.given[r] <= dev.temp.id
       /\ thread[r].at = "decode" => past.given[r] < dev.temp.id
       /\ thread[r].at = "notify" => /\ past.given[r] < thread[r].got.id
                                     /\ thread[r].got.id <= dev.temp.id

(* An active radio's chunks are its own, but those from before. *)
Own(r, c) == c.of # r => c.id <= past.mark[r]

OwnOrOld ==
  \A r \in Radios : radio[r].active =>
    /\ \A i \in 1..Len(dev.fifo) : Own(r, dev.fifo[i])
    /\ Own(r, dev.temp)
    /\ thread[r].at = "notify" => Own(r, thread[r].got)

IInv ==
  /\ TypeOK
  /\ CallsFormed /\ OneStream /\ ReaderOrBusy /\ Joined /\ Freed
  /\ LateOnce /\ ChunksOrdered /\ OwnOrOld

-----------------------------------------------------------------------------
(* The calls. *)

(* The steps of release_resources, one by one. *)
LEMMA ReleaseShape ==
  LET t == ReleaseResources IN
  /\ t \in Seq(Steps) /\ Len(t) = 10
  /\ t[1] = Op("inactive", "s1g") /\ t[2] = Op("off", "s1g")
  /\ t[3] = Op("end", "s1g") /\ t[4] = Op("join", "s1g")
  /\ t[5] = Op("inactive", "hif") /\ t[6] = Op("off", "hif")
  /\ t[7] = Op("end", "hif") /\ t[8] = Op("join", "hif")
  /\ t[9] = Op("close", "s1g") /\ t[10] = Op("exit", "s1g")
BY DEF ReleaseResources, Delete, StopReceiving, Steps, Op, Operations, Radios

(* The steps of StartReceiving, one by one. *)
LEMMA StartShape ==
  ASSUME NEW r \in Radios
  PROVE  LET t == StartReceiving(r) IN
         /\ t \in Seq(Steps) /\ Len(t) = 5
         /\ t[1] = Op("callback", r) /\ t[2] = Op("inactive", Other(r))
         /\ t[3] = Op("off", Other(r)) /\ t[4] = Op("on", r) /\ t[5] = Op("active", r)
BY DEF StartReceiving, StopReceiving, Steps, Op, Operations, Radios, Other

(* The steps of StopReceiving, StartTransmitting and StopTransmitting. *)
LEMMA OtherCallShapes ==
  ASSUME NEW r \in Radios
  PROVE  /\ StopReceiving(r) \in Seq(Steps) /\ Len(StopReceiving(r)) = 2
         /\ StopReceiving(r)[1] = Op("inactive", r) /\ StopReceiving(r)[2] = Op("off", r)
         /\ StartTransmitting(r) \in Seq(Steps) /\ Len(StartTransmitting(r)) = 3
         /\ StartTransmitting(r)[1] = Op("inactive", r) /\ StartTransmitting(r)[2] = Op("off", r)
         /\ StartTransmitting(r)[3] = Op("on_tx", r)
         /\ StopTransmitting(r) \in Seq(Steps) /\ Len(StopTransmitting(r)) = 1
         /\ StopTransmitting(r)[1] = Op("off", r)
BY DEF StopReceiving, StartTransmitting, StopTransmitting, Steps, Op, Operations, Radios

(* The call that a signal leads to, when the mutex of the SPI is held. *)
LockedRelease == <<Op("locked", "s1g")>> \o ReleaseResources
ExitOnly == <<Op("exit", "s1g")>>

(* The steps of the release that the signal handler runs. *)
LEMMA LockedShape ==
  /\ LET t == LockedRelease IN
     /\ t \in Seq(Steps) /\ Len(t) = 11
     /\ t[1] = Op("locked", "s1g")
     /\ t[2] = Op("inactive", "s1g") /\ t[3] = Op("off", "s1g")
     /\ t[4] = Op("end", "s1g") /\ t[5] = Op("join", "s1g")
     /\ t[6] = Op("inactive", "hif") /\ t[7] = Op("off", "hif")
     /\ t[8] = Op("end", "hif") /\ t[9] = Op("join", "hif")
     /\ t[10] = Op("close", "s1g") /\ t[11] = Op("exit", "s1g")
  /\ ExitOnly \in Seq(Steps) /\ Len(ExitOnly) = 1 /\ ExitOnly[1] = Op("exit", "s1g")
BY DEF LockedRelease, ExitOnly, ReleaseResources, Delete, StopReceiving, Steps, Op, Operations, Radios

(* The calls of the API that the application makes. *)
ApiCalls(r) == {StartReceiving(r), StopReceiving(r), StartTransmitting(r), StopTransmitting(r),
                ReleaseResources}

(* Every call of the API is a sequence of steps in an order the invariants
   rest on. *)
LEMMA CallsWellFormed ==
  /\ \A r \in Radios : \A t \in ApiCalls(r) : t \in Seq(Steps) /\ WellFormed(t) /\ Guarded(t)
  /\ \A t \in {LockedRelease, ExitOnly} : t \in Seq(Steps) /\ WellFormed(t) /\ Guarded(t)
<1> USE DEF WellFormed, Guarded, Op, Final, Radios, Other
<1>1. ASSUME NEW r \in Radios
      PROVE  LET t == StartReceiving(r) IN t \in Seq(Steps) /\ WellFormed(t) /\ Guarded(t)
  <2>1. PICK t : t = StartReceiving(r)
    OBVIOUS
  <2>2. /\ t \in Seq(Steps) /\ Len(t) = 5
        /\ t[1] = Op("callback", r) /\ t[2] = Op("inactive", Other(r))
        /\ t[3] = Op("off", Other(r)) /\ t[4] = Op("on", r) /\ t[5] = Op("active", r)
    BY <2>1, StartShape
  <2>3. \A i \in 1..Len(t) : i \in {1, 2, 3, 4, 5}
    BY <2>2
  <2>4. WellFormed(t)
    BY <2>2, <2>3
  <2>5. Guarded(t)
    BY <2>2, <2>3
  <2> QED
    BY <2>1, <2>2, <2>4, <2>5
<1>2. ASSUME NEW r \in Radios
      PROVE  LET t == StopReceiving(r) IN t \in Seq(Steps) /\ WellFormed(t) /\ Guarded(t)
  <2>1. PICK t : t = StopReceiving(r)
    OBVIOUS
  <2>2. t \in Seq(Steps) /\ Len(t) = 2 /\ t[1] = Op("inactive", r) /\ t[2] = Op("off", r)
    BY <2>1, OtherCallShapes
  <2>3. \A i \in 1..Len(t) : i \in {1, 2}
    BY <2>2
  <2> QED
    BY <2>1, <2>2, <2>3
<1>3. ASSUME NEW r \in Radios
      PROVE  LET t == StartTransmitting(r) IN t \in Seq(Steps) /\ WellFormed(t) /\ Guarded(t)
  <2>1. PICK t : t = StartTransmitting(r)
    OBVIOUS
  <2>2. /\ t \in Seq(Steps) /\ Len(t) = 3
        /\ t[1] = Op("inactive", r) /\ t[2] = Op("off", r) /\ t[3] = Op("on_tx", r)
    BY <2>1, OtherCallShapes
  <2>3. \A i \in 1..Len(t) : i \in {1, 2, 3}
    BY <2>2
  <2> QED
    BY <2>1, <2>2, <2>3
<1>4. ASSUME NEW r \in Radios
      PROVE  LET t == StopTransmitting(r) IN t \in Seq(Steps) /\ WellFormed(t) /\ Guarded(t)
  <2>1. PICK t : t = StopTransmitting(r)
    OBVIOUS
  <2>2. t \in Seq(Steps) /\ Len(t) = 1 /\ t[1] = Op("off", r)
    BY <2>1, OtherCallShapes
  <2> QED
    BY <2>1, <2>2
<1>5. /\ WellFormed(ReleaseResources) /\ Guarded(ReleaseResources)
      /\ ReleaseResources \in Seq(Steps)
  BY ReleaseShape
<1>6. /\ WellFormed(LockedRelease) /\ Guarded(LockedRelease)
      /\ LockedRelease \in Seq(Steps)
  BY ReleaseShape, LockedShape
<1>7. ExitOnly \in Seq(Steps) /\ WellFormed(ExitOnly) /\ Guarded(ExitOnly)
  BY LockedShape
<1> HIDE DEF WellFormed, Guarded
<1> QED
  BY <1>1, <1>2, <1>3, <1>4, <1>5, <1>6, <1>7 DEF ApiCalls

(* A step further the rest is a shorter one. *)
LEMMA TailShape ==
  ASSUME NEW t \in Seq(Steps), t # <<>>
  PROVE  /\ Len(t) \in Nat \ {0} /\ Head(t) = t[1] /\ t[1] \in Steps
         /\ Tail(t) \in Seq(Steps) /\ Len(Tail(t)) = Len(t) - 1
         /\ \A i \in 1..(Len(t) - 1) : Tail(t)[i] = t[i + 1]
         /\ \A i \in 2..Len(t) : i - 1 \in 1..Len(Tail(t)) /\ Tail(t)[i - 1] = t[i]
<1>1. Len(t) \in Nat \ {0}
  BY EmptySeq
<1>2. Tail(t) \in Seq(Steps) /\ Len(Tail(t)) = Len(t) - 1
  BY HeadTailProperties
<1>3. \A i \in 1..(Len(t) - 1) : Tail(t)[i] = t[i + 1]
  BY <1>2, HeadTailProperties
<1>4. \A i \in 2..Len(t) : i - 1 \in 1..Len(Tail(t)) /\ Tail(t)[i - 1] = t[i]
  BY <1>1, <1>2, <1>3
<1> QED
  BY <1>1, <1>2, <1>3, <1>4

(* What is left of such a call after a step is still in that order. *)
LEMMA TailWellFormed ==
  ASSUME NEW t \in Seq(Steps), t # <<>>, WellFormed(t)
  PROVE  WellFormed(Tail(t))
<1> DEFINE u == Tail(t)
<1>1. /\ Len(t) \in Nat \ {0} /\ Len(u) = Len(t) - 1
      /\ \A i \in 1..(Len(t) - 1) : u[i] = t[i + 1]
      /\ \A i \in 2..Len(t) : i - 1 \in 1..Len(u) /\ u[i - 1] = t[i]
  BY TailShape
<1> HIDE DEF u
<1> SUFFICES ASSUME NEW i \in 1..Len(u)
             PROVE  /\ u[i].op = "inactive" => i < Len(u) /\ u[i + 1].op = "off"
                    /\ u[i].op = "on" => i < Len(u) /\ u[i + 1] = Op("active", u[i].of)
                    /\ u[i].op = "active" => i = Len(u)
                    /\ u[i].op = "join" =>
                         /\ \E j \in (i + 1)..Len(u) : u[j].op = "exit"
                         /\ \A j \in (i + 1)..Len(u) : u[j].of = u[i].of => u[j].op \in Final
  BY DEF WellFormed, u
<1>2. i + 1 \in 1..Len(t) /\ u[i] = t[i + 1]
  BY <1>1
<1>3. ASSUME u[i].op \in {"inactive", "on"}
      PROVE  i < Len(u) /\ u[i + 1] = t[i + 2]
  <2>1. i + 1 < Len(t)
    BY <1>2, <1>3 DEF WellFormed
  <2> QED
    BY <2>1, <1>1
<1>4. ASSUME u[i].op = "join"
      PROVE  /\ \E j \in (i + 1)..Len(u) : u[j].op = "exit"
             /\ \A j \in (i + 1)..Len(u) : u[j].of = u[i].of => u[j].op \in Final
  <2>1. PICK k \in (i + 2)..Len(t) : t[k].op = "exit"
    BY <1>2, <1>4 DEF WellFormed
  <2>2. k - 1 \in (i + 1)..Len(u) /\ u[k - 1] = t[k]
    BY <1>1
  <2>3. ASSUME NEW j \in (i + 1)..Len(u), u[j].of = u[i].of PROVE u[j].op \in Final
    <3>1. j + 1 \in (i + 2)..Len(t) /\ u[j] = t[j + 1]
      BY <1>1
    <3> QED
      BY <1>2, <1>4, <2>3, <3>1 DEF WellFormed
  <2> QED
    BY <2>1, <2>2, <2>3
<1>5. /\ u[i].op = "inactive" => t[i + 2].op = "off"
      /\ u[i].op = "on" => t[i + 2] = Op("active", u[i].of)
      /\ u[i].op = "active" => i = Len(u)
  BY <1>1, <1>2 DEF WellFormed
<1> QED
  BY <1>3, <1>4, <1>5

-----------------------------------------------------------------------------
(* Types. *)

(* The type invariant without the functions' domains spelled out. *)
LEMMA Typing ==
  TypeOK <=> /\ radio \in [Radios -> RadioStates]
             /\ thread \in [Radios -> ThreadStates]
             /\ todo \in [Processes -> Seq(Steps)]
             /\ dev \in Devices /\ Len(dev.fifo) <= FifoSize
             /\ past \in Pasts
BY DEF TypeOK, Steps

(* What a step may make of the calls: one begins, one goes on, or none does. *)
LEMMA TodoStep ==
  ASSUME TypeOK, [Next]_vars
  PROVE  \/ todo' = todo
         \/ \E p \in Processes : todo[p] # <<>> /\ todo' = [todo EXCEPT ![p] = Tail(@)]
         \/ /\ todo[App] = <<>>
            /\ \E r \in Radios : \E t \in ApiCalls(r) : todo' = [todo EXCEPT ![App] = t]
         \/ \E r \in Radios : todo[r] = <<>> /\ todo' = [todo EXCEPT ![r] = StopReceiving(r)]
         \/ \E p \in Processes : \E t \in {ReleaseResources, LockedRelease, ExitOnly} :
              todo' = [todo EXCEPT ![p] = t]
<1>1. CASE UNCHANGED vars
  BY <1>1 DEF vars
<1>2. CASE Call
  BY <1>2 DEF Call, Begin, ApiCalls
<1>3. ASSUME NEW p \in Processes, Signal(p)
      PROVE  \E t \in {ReleaseResources, LockedRelease, ExitOnly} : todo' = [todo EXCEPT ![p] = t]
  BY <1>3 DEF Signal, Begin, LockedRelease, ExitOnly
<1>4. ASSUME NEW p \in Processes,
             WriteFlag(p) \/ SetActive(p) \/ Activate(p) \/ Join(p) \/ CloseDriver(p) \/ Exit(p)
      PROVE  todo[p] # <<>> /\ todo' = [todo EXCEPT ![p] = Tail(@)]
  BY <1>4 DEF WriteFlag, SetActive, Activate, Join, CloseDriver, Exit, Is, Proceed
<1>5. ASSUME NEW r \in Radios, CallbackStops(r)
      PROVE  todo[r] = <<>> /\ todo' = [todo EXCEPT ![r] = StopReceiving(r)]
  BY <1>5 DEF CallbackStops, Runs, Begin
<1>6. CASE Capture \/ \E r \in Radios : Loop(r)
  BY <1>6 DEF Capture, Loop, Check, Read, ReadEmpty, Decode, Notify, CallbackReturns
<1> QED
  BY <1>1, <1>2, <1>3, <1>4, <1>5, <1>6 DEF Next, Loop

(* Every step leaves sequences of steps to do. *)
LEMMA TodoTyped ==
  ASSUME TypeOK, [Next]_vars
  PROVE  todo' \in [Processes -> Seq(Steps)]
<1>1. todo \in [Processes -> Seq(Steps)]
  BY Typing
<1>2. ASSUME NEW p \in Processes, todo[p] # <<>> PROVE Tail(todo[p]) \in Seq(Steps)
  BY <1>1, <1>2, TailShape
<1>3. App \in Processes /\ Radios \subseteq Processes
  BY DEF Processes
<1>4. \A r \in Radios : StopReceiving(r) \in ApiCalls(r) /\ ReleaseResources \in ApiCalls(r)
  BY DEF ApiCalls
<1>5. "s1g" \in Radios
  BY DEF Radios
<1> QED
  BY <1>1, <1>2, <1>3, <1>4, <1>5, TodoStep, CallsWellFormed

(* Members that are written keep the types of the others. *)
LEMMA DevUpdates ==
  ASSUME NEW x \in Devices
  PROVE  /\ \A s \in Radios \cup {"idle"} : [x EXCEPT !.stream = s] \in Devices
         /\ [x EXCEPT !.closed = TRUE, !.stream = "idle"] \in Devices
         /\ \A f \in Seq(Chunks) : /\ \A n \in 0..MaxChunks : [x EXCEPT !.captured = n, !.fifo = f] \in Devices
                                 /\ \A c \in Chunks : [x EXCEPT !.temp = c, !.fifo = f] \in Devices
BY DEF Devices

(* The initial states are of their types. *)
LEMMA TypeInit == Init => TypeOK
<1> SUFFICES ASSUME Init PROVE TypeOK
  OBVIOUS
<1>1. thread \in [Radios -> ThreadStates]
  BY RxThreadAssumption DEF Init, ThreadStates, NoChunk, Chunks, Radios
<1>2. todo \in [Processes -> Seq(Steps)]
  BY DEF Init
<1>3. dev \in Devices /\ Len(dev.fifo) <= FifoSize
  BY RxThreadAssumption DEF Init, Devices, NoChunk, Chunks, Radios
<1>4. past \in Pasts
  BY RxThreadAssumption DEF Init, Pasts
<1> QED
  BY <1>1, <1>2, <1>3, <1>4, Typing DEF Init

(* Every step keeps the types. *)
LEMMA TypeStep == TypeOK /\ [Next]_vars => TypeOK'
<1> SUFFICES ASSUME TypeOK, [Next]_vars PROVE TypeOK'
  OBVIOUS
<1>1. todo' \in [Processes -> Seq(Steps)]
  BY TodoTyped
<1>2. /\ radio \in [Radios -> RadioStates]
      /\ thread \in [Radios -> ThreadStates]
      /\ todo \in [Processes -> Seq(Steps)]
      /\ dev \in Devices /\ Len(dev.fifo) <= FifoSize
      /\ past \in Pasts
  BY Typing
<1>3. NoChunk \in Chunks /\ FifoSize \in Nat /\ MaxChunks \in Nat
  BY RxThreadAssumption DEF NoChunk, Chunks, Radios
<1>4. ASSUME NEW p \in Processes, todo[p] # <<>> PROVE Rad(p) \in Radios
  BY <1>2, <1>4, TailShape DEF Rad, Steps
<1>5. radio' \in [Radios -> RadioStates]
  <2>1. ASSUME NEW p \in Processes, WriteFlag(p) \/ SetActive(p) \/ Join(p)
        PROVE  radio' \in [Radios -> RadioStates]
    <3>1. PICK q \in Radios : q = Rad(p)
      BY <1>4, <2>1 DEF WriteFlag, SetActive, Join, Is
    <3>2. CASE WriteFlag(p)
      <4>1. \/ radio' = [radio EXCEPT ![q].callback = TRUE]
            \/ radio' = [radio EXCEPT ![q].active = FALSE]
            \/ radio' = [radio EXCEPT ![q].running = FALSE]
        BY <3>1, <3>2 DEF WriteFlag
      <4> QED
        BY <1>2, <4>1, ZenonT(60) DEF RadioStates
    <3>3. CASE SetActive(p) \/ Join(p)
      <4>1. \/ radio' = [radio EXCEPT ![q].active = TRUE]
            \/ radio' = [radio EXCEPT ![q].freed = TRUE]
            \/ radio' = radio
        BY <3>1, <3>3 DEF SetActive, Join
      <4> QED
        BY <1>2, <4>1, ZenonT(60) DEF RadioStates
    <3> QED
      BY <2>1, <3>2, <3>3
  <2> QED
    BY <1>2, <2>1 DEF Next, vars, Call, Capture, Signal, Activate, CloseDriver, Exit, Check, Read,
       ReadEmpty, Decode, Notify, CallbackStops, CallbackReturns
<1>6. thread' \in [Radios -> ThreadStates]
  <2>1. ASSUME NEW r \in Radios,
               \/ Check(r) \/ Read(r) \/ ReadEmpty(r) \/ Decode(r) \/ Notify(r)
               \/ CallbackStops(r) \/ CallbackReturns(r)
        PROVE  thread' \in [Radios -> ThreadStates]
    <3>1. \/ \E at \in {"check", "read", "decode", "notify", "callback", "called", "done"} : Goto(r, at)
          \/ thread' = [thread EXCEPT ![r] = [at |-> "notify", got |-> dev.temp]]
      BY <2>1 DEF Check, Read, ReadEmpty, Decode, Notify, CallbackStops, CallbackReturns
    <3>2. ASSUME NEW at \in {"check", "read", "decode", "notify", "callback", "called", "done"}, Goto(r, at)
          PROVE  thread' \in [Radios -> ThreadStates]
      <4>1. PICK c \in Chunks : thread' = [thread EXCEPT ![r].at = at, ![r].got = c]
        BY <1>2, <1>3, <3>2 DEF Goto, ThreadStates
      <4> QED
        BY <1>2, <4>1 DEF ThreadStates
    <3>3. dev.temp \in Chunks
      BY <1>2 DEF Devices
    <3> QED
      BY <1>2, <3>1, <3>2, <3>3 DEF ThreadStates
  <2> QED
    BY <1>2, <2>1 DEF Next, vars, Call, Capture, Signal, WriteFlag, SetActive, Activate, Join,
       CloseDriver, Exit
<1>7. dev' \in Devices /\ Len(dev'.fifo) <= FifoSize
  <2>1. CASE Capture
    <3> DEFINE c == [id |-> dev.captured + 1, of |-> dev.stream]
    <3>1. c \in Chunks
      BY <1>2, <1>3, <2>1 DEF Capture, Chunks, Devices
    <3>2. /\ Append(dev.fifo, c) \in Seq(Chunks)
          /\ Len(Append(dev.fifo, c)) = Len(dev.fifo) + 1
      BY <1>2, <3>1, AppendProperties DEF Devices
    <3>3. dev' = [dev EXCEPT !.captured = c.id,
                             !.fifo = IF Len(@) < FifoSize THEN Append(@, c) ELSE @]
      BY <2>1 DEF Capture
    <3>4. Len(dev.fifo) \in Nat
      BY <1>2, LenProperties DEF Devices
    <3> DEFINE f == IF Len(dev.fifo) < FifoSize THEN Append(dev.fifo, c) ELSE dev.fifo
               n == dev.captured + 1
    <3>5. f \in Seq(Chunks) /\ Len(f) <= FifoSize
      BY <1>2, <1>3, <3>2, <3>4 DEF Devices
    <3>6. n \in 0..MaxChunks
      BY <1>2, <1>3, <2>1 DEF Devices, Capture
    <3>7. dev' = [dev EXCEPT !.captured = n, !.fifo = f]
      BY <3>3
    <3> HIDE DEF f, n
    <3>8. dev' \in Devices
      BY <1>2, <3>5, <3>6, <3>7, DevUpdates
    <3>9. dev'.fifo = f
      BY <1>2, <3>7 DEF Devices
    <3> QED
      BY <3>5, <3>8, <3>9
  <2>2. ASSUME NEW r \in Radios, Read(r) PROVE dev' \in Devices /\ Len(dev'.fifo) <= FifoSize
    <3>1. dev.fifo \in Seq(Chunks) /\ dev.fifo # <<>>
      BY <1>2, <2>2 DEF Read, Devices
    <3>2. /\ Head(dev.fifo) \in Chunks /\ Tail(dev.fifo) \in Seq(Chunks)
          /\ Len(Tail(dev.fifo)) = Len(dev.fifo) - 1 /\ Len(dev.fifo) \in Nat
      BY <3>1, HeadTailProperties, LenProperties
    <3>3. dev' = [dev EXCEPT !.temp = Head(dev.fifo), !.fifo = Tail(dev.fifo)]
      BY <2>2 DEF Read
    <3>4. dev' \in Devices
      BY <1>2, <3>2, <3>3, DevUpdates
    <3>5. dev'.fifo = Tail(dev.fifo)
      BY <1>2, <3>3 DEF Devices
    <3> QED
      BY <1>2, <1>3, <3>2, <3>4, <3>5
  <2>3. ASSUME NEW p \in Processes, Activate(p) \/ CloseDriver(p)
        PROVE  dev' \in Devices /\ Len(dev'.fifo) <= FifoSize
    <3>1. \/ \E x \in Radios \cup {"idle"} : dev' = [dev EXCEPT !.stream = x]
          \/ dev' = [dev EXCEPT !.closed = TRUE, !.stream = "idle"]
      BY <1>2, <1>4, <2>3 DEF Activate, CloseDriver, Is, Devices
    <3> QED
      BY <1>2, <3>1 DEF Devices
  <2> QED
    BY <1>2, <2>1, <2>2, <2>3 DEF Next, vars, Call, Signal, WriteFlag, SetActive, Join, Exit, Check,
       ReadEmpty, Decode, Notify, CallbackStops, CallbackReturns
<1>8. past' \in Pasts
  <2>1. ASSUME NEW p \in Processes, Signal(p) PROVE past' \in Pasts
    BY <1>2, <2>1 DEF Signal, Pasts
  <2>2. ASSUME NEW p \in Processes, WriteFlag(p) \/ SetActive(p) \/ Join(p) \/ Exit(p)
        PROVE  past' \in Pasts
    <3>1. PICK q \in Radios : q = Rad(p)
      BY <1>4, <2>2 DEF WriteFlag, SetActive, Join, Exit, Is
    <3>2. \/ \E n \in 0..MaxChunks, k \in 0..2 : past' = [past EXCEPT !.late[q] = k, !.mark[q] = n]
          \/ \E e \in {"aborted", "exited"} : past' = [past EXCEPT !.end = e]
          \/ past' = past
      <4>1. 0 \in 0..MaxChunks /\ dev.captured \in 0..MaxChunks
        BY <1>2, <1>3 DEF Devices
      <4>2. \/ \E n \in 0..MaxChunks : past' = [past EXCEPT !.late[q] = 0, !.mark[q] = n]
            \/ past' = [past EXCEPT !.end = "aborted"]
            \/ past' = [past EXCEPT !.end = "exited"]
            \/ past' = past
        BY <2>2, <3>1, <4>1 DEF WriteFlag, SetActive, Join, Exit
      <4>3. 0 \in 0..2
        OBVIOUS
      <4> QED
        BY <4>2, <4>3, Zenon
    <3>3. ASSUME NEW n \in 0..MaxChunks, NEW k \in 0..2,
                 past' = [past EXCEPT !.late[q] = k, !.mark[q] = n]
          PROVE  past' \in Pasts
      BY <1>2, <3>3 DEF Pasts
    <3>4. CASE \E e \in {"aborted", "exited"} : past' = [past EXCEPT !.end = e]
      BY <1>2, <3>4 DEF Pasts
    <3> QED
      BY <1>2, <3>2, <3>3, <3>4
  <2>3. ASSUME NEW r \in Radios, Notify(r) PROVE past' \in Pasts
    <3>1. \/ past' = past
          \/ \E n \in 0..MaxChunks, k \in 0..2 : past' = [past EXCEPT !.given[r] = n, !.late[r] = k]
      <4>1. thread[r].got.id \in 0..MaxChunks /\ past.late[r] \in 0..2
        BY <1>2 DEF ThreadStates, Chunks, Pasts
      <4> DEFINE k == IF radio[r].active \/ past.late[r] = 2 THEN past.late[r] ELSE past.late[r] + 1
      <4>2. k \in 0..2
        BY <4>1
      <4>3. \/ past' = past
            \/ past' = [past EXCEPT !.given[r] = thread[r].got.id, !.late[r] = k]
        BY <1>2, <2>3 DEF Notify, Pasts
      <4> QED
        BY <4>1, <4>2, <4>3
    <3>2. ASSUME NEW n \in 0..MaxChunks, NEW k \in 0..2,
                 past' = [past EXCEPT !.given[r] = n, !.late[r] = k]
          PROVE  past' \in Pasts
      BY <1>2, <3>2 DEF Pasts
    <3> QED
      BY <1>2, <3>1, <3>2
  <2> QED
    BY <1>2, <2>1, <2>2, <2>3 DEF Next, vars, Call, Capture, Activate, CloseDriver, Check, Read,
       ReadEmpty, Decode, CallbackStops, CallbackReturns
<1> QED
  BY <1>1, <1>5, <1>6, <1>7, <1>8, Typing DEF TypeOK, Steps

(* Every variable stays within its type, and the fifo within its size.          *)
THEOREM TypeCorrect == Spec => []TypeOK
BY TypeInit, TypeStep, PTL DEF Spec

-----------------------------------------------------------------------------
(* The calls. *)

Releases == {ReleaseResources, LockedRelease, ExitOnly}

(* What a radio's thread does in a call. *)
LEMMA StopSteps ==
  ASSUME NEW r \in Radios
  PROVE  LET t == StopReceiving(r) IN
         \A i \in 1..Len(t) : t[i].of = r /\ t[i].op \in {"inactive", "off"}
<1>1. PICK t : t = StopReceiving(r)
  OBVIOUS
<1>2. t \in Seq(Steps) /\ Len(t) = 2 /\ t[1] = Op("inactive", r) /\ t[2] = Op("off", r)
  BY <1>1, OtherCallShapes
<1>3. \A i \in 1..Len(t) : i \in {1, 2}
  BY <1>2
<1> QED
  BY <1>1, <1>2, <1>3 DEF Op

(* A release starts nothing and ends the process. *)
LEMMA ReleaseSteps ==
  ASSUME NEW t \in Releases
  PROVE  /\ t \in Seq(Steps)
         /\ \A i \in 1..Len(t) : t[i].op \notin {"callback", "active", "on", "on_tx"}
         /\ \E i \in 1..Len(t) : t[i].op = "exit"
<1>1. CASE t = ReleaseResources
  BY <1>1, ReleaseShape DEF Op
<1>2. CASE t = LockedRelease
  BY <1>2, LockedShape DEF Op
<1>3. CASE t = ExitOnly
  <2>1. t \in Seq(Steps) /\ Len(t) = 1 /\ t[1].op = "exit"
    BY <1>3, LockedShape DEF Op
  <2>2. \A i \in 1..Len(t) : i = 1
    BY <2>1
  <2> QED
    BY <2>1, <2>2
<1> QED
  BY <1>1, <1>2, <1>3 DEF Releases

(* The steps that are left after one of the call was taken. *)
LEMMA LeftOfTail ==
  ASSUME TypeOK, NEW p \in Processes, todo[p] # <<>>, todo' = [todo EXCEPT ![p] = Tail(@)]
  PROVE  /\ \A q \in Processes : q # p => todo'[q] = todo[q] /\ Left(q)' = Left(q)
         /\ todo'[p] = Tail(todo[p])
         /\ Left(p) = Left(p)' \cup {Head(todo[p])}
<1>1. /\ todo \in [Processes -> Seq(Steps)]
      /\ todo'[p] = Tail(todo[p]) /\ \A q \in Processes : q # p => todo'[q] = todo[q]
  BY Typing
<1>2. \A q \in Processes : q # p => Left(q)' = Left(q)
  BY <1>1 DEF Left
<1> DEFINE t == todo[p]
           u == todo'[p]
<1>3. /\ t \in Seq(Steps) /\ Len(t) \in Nat \ {0} /\ Head(t) = t[1] /\ Len(u) = Len(t) - 1
      /\ \A i \in 1..(Len(t) - 1) : u[i] = t[i + 1]
      /\ \A i \in 2..Len(t) : i - 1 \in 1..Len(u) /\ u[i - 1] = t[i]
  BY <1>1, TailShape
<1> HIDE DEF t, u
<1>4. \A i \in 1..Len(u) : i + 1 \in 1..Len(t) /\ u[i] = t[i + 1]
  BY <1>3
<1>5. ASSUME NEW i \in 1..Len(t) PROVE t[i] = t[1] \/ \E j \in 1..Len(u) : u[j] = t[i]
  <2>1. CASE i = 1
    BY <2>1
  <2>2. CASE i \in 2..Len(t)
    BY <2>2, <1>3
  <2> QED
    BY <1>3, <2>1, <2>2
<1>6. {t[i] : i \in 1..Len(t)} = {u[i] : i \in 1..Len(u)} \cup {t[1]}
  BY <1>3, <1>4, <1>5, SMTT(30)
<1> QED
  BY <1>1, <1>2, <1>3, <1>6 DEF Left, t, u

(* Calls stay in order through every step, also when a signal puts a release
   before the rest of one. *)
LEMMA CallsStep == TypeOK /\ CallsFormed /\ [Next]_vars => CallsFormed'
<1> SUFFICES ASSUME TypeOK, CallsFormed, [Next]_vars PROVE CallsFormed'
  OBVIOUS
<1> DEFINE Stops(p) == \A o \in Left(p) : o.op \notin {"callback", "active", "on", "on_tx"}
<1>1. /\ todo \in [Processes -> Seq(Steps)] /\ App \in Processes /\ Radios \subseteq Processes
      /\ App \notin Radios /\ \A r \in Radios : StopReceiving(r) \in ApiCalls(r)
      /\ ReleaseResources \in ApiCalls("s1g") /\ "s1g" \in Radios
  BY Typing DEF Processes, Radios, App, ApiCalls
<1>2. \A p \in Processes : WellFormed(todo'[p])
  <2>1. ASSUME NEW p \in Processes, todo[p] # <<>> PROVE WellFormed(Tail(todo[p]))
    BY <1>1, <2>1, TailWellFormed DEF CallsFormed
  <2> QED
    BY <1>1, <2>1, TodoStep, CallsWellFormed DEF CallsFormed
<1>3. \A r \in Radios : Stops(r)'
  <2>1. ASSUME NEW p \in Processes, todo[p] # <<>>, todo' = [todo EXCEPT ![p] = Tail(@)]
        PROVE  \A r \in Radios : Stops(r)'
    BY <1>1, <2>1, LeftOfTail DEF CallsFormed
  <2>2. ASSUME NEW p \in Processes, NEW t, todo' = [todo EXCEPT ![p] = t],
               p \in Radios => \A i \in 1..Len(t) : t[i].op \notin {"callback", "active", "on", "on_tx"}
        PROVE  \A r \in Radios : Stops(r)'
    BY <1>1, <2>2 DEF CallsFormed, Left
  <2>3. ASSUME NEW r \in Radios, todo' = [todo EXCEPT ![r] = StopReceiving(r)]
        PROVE  \A x \in Radios : Stops(x)'
    BY <1>1, <2>2, <2>3, StopSteps
  <2>4. ASSUME NEW p \in Processes, NEW t \in Releases, todo' = [todo EXCEPT ![p] = t]
        PROVE  \A r \in Radios : Stops(r)'
    BY <2>2, <2>4, ReleaseSteps
  <2>5. ASSUME NEW t, todo' = [todo EXCEPT ![App] = t]
        PROVE  \A r \in Radios : Stops(r)'
    BY <1>1, <2>2, <2>5
  <2>6. CASE todo' = todo
    BY <2>6 DEF CallsFormed, Left
  <2> QED
    BY <1>1, <2>1, <2>3, <2>4, <2>5, <2>6, TodoStep DEF Releases
<1> QED
  BY <1>2, <1>3 DEF CallsFormed

-----------------------------------------------------------------------------
(* The steps. *)

(* What the step of a call does, by its operation. *)
Effects(p, o) ==
  /\ thread' = thread /\ past'.signal = past.signal /\ o.op # "locked"
  /\ \A r \in Radios :
       /\ radio'[r].active => radio[r].active \/ o = Op("active", r)
       /\ radio[r].active => radio'[r].active \/ o = Op("inactive", r)
       /\ o = Op("inactive", r) => ~radio'[r].active
       /\ o = Op("active", r) => radio'[r].active
       /\ radio'[r].freed => radio[r].freed \/ (o = Op("join", r) /\ thread[r].at = "done")
       /\ o = Op("join", r) /\ Up' => thread[r].at = "done"
  /\ dev'.stream \in {dev.stream, "idle"} \/ (o.op = "on" /\ dev'.stream = o.of)
  /\ o.op \in {"off", "close"} => dev'.stream = "idle"
  /\ dev'.closed => dev.closed \/ o.op = "close"
  /\ o.op = "exit" => ~Up'

(* A step of a call takes the first step that is left and has that step's
   effect. *)
LEMMA CallEffects ==
  ASSUME TypeOK, NEW p \in Processes, CallStep(p), NEW o, o = Head(todo[p])
  PROVE  /\ Up /\ todo[p] # <<>> /\ todo' = [todo EXCEPT ![p] = Tail(@)]
         /\ o \in Steps /\ o \in Left(p) /\ o = todo[p][1] /\ Len(todo[p]) \in Nat \ {0}
         /\ Effects(p, o)
<1>1. /\ radio \in [Radios -> RadioStates] /\ todo \in [Processes -> Seq(Steps)]
      /\ dev \in Devices /\ past \in Pasts
  BY Typing
<1>2. /\ Up /\ todo[p] # <<>> /\ todo' = [todo EXCEPT ![p] = Tail(@)] /\ thread' = thread
  BY DEF CallStep, WriteFlag, SetActive, Activate, Join, CloseDriver, Exit, Is, Proceed
<1>3. o \in Steps /\ o \in Left(p) /\ o = todo[p][1] /\ Len(todo[p]) \in Nat \ {0}
  <2>1. o = todo[p][1] /\ Len(todo[p]) \in Nat \ {0} /\ todo[p][1] \in Steps
    BY <1>1, <1>2, TailShape
  <2> QED
    BY <2>1 DEF Left
<1>4. PICK q \in Radios : q = Rad(p) /\ q = o.of
  BY <1>3 DEF Rad, Steps
<1>5. \A op \in Operations, r \in Radios : o = Op(op, r) <=> o.op = op /\ q = r
  BY <1>3, <1>4 DEF Op, Steps
<1>6. \A op : Is(p, op) => o.op = op
  BY DEF Is
<1>7. CASE WriteFlag(p)
  <2>1. /\ dev' = dev /\ past'.signal = past.signal /\ o.op \in {"callback", "inactive", "end"}
        /\ past'.signal = past.signal
    BY <1>1, <1>6, <1>7 DEF WriteFlag, Pasts
  <2>2. \/ o.op = "callback" /\ radio' = [radio EXCEPT ![q].callback = TRUE]
        \/ o.op = "inactive" /\ radio' = [radio EXCEPT ![q].active = FALSE]
        \/ o.op = "end" /\ radio' = [radio EXCEPT ![q].running = FALSE]
    BY <1>4, <1>6, <1>7 DEF WriteFlag
  <2>3. \A r \in Radios :
          /\ radio'[r].active => radio[r].active
          /\ radio[r].active => radio'[r].active \/ (o.op = "inactive" /\ q = r)
          /\ o.op = "inactive" /\ q = r => ~radio'[r].active
          /\ radio'[r].freed => radio[r].freed
    BY <1>1, <2>2 DEF RadioStates
  <2> QED
    BY <1>2, <1>3, <1>5, <2>1, <2>3 DEF Effects, Operations
<1>8. CASE SetActive(p)
  <2>1. dev' = dev /\ past'.signal = past.signal /\ o.op = "active"
    BY <1>1, <1>6, <1>8 DEF SetActive, Pasts
  <2>2. radio' = [radio EXCEPT ![q].active = TRUE]
    BY <1>4, <1>8 DEF SetActive
  <2>3. \A r \in Radios :
          /\ radio'[r].active => radio[r].active \/ q = r
          /\ radio[r].active => radio'[r].active
          /\ q = r => radio'[r].active
          /\ radio'[r].freed => radio[r].freed
    BY <1>1, <2>2 DEF RadioStates
  <2> QED
    BY <1>2, <1>3, <1>5, <2>1, <2>3 DEF Effects, Operations
<1>9. CASE Activate(p)
  <2>1. /\ radio' = radio /\ past' = past /\ o.op \in {"off", "on", "on_tx"}
        /\ dev'.closed = dev.closed
        /\ dev'.stream \in {dev.stream, "idle"} \/ (o.op = "on" /\ dev'.stream = q)
        /\ o.op = "off" => dev'.stream = "idle"
    BY <1>1, <1>4, <1>6, <1>9 DEF Activate, Devices
  <2> QED
    BY <1>2, <1>3, <1>4, <1>5, <2>1 DEF Effects, Operations
<1>10. CASE Join(p)
  <2>1. dev' = dev /\ past'.signal = past.signal /\ o.op = "join"
    BY <1>1, <1>6, <1>10 DEF Join, Pasts
  <2>2. \/ ~Up' /\ radio' = radio
        \/ thread[q].at = "done" /\ radio' = [radio EXCEPT ![q].freed = TRUE]
    BY <1>1, <1>4, <1>10 DEF Join, Up, Pasts
  <2>3. /\ \A r \in Radios :
             /\ radio'[r].active <=> radio[r].active
             /\ radio'[r].freed => radio[r].freed \/ (q = r /\ thread[r].at = "done")
        /\ Up' => thread[q].at = "done"
    BY <1>1, <2>2 DEF RadioStates
  <2> QED
    BY <1>2, <1>3, <1>5, <2>1, <2>3 DEF Effects, Operations
<1>11. CASE CloseDriver(p)
  <2>1. radio' = radio /\ past' = past /\ o.op = "close" /\ dev'.stream = "idle"
    BY <1>1, <1>6, <1>11 DEF CloseDriver, Devices
  <2> QED
    BY <1>2, <1>3, <1>5, <2>1 DEF Effects, Operations
<1>12. CASE Exit(p)
  <2>1. radio' = radio /\ dev' = dev /\ o.op = "exit" /\ ~Up' /\ past'.signal = past.signal
    BY <1>1, <1>6, <1>12 DEF Exit, Up, Pasts
  <2> QED
    BY <1>2, <1>3, <1>5, <2>1 DEF Effects, Operations
<1> QED
  BY <1>2, <1>3, <1>7, <1>8, <1>9, <1>10, <1>11, <1>12 DEF CallStep

(* What begins a call, and what any other step does. *)
LEMMA Beginnings ==
  ASSUME TypeOK, [Next]_vars, ~\E p \in Processes : CallStep(p)
  PROVE  \/ /\ UNCHANGED <<radio, dev>>
            /\ \E p \in Processes : \E t \in Seq(Steps) :
                 /\ todo' = [todo EXCEPT ![p] = t]
                 /\ WellFormed(t) /\ Guarded(t)
                 /\ todo[p] = <<>> \/ \E i \in 1..Len(t) : t[i].op = "exit"
         \/ /\ UNCHANGED <<radio, todo>>
            /\ dev'.stream = dev.stream /\ dev'.closed = dev.closed
<1>1. dev \in Devices /\ App \in Processes /\ Radios \subseteq Processes /\ "s1g" \in Radios
  BY Typing DEF Processes, Radios
<1>2. CASE Call
  <2>1. PICK r \in Radios : \E t \in ApiCalls(r) : todo' = [todo EXCEPT ![App] = t]
    BY <1>2 DEF Call, Begin, ApiCalls
  <2> QED
    BY <1>1, <1>2, <2>1, CallsWellFormed DEF Call
<1>3. ASSUME NEW p \in Processes, Signal(p)
      PROVE  /\ UNCHANGED <<radio, dev>>
             /\ \E t \in Seq(Steps) :
                  /\ todo' = [todo EXCEPT ![p] = t] /\ WellFormed(t) /\ Guarded(t)
                  /\ \E i \in 1..Len(t) : t[i].op = "exit"
  <2>1. \E t \in Releases : todo' = [todo EXCEPT ![p] = t]
    BY <1>3 DEF Signal, Begin, Releases, LockedRelease, ExitOnly
  <2>2. \A t \in Releases : /\ t \in Seq(Steps) /\ WellFormed(t) /\ Guarded(t)
                           /\ \E i \in 1..Len(t) : t[i].op = "exit"
    BY <1>1, CallsWellFormed, ReleaseSteps DEF Releases, ApiCalls
  <2> QED
    BY <1>3, <2>1, <2>2 DEF Signal
<1>4. ASSUME NEW r \in Radios, CallbackStops(r)
      PROVE  /\ UNCHANGED <<radio, dev>>
             /\ \E t \in Seq(Steps) :
                  todo' = [todo EXCEPT ![r] = t] /\ WellFormed(t) /\ Guarded(t)
             /\ todo[r] = <<>>
  BY <1>4, CallsWellFormed DEF CallbackStops, Begin, ApiCalls, Runs
<1>5. CASE Capture \/ \E r \in Radios : Loop(r)
  BY <1>1, <1>5 DEF Capture, Loop, Check, Read, ReadEmpty, Decode, Notify, CallbackReturns, Devices
<1>6. CASE UNCHANGED vars
  BY <1>6 DEF vars
<1> QED
  BY <1>1, <1>2, <1>3, <1>4, <1>5, <1>6 DEF Next, CallStep, Loop

(* A step of the call leaves a shorter one. *)
LEMMA Shorter ==
  ASSUME TypeOK, NEW p \in Processes, todo[p] # <<>>, todo' = [todo EXCEPT ![p] = Tail(@)]
  PROVE  /\ \A q \in Processes : q # p => todo'[q] = todo[q]
         /\ Len(todo[p]) \in Nat \ {0} /\ Len(todo'[p]) = Len(todo[p]) - 1
         /\ \A i \in 1..Len(todo'[p]) : i + 1 \in 1..Len(todo[p]) /\ todo'[p][i] = todo[p][i + 1]
         /\ \A i \in 2..Len(todo[p]) : i - 1 \in 1..Len(todo'[p]) /\ todo'[p][i - 1] = todo[p][i]
         /\ \A i \in 1..Len(todo[p]) : todo[p][i] \in Steps
         /\ \A i \in 2..Len(todo[p]) : todo[p][i] \in Left(p)'
<1>1. todo \in [Processes -> Seq(Steps)]
  BY Typing
<1>2. todo'[p] = Tail(todo[p]) /\ todo[p] \in Seq(Steps)
  BY <1>1
<1> DEFINE t == todo[p]
           u == todo'[p]
<1>3. /\ Len(t) \in Nat \ {0} /\ Len(u) = Len(t) - 1
      /\ \A i \in 1..(Len(t) - 1) : u[i] = t[i + 1]
      /\ \A i \in 2..Len(t) : i - 1 \in 1..Len(u) /\ u[i - 1] = t[i]
  BY <1>2, TailShape
<1>5. \A i \in 1..Len(t) : t[i] \in Steps
  BY <1>2, ElementOfSeq
<1> HIDE DEF t, u
<1>4. \A i \in 1..Len(u) : i + 1 \in 1..Len(t) /\ u[i] = t[i + 1]
  BY <1>3
<1>6. \A i \in 2..Len(t) : t[i] \in {u[j] : j \in 1..Len(u)}
  BY <1>3
<1> QED
  BY <1>1, <1>3, <1>4, <1>5, <1>6 DEF t, u, Left

(* What the order of a call says of what follows its first step. *)
LEMMA FirstStep ==
  ASSUME NEW t, Len(t) \in Nat \ {0}, WellFormed(t)
  PROVE  /\ t[1].op = "inactive" => 2 \in 1..Len(t) /\ t[2].op = "off"
         /\ t[1].op = "on" => Len(t) = 2 /\ t[2] = Op("active", t[1].of)
         /\ t[1].op = "active" => Len(t) = 1
         /\ t[1].op = "join" => /\ \E j \in 2..Len(t) : t[j].op = "exit"
                                /\ \A j \in 2..Len(t) : t[j].of = t[1].of => t[j].op \in Final
<1>1. 1 \in 1..Len(t)
  OBVIOUS
<1>2. /\ t[1].op = "inactive" => 1 < Len(t) /\ t[1 + 1].op = "off"
      /\ t[1].op = "on" => 1 < Len(t) /\ t[1 + 1] = Op("active", t[1].of)
      /\ t[1].op = "active" => 1 = Len(t)
      /\ t[1].op = "join" => /\ \E j \in (1 + 1)..Len(t) : t[j].op = "exit"
                             /\ \A j \in (1 + 1)..Len(t) : t[j].of = t[1].of => t[j].op \in Final
  BY <1>1 DEF WellFormed
<1>3. ASSUME t[1].op = "on" PROVE Len(t) = 2
  <2>1. 2 \in 1..Len(t) /\ t[2].op = "active"
    BY <1>2, <1>3 DEF Op
  <2> QED
    BY <2>1 DEF WellFormed
<1> QED
  BY <1>2, <1>3

-----------------------------------------------------------------------------
(* The stream. *)

(* While a radio's stream is on the other one's flag is down, through every step. *)
LEMMA OneStreamStep == TypeOK /\ CallsFormed /\ OneStream /\ [Next]_vars => OneStream'
<1> SUFFICES ASSUME TypeOK, CallsFormed, OneStream, [Next]_vars PROVE OneStream'
  OBVIOUS
<1>1. /\ todo \in [Processes -> Seq(Steps)] /\ dev \in Devices /\ radio \in [Radios -> RadioStates]
      /\ App \in Processes /\ Radios \subseteq Processes /\ App \notin Radios /\ "idle" \notin Radios
      /\ \A r \in Radios : Other(r) \in Radios /\ Other(r) # r /\ Other(Other(r)) = r
  BY Typing DEF Processes, Radios, App, Other
<1>2. ASSUME NEW p \in Processes, CallStep(p) PROVE OneStream'
  <2>1. PICK o : o = Head(todo[p])
    OBVIOUS
  <2>2. /\ todo[p] # <<>> /\ todo' = [todo EXCEPT ![p] = Tail(@)]
        /\ o \in Steps /\ o \in Left(p) /\ o = todo[p][1] /\ Effects(p, o)
    BY <1>2, <2>1, CallEffects
  <2>3. /\ Len(todo[p]) \in Nat \ {0} /\ Len(todo'[p]) = Len(todo[p]) - 1
        /\ \A i \in 1..Len(todo'[p]) : i + 1 \in 1..Len(todo[p]) /\ todo'[p][i] = todo[p][i + 1]
        /\ \A i \in 2..Len(todo[p]) : i - 1 \in 1..Len(todo'[p]) /\ todo'[p][i - 1] = todo[p][i]
        /\ \A i \in 1..Len(todo[p]) : todo[p][i] \in Steps
        /\ \A q \in Processes : q # p => todo'[q] = todo[q]
    BY <2>2, Shorter
  <2>7. \A op, r : o = Op(op, r) => o.op = op /\ o.of = r
    BY DEF Op
  <2>8. \A q \in Processes : \A i \in 1..Len(todo[q]) : todo[q][i] \in Steps
    <3> SUFFICES ASSUME NEW q \in Processes, NEW i \in 1..Len(todo[q]) PROVE todo[q][i] \in Steps
      OBVIOUS
    <3>1. todo[q] \in Seq(Steps)
      BY <1>1
    <3> QED
      BY <3>1, ElementOfSeq
  <2>9. o.op \in {"active", "on"} => p = App
    <3>1. o \in Left(p)
      BY <2>2
    <3>2. CASE p \in Radios
      BY <3>1, <3>2 DEF CallsFormed
    <3> QED
      BY <3>2 DEF Processes
  <2>4. CASE o.op = "active"
    <3>1. p = App /\ Len(todo[p]) = 1 /\ o = Op("active", o.of) /\ o.of \in Radios
      <4>1. p = App
        BY <2>4, <2>9
      <4>2. Len(todo[p]) = 1
        BY <2>2, <2>3, <2>4, FirstStep DEF CallsFormed
      <4> QED
        BY <2>2, <2>4, <4>1, <4>2 DEF Op, Steps
    <3>2. ~radio[Other(o.of)].active /\ dev.stream # Other(o.of)
      BY <2>2, <2>3, <2>4, <3>1 DEF OneStream, StopsFirst
    <3>3. \A r \in Radios : dev'.stream = r => ~radio'[Other(r)].active
      <4>1. \A r \in Radios : radio'[r].active => radio[r].active \/ r = o.of
        BY <2>2, <2>7 DEF Effects
      <4>2. dev'.stream \in {dev.stream, "idle"}
        BY <2>2, <2>4 DEF Effects
      <4> QED
        BY <1>1, <3>1, <3>2, <4>1, <4>2 DEF OneStream
    <3>4. Len(todo'[App]) = 0
      BY <2>3, <3>1
    <3> QED
      BY <3>3, <3>4 DEF OneStream, StopsFirst
  <2>5. CASE o.op = "on"
    <3>1. /\ p = App /\ Len(todo[p]) = 2 /\ o.of \in Radios
          /\ todo[p][2] = Op("active", o.of)
      <4>1. p = App /\ o.of \in Radios
        BY <2>2, <2>5, <2>9 DEF Steps
      <4>2. Len(todo[p]) = 2 /\ todo[p][2] = Op("active", o.of)
        BY <2>2, <2>3, <2>5, FirstStep DEF CallsFormed
      <4> QED
        BY <4>1, <4>2
    <3>2. ~radio[Other(o.of)].active
      BY <2>2, <2>3, <2>5, <3>1 DEF OneStream, StopsFirst, Op
    <3>3. \A r \in Radios : radio'[r].active => radio[r].active
      BY <2>2, <2>5, <2>7 DEF Effects
    <3>4. dev'.stream \in {dev.stream, "idle", o.of}
      BY <2>2, <2>5 DEF Effects
    <3>5. dev.stream # Other(o.of)
      BY <2>2, <2>3, <2>5, <3>1 DEF OneStream, StopsFirst, Op
    <3>6. \A r \in Radios : dev'.stream = r => ~radio'[Other(r)].active
      BY <1>1, <3>1, <3>2, <3>3, <3>4 DEF OneStream
    <3>7. /\ Len(todo'[App]) = 1 /\ todo'[App][1] = Op("active", o.of)
          /\ \A i \in 1..Len(todo'[App]) : i = 1
      BY <2>3, <3>1
    <3>8. StopsFirst(todo[App])'
      BY <1>1, <3>1, <3>2, <3>3, <3>4, <3>5, <3>7 DEF StopsFirst, Op
    <3> QED
      BY <3>6, <3>8 DEF OneStream
  <2>6. CASE o.op \notin {"active", "on"}
    <3>1. \A r \in Radios : radio'[r].active => radio[r].active
      BY <2>2, <2>6, <2>7 DEF Effects
    <3>2. dev'.stream \in {dev.stream, "idle"}
      BY <2>2, <2>6 DEF Effects
    <3>3. \A r \in Radios : dev'.stream = r => ~radio'[Other(r)].active
      BY <1>1, <3>1, <3>2 DEF OneStream
    <3>4. CASE p # App
      <4>1. todo'[App] = todo[App]
        BY <1>1, <2>3, <3>4
      <4>2. \A i \in 1..Len(todo[App]) : todo[App][i].of \in Radios
        BY <1>1, <2>8 DEF Steps
      <4> QED
        BY <1>1, <3>1, <3>2, <3>3, <4>1, <4>2 DEF OneStream, StopsFirst
    <3>5. CASE p = App
      <4> SUFFICES ASSUME NEW i \in 1..Len(todo'[App]), NEW x \in Radios,
                          todo'[App][i].op = "active", todo'[App][i].of = x
                   PROVE  /\ radio'[Other(x)].active =>
                               \E j \in 1..(i - 1) : todo'[App][j] = Op("inactive", Other(x))
                          /\ dev'.stream = Other(x) =>
                               \E j \in 1..(i - 1) : todo'[App][j].op = "off"
        BY <2>3, <3>3, <3>5, ZenonT(60) DEF OneStream, StopsFirst, Steps
      <4>1. i + 1 \in 1..Len(todo[App]) /\ todo[App][i + 1] = todo'[App][i]
        BY <2>3, <3>5
      <4>5. /\ radio[Other(x)].active =>
                 \E j \in 1..((i + 1) - 1) : todo[App][j] = Op("inactive", Other(x))
            /\ dev.stream = Other(x) => \E j \in 1..((i + 1) - 1) : todo[App][j].op = "off"
        BY <4>1 DEF OneStream, StopsFirst
      <4>6. (i + 1) - 1 = i /\ i \in Nat
        BY <4>1
      <4>2. ASSUME radio'[Other(x)].active
            PROVE  \E j \in 1..(i - 1) : todo'[App][j] = Op("inactive", Other(x))
        <5>1. PICK j \in 1..i : todo[App][j] = Op("inactive", Other(x))
          BY <1>1, <3>1, <4>2, <4>5, <4>6
        <5>2. j # 1
          BY <1>1, <2>2, <3>5, <4>2, <5>1 DEF Effects
        <5>3. j \in 2..Len(todo[App]) /\ j - 1 \in 1..(i - 1)
          BY <4>1, <5>2
        <5> QED
          BY <2>3, <3>5, <5>1, <5>3
      <4>3. ASSUME dev'.stream = Other(x)
            PROVE  \E j \in 1..(i - 1) : todo'[App][j].op = "off"
        <5>1. PICK j \in 1..i : todo[App][j].op = "off"
          BY <1>1, <3>2, <4>3, <4>5, <4>6
        <5>2. j # 1
          BY <1>1, <2>2, <3>5, <4>3, <5>1 DEF Effects
        <5>3. j \in 2..Len(todo[App]) /\ j - 1 \in 1..(i - 1)
          BY <4>1, <5>2
        <5> QED
          BY <2>3, <3>5, <5>1, <5>3
      <4> QED
        BY <4>2, <4>3
    <3> QED
      BY <3>4, <3>5
  <2> QED
    BY <2>4, <2>5, <2>6
<1>3. ASSUME UNCHANGED <<radio, dev>>, NEW p \in Processes, NEW t \in Seq(Steps),
             todo' = [todo EXCEPT ![p] = t], Guarded(t)
      PROVE  OneStream'
  <2>1. todo'[App] \in {todo[App], t}
    BY <1>1, <1>3
  <2>2. StopsFirst(todo[App]) /\ StopsFirst(t)
    BY <1>3 DEF OneStream, Guarded, StopsFirst
  <2> QED
    BY <1>3, <2>1, <2>2 DEF OneStream, StopsFirst
<1>4. CASE UNCHANGED <<radio, todo>> /\ dev'.stream = dev.stream
  BY <1>4 DEF OneStream, StopsFirst
<1> QED
  BY <1>2, <1>3, <1>4, Beginnings

(* An ended process does not come back. *)
LEMMA EndIsFinal ==
  ASSUME TypeOK, [Next]_vars, Up'
  PROVE  Up
BY DEF Next, vars, Up, Call, Capture, Signal, WriteFlag, SetActive, Activate, Join, CloseDriver, Exit,
   Is, Check, Read, ReadEmpty, Decode, Notify, CallbackStops, CallbackReturns, Runs

(* A stream that is on has its reader, or a call is starting or stopping it. *)
LEMMA ReaderOrBusyStep ==
  TypeOK /\ CallsFormed /\ ReaderOrBusy /\ [Next]_vars => ReaderOrBusy'
<1> SUFFICES ASSUME TypeOK, CallsFormed, ReaderOrBusy, [Next]_vars, Up',
                    NEW r \in Radios, dev'.stream = r
             PROVE  radio'[r].active \/ Op("active", r) \in Left(App)' \/ Stopping'
  BY DEF ReaderOrBusy
<1>1. /\ todo \in [Processes -> Seq(Steps)]
      /\ App \in Processes /\ Radios \subseteq Processes /\ App \notin Radios /\ "idle" \notin Radios
  BY Typing DEF Processes, Radios, App
<1>2. dev.stream = r => radio[r].active \/ Op("active", r) \in Left(App) \/ Stopping
  BY EndIsFinal DEF ReaderOrBusy
<1>3. ASSUME NEW p \in Processes, CallStep(p)
      PROVE  radio'[r].active \/ Op("active", r) \in Left(App)' \/ Stopping'
  <2>1. PICK o : o = Head(todo[p])
    OBVIOUS
  <2>2. todo[p] # <<>> /\ todo' = [todo EXCEPT ![p] = Tail(@)]
    BY <1>3, <2>1, CallEffects
  <2>3. o \in Left(p) /\ o = todo[p][1] /\ Len(todo[p]) \in Nat \ {0}
    BY <1>3, <2>1, CallEffects
  <2>4. Effects(p, o)
    BY <1>3, <2>1, CallEffects
  <2>5. /\ \A q \in Processes : q # p => Left(q)' = Left(q)
        /\ Left(p) = Left(p)' \cup {o}
    BY <2>1, <2>2, LeftOfTail
  <2>6. \A i \in 2..Len(todo[p]) : todo[p][i] \in Left(p)'
    BY <2>2, Shorter
  <2>7. WellFormed(todo[p])
    BY DEF CallsFormed
  <2>8. CASE o.op = "on" /\ o.of = r
    <3>1. p = App
      BY <2>3, <2>8 DEF CallsFormed, Processes
    <3>2. Len(todo[p]) = 2 /\ todo[p][2] = Op("active", r)
      BY <2>3, <2>7, <2>8, FirstStep
    <3> QED
      BY <2>6, <3>1, <3>2
  <2>9. CASE ~(o.op = "on" /\ o.of = r)
    <3>1. dev.stream = r
      BY <1>1, <2>4, <2>9 DEF Effects
    <3>2. o.op \notin {"off"} \cup Final
      BY <1>1, <2>4 DEF Effects, Final
    <3>3. CASE radio[r].active
      <4>1. radio'[r].active \/ o = Op("inactive", r)
        BY <2>4, <3>3 DEF Effects
      <4>2. ASSUME o = Op("inactive", r) PROVE Stopping'
        <5>3. o.op = "inactive"
          BY <4>2 DEF Op
        <5>1. 2 \in 2..Len(todo[p]) /\ todo[p][2].op = "off"
          BY <2>3, <2>7, <5>3, FirstStep
        <5>2. todo[p][2] \in Left(p)'
          BY <2>6, <5>1
        <5> QED
          BY <5>1, <5>2 DEF Stopping
      <4> QED
        BY <4>1, <4>2
    <3>4. CASE Op("active", r) \in Left(App)
      <4>1. o = Op("active", r) => radio'[r].active
        BY <2>4 DEF Effects
      <4> QED
        BY <1>1, <2>5, <3>4, <4>1
    <3>5. CASE Stopping
      BY <2>5, <3>2, <3>5 DEF Stopping
    <3> QED
      BY <1>2, <3>1, <3>3, <3>4, <3>5
  <2> QED
    BY <2>8, <2>9
<1>4. ASSUME UNCHANGED <<radio, dev>>, NEW p \in Processes, NEW t \in Seq(Steps),
             todo' = [todo EXCEPT ![p] = t],
             todo[p] = <<>> \/ \E i \in 1..Len(t) : t[i].op = "exit"
      PROVE  radio'[r].active \/ Op("active", r) \in Left(App)' \/ Stopping'
  <2>1. todo'[p] = t /\ \A q \in Processes : q # p => Left(q)' = Left(q)
    BY <1>1, <1>4 DEF Left
  <2>2. CASE todo[p] = <<>>
    <3>1. Left(p) = {}
      BY <2>2 DEF Left
    <3>2. \A q \in Processes : Left(q) \subseteq Left(q)'
      BY <2>1, <3>1
    <3>3. Stopping => Stopping'
      BY <3>2 DEF Stopping
    <3> QED
      BY <1>1, <1>2, <1>4, <3>2, <3>3
  <2>3. CASE \E i \in 1..Len(t) : t[i].op = "exit"
    BY <2>1, <2>3 DEF Stopping, Left, Final
  <2> QED
    BY <1>4, <2>2, <2>3
<1>5. CASE UNCHANGED <<radio, todo>> /\ dev'.stream = dev.stream
  <2>1. \A q \in Processes : Left(q)' = Left(q)
    BY <1>5 DEF Left
  <2> QED
    BY <1>1, <1>2, <1>5, <2>1 DEF Stopping
<1> QED
  BY <1>3, <1>4, <1>5, Beginnings

-----------------------------------------------------------------------------
(* The threads' end. *)

(* A thread that has ended stays so. *)
LEMMA DoneIsFinal ==
  ASSUME TypeOK, [Next]_vars, NEW r \in Radios, thread[r].at = "done"
  PROVE  thread'[r] = thread[r]
<1>1. thread \in [Radios -> ThreadStates]
  BY Typing
<1>2. ASSUME NEW x \in Radios,
             \/ Check(x) \/ Read(x) \/ ReadEmpty(x) \/ Decode(x) \/ Notify(x)
             \/ CallbackStops(x) \/ CallbackReturns(x)
      PROVE  x # r
  BY <1>2 DEF Check, Read, ReadEmpty, Decode, Notify, CallbackStops, CallbackReturns, Runs
<1>3. ASSUME NEW x \in Radios,
             \/ Check(x) \/ Read(x) \/ ReadEmpty(x) \/ Decode(x) \/ Notify(x)
             \/ CallbackStops(x) \/ CallbackReturns(x)
      PROVE  thread'[r] = thread[r]
  BY <1>1, <1>2, <1>3 DEF Check, Read, ReadEmpty, Decode, Notify, CallbackStops, CallbackReturns, Goto,
     ThreadStates
<1> QED
  BY <1>3 DEF Next, vars, Call, Capture, Signal, WriteFlag, SetActive, Activate, Join, CloseDriver, Exit

(* Through every step both threads are gone once the driver is closed. *)
LEMMA JoinedStep == TypeOK /\ CallsFormed /\ Joined /\ [Next]_vars => Joined'
<1> SUFFICES ASSUME TypeOK, CallsFormed, Joined, [Next]_vars PROVE Joined'
  OBVIOUS
<1> DEFINE Done(r) == thread[r].at = "done"
           Awaits(t) == \A i \in 1..Len(t) : t[i].op = "close" =>
             \A r \in Radios : Done(r) \/ \E j \in 1..(i - 1) : t[j] = Op("join", r)
<1>1. todo \in [Processes -> Seq(Steps)]
  BY Typing
<1>2. /\ dev.closed => \A r \in Radios : Done(r)
      /\ Up' => \A q \in Processes : Awaits(todo[q])
  BY EndIsFinal DEF Joined
<1>3. \A r \in Radios : Done(r) => Done(r)'
  BY DoneIsFinal
<1> SUFFICES /\ dev'.closed => \A r \in Radios : Done(r)'
             /\ Up' => \A q \in Processes : Awaits(todo[q])'
  BY DEF Joined
<1>4. ASSUME NEW p \in Processes, CallStep(p)
      PROVE  /\ dev'.closed => \A r \in Radios : Done(r)'
             /\ Up' => \A q \in Processes : Awaits(todo[q])'
  <2>1. PICK o : o = Head(todo[p])
    OBVIOUS
  <2>2. Up /\ todo[p] # <<>> /\ todo' = [todo EXCEPT ![p] = Tail(@)]
    BY <1>4, <2>1, CallEffects
  <2>3. o = todo[p][1] /\ Len(todo[p]) \in Nat \ {0}
    BY <1>4, <2>1, CallEffects
  <2>4. Effects(p, o)
    BY <1>4, <2>1, CallEffects
  <2>5. /\ Len(todo'[p]) = Len(todo[p]) - 1
        /\ \A i \in 1..Len(todo'[p]) : i + 1 \in 1..Len(todo[p]) /\ todo'[p][i] = todo[p][i + 1]
        /\ \A i \in 2..Len(todo[p]) : i - 1 \in 1..Len(todo'[p]) /\ todo'[p][i - 1] = todo[p][i]
        /\ \A q \in Processes : q # p => todo'[q] = todo[q]
    BY <2>2, Shorter
  <2>6. ASSUME o.op = "close" PROVE \A r \in Radios : Done(r)
    <3>1. 1 \in 1..Len(todo[p])
      BY <2>3
    <3> QED
      BY <2>2, <2>3, <2>6, <3>1 DEF Joined
  <2>7. dev'.closed => \A r \in Radios : Done(r)'
    BY <1>2, <1>3, <2>4, <2>6 DEF Effects
  <2>8. ASSUME Up' PROVE Awaits(todo[p])'
    <3> SUFFICES ASSUME NEW i \in 1..Len(todo'[p]), todo'[p][i].op = "close",
                        NEW r \in Radios, ~Done(r)'
                 PROVE  \E j \in 1..(i - 1) : todo'[p][j] = Op("join", r)
      OBVIOUS
    <3>1. i + 1 \in 1..Len(todo[p]) /\ todo[p][i + 1] = todo'[p][i] /\ (i + 1) - 1 = i /\ i \in Nat
      BY <2>5
    <3>2. PICK j \in 1..i : todo[p][j] = Op("join", r)
      BY <1>2, <1>3, <2>8, <3>1
    <3>3. j # 1
      BY <1>3, <2>3, <2>4, <2>8, <3>2 DEF Effects
    <3>4. j \in 2..Len(todo[p]) /\ j - 1 \in 1..(i - 1)
      BY <3>1, <3>3
    <3> QED
      BY <2>5, <3>2, <3>4
  <2>9. ASSUME Up', NEW q \in Processes, q # p PROVE Awaits(todo[q])'
    BY <1>2, <1>3, <2>5, <2>9, SMTT(30)
  <2> QED
    BY <2>7, <2>8, <2>9
<1>5. ASSUME UNCHANGED <<radio, dev>>, NEW p \in Processes, NEW t \in Seq(Steps),
             todo' = [todo EXCEPT ![p] = t], Guarded(t)
      PROVE  /\ dev'.closed => \A r \in Radios : Done(r)'
             /\ Up' => \A q \in Processes : Awaits(todo[q])'
  <2>1. \A q \in Processes : todo'[q] \in {todo[q], t}
    BY <1>1, <1>5
  <2>2. Awaits(t)'
    BY <1>5 DEF Guarded
  <2>3. ASSUME Up', NEW q \in Processes PROVE Awaits(todo[q])'
    BY <1>2, <1>3, <2>1, <2>2, <2>3
  <2> QED
    BY <1>2, <1>3, <1>5, <2>3
<1>6. ASSUME UNCHANGED <<radio, todo>>, dev'.closed = dev.closed
      PROVE  /\ dev'.closed => \A r \in Radios : Done(r)'
             /\ Up' => \A q \in Processes : Awaits(todo[q])'
  BY <1>2, <1>3, <1>6
<1> QED
  BY <1>4, <1>5, <1>6, Beginnings

(* What a thread does in its loop. *)
LEMMA LoopEffects ==
  ASSUME TypeOK, NEW r \in Radios, Loop(r)
  PROVE  /\ Up /\ todo[r] = <<>> /\ UNCHANGED <<radio, todo>>
         /\ \A x \in Radios : x # r => thread'[x] = thread[x]
         /\ past'.signal = past.signal /\ past'.end = past.end /\ past'.mark = past.mark
<1>1. thread \in [Radios -> ThreadStates] /\ past \in Pasts
  BY Typing
<1>2. Up /\ todo[r] = <<>> /\ UNCHANGED <<radio, todo>>
  BY DEF Loop, Check, Read, ReadEmpty, Decode, Notify, CallbackReturns, Runs
<1>3. \A x \in Radios : x # r => thread'[x] = thread[x]
  BY <1>1 DEF Loop, Check, Read, ReadEmpty, Decode, Notify, CallbackReturns, Goto, ThreadStates
<1>4. past'.signal = past.signal /\ past'.end = past.end /\ past'.mark = past.mark
  BY <1>1 DEF Loop, Check, Read, ReadEmpty, Decode, Notify, CallbackReturns, Pasts
<1> QED
  BY <1>2, <1>3, <1>4

(* The callback that stops its radio. *)
LEMMA StopEffects ==
  ASSUME TypeOK, NEW r \in Radios, CallbackStops(r)
  PROVE  /\ Up /\ todo[r] = <<>> /\ UNCHANGED <<radio, dev, past>>
         /\ todo' = [todo EXCEPT ![r] = StopReceiving(r)]
         /\ thread[r].at = "callback" /\ thread'[r].at = "called"
         /\ \A x \in Radios : x # r => thread'[x] = thread[x]
<1>1. thread \in [Radios -> ThreadStates]
  BY Typing
<1>2. thread' = [thread EXCEPT ![r].at = "called", ![r].got = @]
  BY DEF CallbackStops, Goto
<1>3. thread'[r].at = "called" /\ \A x \in Radios : x # r => thread'[x] = thread[x]
  BY <1>1, <1>2 DEF ThreadStates
<1> QED
  BY <1>3 DEF CallbackStops, Runs, Begin

(* Through every step a radio that is freed has no thread. *)
LEMMA FreedStep == TypeOK /\ CallsFormed /\ Freed /\ [Next]_vars => Freed'
<1> SUFFICES ASSUME TypeOK, CallsFormed, Freed, [Next]_vars PROVE Freed'
  OBVIOUS
<1> DEFINE Calm == Up /\ past.signal \notin Radios
           Unfreed == \A p \in Processes : \A o \in Left(p) : o.op \notin Final => ~radio[o.of].freed
           Ending == \A r \in Radios : radio[r].freed => \E o \in Left(App) : o.op = "exit"
           Called(r) == /\ todo[r] # <<>> => thread[r].at = "called"
                        /\ \A o \in Left(r) : o.of = r /\ o.op \in {"inactive", "off"}
           Rest == Calm => Unfreed /\ Ending /\ \A r \in Radios : Called(r)
<1>1. /\ todo \in [Processes -> Seq(Steps)] /\ past \in Pasts
      /\ App \in Processes /\ Radios \subseteq Processes /\ App \notin Radios
      /\ \A p \in Processes : p # App => p \in Radios
  BY Typing DEF Processes, Radios, App
<1>2. Rest
  BY DEF Freed
<1> SUFFICES (\A r \in Radios : radio'[r].freed => thread'[r].at = "done") /\ Rest'
  BY DEF Freed
<1>3. ASSUME radio' = radio PROVE \A r \in Radios : radio'[r].freed => thread'[r].at = "done"
  BY <1>3, DoneIsFinal DEF Freed
<1>4. ASSUME NEW p \in Processes, CallStep(p)
      PROVE  (\A r \in Radios : radio'[r].freed => thread'[r].at = "done") /\ Rest'
  <2>1. PICK o : o = Head(todo[p])
    OBVIOUS
  <2>2. Up /\ todo[p] # <<>> /\ todo' = [todo EXCEPT ![p] = Tail(@)]
    BY <1>4, <2>1, CallEffects
  <2>3. o \in Steps /\ o \in Left(p) /\ o = todo[p][1] /\ Len(todo[p]) \in Nat \ {0}
    BY <1>4, <2>1, CallEffects
  <2>4. Effects(p, o)
    BY <1>4, <2>1, CallEffects
  <2>5. /\ \A q \in Processes : q # p => todo'[q] = todo[q] /\ Left(q)' = Left(q)
        /\ Left(p) = Left(p)' \cup {o}
    BY <2>1, <2>2, LeftOfTail
  <2>6. \A r \in Radios : radio'[r].freed => thread'[r].at = "done"
    BY <2>4 DEF Effects, Freed
  <2>7. ASSUME Calm' PROVE Calm
    BY <2>2, <2>4, <2>7 DEF Effects
  <2>8. ASSUME Calm', NEW x \in Radios, radio'[x].freed
        PROVE  \/ radio[x].freed
               \/ /\ p = App /\ thread[x].at = "done"
                  /\ \E j \in Left(App)' : j.op = "exit"
                  /\ \A j \in Left(App)' : j.of = x => j.op \in Final
    <3>1. radio[x].freed \/ (o = Op("join", x) /\ thread[x].at = "done")
      BY <2>4, <2>8 DEF Effects
    <3>2. ASSUME o = Op("join", x) PROVE p = App /\ o.op = "join" /\ o.of = x
      <4>1. o.op = "join" /\ o.of = x
        BY <3>2 DEF Op
      <4> QED
        BY <1>1, <1>2, <2>3, <2>7, <2>8, <4>1
    <3>3. ASSUME o.op = "join", o.of = x
          PROVE  /\ \E j \in Left(p)' : j.op = "exit"
                 /\ \A j \in Left(p)' : j.of = x => j.op \in Final
      <4>1. WellFormed(todo[p])
        BY DEF CallsFormed
      <4>2. /\ \E j \in 2..Len(todo[p]) : todo[p][j].op = "exit"
            /\ \A j \in 2..Len(todo[p]) : todo[p][j].of = x => todo[p][j].op \in Final
        BY <2>3, <3>3, <4>1, FirstStep
      <4>3. \A i \in 2..Len(todo[p]) : todo[p][i] \in Left(p)'
        BY <2>2, Shorter
      <4>4. \A j \in Left(p)' : \E i \in 2..Len(todo[p]) : j = todo[p][i]
        <5>1. /\ Len(todo'[p]) = Len(todo[p]) - 1
              /\ \A i \in 1..Len(todo'[p]) : i + 1 \in 1..Len(todo[p]) /\ todo'[p][i] = todo[p][i + 1]
          BY <2>2, Shorter
        <5>2. \A i \in 1..Len(todo'[p]) : i + 1 \in 2..Len(todo[p])
          BY <2>3, <5>1
        <5> QED
          BY <5>1, <5>2 DEF Left
      <4> QED
        BY <4>2, <4>3, <4>4
    <3> QED
      BY <3>1, <3>2, <3>3
  <2>9. ASSUME Calm' PROVE Unfreed'
    <3> SUFFICES ASSUME NEW q \in Processes, NEW k \in Left(q)', k.op \notin Final,
                        radio'[k.of].freed
                 PROVE  FALSE
      OBVIOUS
    <3>1. k \in Left(q) /\ k.of \in Radios
      <4>1. k \in Left(q)
        BY <2>5
      <4>2. \A i \in 1..Len(todo[q]) : todo[q][i] \in Steps
        <5>1. todo[q] \in Seq(Steps)
          BY <1>1
        <5> QED
          BY <5>1, ElementOfSeq
      <4> QED
        BY <4>1, <4>2 DEF Left, Steps
    <3>2. ~radio[k.of].freed
      BY <1>2, <2>7, <2>9, <3>1
    <3>3. p = App /\ thread[k.of].at = "done" /\ \A j \in Left(App)' : j.of = k.of => j.op \in Final
      BY <2>8, <2>9, <3>1, <3>2
    <3>4. q # App
      BY <3>3
    <3>5. q \in Radios /\ k.of = q /\ thread[q].at = "called"
      <4>1. q \in Radios /\ k.of = q
        BY <1>1, <1>2, <2>7, <2>9, <3>1, <3>4
      <4>2. todo[q] # <<>>
        BY <3>1 DEF Left
      <4> QED
        BY <1>2, <2>7, <2>9, <4>1, <4>2
    <3> QED
      BY <3>3, <3>5
  <2>10. ASSUME Calm' PROVE Ending'
    <3>1. ASSUME NEW x \in Radios, radio[x].freed PROVE \E j \in Left(App)' : j.op = "exit"
      <4>1. PICK j \in Left(App) : j.op = "exit"
        BY <1>2, <2>7, <2>10, <3>1
      <4>2. j = o => ~Up'
        BY <2>4, <4>1 DEF Effects
      <4> QED
        BY <1>1, <2>5, <2>10, <4>1, <4>2
    <3> QED
      BY <2>8, <2>10, <3>1
  <2>11. ASSUME Calm', NEW r \in Radios PROVE Called(r)'
    <3>1. todo'[r] # <<>> => todo[r] # <<>>
      BY <1>1, <2>2, <2>5
    <3>2. Left(r)' \subseteq Left(r) /\ thread' = thread
      BY <1>1, <2>4, <2>5 DEF Effects
    <3> QED
      BY <1>2, <2>7, <2>11, <3>1, <3>2
  <2> QED
    BY <2>6, <2>9, <2>10, <2>11
<1>5. CASE Call
  <2>1. /\ UNCHANGED <<radio, thread, dev, past>> /\ todo[App] = <<>> /\ Up
        /\ \A q \in Radios : todo'[q] = todo[q]
    BY <1>1, <1>5 DEF Call, Begin
  <2>2. Left(App) = {} /\ \A q \in Radios : Left(q)' = Left(q)
    BY <2>1 DEF Left
  <2>3. ASSUME Calm PROVE \A x \in Radios : ~radio[x].freed
    BY <1>2, <2>2, <2>3
  <2>4. todo' \in [Processes -> Seq(Steps)]
    BY TodoTyped
  <2>5. \A q \in Processes : \A o \in Left(q)' : o.of \in Radios
    <3> SUFFICES ASSUME NEW q \in Processes, NEW i \in 1..Len(todo'[q]) PROVE todo'[q][i].of \in Radios
      BY DEF Left
    <3>1. todo'[q] \in Seq(Steps)
      BY <2>4
    <3>2. todo'[q][i] \in Steps
      BY <3>1, ElementOfSeq
    <3> QED
      BY <3>2 DEF Steps
  <2>6. ASSUME Calm PROVE Unfreed' /\ Ending'
    BY <2>1, <2>3, <2>5, <2>6
  <2>7. ASSUME Calm PROVE \A r \in Radios : Called(r)'
    BY <1>2, <2>1, <2>2, <2>7
  <2> QED
    BY <1>3, <2>1, <2>6, <2>7
<1>6. ASSUME NEW p \in Processes, Signal(p)
      PROVE  (\A r \in Radios : radio'[r].freed => thread'[r].at = "done") /\ Rest'
  <2>1. UNCHANGED <<radio, thread, dev>> /\ past'.signal = p /\ past'.end = past.end /\ Up
    BY <1>1, <1>6 DEF Signal, Pasts, Up
  <2>2. ASSUME Calm' PROVE p = App /\ past.signal = "none"
    BY <1>1, <1>6, <2>1, <2>2 DEF Signal
  <2>3. PICK t : /\ todo' = [todo EXCEPT ![p] = t] /\ t \in Releases
                 /\ Releasing => t = ExitOnly
    BY <1>6 DEF Signal, Begin, Releases, ExitOnly, LockedRelease
  <2>4. ASSUME Calm' PROVE Unfreed' /\ Ending' /\ \A r \in Radios : Called(r)'
    <3>1. p = App /\ Calm
      BY <2>1, <2>2, <2>4 DEF Radios
    <3>2. todo'[App] = t /\ \A q \in Radios : todo'[q] = todo[q] /\ Left(q)' = Left(q)
      BY <1>1, <2>3, <3>1 DEF Left
    <3>3. Left(App)' = {t[i] : i \in 1..Len(t)}
      BY <3>2 DEF Left
    <3>4. \A r \in Radios : Called(r)'
      BY <1>2, <2>1, <3>1, <3>2
    <3>5. Ending'
      BY <2>3, <3>3, ReleaseSteps
    <3>6. ASSUME NEW k \in Left(App)', k.op \notin Final PROVE ~radio[k.of].freed
      <4>1. t # ExitOnly
        <5>1. \A i \in 1..Len(ExitOnly) : i = 1
          BY LockedShape
        <5>2. \A i \in 1..Len(ExitOnly) : ExitOnly[i].op \in Final
          BY <5>1, LockedShape DEF Op, Final
        <5> QED
          BY <3>3, <3>6, <5>2
      <4>2. ~Releasing
        BY <2>3, <4>1
      <4>3. \A j \in Left(App) : j.op # "exit"
        BY <1>1, <4>2 DEF Releasing, Left
      <4>4. k.of \in Radios
        <5>1. t \in Seq(Steps)
          BY <2>3, ReleaseSteps
        <5>2. \A i \in 1..Len(t) : t[i] \in Steps
          BY <5>1, ElementOfSeq
        <5> QED
          BY <3>3, <3>6, <5>2 DEF Steps
      <4> QED
        BY <1>2, <3>1, <4>3, <4>4
    <3>7. Unfreed'
      <4> SUFFICES ASSUME NEW q \in Processes, NEW k \in Left(q)', k.op \notin Final
                   PROVE  ~radio[k.of].freed
        BY <2>1
      <4>1. CASE q = App
        BY <3>6, <4>1
      <4>2. CASE q \in Radios
        BY <1>1, <1>2, <3>1, <3>2, <4>2
      <4> QED
        BY <1>1, <4>1, <4>2
    <3> QED
      BY <3>4, <3>5, <3>7
  <2> QED
    BY <1>3, <2>1, <2>4
<1>7. ASSUME NEW r \in Radios, CallbackStops(r)
      PROVE  (\A x \in Radios : radio'[x].freed => thread'[x].at = "done") /\ Rest'
  <2>1. /\ UNCHANGED <<radio, dev, past>> /\ todo' = [todo EXCEPT ![r] = StopReceiving(r)]
        /\ thread[r].at = "callback" /\ thread'[r].at = "called"
        /\ \A x \in Radios : x # r => thread'[x] = thread[x]
    BY <1>7, StopEffects
  <2>2. todo'[r] = StopReceiving(r)
    BY <1>1, <2>1
  <2>3. \A k \in Left(r)' : k.of = r /\ k.op \in {"inactive", "off"}
    BY <2>2, StopSteps DEF Left
  <2>4. \A q \in Processes : q # r => todo'[q] = todo[q] /\ Left(q)' = Left(q)
    BY <1>1, <2>1 DEF Left
  <2>5. ~radio[r].freed
    BY <2>1 DEF Freed
  <2>6. ASSUME Calm PROVE Unfreed'
    BY <1>2, <2>1, <2>3, <2>4, <2>5, <2>6
  <2>10. Left(App)' = Left(App)
    BY <1>1, <2>4
  <2>7. ASSUME Calm PROVE Ending'
    BY <1>2, <2>1, <2>7, <2>10
  <2>8. ASSUME Calm, NEW x \in Radios PROVE Called(x)'
    <3>1. CASE x = r
      BY <2>1, <2>3, <3>1
    <3>2. CASE x # r
      <4>1. Called(x)
        BY <1>2, <2>8
      <4> QED
        BY <1>1, <2>1, <2>4, <3>2, <4>1
    <3> QED
      BY <3>1, <3>2
  <2>9. Calm' <=> Calm
    BY <2>1 DEF Up
  <2> QED
    BY <1>3, <2>1, <2>6, <2>7, <2>8, <2>9
<1>8. ASSUME NEW r \in Radios, Loop(r)
      PROVE  (\A x \in Radios : radio'[x].freed => thread'[x].at = "done") /\ Rest'
  <2>1. /\ todo[r] = <<>> /\ UNCHANGED <<radio, todo>>
        /\ \A x \in Radios : x # r => thread'[x] = thread[x]
        /\ past'.signal = past.signal /\ past'.end = past.end
    BY <1>8, LoopEffects
  <2>2. \A q : Left(q)' = Left(q)
    BY <2>1 DEF Left
  <2>3. Calm' => Calm
    BY <2>1 DEF Up
  <2>4. ASSUME Calm PROVE Unfreed' /\ Ending'
    BY <1>2, <2>1, <2>2, <2>4
  <2>5. ASSUME Calm, NEW x \in Radios PROVE Called(x)'
    BY <1>2, <2>1, <2>2, <2>5
  <2> QED
    BY <1>3, <2>1, <2>3, <2>4, <2>5
<1>9. CASE Capture \/ UNCHANGED vars
  <2>1. UNCHANGED <<radio, thread, todo, past>>
    BY <1>9 DEF Capture, vars
  <2>2. \A q : Left(q)' = Left(q)
    BY <2>1 DEF Left
  <2>3. Rest'
    BY <1>2, <2>1, <2>2 DEF Up
  <2> QED
    BY <1>3, <2>1, <2>3
<1> QED
  BY <1>4, <1>5, <1>6, <1>7, <1>8, <1>9 DEF Next, CallStep, Loop

-----------------------------------------------------------------------------
(* The callbacks and the chunks. *)

(* What the step of a call leaves, of the chunks and of the history. *)
LEMMA CallHistory ==
  ASSUME TypeOK, NEW p \in Processes, CallStep(p)
  PROVE  /\ dev'.fifo = dev.fifo /\ dev'.temp = dev.temp /\ dev'.captured = dev.captured
         /\ past'.given = past.given /\ thread' = thread
         /\ \A r \in Radios :
              \/ past'.late[r] = past.late[r] /\ past'.mark[r] = past.mark[r]
                 /\ (radio'[r].active => radio[r].active)
              \/ past'.late[r] = 0 /\ ~radio'[r].active
              \/ past'.late[r] = 0 /\ past'.mark[r] = dev.captured
<1>1. /\ radio \in [Radios -> RadioStates] /\ todo \in [Processes -> Seq(Steps)]
      /\ dev \in Devices /\ past \in Pasts
  BY Typing
<1>2. ASSUME todo[p] # <<>> PROVE \E q \in Radios : q = Rad(p)
  <2>1. Head(todo[p]) \in Steps
    BY <1>1, <1>2, TailShape
  <2> QED
    BY <2>1 DEF Rad, Steps
<1>3. CASE WriteFlag(p)
  <2>1. PICK q \in Radios : q = Rad(p)
    BY <1>2, <1>3 DEF WriteFlag, Is
  <2>2. \/ /\ past' = past
           /\ \/ radio' = [radio EXCEPT ![q].callback = TRUE]
              \/ radio' = [radio EXCEPT ![q].running = FALSE]
        \/ /\ past' = [past EXCEPT !.late[q] = 0, !.mark[q] = 0]
           /\ radio' = [radio EXCEPT ![q].active = FALSE]
    BY <1>3, <2>1 DEF WriteFlag, Is
  <2>3. CASE /\ past' = past
             /\ \/ radio' = [radio EXCEPT ![q].callback = TRUE]
                \/ radio' = [radio EXCEPT ![q].running = FALSE]
    <3>1. \A r \in Radios : radio'[r].active <=> radio[r].active
      BY <1>1, <2>3 DEF RadioStates
    <3> QED
      BY <1>3, <2>3, <3>1 DEF WriteFlag
  <2>4. CASE /\ past' = [past EXCEPT !.late[q] = 0, !.mark[q] = 0]
             /\ radio' = [radio EXCEPT ![q].active = FALSE]
    <3>1. \A r \in Radios : /\ r # q => (radio'[r].active <=> radio[r].active)
                            /\ ~radio'[q].active
      BY <1>1, <2>4 DEF RadioStates
    <3>2. /\ past'.given = past.given /\ past'.late[q] = 0
          /\ \A r \in Radios : r # q => past'.late[r] = past.late[r] /\ past'.mark[r] = past.mark[r]
      BY <1>1, <2>4 DEF Pasts
    <3> QED
      BY <1>3, <3>1, <3>2 DEF WriteFlag
  <2> QED
    BY <2>2, <2>3, <2>4
<1>4. CASE SetActive(p)
  <2>1. PICK q \in Radios : q = Rad(p)
    BY <1>2, <1>4 DEF SetActive, Is
  <2>2. /\ past' = [past EXCEPT !.late[q] = 0, !.mark[q] = dev.captured]
        /\ radio' = [radio EXCEPT ![q].active = TRUE]
    BY <1>4, <2>1 DEF SetActive
  <2>3. \A r \in Radios : r # q => (radio'[r].active <=> radio[r].active)
    BY <1>1, <2>2 DEF RadioStates
  <2>4. /\ past'.given = past.given /\ past'.late[q] = 0 /\ past'.mark[q] = dev.captured
        /\ \A r \in Radios : r # q => past'.late[r] = past.late[r] /\ past'.mark[r] = past.mark[r]
    BY <1>1, <2>2 DEF Pasts
  <2> QED
    BY <1>4, <2>3, <2>4 DEF SetActive
<1>5. CASE Activate(p) \/ CloseDriver(p)
  <2>1. UNCHANGED <<radio, thread, past>>
    BY <1>5 DEF Activate, CloseDriver
  <2>2. dev'.fifo = dev.fifo /\ dev'.temp = dev.temp /\ dev'.captured = dev.captured
    BY <1>1, <1>5 DEF Activate, CloseDriver, Devices
  <2> QED
    BY <2>1, <2>2
<1>6. CASE Join(p) \/ Exit(p)
  <2>1. /\ UNCHANGED <<thread, dev>>
        /\ past'.given = past.given /\ past'.late = past.late /\ past'.mark = past.mark
    BY <1>1, <1>6 DEF Join, Exit, Pasts
  <2>2. \A r \in Radios : radio'[r].active <=> radio[r].active
    <3>1. PICK q \in Radios : q = Rad(p)
      BY <1>2, <1>6 DEF Join, Exit, Is
    <3>2. radio' = radio \/ radio' = [radio EXCEPT ![q].freed = TRUE]
      BY <1>6, <3>1 DEF Join, Exit
    <3> QED
      BY <1>1, <3>2 DEF RadioStates
  <2> QED
    BY <2>1, <2>2
<1> QED
  BY <1>3, <1>4, <1>5, <1>6 DEF CallStep

(* Steps that leave the radios, the threads and the chunks alone. *)
Quiet ==
  /\ UNCHANGED <<radio, thread, dev>>
  /\ past'.late = past.late /\ past'.mark = past.mark /\ past'.given = past.given

(* That a call or a signal begins changes no radio, thread or driver. *)
LEMMA QuietSteps ==
  ASSUME TypeOK, Call \/ (\E p \in Processes : Signal(p)) \/ UNCHANGED vars
  PROVE  Quiet
<1>1. past \in Pasts
  BY Typing
<1> QED
  BY <1>1 DEF Quiet, Call, Signal, vars, Pasts

(* A thread makes at most one callback after its radio was made inactive. *)
LEMMA LateOnceStep == TypeOK /\ LateOnce /\ [Next]_vars => LateOnce'
<1> DEFINE Once(x) == past.late[x] # 0 =>
                        /\ past.late[x] = 1 /\ ~radio[x].active
                        /\ thread[x].at \in {"callback", "called", "check", "done"}
<1> SUFFICES ASSUME TypeOK, LateOnce, [Next]_vars, NEW x \in Radios
             PROVE  Once(x)'
  BY DEF LateOnce
<1>1. thread \in [Radios -> ThreadStates] /\ past \in Pasts
  BY Typing
<1>2. Once(x)
  BY DEF LateOnce
<1>3. ASSUME NEW p \in Processes, CallStep(p) PROVE Once(x)'
  BY <1>2, <1>3, CallHistory
<1>4. ASSUME NEW r \in Radios, Loop(r) PROVE Once(x)'
  <2>1. /\ UNCHANGED <<radio, todo>>
        /\ \A y \in Radios : y # r => thread'[y] = thread[y]
    BY <1>4, LoopEffects
  <2>2. CASE Notify(r)
    <3>1. thread[r].at = "notify" /\ past.late[r] = 0
      BY <2>2 DEF Notify, Runs, LateOnce
    <3>2. \/ past' = past
          \/ /\ past'.late[r] = IF radio[r].active THEN 0 ELSE 1
             /\ \A y \in Radios : y # r => past'.late[y] = past.late[y]
             /\ thread'[r].at = "callback"
      BY <1>1, <2>2, <3>1 DEF Notify, Goto, Pasts, ThreadStates
    <3> QED
      BY <1>2, <2>1, <3>1, <3>2
  <2>3. CASE Check(r) \/ Read(r) \/ ReadEmpty(r) \/ Decode(r) \/ CallbackReturns(r)
    <3>1. past' = past
      BY <2>3 DEF Check, Read, ReadEmpty, Decode, CallbackReturns
    <3>2. \/ thread[r].at = "check" /\ (radio[r].active \/ thread'[r].at = "done")
          \/ thread[r].at \in {"read", "decode"}
          \/ thread'[r].at = "check"
      BY <1>1, <2>3 DEF Check, Read, ReadEmpty, Decode, CallbackReturns, Runs, Goto, ThreadStates
    <3> QED
      BY <1>2, <2>1, <3>1, <3>2
  <2> QED
    BY <1>4, <2>2, <2>3 DEF Loop
<1>5. ASSUME NEW r \in Radios, CallbackStops(r) PROVE Once(x)'
  BY <1>2, <1>5, StopEffects
<1>6. CASE Capture \/ Quiet
  BY <1>2, <1>6 DEF Capture, Quiet
<1> QED
  BY <1>3, <1>4, <1>5, <1>6, QuietSteps DEF Next, CallStep, Loop

(* The chunks on their way to a callback are in the order they were captured. *)
LEMMA ChunksOrderedStep == TypeOK /\ ChunksOrdered /\ [Next]_vars => ChunksOrdered'
<1> DEFINE InFifo == /\ \A i, j \in 1..Len(dev.fifo) : i < j => dev.fifo[i].id < dev.fifo[j].id
                     /\ \A i \in 1..Len(dev.fifo) :
                          dev.temp.id < dev.fifo[i].id /\ dev.fifo[i].id <= dev.captured
                     /\ dev.temp.id <= dev.captured
           OnItsWay(x) == /\ past.given[x] <= dev.temp.id
                          /\ thread[x].at = "decode" => past.given[x] < dev.temp.id
                          /\ thread[x].at = "notify" => /\ past.given[x] < thread[x].got.id
                                                        /\ thread[x].got.id <= dev.temp.id
<1> SUFFICES ASSUME TypeOK, ChunksOrdered, [Next]_vars
             PROVE  InFifo' /\ \A x \in Radios : OnItsWay(x)'
  BY DEF ChunksOrdered
<1>1. /\ thread \in [Radios -> ThreadStates] /\ past \in Pasts /\ dev \in Devices
      /\ dev.fifo \in Seq(Chunks) /\ dev.temp.id \in Nat /\ dev.captured \in Nat
      /\ \A x \in Radios : past.given[x] \in Nat /\ thread[x].got.id \in Nat
      /\ \A i \in 1..Len(dev.fifo) : dev.fifo[i].id \in Nat
  <2>1. thread \in [Radios -> ThreadStates] /\ past \in Pasts /\ dev \in Devices /\ MaxChunks \in Nat
    BY Typing, RxThreadAssumption
  <2>2. dev.fifo \in Seq(Chunks)
    BY <2>1 DEF Devices
  <2>3. \A i \in 1..Len(dev.fifo) : dev.fifo[i] \in Chunks
    BY <2>2, ElementOfSeq
  <2>4. dev.temp.id \in Nat /\ dev.captured \in Nat
    BY <2>1 DEF Devices, Chunks
  <2>5. \A x \in Radios : past.given[x] \in Nat /\ thread[x].got.id \in Nat
    BY <2>1 DEF Pasts, ThreadStates, Chunks
  <2>6. \A i \in 1..Len(dev.fifo) : dev.fifo[i].id \in Nat
    BY <2>1, <2>3 DEF Chunks
  <2> QED
    BY <2>1, <2>2, <2>4, <2>5, <2>6
<1>2. InFifo /\ \A x \in Radios : OnItsWay(x)
  BY DEF ChunksOrdered
<1>3. ASSUME NEW p \in Processes, CallStep(p) PROVE InFifo' /\ \A x \in Radios : OnItsWay(x)'
  BY <1>2, <1>3, CallHistory
<1>4. CASE Quiet
  BY <1>2, <1>4 DEF Quiet
<1>5. CASE Capture
  <2> DEFINE c == [id |-> dev.captured + 1, of |-> dev.stream]
             f == dev.fifo
  <2>1. /\ UNCHANGED <<thread, past>> /\ dev'.captured = dev.captured + 1 /\ dev'.temp = dev.temp
        /\ dev'.fifo \in {f, Append(f, c)}
    BY <1>1, <1>5 DEF Capture, Devices
  <2>2. /\ Len(f) \in Nat /\ Len(Append(f, c)) = Len(f) + 1
        /\ \A i \in 1..Len(f) : Append(f, c)[i] = f[i]
        /\ Append(f, c)[Len(f) + 1] = c /\ c.id = dev.captured + 1
    <3>1. c \in Chunks /\ f \in Seq(Chunks)
      BY <1>1, <1>5, RxThreadAssumption DEF Capture, Chunks, Devices
    <3> QED
      BY <3>1, AppendProperties, LenProperties
  <2>3. CASE dev'.fifo = f
    BY <1>1, <1>2, <2>1, <2>2, <2>3
  <2>4. CASE dev'.fifo = Append(f, c)
    <3> DEFINE g == Append(f, c)
    <3>1. \A i \in 1..Len(g) : i \in 1..Len(f) \/ i = Len(f) + 1
      BY <2>2
    <3>2. \A i \in 1..Len(g) : dev.temp.id < g[i].id /\ g[i].id <= dev.captured + 1
      BY <1>1, <1>2, <2>2, <3>1
    <3>3. ASSUME NEW i \in 1..Len(g), NEW j \in 1..Len(g), i < j PROVE g[i].id < g[j].id
      <4>1. i \in 1..Len(f)
        BY <2>2, <3>1, <3>3
      <4>2. g[i].id = f[i].id /\ f[i].id <= dev.captured /\ f[i].id \in Nat
        BY <1>1, <1>2, <2>2, <4>1
      <4>3. CASE j \in 1..Len(f)
        BY <1>2, <2>2, <3>3, <4>1, <4>3
      <4>4. CASE j = Len(f) + 1
        BY <1>1, <2>2, <4>2, <4>4
      <4> QED
        BY <3>1, <4>3, <4>4
    <3>4. dev.temp.id <= dev.captured + 1
      BY <1>1, <1>2
    <3> HIDE DEF g
    <3>5. dev'.fifo = g
      BY <2>4 DEF g
    <3> QED
      BY <1>2, <2>1, <3>2, <3>3, <3>4, <3>5
  <2> QED
    BY <2>1, <2>3, <2>4
<1>6. ASSUME NEW r \in Radios, Read(r) PROVE InFifo' /\ \A x \in Radios : OnItsWay(x)'
  <2> DEFINE f == dev.fifo
  <2>1. /\ f # <<>> /\ dev'.temp = Head(f) /\ dev'.fifo = Tail(f) /\ dev'.captured = dev.captured
        /\ past' = past /\ thread'[r].at = "decode"
        /\ \A x \in Radios : x # r => thread'[x] = thread[x]
    BY <1>1, <1>6 DEF Read, Goto, Devices, ThreadStates
  <2>2. /\ Len(f) \in Nat \ {0} /\ Head(f) = f[1] /\ Len(Tail(f)) = Len(f) - 1
        /\ \A i \in 1..(Len(f) - 1) : Tail(f)[i] = f[i + 1]
    BY <1>1, <2>1, HeadTailProperties, EmptySeq, LenProperties
  <2>3. /\ 1 \in 1..Len(f) /\ dev.temp.id < f[1].id /\ f[1].id <= dev.captured /\ f[1].id \in Nat
    BY <1>1, <1>2, <2>2
  <2>4. InFifo'
    <3>1. \A i \in 1..Len(Tail(f)) : i + 1 \in 1..Len(f) /\ 1 < i + 1 /\ Tail(f)[i] = f[i + 1]
      BY <2>2
    <3>2. \A i, j \in 1..Len(Tail(f)) : i < j => Tail(f)[i].id < Tail(f)[j].id
      BY <1>2, <3>1
    <3>3. \A i \in 1..Len(Tail(f)) : f[1].id < Tail(f)[i].id /\ Tail(f)[i].id <= dev.captured
      BY <1>2, <2>3, <3>1
    <3> QED
      BY <2>1, <2>2, <2>3, <3>2, <3>3
  <2>5. ASSUME NEW x \in Radios PROVE OnItsWay(x)'
    <3>1. past.given[x] < f[1].id /\ dev.temp.id < f[1].id
      BY <1>1, <1>2, <2>3
    <3>2. dev'.temp = f[1] /\ past' = past
      BY <2>1, <2>2
    <3>3. CASE x = r
      BY <1>1, <2>1, <2>3, <3>1, <3>2, <3>3
    <3>4. CASE x # r
      BY <1>1, <1>2, <2>1, <2>3, <3>1, <3>2, <3>4
    <3> QED
      BY <3>3, <3>4
  <2> QED
    BY <2>4, <2>5
<1>7. ASSUME NEW r \in Radios,
             Check(r) \/ ReadEmpty(r) \/ Decode(r) \/ CallbackStops(r) \/ CallbackReturns(r)
      PROVE  InFifo' /\ \A x \in Radios : OnItsWay(x)'
  <2>1. UNCHANGED <<dev, past>>
    BY <1>7 DEF Check, ReadEmpty, Decode, CallbackStops, CallbackReturns
  <2>2. /\ \A x \in Radios : x # r => thread'[x] = thread[x]
        /\ \/ thread'[r].at \notin {"decode", "notify"}
           \/ thread[r].at = "decode" /\ thread'[r].got = dev.temp /\ thread'[r].at = "notify"
    BY <1>1, <1>7 DEF Check, ReadEmpty, Decode, CallbackStops, CallbackReturns, Runs, Goto, ThreadStates
  <2> QED
    BY <1>1, <1>2, <2>1, <2>2
<1>8. ASSUME NEW r \in Radios, Notify(r) PROVE InFifo' /\ \A x \in Radios : OnItsWay(x)'
  <2>1. /\ UNCHANGED dev /\ thread[r].at = "notify" /\ thread'[r].at \notin {"decode", "notify"}
        /\ \A x \in Radios : x # r => thread'[x] = thread[x]
    BY <1>1, <1>8 DEF Notify, Runs, Goto, ThreadStates
  <2>2. /\ past'.given[r] \in {past.given[r], thread[r].got.id}
        /\ \A x \in Radios : x # r => past'.given[x] = past.given[x]
    BY <1>1, <1>8 DEF Notify, Pasts
  <2> QED
    BY <1>1, <1>2, <2>1, <2>2
<1> QED
  BY <1>3, <1>4, <1>5, <1>6, <1>7, <1>8, QuietSteps DEF Next, CallStep

(* A chunk that a thread holds is its radio's or was captured before its
   stream began. *)
LEMMA OwnOrOldStep ==
  TypeOK /\ OneStream /\ ChunksOrdered /\ OwnOrOld /\ [Next]_vars => OwnOrOld'
<1> DEFINE Owns(x) == radio[x].active =>
                        /\ \A i \in 1..Len(dev.fifo) : Own(x, dev.fifo[i])
                        /\ Own(x, dev.temp)
                        /\ thread[x].at = "notify" => Own(x, thread[x].got)
<1> SUFFICES ASSUME TypeOK, OneStream, ChunksOrdered, OwnOrOld, [Next]_vars, NEW x \in Radios
             PROVE  Owns(x)'
  BY DEF OwnOrOld
<1>1. /\ thread \in [Radios -> ThreadStates] /\ past \in Pasts /\ dev \in Devices
      /\ dev.fifo \in Seq(Chunks)
  BY Typing DEF Devices
<1>2. Owns(x)
  BY DEF OwnOrOld
<1>3. ASSUME NEW p \in Processes, CallStep(p) PROVE Owns(x)'
  <2>1. /\ dev'.fifo = dev.fifo /\ dev'.temp = dev.temp /\ thread' = thread
        /\ \/ past'.mark[x] = past.mark[x] /\ (radio'[x].active => radio[x].active)
           \/ ~radio'[x].active
           \/ past'.mark[x] = dev.captured
    BY <1>3, CallHistory
  <2>2. CASE past'.mark[x] = dev.captured
    <3>1. dev.captured \in Nat /\ dev.temp.id \in Nat /\ thread[x].got.id \in Nat
      <4>1. MaxChunks \in Nat
        BY RxThreadAssumption
      <4>2. dev.captured \in Nat /\ dev.temp.id \in Nat
        BY <1>1, <4>1 DEF Devices, Chunks
      <4> QED
        BY <1>1, <4>1, <4>2 DEF ThreadStates, Chunks
    <3>2. /\ \A i \in 1..Len(dev.fifo) : dev.fifo[i].id <= dev.captured
          /\ dev.temp.id <= dev.captured
          /\ thread[x].at = "notify" => thread[x].got.id <= dev.temp.id
      BY DEF ChunksOrdered
    <3> QED
      BY <2>1, <2>2, <3>1, <3>2 DEF Own
  <2> QED
    BY <1>2, <2>1, <2>2 DEF Own
<1>4. CASE Quiet
  BY <1>2, <1>4 DEF Quiet, Own
<1>5. CASE Capture
  <2> DEFINE c == [id |-> dev.captured + 1, of |-> dev.stream]
             f == dev.fifo
  <2>1. /\ UNCHANGED <<radio, thread, past>> /\ dev'.temp = dev.temp
        /\ dev'.fifo \in {f, Append(f, c)}
    BY <1>1, <1>5 DEF Capture, Devices
  <2>2. c \in Chunks /\ c.of = dev.stream /\ dev.stream \in Radios
    BY <1>1, <1>5, RxThreadAssumption DEF Capture, Chunks, Devices
  <2>3. radio[x].active => Own(x, c)
    <3>1. dev.stream # x => x = Other(dev.stream)
      BY <2>2 DEF Radios, Other
    <3> QED
      BY <2>2, <3>1 DEF OneStream, Own
  <2>4. /\ Len(f) \in Nat /\ Len(Append(f, c)) = Len(f) + 1
        /\ \A i \in 1..Len(f) : Append(f, c)[i] = f[i]
        /\ Append(f, c)[Len(f) + 1] = c
    BY <1>1, <2>2, AppendProperties, LenProperties
  <2>5. \A i \in 1..Len(Append(f, c)) : i \in 1..Len(f) \/ i = Len(f) + 1
    BY <2>4
  <2>6. radio[x].active => \A i \in 1..Len(Append(f, c)) : Own(x, Append(f, c)[i])
    BY <1>2, <2>3, <2>4, <2>5
  <2> HIDE DEF c
  <2>7. radio[x].active => \A i \in 1..Len(dev'.fifo) : Own(x, dev'.fifo[i])
    BY <1>2, <2>1, <2>6
  <2> QED
    BY <1>2, <2>1, <2>7 DEF Own
<1>6. ASSUME NEW r \in Radios, Read(r) PROVE Owns(x)'
  <2> DEFINE f == dev.fifo
  <2>1. /\ f # <<>> /\ dev'.temp = Head(f) /\ dev'.fifo = Tail(f) /\ UNCHANGED <<radio, past>>
        /\ thread'[r].at = "decode"
        /\ \A y \in Radios : y # r => thread'[y] = thread[y]
    BY <1>1, <1>6 DEF Read, Goto, Devices, ThreadStates
  <2>2. /\ Len(f) \in Nat \ {0} /\ Head(f) = f[1] /\ Len(Tail(f)) = Len(f) - 1
        /\ \A i \in 1..(Len(f) - 1) : Tail(f)[i] = f[i + 1]
    BY <1>1, <2>1, HeadTailProperties, EmptySeq, LenProperties
  <2>3. \A i \in 1..Len(Tail(f)) : i + 1 \in 1..Len(f) /\ Tail(f)[i] = f[i + 1]
    BY <2>2
  <2>4. 1 \in 1..Len(f)
    BY <2>2
  <2>5. radio[x].active => Own(x, Head(f)) /\ \A i \in 1..Len(Tail(f)) : Own(x, Tail(f)[i])
    BY <1>2, <2>2, <2>3, <2>4
  <2> QED
    BY <1>2, <2>1, <2>5 DEF Own
<1>7. ASSUME NEW r \in Radios,
             \/ Check(r) \/ ReadEmpty(r) \/ Decode(r) \/ Notify(r)
             \/ CallbackStops(r) \/ CallbackReturns(r)
      PROVE  Owns(x)'
  <2>1. UNCHANGED <<radio, dev>> /\ past'.mark = past.mark
    BY <1>1, <1>7 DEF Check, ReadEmpty, Decode, Notify, CallbackStops, CallbackReturns, Pasts
  <2>2. /\ \A y \in Radios : y # r => thread'[y] = thread[y]
        /\ thread'[r].at # "notify" \/ thread'[r].got = dev.temp
    BY <1>1, <1>7 DEF Check, ReadEmpty, Decode, Notify, CallbackStops, CallbackReturns, Goto, ThreadStates
  <2> QED
    BY <1>2, <2>1, <2>2 DEF Own
<1> QED
  BY <1>3, <1>4, <1>5, <1>6, <1>7, QuietSteps DEF Next, CallStep

-----------------------------------------------------------------------------
(* The properties. *)

(* The initial states satisfy the invariant. *)
LEMMA InvInit == Init => IInv
<1> SUFFICES ASSUME Init PROVE IInv
  OBVIOUS
<1>1. \A p \in Processes : Len(todo[p]) = 0 /\ Left(p) = {}
  BY DEF Init, Left
<1>2. /\ \A r \in Radios : thread[r].at = "check" /\ ~radio[r].freed /\ past.late[r] = 0
      /\ \A r \in Radios : past.given[r] = 0 /\ past.mark[r] = 0
      /\ dev.stream = "idle" /\ ~dev.closed /\ Len(dev.fifo) = 0 /\ dev.temp.id = 0
      /\ dev.captured = 0 /\ past.signal = "none" /\ App \in Processes /\ Radios \subseteq Processes
      /\ \A r \in Radios : todo[r] = <<>>
  BY DEF Init, NoChunk, Processes
<1>3. CallsFormed
  BY <1>1, <1>2 DEF CallsFormed, WellFormed
<1>4. OneStream /\ ReaderOrBusy
  BY <1>1, <1>2 DEF OneStream, StopsFirst, ReaderOrBusy, Radios
<1>5. Joined
  BY <1>1, <1>2 DEF Joined
<1>6. Freed
  BY <1>1, <1>2 DEF Freed
<1>7. LateOnce /\ ChunksOrdered
  BY <1>2 DEF LateOnce, ChunksOrdered
<1>8. OwnOrOld
  BY <1>2 DEF OwnOrOld, Own, Init, NoChunk
<1> QED
  BY <1>3, <1>4, <1>5, <1>6, <1>7, <1>8, TypeInit DEF IInv

(* The invariant, of the initial states and of every step.                      *)
THEOREM Invariance == Spec => []IInv
<1>1. IInv /\ [Next]_vars => IInv'
  BY TypeStep, CallsStep, OneStreamStep, ReaderOrBusyStep, JoinedStep, FreedStep, LateOnceStep,
     ChunksOrderedStep, OwnOrOldStep DEF IInv
<1> QED
  BY <1>1, InvInit, PTL DEF Spec

(* A stream has a reader between calls, however a stop of a radio's callback      *)
(* falls into a start of the other radio by the application.                    *)
THEOREM StreamHasReaderHolds == Spec => []StreamHasReader
<1>1. IInv => StreamHasReader
  <2> SUFFICES ASSUME IInv, Up, AtRest, dev.stream \in Radios PROVE radio[dev.stream].active
    BY DEF StreamHasReader
  <2>1. \A p \in Processes : Left(p) = {}
    BY DEF AtRest, Left
  <2> QED
    BY <2>1 DEF IInv, ReaderOrBusy, Stopping, Processes
<1> QED
  BY <1>1, Invariance, PTL

(* No thread uses a radio or the driver after its end, unless the signal that    *)
(* ends the process arrived in a radio's thread.                               *)
THEOREM NoUseAfterFreeHolds == Spec => []NoUseAfterFree
<1>1. IInv => NoUseAfterFree
  <2> SUFFICES ASSUME IInv PROVE NoUseAfterFree
    OBVIOUS
  <2>1. \A r \in Radios : radio[r].freed \/ dev.closed => thread[r].at = "done"
    BY DEF IInv, Freed, Joined
  <2>2. ASSUME NEW p \in Processes, todo[p] # <<>>, Up, NEW o, o = Head(todo[p]),
               o.op \notin {"exit", "close", "locked"}, radio[o.of].freed
        PROVE  past.signal \in Radios
    <3>1. todo[p] \in Seq(Steps)
      BY Typing DEF IInv
    <3>2. o = todo[p][1] /\ Len(todo[p]) \in Nat \ {0}
      BY <2>2, <3>1, TailShape
    <3>3. o \in Left(p)
      BY <3>2 DEF Left
    <3> QED
      BY <2>2, <3>3 DEF IInv, Freed, Final
  <2> QED
    BY <2>1, <2>2 DEF NoUseAfterFree
<1> QED
  BY <1>1, Invariance, PTL

(* After its flag went down a radio is called back once more at the most.        *)
THEOREM OneMoreCallbackHolds == Spec => []OneMoreCallback
<1>1. IInv => OneMoreCallback
  <2> SUFFICES ASSUME IInv, NEW r \in Radios PROVE past.late[r] <= 1
    BY DEF OneMoreCallback
  <2>1. past.late[r] = 0 \/ past.late[r] = 1
    BY DEF IInv, LateOnce
  <2> QED
    BY <2>1
<1> QED
  BY <1>1, Invariance, PTL

(* Samples of the other radio that an active one is given were captured before   *)
(* it was started.                                                           *)
THEOREM ForeignIsOldHolds == Spec => []ForeignIsOld
<1>1. IInv => ForeignIsOld
  BY DEF IInv, OwnOrOld, Own, ForeignIsOld
<1> QED
  BY <1>1, Invariance, PTL

(* A radio's callbacks are given chunks of ever higher numbers, although both     *)
(* threads read into one buffer and decode it later.                           *)
THEOREM InOrderHolds == Spec => InOrder
<1> DEFINE Newer == \A r \in Radios :
             thread[r].at # "callback" /\ thread'[r].at = "callback" =>
               thread[r].got.id > past.given[r]
<1>1. IInv /\ [Next]_vars => Newer
  <2> SUFFICES ASSUME IInv, [Next]_vars, NEW r \in Radios,
                      thread[r].at # "callback", thread'[r].at = "callback"
               PROVE  thread[r].got.id > past.given[r]
    OBVIOUS
  <2>1. thread \in [Radios -> ThreadStates] /\ past \in Pasts /\ MaxChunks \in Nat
    BY Typing, RxThreadAssumption DEF IInv
  <2>2. ASSUME NEW x \in Radios, Check(x) \/ Read(x) \/ ReadEmpty(x) \/ Decode(x) \/ CallbackReturns(x)
        PROVE  FALSE
    BY <2>1, <2>2 DEF Check, Read, ReadEmpty, Decode, CallbackReturns, Goto, ThreadStates
  <2>3. ASSUME NEW x \in Radios, CallbackStops(x) PROVE FALSE
    BY <2>1, <2>3, StopEffects DEF IInv
  <2>4. ASSUME NEW x \in Radios, Notify(x) PROVE thread[r].at = "notify"
    BY <2>1, <2>4 DEF Notify, Runs, Goto, ThreadStates
  <2>5. thread[r].at = "notify"
    BY <2>2, <2>3, <2>4 DEF Next, vars, Call, Capture, Signal, WriteFlag, SetActive, Activate, Join,
       CloseDriver, Exit
  <2>6. past.given[r] < thread[r].got.id
    BY <2>5 DEF IInv, ChunksOrdered
  <2>7. past.given[r] \in Nat /\ thread[r].got.id \in Nat
    BY <2>1 DEF Pasts, ThreadStates, Chunks
  <2> QED
    BY <2>6, <2>7
<1> QED
  BY <1>1, Invariance, PTL DEF Spec, InOrder
==============================================================================
