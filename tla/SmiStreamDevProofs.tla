-------------------------- MODULE SmiStreamDevProofs -------------------------
(***************************************************************************)
(* Proofs about SmiStreamDev, for every set of callers and every value of   *)
(* the other constants.                                                     *)
(***************************************************************************)
EXTENDS SmiStreamDev, SequenceTheorems, TLAPS

-----------------------------------------------------------------------------
(* The types.                                                              *)

(* k units taken from rx_fifo leave a sequence of units that is no longer.    *)
LEMMA TakeType ==
  ASSUME rx \in Seq(Units), Len(rx) <= RxCap, last \in Units,
         NEW k \in 0..Len(rx), Take(k)
  PROVE  rx' \in Seq(Units) /\ Len(rx') <= RxCap /\ Len(rx') <= Len(rx) /\ last' \in Units
BY SmiAssumption DEF Take

(* A copied chunk is a sequence of Parts units. *)
LEMMA ChunkType ==
  ASSUME TypeOK, NEW k \in 0..Parts
  PROVE  /\ ChunkAt(cur % Periods, k) \in Seq(Units)
         /\ Len(ChunkAt(cur % Periods, k)) = Parts
<1> DEFINE i == cur % Periods
           u(p) == Unit(IF i = done % Periods /\ p <= k THEN captured ELSE slots[i], p)
<1>1. i \in 0..Periods-1
  BY SmiAssumption DEF TypeOK, TransferType
<1>2. \A p \in 1..Parts : u(p) \in Units
  BY <1>1, SmiAssumption DEF TypeOK, TransferType, Unit, Units
<1>3. Parts \in Nat
  BY SmiAssumption
<1>4. ChunkAt(i, k) = [p \in 1..Parts |-> u(p)]
  BY DEF ChunkAt
<1> HIDE DEF u, i
<1>5. [p \in 1..Parts |-> u(p)] \in Seq(Units) /\ Len([p \in 1..Parts |-> u(p)]) = Parts
  BY <1>2, <1>3
<1> QED
  BY <1>4, <1>5 DEF i

(* Types hold initially. *)
LEMMA InitType == Init => TypeOK
<1> SUFFICES ASSUME Init PROVE TypeOK
  OBVIOUS
<1>1. rx \in Seq(Units) /\ Len(rx) <= RxCap
  BY SmiAssumption DEF Init
<1>2. last \in Units
  BY SmiAssumption DEF Init, Units, Unit
<1>3. slots \in [0..Periods-1 -> Int]
  BY SmiAssumption DEF Init, NoChunk
<1>4. address \in [dir : {0, 1}, ch : {0, 1}]
  BY DEF Init, Address, RxStreams
<1>5. entry \in [Callers -> Streams \X (RxStreams \cup {"off"})]
  BY DEF Init, AtRest, Streams
<1>6. /\ want \in [Callers -> Streams] /\ ret \in [Callers -> SC!Returns]
      /\ pc \in [Callers -> {"user", "spin", "halted"}]
      /\ op \in [Callers -> {"open", "release", "ioctl"}]
  BY DEF Init, Streams, SC!Returns
<1>7. ControlType
  BY <1>4, <1>5, <1>6 DEF Init, ControlType
<1>8. TransferType
  BY <1>3 DEF Init, TransferType
<1>9. tx = 0 /\ wlock = NoOne /\ poller = "out" /\ event = "in"
  BY DEF Init
<1> QED
  BY <1>1, <1>2, <1>7, <1>8, <1>9, SmiAssumption DEF FileType, TypeOK

(* Every step keeps the types. *)
LEMMA StepType == TypeOK /\ [Next]_vars => TypeOK'
<1> SUFFICES ASSUME TypeOK, [Next]_vars PROVE TypeOK'
  OBVIOUS
<1> USE DEF TypeOK, ControlType, TransferType, FileType
<1>1. ASSUME NEW c \in Callers, NEW s \in Streams, Ioctl(c, s) PROVE TypeOK'
  BY <1>1 DEF Ioctl, Call, transfer
<1>2. ASSUME NEW c \in Callers, Open(c) PROVE TypeOK'
  <2>1. Len(rx) \in 0..Len(rx)
    OBVIOUS
  <2>2. rx' \in Seq(Units) /\ Len(rx') <= RxCap /\ last' \in Units
    BY <1>2, <2>1, TakeType DEF Open
  <2> QED
    BY <1>2, <2>2, SmiAssumption DEF Open, Call, transfer, Streams
<1>3. ASSUME NEW c \in Callers, Release(c) PROVE TypeOK'
  BY <1>3 DEF Release, Call, transfer, Streams
<1>4. ASSUME NEW c \in Callers, SetStateSame(c) PROVE TypeOK'
  BY <1>4 DEF SetStateSame, Return, transfer, AtRest, RxStreams, Streams, SC!Returns, SC!Success
<1>5. ASSUME NEW c \in Callers, SetStateBusy(c) PROVE TypeOK'
  BY <1>5, ZenonT(60) DEF SetStateBusy, SetStateEnter, TransferStop, Return, AtRest, RxStreams, Streams,
     SC!Returns, SC!Again
<1>6. ASSUME NEW c \in Callers, SetStateIdle(c) PROVE TypeOK'
  <2>0. /\ state' = "idle" /\ address' \in [dir : {0, 1}, ch : {0, 1}]
        /\ dmaOn' = FALSE /\ pend' = FALSE
        /\ UNCHANGED <<slots, done, cb, cur, captured, missed>>
        /\ UNCHANGED <<wlock, rx, tx, last, poller, event>>
    BY <1>6 DEF SetStateIdle, SetStateEnter, TransferStop, RxStreams, Address
  <2>1. CASE want[c] = "idle"
    <3>1. Return(c, SC!Success) /\ lock' = NoOne
      BY <1>6, <2>1 DEF SetStateIdle
    <3> QED
      BY <2>0, <3>1 DEF Return, AtRest, Streams, SC!Returns, SC!Success
  <2>2. CASE want[c] # "idle"
    <3>1. /\ pc' = [pc EXCEPT ![c] = "halted"] /\ lock' = c
          /\ entry' = [entry EXCEPT ![c] = <<state, Transfer>>]
          /\ UNCHANGED <<op, want, ret, file, bufs>>
      BY <1>6, <2>2 DEF SetStateIdle
    <3>2. state \in Streams /\ Transfer \in RxStreams \cup {"off"}
      BY DEF Streams, Transfer, RxStreams
    <3>3. entry' \in [Callers -> Streams \X (RxStreams \cup {"off"})]
      BY <3>1, <3>2
    <3> QED
      BY <2>0, <3>1, <3>3
  <2> QED
    BY <2>1, <2>2
<1>7. ASSUME NEW c \in Callers, StartRx(c) PROVE TypeOK'
  BY <1>7 DEF StartRx, NewSession, Return, AtRest, RxStreams, Streams, SC!Returns, SC!Success,
     Address
<1>8. ASSUME NEW c \in Callers, StartRxFails(c) PROVE TypeOK'
  BY <1>8 DEF StartRxFails, NewSession, Return, AtRest, RxStreams, Streams, SC!Returns,
     SC!Failed, Address
<1>9. ASSUME NEW c \in Callers, StartTx(c) PROVE TypeOK'
  BY <1>9, SmiAssumption DEF StartTx, Return, WakePoller, transfer, AtRest, RxStreams, Streams,
     SC!Returns, SC!Success, Address
<1>10. ASSUME NEW c \in Callers, StartTxInterrupted(c) PROVE TypeOK'
  BY <1>10 DEF StartTxInterrupted, Return, transfer, AtRest, RxStreams, Streams, SC!Returns,
     SC!Intr, Address
<1>11. ASSUME Capture PROVE TypeOK'
  BY <1>11, SmiAssumption DEF Capture, control
<1>12. ASSUME CallbackCopy PROVE TypeOK'
  <2>1. rx' \in Seq(Units) /\ Len(rx') <= RxCap
    <3>1. CASE ChunkFits
      <4>1. PICK k \in 0..Parts : rx' = rx \o ChunkAt(cur % Periods, k)
        BY <1>12, <3>1 DEF CallbackCopy
      <4> HIDE DEF TypeOK
      <4>2. /\ ChunkAt(cur % Periods, k) \in Seq(Units)
            /\ Len(ChunkAt(cur % Periods, k)) = Parts
        BY ChunkType
      <4> USE DEF TypeOK
      <4> QED
        BY <3>1, <4>1, <4>2, SmiAssumption DEF ChunkFits
    <3>2. CASE ~ChunkFits
      BY <1>12, <3>2 DEF CallbackCopy
    <3> QED
      BY <3>1, <3>2
  <2>2. missed' \in Nat
    <3>1. CASE ChunkFits
      BY <1>12, <3>1 DEF CallbackCopy
    <3>2. CASE ~ChunkFits
      BY <1>12, <3>2 DEF CallbackCopy
    <3> QED
      BY <3>1, <3>2
  <2>3. /\ pend' = FALSE /\ cb' = "copied"
        /\ UNCHANGED <<control, wlock, dmaOn, slots, done, cur, captured, tx, last, poller, event>>
    BY <1>12 DEF CallbackCopy
  <2>4. ControlType'
    BY <2>3 DEF control
  <2>5. TransferType'
    BY <2>2, <2>3
  <2>6. FileType'
    BY <2>1, <2>3
  <2> QED
    BY <2>4, <2>5, <2>6
<1>13. ASSUME CallbackWake PROVE TypeOK'
  BY <1>13 DEF CallbackWake, WakePoller, control
<1>14. ASSUME NEW n \in 1..RxCap, Read(n) PROVE TypeOK'
  <2>1. Least(n, Len(rx)) \in 0..Len(rx)
    BY SmiAssumption DEF Least
  <2>2. rx' \in Seq(Units) /\ Len(rx') <= RxCap /\ last' \in Units
    BY <1>14, <2>1, TakeType DEF Read
  <2> QED
    BY <1>14, <2>2 DEF Read, control, transfer
<1>15. ASSUME Flush PROVE TypeOK'
  <2>1. Len(rx) \in 0..Len(rx)
    OBVIOUS
  <2>2. rx' \in Seq(Units) /\ Len(rx') <= RxCap /\ last' \in Units
    BY <1>15, <2>1, TakeType DEF Flush
  <2> QED
    BY <1>15, <2>2 DEF Flush, control, transfer
<1>16. ASSUME WriteLock PROVE TypeOK'
  BY <1>16 DEF WriteLock, control, transfer
<1>17. ASSUME NEW n \in 1..TxCap, WriteCopy(n) PROVE TypeOK'
  BY <1>17, SmiAssumption DEF WriteCopy, Least, control, transfer
<1>18. ASSUME NEW e \in {"in", "out"}, PollEnter(e) PROVE TypeOK'
  BY <1>18 DEF PollEnter, control, transfer
<1>19. ASSUME PollCheck \/ PollTimeout PROVE TypeOK'
  BY <1>19 DEF PollCheck, PollTimeout, PollLeave, control, transfer
<1>20. ASSUME UNCHANGED vars PROVE TypeOK'
  BY <1>20 DEF vars, control, transfer
<1> QED
  BY <1>1, <1>2, <1>3, <1>4, <1>5, <1>6, <1>7, <1>8, <1>9, <1>10, <1>11, <1>12, <1>13, <1>14,
     <1>15, <1>16, <1>17, <1>18, <1>19, <1>20 DEF Next, SetState

(* The driver's state keeps its types, and its fifos their capacities. *)
THEOREM TypeCorrect == Spec => []TypeOK
BY InitType, StepType, PTL DEF Spec

-----------------------------------------------------------------------------
(* The control of streams. *)

(* The initial states satisfy the invariant. *)
LEMMA InitIInv == Init => IInv
<1> SUFFICES ASSUME Init PROVE IInv
  OBVIOUS
<1>1. TypeOK
  BY InitType
<1>2. /\ file = "closed" /\ bufs = FALSE /\ lock = NoOne /\ dmaOn = FALSE /\ pend = FALSE
      /\ poller = "out" /\ pc = [c \in Callers |-> "user"]
  BY DEF Init
<1> QED
  BY <1>1, <1>2 DEF IInv, HaltedAlone, CallOnFile, LockHeldOrLeaked, DmaOnlyInLiveStream,
     NoLostWakeup

(* The parts of the invariant that speak of calls, of the file and of the      *)
(* transfer, under one step each.  A step that leaves control and the transfer's *)
(* switch alone keeps them.                                                    *)
ControlInv ==
  HaltedAlone /\ CallOnFile /\ LockHeldOrLeaked /\ DmaOnlyInLiveStream /\ (pend => dmaOn)

(* Every step keeps what calls, locks, file and transfer know of each other. *)
LEMMA StepControl ==
  ASSUME TypeOK, ControlInv, [Next]_vars PROVE ControlInv'
<1> USE DEF ControlInv, HaltedAlone, CallOnFile, LockHeldOrLeaked, DmaOnlyInLiveStream
<1>t. ControlType /\ pend \in BOOLEAN /\ dmaOn \in BOOLEAN
  BY DEF TypeOK, TransferType
<1>1. ASSUME NEW c \in Callers, NEW s \in Streams, Ioctl(c, s) PROVE ControlInv'
  BY <1>1, <1>t DEF Ioctl, Call, transfer, ControlType
<1>2. ASSUME NEW c \in Callers, Open(c) PROVE ControlInv'
  BY <1>2, <1>t DEF Open, Call, transfer, ControlType
<1>3. ASSUME NEW c \in Callers, Release(c) PROVE ControlInv'
  <2>1. /\ file = "open" /\ file' = "closing" /\ \A d \in Callers : pc[d] = "user"
        /\ pc' = [pc EXCEPT ![c] = "spin"] /\ op' = [op EXCEPT ![c] = "release"]
        /\ want' = [want EXCEPT ![c] = "idle"]
        /\ UNCHANGED <<bufs, state, address, lock, ret, entry, dmaOn, pend>>
    BY <1>3 DEF Release, Call, transfer
  <2>2. HaltedAlone' /\ LockHeldOrLeaked'
    BY <2>1, <1>t DEF ControlType
  <2>3. CallOnFile'
    BY <2>1, <1>t DEF ControlType
  <2>4. DmaOnlyInLiveStream' /\ (pend => dmaOn)'
    BY <2>1
  <2> QED
    BY <2>2, <2>3, <2>4
<1>4. ASSUME NEW c \in Callers, SetStateSame(c) PROVE ControlInv'
  <2>1. /\ pc[c] = "spin" /\ lock = NoOne /\ want[c] = state
        /\ Return(c, SC!Success)
        /\ UNCHANGED <<state, address, lock, dmaOn, pend>>
    BY <1>4 DEF SetStateSame, transfer, LockFree
  <2>2. HaltedAlone' /\ LockHeldOrLeaked'
    BY <2>1, <1>t, SmiAssumption DEF Return, ControlType
  <2>3. CallOnFile'
    BY <2>1, <1>t, ZenonT(60) DEF Return, ControlType
  <2>4. op[c] = "release" => ~dmaOn
    BY <2>1 DEF RxStreams
  <2>5. DmaOnlyInLiveStream' /\ (pend => dmaOn)'
    BY <2>1, <2>4, <1>t DEF Return, ControlType
  <2> QED
    BY <2>2, <2>3, <2>5
<1>5. ASSUME NEW c \in Callers, SetStateBusy(c) PROVE ControlInv'
  BY <1>5, <1>t, SmiAssumption, ZenonT(60) DEF SetStateBusy, SetStateEnter, TransferStop, Return, ControlType,
     LockFree
<1>6. ASSUME NEW c \in Callers, SetStateIdle(c) PROVE ControlInv'
  <2>0. /\ pc[c] = "spin" /\ lock = NoOne /\ want[c] # state
        /\ state' = "idle" /\ dmaOn' = FALSE /\ pend' = FALSE
    BY <1>6 DEF SetStateIdle, SetStateEnter, TransferStop, LockFree
  <2>1. CASE want[c] = "idle"
    <3>1. Return(c, SC!Success) /\ lock' = NoOne
      BY <1>6, <2>1 DEF SetStateIdle
    <3> QED
      BY <2>0, <3>1, <1>t, SmiAssumption, ZenonT(60) DEF Return, ControlType
  <2>2. CASE want[c] # "idle"
    <3>1. /\ pc' = [pc EXCEPT ![c] = "halted"] /\ lock' = c
          /\ entry' = [entry EXCEPT ![c] = <<state, Transfer>>]
          /\ UNCHANGED <<op, want, ret, file, bufs>>
      BY <1>6, <2>2 DEF SetStateIdle
    <3> QED
      BY <2>0, <2>2, <3>1, <1>t, SmiAssumption DEF ControlType
  <2> QED
    BY <2>1, <2>2
<1>7. ASSUME NEW c \in Callers, StartRx(c) PROVE ControlInv'
  BY <1>7, <1>t, SmiAssumption, ZenonT(60) DEF StartRx, Return, ControlType, RxStreams
<1>8. ASSUME NEW c \in Callers, StartRxFails(c) PROVE ControlInv'
  BY <1>8, <1>t, SmiAssumption DEF StartRxFails, Return, ControlType
<1>9. ASSUME NEW c \in Callers, StartTx(c) PROVE ControlInv'
  BY <1>9, <1>t, SmiAssumption, ZenonT(60) DEF StartTx, Return, ControlType, transfer
<1>10. ASSUME NEW c \in Callers, StartTxInterrupted(c) PROVE ControlInv'
  BY <1>10, <1>t, SmiAssumption, ZenonT(60) DEF StartTxInterrupted, Return, ControlType, transfer
<1>11. ASSUME UNCHANGED <<control, dmaOn>>, pend' => dmaOn PROVE ControlInv'
  BY <1>11, <1>t DEF control
<1>12. ASSUME Capture \/ CallbackCopy \/ CallbackWake PROVE ControlInv'
  <2>1. UNCHANGED <<control, dmaOn>> /\ (pend' => dmaOn)
    BY <1>12 DEF Capture, CallbackCopy, CallbackWake
  <2> QED
    BY <2>1, <1>11
<1>13. ASSUME \/ \E n \in 1..RxCap : Read(n)
              \/ Flush \/ WriteLock
              \/ \E n \in 1..TxCap : WriteCopy(n)
              \/ \E e \in {"in", "out"} : PollEnter(e)
              \/ PollCheck \/ PollTimeout
              \/ UNCHANGED vars
       PROVE ControlInv'
  <2>1. UNCHANGED <<control, transfer>>
    BY <1>13 DEF Read, Flush, WriteLock, WriteCopy, PollEnter, PollCheck, PollTimeout, PollLeave, vars
  <2> QED
    BY <2>1, <1>11 DEF transfer
<1> QED
  BY <1>1, <1>2, <1>3, <1>4, <1>5, <1>6, <1>7, <1>8, <1>9, <1>10, <1>12, <1>13 DEF Next, SetState

(* A sleeping poller is woken by the second half of the callback. *)
LEMMA StepWakeup ==
  ASSUME TypeOK, NoLostWakeup, [Next]_vars PROVE NoLostWakeup'
<1> USE DEF NoLostWakeup
<1>t. FileType /\ cb \in {"idle", "copied"}
  BY DEF TypeOK, TransferType
<1>1. ASSUME UNCHANGED <<poller, event, cb>>, rx' = rx \/ rx' = <<>> PROVE NoLostWakeup'
  BY <1>1
<1>2. ASSUME poller' # "asleep" PROVE NoLostWakeup'
  BY <1>2
<1>3. ASSUME NEW c \in Callers, StartTx(c) PROVE NoLostWakeup'
  <2>1. poller' # "asleep"
    BY <1>3, <1>t DEF StartTx, WakePoller, FileType
  <2> QED
    BY <2>1
<1>4. ASSUME NEW c \in Callers,
             \/ \E s \in Streams : Ioctl(c, s)
             \/ Release(c) \/ SetStateSame(c) \/ SetStateBusy(c) \/ SetStateIdle(c)
             \/ StartRx(c) \/ StartRxFails(c) \/ StartTxInterrupted(c)
       PROVE NoLostWakeup'
  <2>1. UNCHANGED <<poller, event, cb, rx>>
    BY <1>4 DEF Ioctl, Release, SetStateSame, SetStateBusy, SetStateIdle, SetStateEnter,
       TransferStop, StartRx, StartRxFails, StartTxInterrupted, transfer
  <2> QED
    BY <2>1, <1>1
<1>5. ASSUME Flush \/ \E c \in Callers : Open(c) PROVE NoLostWakeup'
  <2>1. UNCHANGED <<poller, event, cb>> /\ Take(Len(rx))
    BY <1>5 DEF Flush, Open, transfer
  <2>2. rx' = <<>>
    BY <2>1, <1>t DEF Take, FileType
  <2> QED
    BY <2>1, <2>2, <1>1
<1>6. ASSUME NEW n \in 1..RxCap, Read(n) PROVE NoLostWakeup'
  BY <1>6 DEF Read, transfer
<1>7. ASSUME Capture \/ WriteLock \/ \E n \in 1..TxCap : WriteCopy(n) PROVE NoLostWakeup'
  <2>1. UNCHANGED <<poller, event, cb, rx>>
    BY <1>7 DEF Capture, WriteLock, WriteCopy, transfer
  <2> QED
    BY <2>1, <1>1
<1>8. ASSUME CallbackCopy PROVE NoLostWakeup'
  BY <1>8 DEF CallbackCopy
<1>9. ASSUME CallbackWake PROVE NoLostWakeup'
  <2>1. poller' # "asleep"
    BY <1>9, <1>t DEF CallbackWake, WakePoller, FileType
  <2> QED
    BY <2>1
<1>10. ASSUME PollTimeout \/ \E e \in {"in", "out"} : PollEnter(e) PROVE NoLostWakeup'
  BY <1>10 DEF PollTimeout, PollLeave, PollEnter
<1>11. ASSUME PollCheck PROVE NoLostWakeup'
  BY <1>11 DEF PollCheck, PollLeave, PollMask
<1>12. ASSUME UNCHANGED vars PROVE NoLostWakeup'
  BY <1>12 DEF vars, transfer
<1> QED
  BY <1>3, <1>4, <1>5, <1>6, <1>7, <1>8, <1>9, <1>10, <1>11, <1>12 DEF Next, SetState

(* The inductive invariant of the driver holds. *)
THEOREM Invariance == Spec => []IInv
<1>1. IInv /\ [Next]_vars => IInv'
  BY StepType, StepControl, StepWakeup DEF IInv, ControlInv
<1> QED
  BY InitIInv, <1>1, PTL DEF Spec

(* The DMA engine runs only for the recorded stream, with the lines set for it. *)
THEOREM DmaSafe == Spec => []DmaOnlyInLiveStream
BY Invariance, PTL DEF IInv

(* state_lock is held inside set_state, or was leaked by an interrupted call.   *)
THEOREM LockSafe == Spec => []LockHeldOrLeaked
BY Invariance, PTL DEF IInv

(* No wake-up of a thread that polls for input is lost. *)
THEOREM WakeupSafe == Spec => []NoLostWakeup
BY Invariance, PTL DEF IInv
-----------------------------------------------------------------------------
(* What a step may do.                                                      *)

(* A sequence that grows is not shortened or left alone. *)
LEMMA NothingCopied ==
  ASSUME TypeOK, [Next]_vars, Len(rx') > Len(rx) PROVE CallbackCopy
<1>t. rx \in Seq(Units) /\ Len(rx) <= RxCap /\ last \in Units /\ Len(rx) \in Nat
  BY DEF TypeOK, FileType
<1>1. rx' # rx
  BY <1>t
<1>2. ~Flush /\ ~(\E c \in Callers : Open(c))
  <2>1. ASSUME Take(Len(rx)) PROVE FALSE
    BY <2>1, <1>t DEF Take
  <2> QED
    BY <2>1 DEF Flush, Open
<1>3. ~(\E n \in 1..RxCap : Read(n))
  <2>1. ASSUME NEW n \in 1..RxCap, Read(n) PROVE FALSE
    <3>1. Least(n, Len(rx)) \in 0..Len(rx)
      BY <1>t, SmiAssumption DEF Least
    <3>2. Len(rx') <= Len(rx)
      BY <2>1, <3>1, <1>t, TakeType DEF Read
    <3>3. Len(rx') \in Nat
      BY <2>1, <3>1, <1>t, TakeType DEF Read
    <3> QED
      BY <3>2, <3>3, <1>t
  <2> QED
    BY <2>1
<1> QED
  BY <1>1, <1>2, <1>3 DEF Next, SetState, vars, Ioctl, Release, SetStateSame, SetStateBusy,
     SetStateIdle, SetStateEnter, StartRx, StartRxFails, StartTx, StartTxInterrupted, Capture,
     CallbackWake, WriteLock, WriteCopy, PollEnter, PollCheck, PollTimeout, PollLeave

(* The callback fills rx_fifo only while a transfer runs and the buffer exists. *)
THEOREM NoCopyAfterStopHolds == Spec => NoCopyAfterStop
<1>1. IInv /\ [Next]_vars => [Len(rx') > Len(rx) => dmaOn /\ bufs]_vars
  <2> SUFFICES ASSUME IInv, [Next]_vars, Len(rx') > Len(rx) PROVE dmaOn /\ bufs
    OBVIOUS
  <2>1. CallbackCopy
    BY NothingCopied DEF IInv
  <2> QED
    BY <2>1 DEF IInv, CallbackCopy, DmaOnlyInLiveStream
<1> QED
  BY Invariance, <1>1, PTL DEF Spec, NoCopyAfterStop

(* The lines of a running transfer select the recorded stream. *)
LEMMA TransferIsState ==
  ASSUME IInv, IInv'
  PROVE  /\ Transfer = IF dmaOn THEN state ELSE "off"
         /\ Transfer' = IF dmaOn' THEN state' ELSE "off"
BY DEF IInv, DmaOnlyInLiveStream, Transfer, Address, RxStreams

(* What a step does to the recorded stream and the transfer: nothing, a stop,   *)
(* or a start from rest.                                                       *)
LEMMA StreamSteps ==
  ASSUME IInv, IInv', [Next]_vars
  PROVE  \/ UNCHANGED <<state, Transfer>>
         \/ state' \in {state, "idle"} /\ Transfer' = "off"
         \/ state = "idle" /\ Transfer = "off" /\ state' \in RxStreams /\ Transfer' = state'
<1>t. /\ Transfer = IF dmaOn THEN state ELSE "off"
      /\ Transfer' = IF dmaOn' THEN state' ELSE "off"
  BY TransferIsState
<1>1. ASSUME UNCHANGED <<state, address, dmaOn>> PROVE UNCHANGED <<state, Transfer>>
  BY <1>1 DEF Transfer
<1>2. ASSUME NEW c \in Callers, SetStateBusy(c) \/ SetStateIdle(c)
      PROVE state' \in {state, "idle"} /\ Transfer' = "off"
  BY <1>2, <1>t DEF SetStateBusy, SetStateIdle, SetStateEnter, TransferStop
<1>3. ASSUME NEW c \in Callers, StartRx(c)
      PROVE state = "idle" /\ Transfer = "off" /\ state' \in RxStreams /\ Transfer' = state'
  BY <1>3, <1>t DEF StartRx, IInv, HaltedAlone
<1>4. ASSUME NEW c \in Callers, StartRxFails(c) \/ StartTx(c) \/ StartTxInterrupted(c)
      PROVE state' \in {state, "idle"} /\ Transfer' = "off"
  BY <1>4, <1>t DEF StartRxFails, StartTx, StartTxInterrupted, transfer, IInv, HaltedAlone
<1> QED
  BY <1>1, <1>2, <1>3, <1>4 DEF Next, SetState, vars, control, transfer, Ioctl, Open, Release,
     SetStateSame, Capture, CallbackCopy, CallbackWake, Read, Flush, WriteLock, WriteCopy,
     PollEnter, PollCheck, PollTimeout, PollLeave

(* The driver implements the control of streams. *)
THEOREM Refinement == Spec => ImplementsStreamControl
<1>1. Init => SC!Init
  BY DEF Init, SC!Init, Transfer
<1>2. IInv /\ IInv' /\ [Next]_vars => [SC!Next]_<<state, Transfer>>
  <2> SUFFICES ASSUME IInv, IInv', [Next]_vars PROVE [SC!Next]_<<state, Transfer>>
    OBVIOUS
  <2> QED
    BY StreamSteps DEF SC!Next, SC!Halt, SC!Start, SC!RxStreams, RxStreams
<1> QED
  BY Invariance, <1>1, <1>2, PTL DEF Spec, ImplementsStreamControl, SC!Spec

-----------------------------------------------------------------------------
(* A call of set_state is indivisible. *)

(* The call c returns with a result that the call had from the state it found. *)
Atomic(c) ==
  LET e == IF pc[c] = "spin" THEN <<state, Transfer>> ELSE entry[c] IN
    SC!Result(state', Transfer', ret'[c]) \in SC!SetStateResults(e[1], e[2], want[c])

(* A call that returns has one of the outcomes of an indivisible call. *)
LEMMA ReturnsAtomic ==
  ASSUME IInv, IInv', [Next]_vars, NEW c \in Callers, pc[c] # "user", pc'[c] = "user"
  PROVE  Atomic(c)
<1>t. /\ Transfer = IF dmaOn THEN state ELSE "off"
      /\ Transfer' = IF dmaOn' THEN state' ELSE "off"
  BY TransferIsState
<1>c. ControlType
  BY DEF IInv, TypeOK
<1> USE DEF Atomic, SC!SetStateResults, SC!Result
<1>1. SetState(c)
  <2>1. ASSUME NEW d \in Callers, d # c, SetState(d) PROVE pc'[c] = pc[c]
    BY <2>1, <1>c DEF SetState, SetStateSame, SetStateBusy, SetStateIdle, StartRx,
       StartRxFails, StartTx, StartTxInterrupted, Return, ControlType
  <2>2. ASSUME NEW d \in Callers, Open(d) \/ Release(d) \/ \E s \in Streams : Ioctl(d, s)
        PROVE pc'[c] = pc[c] \/ pc'[c] = "spin"
    BY <2>2, <1>c DEF Open, Release, Ioctl, Call, ControlType
  <2> QED
    BY <2>1, <2>2 DEF Next, vars, control, Capture, CallbackCopy, CallbackWake, Read, Flush,
       WriteLock, WriteCopy, PollEnter, PollCheck, PollTimeout, PollLeave
<1>2. CASE SetStateSame(c)
  <2>1. /\ pc[c] = "spin" /\ want[c] = state /\ UNCHANGED <<state, address, dmaOn>>
        /\ ret'[c] = SC!Success
    BY <1>2, <1>c DEF SetStateSame, Return, transfer, ControlType
  <2>2. Transfer' = Transfer
    BY <2>1 DEF Transfer
  <2> QED
    BY <2>1, <2>2
<1>3. CASE SetStateBusy(c)
  <2>1. /\ pc[c] = "spin" /\ want[c] # state /\ state' = state /\ dmaOn' = FALSE
        /\ ret'[c] = SC!Again
    BY <1>3, <1>c DEF SetStateBusy, SetStateEnter, TransferStop, Return, ControlType
  <2> QED
    BY <2>1, <1>t
<1>4. CASE SetStateIdle(c)
  <2>1. want[c] = "idle"
    BY <1>4, <1>c DEF SetStateIdle, ControlType
  <2>2. /\ pc[c] = "spin" /\ want[c] # state /\ state' = "idle" /\ dmaOn' = FALSE
        /\ ret'[c] = SC!Success
    BY <1>4, <1>c, <2>1 DEF SetStateIdle, SetStateEnter, TransferStop, Return, ControlType
  <2> QED
    BY <2>1, <2>2, <1>t
<1>5. ASSUME pc[c] = "halted"
      PROVE  entry[c][1] # want[c] /\ state = "idle" /\ dmaOn = FALSE
  BY <1>5 DEF IInv, HaltedAlone, TypeOK, TransferType
<1>6. CASE StartRx(c)
  <2>1. /\ pc[c] = "halted" /\ want[c] \in RxStreams /\ state' = want[c] /\ dmaOn' = TRUE
        /\ ret'[c] = SC!Success
    BY <1>6, <1>c DEF StartRx, Return, ControlType
  <2> QED
    BY <2>1, <1>5, <1>t DEF RxStreams
<1>7. CASE StartRxFails(c)
  <2>1. /\ pc[c] = "halted" /\ want[c] \in RxStreams /\ state' = "idle" /\ dmaOn' = dmaOn
        /\ ret'[c] = SC!Failed
    BY <1>7, <1>c DEF StartRxFails, Return, ControlType
  <2> QED
    BY <2>1, <1>5, <1>t DEF RxStreams
<1>8. CASE StartTx(c) \/ StartTxInterrupted(c)
  <2>1. /\ pc[c] = "halted" /\ want[c] = "tx" /\ UNCHANGED <<state, dmaOn>>
        /\ ret'[c] \in {SC!Success, SC!Intr}
    BY <1>8, <1>c DEF StartTx, StartTxInterrupted, Return, ControlType, transfer
  <2> QED
    BY <2>1, <1>5, <1>t
<1> QED
  BY <1>1, <1>2, <1>3, <1>4, <1>6, <1>7, <1>8 DEF SetState

(* Interleaved calls behave as if each were one step. *)
THEOREM SetStateAtomicHolds == Spec => SetStateAtomic
<1>1. IInv /\ IInv' /\ [Next]_vars =>
        [\A c \in Callers : pc[c] # "user" /\ pc'[c] = "user" => Atomic(c)]_vars
  BY ReturnsAtomic
<1> QED
  BY Invariance, <1>1, PTL DEF Spec, SetStateAtomic, Atomic

-----------------------------------------------------------------------------
(* The order of the samples, as long as the callback is less than a lap of the *)
(* bounce buffer behind the DMA engine.                                     *)

(* The last unit copied, whether it was read or not. *)
Newest == IF rx = <<>> THEN last ELSE rx[Len(rx)]

Slot(n) == slots[n % Periods]

(* The periods before this one have been copied or missed. *)
Handled == IF cb = "copied" THEN cur + 1 ELSE cur

(* DeliveredInOrder, from one unit to the next. *)
Chained ==
  /\ rx # <<>> => Follows(last, rx[1])
  /\ \A i \in 1..Len(rx)-1 : Follows(rx[i], rx[i+1])

(* What has been copied ends with a chunk, and nothing newer was captured.     *)
ChunkEnds == Newest.part = Parts /\ Newest.id < captured /\ (~dmaOn => cb = "idle")

(* The bounce buffer holds what is to be handled, in the order of capture, and   *)
(* all of it is newer than what was copied.                                   *)
SlotsNewer ==
  dmaOn =>
    /\ Handled <= done /\ (pend => Handled < done) /\ done - cur <= MaxLag + 1
    /\ \A n \in Handled..(done - 1) : Newest.id < Slot(n) /\ Slot(n) < captured
    /\ \A m, n \in Handled..(done - 1) : m < n => Slot(m) < Slot(n)

OrderInv == Chained /\ ChunkEnds /\ SlotsNewer

(* A period's place in the bounce buffer. *)
LEMMA SlotIndex == \A n \in Nat : n % Periods \in 0..(Periods - 1)
BY SmiAssumption

(* Periods less than a lap apart have different places. *)
LEMMA DifferentSlots ==
  ASSUME NEW m \in Nat, NEW n \in Nat, m < n, n - m < Periods
  PROVE  m % Periods # n % Periods
<1>1. PICK P \in Nat : P = Periods /\ P > 0
  BY SmiAssumption
<1>2. PICK a \in Nat, r \in 0..(P - 1) : m = P * a + r /\ r = m % P
  <2>1. m = P * (m \div P) + (m % P) /\ m \div P \in Nat /\ m % P \in 0..(P - 1)
    BY <1>1
  <2> QED
    BY <2>1
<1>3. PICK b \in Nat, s \in 0..(P - 1) : n = P * b + s /\ s = n % P
  <2>1. n = P * (n \div P) + (n % P) /\ n \div P \in Nat /\ n % P \in 0..(P - 1)
    BY <1>1
  <2> QED
    BY <2>1
<1>4. ASSUME r = s PROVE FALSE
  <2>1. n - m = P * (b - a)
    BY <1>1, <1>2, <1>3, <1>4
  <2>2. CASE b - a <= 0
    <3>1. P * (b - a) <= 0
      BY <1>1, <2>2
    <3> QED
      BY <2>1, <3>1
  <2>3. CASE b - a >= 1
    <3>1. P * (b - a) >= P
      BY <1>1, <2>3
    <3> QED
      BY <1>1, <2>1, <3>1
  <2> QED
    BY <2>2, <2>3
<1> QED
  BY <1>1, <1>2, <1>3, <1>4

(* The two forms of the property are the same. *)
LEMMA ChainedIsDelivered == TypeOK /\ Chained => DeliveredInOrder
<1> SUFFICES ASSUME TypeOK, Chained,
                    NEW s, s = <<last>> \o rx, NEW i \in 1..Len(s)-1
             PROVE  Follows(s[i], s[i+1])
  BY DEF DeliveredInOrder
<1>1. rx \in Seq(Units) /\ last \in Units
  BY DEF TypeOK, FileType
<1>2. <<last>> \in Seq(Units) /\ Len(<<last>>) = 1 /\ <<last>>[1] = last
  BY <1>1
<1>3. /\ Len(s) = 1 + Len(rx) /\ Len(rx) \in Nat
      /\ \A j \in 1..(1 + Len(rx)) : s[j] = IF j <= 1 THEN <<last>>[j] ELSE rx[j - 1]
  BY <1>1, <1>2, ConcatProperties
<1>4. CASE i = 1
  <2>1. s[1] = last /\ s[2] = rx[1] /\ rx # <<>>
    BY <1>2, <1>3, <1>4
  <2> QED
    BY <1>4, <2>1 DEF Chained
<1>5. CASE i > 1
  <2>1. PICK j \in 1..(Len(rx) - 1) : j = i - 1
    BY <1>3, <1>5
  <2>2. s[i] = rx[j] /\ s[i+1] = rx[j+1]
    BY <1>3, <1>5, <2>1
  <2> QED
    BY <2>2 DEF Chained
<1> QED
  BY <1>3, <1>4, <1>5

(* What leaves rx_fifo leaves it in order. *)
LEMMA TakeKeeps ==
  ASSUME rx \in Seq(Units), Chained, NEW k \in 0..Len(rx), Take(k)
  PROVE  Chained' /\ Newest' = Newest
<1>1. CASE k = 0
  <2>1. rx' = rx /\ last' = last
    BY <1>1, SubSeqFull DEF Take
  <2> QED
    BY <2>1 DEF Chained, Newest
<1>2. CASE k = Len(rx) /\ k > 0
  <2>1. SubSeq(rx, Len(rx) + 1, Len(rx)) = <<>>
    BY SubSeqEmpty
  <2>2. rx' = <<>> /\ last' = rx[Len(rx)]
    BY <1>2, <2>1 DEF Take
  <2>3. rx # <<>>
    BY <1>2
  <2> QED
    BY <2>2, <2>3 DEF Chained, Newest
<1>3. CASE k > 0 /\ k < Len(rx)
  <2>1. PICK l \in Nat : l = Len(rx)
    OBVIOUS
  <2>2. \A i \in (k + 1)..l : rx[i] \in Units
    BY <2>1
  <2>3. /\ Len(rx') = l - k /\ rx' \in Seq(Units)
        /\ \A i \in 1..(l - (k + 1) + 1) : rx'[i] = rx[k + 1 + i - 1]
    BY <1>3, <2>1, <2>2, SubSeqProperties DEF Take
  <2>4. \A i \in 1..(l - k) : rx'[i] = rx[k + i]
    BY <1>3, <2>1, <2>3
  <2>5. last' = rx[k] /\ rx # <<>> /\ rx' # <<>>
    <3>1. last' = rx[k]
      BY <1>3 DEF Take
    <3>2. Len(rx) > 0 /\ Len(rx') > 0
      BY <1>3, <2>1, <2>3
    <3> QED
      BY <3>1, <3>2
  <2>6. Newest' = Newest
    BY <1>3, <2>1, <2>3, <2>4, <2>5 DEF Newest
  <2>7. \A i \in 1..(l - 1) : Follows(rx[i], rx[i+1])
    BY <2>1 DEF Chained
  <2>8. Follows(last', rx'[1])
    BY <1>3, <2>1, <2>4, <2>5, <2>7
  <2>9. ASSUME NEW i \in 1..(Len(rx') - 1) PROVE Follows(rx'[i], rx'[i+1])
    <3>1. rx'[i] = rx[k+i] /\ rx'[i+1] = rx[k+i+1] /\ k + i \in 1..(l - 1)
      BY <1>3, <2>1, <2>3, <2>4
    <3> QED
      BY <2>7, <3>1
  <2> QED
    BY <2>6, <2>8, <2>9 DEF Chained
<1> QED
  BY <1>1, <1>2, <1>3

(* A whole newer chunk behind what was copied keeps the order. *)
LEMMA ChunkKeeps ==
  ASSUME rx \in Seq(Units), last \in Units, Chained, Newest.part = Parts,
         NEW id \in Int, Newest.id < id, NEW c \in Seq(Units), Len(c) = Parts,
         \A p \in 1..Parts : c[p] = Unit(id, p), rx' = rx \o c, last' = last
  PROVE  Chained' /\ Newest' = Unit(id, Parts)
<1>0. PICK l \in Nat, s \in Nat \ {0} : l = Len(rx) /\ s = Parts
  BY SmiAssumption
<1>1. /\ rx' \in Seq(Units) /\ Len(rx') = l + s
      /\ \A i \in 1..(l + s) : rx'[i] = IF i <= l THEN rx[i] ELSE c[i - l]
  <2>1. /\ rx \o c \in Seq(Units) /\ Len(rx \o c) = Len(rx) + Len(c)
        /\ \A i \in 1..(Len(rx) + Len(c)) :
             (rx \o c)[i] = IF i <= Len(rx) THEN rx[i] ELSE c[i - Len(rx)]
    BY ConcatProperties
  <2>2. Len(rx) = l /\ Len(c) = s
    BY <1>0
  <2> QED
    BY <2>1, <2>2, Zenon
<1>2. /\ \A i \in 1..l : rx'[i] = rx[i]
      /\ \A i \in 1..s : rx'[l + i] = Unit(id, i)
  BY <1>0, <1>1
<1>3. Newest' = Unit(id, Parts)
  BY <1>0, <1>1, <1>2 DEF Newest
<1>4. Follows(Newest, Unit(id, 1))
  BY DEF Follows, Unit
<1>5. ASSUME rx' # <<>> PROVE Follows(last', rx'[1])
  <2>1. CASE l = 0
    <3>1. rx = <<>>
      BY <1>0, <2>1, EmptySeq
    <3>2. rx'[l + 1] = Unit(id, 1)
      BY <1>0, <1>2
    <3> QED
      BY <1>4, <2>1, <3>1, <3>2 DEF Newest
  <2>2. CASE l > 0
    <3>1. rx # <<>> /\ rx'[1] = rx[1]
      BY <1>0, <1>2, <2>2
    <3> QED
      BY <3>1 DEF Chained
  <2> QED
    BY <1>0, <2>1, <2>2
<1>6. ASSUME NEW i \in 1..(Len(rx') - 1) PROVE Follows(rx'[i], rx'[i+1])
  <2>1. CASE i < l
    <3>1. rx'[i] = rx[i] /\ rx'[i+1] = rx[i+1] /\ i \in 1..(Len(rx) - 1)
      BY <1>0, <1>2, <2>1
    <3> QED
      BY <3>1 DEF Chained
  <2>2. CASE i = l
    <3>1. rx'[i] = rx[l] /\ rx'[i+1] = Unit(id, 1) /\ rx # <<>>
      BY <1>0, <1>2, <2>2
    <3> QED
      BY <1>0, <1>4, <3>1 DEF Newest
  <2>3. CASE i > l
    <3>1. PICK p \in 1..(s - 1) : i = l + p
      <4>1. i \in Nat /\ i <= l + s - 1
        BY <1>0, <1>1
      <4>2. i - l \in 1..(s - 1) /\ i = l + (i - l)
        BY <1>0, <2>3, <4>1
      <4> QED
        BY <4>2
    <3>2. rx'[i] = Unit(id, p) /\ rx'[i+1] = Unit(id, p + 1)
      BY <1>0, <1>2, <3>1
    <3> QED
      BY <3>2 DEF Follows, Unit
  <2> QED
    BY <1>0, <2>1, <2>2, <2>3
<1> QED
  BY <1>3, <1>5, <1>6 DEF Chained

(* Initially nothing has been captured. *)
LEMMA InitOrder == Init => OrderInv
<1> SUFFICES ASSUME Init PROVE OrderInv
  OBVIOUS
<1>1. rx = <<>> /\ last = Unit(-1, Parts) /\ captured = 0 /\ dmaOn = FALSE /\ cb = "idle"
  BY DEF Init
<1>2. Len(rx) - 1 < 1
  BY <1>1
<1>3. Chained
  BY <1>1, <1>2 DEF Chained
<1>4. Newest = Unit(-1, Parts)
  BY <1>1 DEF Newest
<1> QED
  BY <1>1, <1>3, <1>4 DEF OrderInv, ChunkEnds, SlotsNewer, Unit

(* What rx_fifo and the transfer keep, they keep when nothing of them changes.   *)
LEMMA OrderSame ==
  ASSUME OrderInv, UNCHANGED <<rx, last, transfer>> PROVE OrderInv'
BY DEF OrderInv, Chained, ChunkEnds, SlotsNewer, Newest, Slot, Handled, transfer

(* A read. *)
LEMMA OrderTake ==
  ASSUME TypeOK, OrderInv, NEW k \in 0..Len(rx), Take(k), UNCHANGED transfer PROVE OrderInv'
<1>1. Chained' /\ Newest' = Newest
  BY TakeKeeps DEF TypeOK, FileType, OrderInv
<1>2. ChunkEnds'
  BY <1>1 DEF OrderInv, ChunkEnds, transfer
<1>3. SlotsNewer'
  BY <1>1 DEF OrderInv, SlotsNewer, Slot, Handled, transfer
<1> QED
  BY <1>1, <1>2, <1>3 DEF OrderInv

(* A stop of the transfer, or a call that finds none running. *)
LEMMA OrderAtRest ==
  ASSUME OrderInv, UNCHANGED <<rx, last, captured, cb>>, cb = "idle", ~dmaOn' PROVE OrderInv'
<1>1. Chained' /\ Newest' = Newest
  BY DEF OrderInv, Chained, Newest
<1> QED
  BY <1>1 DEF OrderInv, ChunkEnds, SlotsNewer

(* A new transfer has nothing to handle. *)
LEMMA OrderStart ==
  ASSUME TypeOK, OrderInv, UNCHANGED <<rx, last, captured, cb, pend>>, ~dmaOn, ~pend,
         done' = 0, cur' = 0
  PROVE  OrderInv'
<1>1. Chained' /\ Newest' = Newest
  BY DEF OrderInv, Chained, Newest
<1>2. cb = "idle"
  BY DEF OrderInv, ChunkEnds
<1>3. Handled' = 0
  BY <1>2 DEF Handled
<1>4. ChunkEnds'
  BY <1>1, <1>2 DEF OrderInv, ChunkEnds
<1>5. MaxLag \in Nat
  BY SmiAssumption
<1>6. \A n \in Handled'..(done' - 1) : FALSE
  BY <1>3
<1>7. SlotsNewer'
  BY <1>3, <1>5, <1>6 DEF SlotsNewer
<1> QED
  BY <1>1, <1>4, <1>7 DEF OrderInv

(* The numbers of the transfer, for the arithmetic. *)
LEMMA Counters ==
  ASSUME TypeOK
  PROVE  /\ done \in Nat /\ cur \in Nat /\ captured \in Nat
         /\ Handled \in Nat /\ Handled >= cur /\ Handled <= cur + 1
         /\ Newest \in Units /\ Newest.id \in Int
         /\ \A n \in Nat : Slot(n) \in Int
<1>1. done \in Nat /\ cur \in Nat /\ captured \in Nat /\ cb \in {"idle", "copied"}
  BY DEF TypeOK, TransferType
<1>2. Handled \in Nat /\ Handled >= cur /\ Handled <= cur + 1
  BY <1>1 DEF Handled
<1>3. Newest \in Units
  <2>1. rx \in Seq(Units) /\ last \in Units
    BY DEF TypeOK, FileType
  <2>2. rx # <<>> => rx[Len(rx)] \in Units
    BY <2>1, EmptySeq, ElementOfSeq
  <2> QED
    BY <2>1, <2>2 DEF Newest
<1>4. Newest.id \in Int
  BY <1>3 DEF Units
<1>5. \A n \in Nat : Slot(n) \in Int
  BY SlotIndex DEF Slot, TypeOK, TransferType
<1> QED
  BY <1>1, <1>2, <1>3, <1>4, <1>5

(* A period is captured into a place whose chunk has been handled. *)
LEMMA OrderCapture ==
  ASSUME TypeOK, OrderInv, Capture, MaxLag + 1 < Periods PROVE OrderInv'
<1>1. /\ dmaOn /\ dmaOn' = dmaOn /\ rx' = rx /\ last' = last /\ cb' = cb /\ cur' = cur
      /\ done' = done + 1 /\ captured' = captured + 1 /\ done - cur <= MaxLag
      /\ slots' = [slots EXCEPT ![done % Periods] = captured]
  BY DEF Capture
<1>2. Chained' /\ Newest' = Newest
  BY <1>1 DEF OrderInv, Chained, Newest
<1>3. Handled' = Handled
  BY <1>1 DEF Handled
<1>4. /\ Handled <= done
      /\ \A n \in Handled..(done - 1) : Newest.id < Slot(n) /\ Slot(n) < captured
      /\ \A m, n \in Handled..(done - 1) : m < n => Slot(m) < Slot(n)
  BY <1>1 DEF OrderInv, SlotsNewer
<1>5. Newest.id < captured /\ Newest.part = Parts
  BY DEF OrderInv, ChunkEnds
<1>6. MaxLag \in Nat /\ Periods \in Nat
  BY SmiAssumption
<1>7. ASSUME NEW n \in Handled..(done - 1) PROVE Slot(n)' = Slot(n)
  <2>1. n \in Nat /\ n < done /\ done - n < Periods
    BY <1>1, <1>6, Counters
  <2>2. n % Periods # done % Periods
    BY <2>1, DifferentSlots, Counters
  <2>3. slots \in [0..Periods-1 -> Int] /\ n % Periods \in 0..Periods-1
    BY <2>1, SlotIndex DEF TypeOK, TransferType
  <2> QED
    BY <1>1, <2>2, <2>3 DEF Slot
<1>8. slots'[done % Periods] = captured
  <2>1. slots \in [0..Periods-1 -> Int] /\ done % Periods \in 0..Periods-1
    BY SlotIndex, Counters DEF TypeOK, TransferType
  <2> QED
    BY <1>1, <2>1
<1>9. PICK h \in Nat, d \in Nat, c \in Nat, x \in Int :
        h = Handled /\ d = done /\ c = captured /\ x = Newest.id
  BY Counters
<1>10. ASSUME NEW n \in h..d PROVE x < Slot(n)' /\ Slot(n)' < c + 1
  <2>1. CASE n = d
    <3>1. Slot(n)' = c
      BY <1>8, <1>9, <2>1 DEF Slot
    <3> QED
      BY <1>5, <1>9, <3>1
  <2>2. CASE n \in h..(d - 1)
    <3>1. Slot(n)' = Slot(n) /\ x < Slot(n) /\ Slot(n) < c
      BY <1>4, <1>7, <1>9, <2>2
    <3>2. Slot(n) \in Int
      BY <2>2, <1>9, Counters
    <3> QED
      BY <1>9, <3>1, <3>2
  <2> QED
    BY <1>9, <2>1, <2>2
<1>11. ASSUME NEW m \in h..d, NEW n \in h..d, m < n PROVE Slot(m)' < Slot(n)'
  <2>1. m \in h..(d - 1)
    BY <1>9, <1>11
  <2>2. Slot(m)' = Slot(m) /\ Slot(m) < c
    BY <1>4, <1>7, <1>9, <2>1
  <2>3. CASE n = d
    <3>1. Slot(n)' = c
      BY <1>8, <1>9, <2>3 DEF Slot
    <3> QED
      BY <1>9, <2>2, <3>1
  <2>4. CASE n \in h..(d - 1)
    BY <1>4, <1>7, <1>9, <1>11, <2>1, <2>2, <2>4
  <2> QED
    BY <1>9, <2>3, <2>4
<1>12. ChunkEnds'
  BY <1>1, <1>2, <1>5, <1>9 DEF ChunkEnds
<1>13. SlotsNewer'
  <2>1. done' - 1 = d /\ Handled' = h /\ Newest'.id = x /\ captured' = c + 1
    BY <1>1, <1>2, <1>3, <1>9
  <2>2. Handled' <= done' /\ Handled' < done' /\ done' - cur' <= MaxLag + 1
    BY <1>1, <1>3, <1>4, <1>6, Counters
  <2> QED
    BY <1>10, <1>11, <2>1, <2>2 DEF SlotsNewer
<1> QED
  BY <1>2, <1>12, <1>13 DEF OrderInv

(* The callback copies the oldest chunk that has not been handled, and it is whole: *)
(* the DMA engine is in another place.                                        *)
LEMMA OrderCopy ==
  ASSUME TypeOK, pend => dmaOn, OrderInv, CallbackCopy, MaxLag + 1 < Periods PROVE OrderInv'
<1>1. /\ pend /\ cb = "idle" /\ pend' = FALSE /\ cb' = "copied"
      /\ UNCHANGED <<dmaOn, slots, done, cur, captured, last>> /\ dmaOn
  BY DEF CallbackCopy
<1>2. Handled = cur /\ Handled' = cur + 1
  BY <1>1 DEF Handled
<1>3. /\ cur < done /\ done - cur <= MaxLag + 1
      /\ \A n \in cur..(done - 1) : Newest.id < Slot(n) /\ Slot(n) < captured
      /\ \A m, n \in cur..(done - 1) : m < n => Slot(m) < Slot(n)
  BY <1>1, <1>2 DEF OrderInv, SlotsNewer
<1>4. Newest.part = Parts /\ Newest.id < captured /\ Chained
  BY DEF OrderInv, ChunkEnds
<1>5. MaxLag \in Nat /\ Periods \in Nat /\ cur \in Nat /\ done \in Nat
  BY SmiAssumption, Counters
<1>6. /\ Chained' /\ Newest'.part = Parts /\ Newest'.id < captured
      /\ \A n \in (cur + 1)..(done - 1) : Newest'.id < Slot(n)
  <2>1. CASE rx' = rx
    <3>1. Chained' /\ Newest' = Newest
      BY <1>1, <1>4, <2>1 DEF Chained, Newest
    <3>2. \A n \in (cur + 1)..(done - 1) : n \in cur..(done - 1)
      BY <1>5
    <3> QED
      BY <1>3, <1>4, <3>1, <3>2
  <2>2. CASE \E k \in 0..Parts : rx' = rx \o ChunkAt(cur % Periods, k)
    <3>1. PICK k \in 0..Parts : rx' = rx \o ChunkAt(cur % Periods, k)
      BY <2>2
    <3>2. cur % Periods # done % Periods
      <4>1. cur < done /\ done - cur < Periods
        BY <1>3, <1>5
      <4> QED
        BY <1>5, <4>1, DifferentSlots
    <3>3. PICK id \in Int : id = Slot(cur)
      BY <1>5, Counters
    <3>4. cur \in cur..(done - 1) /\ Newest.id < id /\ id < captured
      BY <1>3, <1>5, <3>3
    <3>5. PICK c : c = ChunkAt(cur % Periods, k)
      OBVIOUS
    <3>6. c \in Seq(Units) /\ Len(c) = Parts
      BY <3>5, ChunkType
    <3>7. \A p \in 1..Parts : c[p] = Unit(id, p)
      BY <3>2, <3>3, <3>5 DEF ChunkAt, Slot
    <3>8. rx \in Seq(Units) /\ last \in Units /\ rx' = rx \o c /\ last' = last
      BY <1>1, <3>1, <3>5 DEF TypeOK, FileType
    <3>9. Chained' /\ Newest' = Unit(id, Parts)
      BY <1>4, <3>4, <3>6, <3>7, <3>8, ChunkKeeps
    <3>10. Newest'.part = Parts /\ Newest'.id = id
      BY <3>9 DEF Unit
    <3>11. \A n \in (cur + 1)..(done - 1) : n \in cur..(done - 1) /\ cur < n
      BY <1>5
    <3>12. \A n \in (cur + 1)..(done - 1) : id < Slot(n)
      BY <1>3, <3>3, <3>4, <3>11
    <3> QED
      BY <3>4, <3>9, <3>10, <3>12
  <2> QED
    BY <2>1, <2>2 DEF CallbackCopy
<1>7. ChunkEnds'
  BY <1>1, <1>6 DEF ChunkEnds
<1>8. SlotsNewer'
  <2>1. \A n : Slot(n)' = Slot(n)
    BY <1>1 DEF Slot
  <2>2. \A n \in (cur + 1)..(done - 1) : n \in cur..(done - 1)
    BY <1>5
  <2>3. cur + 1 <= done /\ done - cur <= MaxLag + 1
    BY <1>3, <1>5
  <2> QED
    BY <1>1, <1>2, <1>3, <1>6, <2>1, <2>2, <2>3 DEF SlotsNewer
<1> QED
  BY <1>6, <1>7, <1>8 DEF OrderInv

(* The callback goes on to the next chunk. *)
LEMMA OrderWake ==
  ASSUME TypeOK, OrderInv, CallbackWake PROVE OrderInv'
<1>1. /\ cb = "copied" /\ cb' = "idle" /\ cur' = cur + 1
      /\ UNCHANGED <<rx, last, dmaOn, slots, done, pend, captured>>
  BY DEF CallbackWake
<1>2. Chained' /\ Newest' = Newest /\ \A n : Slot(n)' = Slot(n)
  BY <1>1 DEF OrderInv, Chained, Newest, Slot
<1>3. Handled' = Handled
  BY <1>1 DEF Handled
<1>4. ChunkEnds'
  BY <1>1, <1>2 DEF OrderInv, ChunkEnds
<1>5. MaxLag \in Nat /\ cur \in Nat /\ done \in Nat
  BY SmiAssumption, Counters
<1>6. done - cur <= MaxLag + 1 => done' - cur' <= MaxLag + 1
  BY <1>1, <1>5
<1>7. SlotsNewer'
  BY <1>1, <1>2, <1>3, <1>6 DEF OrderInv, SlotsNewer
<1> QED
  BY <1>2, <1>4, <1>7 DEF OrderInv

(* Every step keeps the order. *)
LEMMA StepOrder ==
  ASSUME IInv, OrderInv, [Next]_vars, MaxLag + 1 < Periods PROVE OrderInv'
<1>1. TypeOK /\ (pend => dmaOn) /\ HaltedAlone
  BY DEF IInv
<1>2. rx \in Seq(Units) /\ Len(rx) \in Nat
  BY <1>1 DEF TypeOK, FileType
<1>3. ASSUME NEW c \in Callers, Open(c) PROVE OrderInv'
  <2>1. Take(Len(rx)) /\ UNCHANGED transfer
    BY <1>3 DEF Open
  <2> QED
    BY <1>1, <1>2, <2>1, OrderTake
<1>4. ASSUME NEW c \in Callers,
             Release(c) \/ (\E s \in Streams : Ioctl(c, s)) \/ SetStateSame(c)
                        \/ StartTx(c) \/ StartTxInterrupted(c)
      PROVE  OrderInv'
  <2>1. UNCHANGED <<rx, last, transfer>>
    BY <1>4 DEF Release, Ioctl, SetStateSame, StartTx, StartTxInterrupted
  <2> QED
    BY <2>1, OrderSame
<1>5. ASSUME NEW c \in Callers, SetStateBusy(c) \/ SetStateIdle(c) PROVE OrderInv'
  <2>1. cb = "idle" /\ dmaOn' = FALSE /\ UNCHANGED <<rx, last, captured, cb>>
    BY <1>5 DEF SetStateBusy, SetStateIdle, SetStateEnter, TransferStop
  <2> QED
    BY <2>1, OrderAtRest
<1>6. ASSUME NEW c \in Callers, StartRx(c) PROVE OrderInv'
  <2>1. /\ pc[c] = "halted" /\ done' = 0 /\ cur' = 0
        /\ UNCHANGED <<rx, last, captured, cb, pend>>
    BY <1>6 DEF StartRx, NewSession
  <2>2. ~dmaOn /\ ~pend
    BY <1>1, <2>1 DEF HaltedAlone
  <2> QED
    BY <1>1, <2>1, <2>2, OrderStart
<1>7. ASSUME NEW c \in Callers, StartRxFails(c) PROVE OrderInv'
  <2>1. pc[c] = "halted" /\ UNCHANGED <<rx, last, captured, cb, dmaOn>>
    BY <1>7 DEF StartRxFails
  <2>2. ~dmaOn
    BY <1>1, <2>1 DEF HaltedAlone
  <2>3. cb = "idle"
    BY <2>2 DEF OrderInv, ChunkEnds
  <2> QED
    BY <2>1, <2>2, <2>3, OrderAtRest
<1>8. ASSUME NEW n \in 1..RxCap, Read(n) PROVE OrderInv'
  <2>1. Take(Least(n, Len(rx))) /\ UNCHANGED transfer
    BY <1>8 DEF Read
  <2>2. Least(n, Len(rx)) \in 0..Len(rx)
    BY <1>2, SmiAssumption DEF Least
  <2> QED
    BY <1>1, <2>1, <2>2, OrderTake
<1>9. CASE Flush
  <2>1. Take(Len(rx)) /\ UNCHANGED transfer
    BY <1>9 DEF Flush
  <2> QED
    BY <1>1, <1>2, <2>1, OrderTake
<1>10. CASE \/ WriteLock \/ (\E n \in 1..TxCap : WriteCopy(n))
            \/ (\E e \in {"in", "out"} : PollEnter(e))
            \/ PollCheck \/ PollTimeout \/ UNCHANGED vars
  <2>1. UNCHANGED <<rx, last, transfer>>
    BY <1>10 DEF WriteLock, WriteCopy, PollEnter, PollCheck, PollTimeout, vars
  <2> QED
    BY <2>1, OrderSame
<1>11. CASE Capture
  BY <1>1, <1>11, OrderCapture
<1>12. CASE CallbackCopy
  BY <1>1, <1>12, OrderCopy
<1>13. CASE CallbackWake
  BY <1>1, <1>13, OrderWake
<1> QED
  BY <1>3, <1>4, <1>5, <1>6, <1>7, <1>8, <1>9, <1>10, <1>11, <1>12, <1>13, Zenon DEF Next, SetState

(* read() and callbacks: whatever callers, reads, flushes and overflows do, what  *)
(* leaves rx_fifo are whole chunks in the order of capture, for every length of   *)
(* the bounce buffer that callbacks do not fall a lap behind.                   *)
THEOREM DeliveredInOrderHolds ==
  ASSUME MaxLag + 1 < Periods PROVE Spec => []DeliveredInOrder
<1>1. Init => OrderInv
  BY InitOrder
<1>2. IInv /\ OrderInv /\ [Next]_vars => OrderInv'
  BY StepOrder
<1>3. IInv /\ OrderInv => DeliveredInOrder
  BY ChainedIsDelivered DEF IInv, OrderInv
<1>4. Spec => []IInv
  BY Invariance
<1> QED
  BY <1>1, <1>2, <1>3, <1>4, PTL DEF Spec
=============================================================================
