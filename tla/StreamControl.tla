---------------------------- MODULE StreamControl ----------------------------
(***************************************************************************)
(* What the smi-stream-dev driver promises about its streaming state: which *)
(* stream is selected (inst->state), whether the cyclic DMA transfer runs   *)
(* and for which stream, and what one SET_STREAM_STATUS call may do to the  *)
(* two.                                                                     *)
(*                                                                          *)
(* SmiStreamDev, the driver itself, implements Spec.  Radio, which uses the *)
(* driver through that one call, takes its outcomes from SetStateResults.   *)
(***************************************************************************)

VARIABLES
  state,  (* the stream the driver says it serves: inst->state            *)
  dma     (* the stream the cyclic transfer delivers, "off" if none runs   *)

RxStreams == {"rx0", "rx1"}

(* smi_stream_state_en *)
Streams == {"idle", "tx"} \cup RxStreams

Success  == "0"
Again    == "-EAGAIN"
Intr     == "-EINTR"
Failed   == "error"
Returns == {Success, Again, Intr, Failed}

(***************************************************************************)
(* The results of one set_state(new) call entered with state s and transfer *)
(* d.  A call for the state already recorded does nothing.  Any other call  *)
(* terminates the transfer first; if the SMI block is still busy the call   *)
(* gives up there and the old state stays recorded.  A receive stream is    *)
(* recorded only if its transfer started; tx leaves idle recorded.          *)
(***************************************************************************)
Result(s, d, r) == [state |-> s, dma |-> d, ret |-> r]

SetStateResults(s, d, new) ==
  IF new = s THEN {Result(s, d, Success)}
  ELSE {Result(s, "off", Again)} \cup
       (CASE new = "idle" -> {Result("idle", "off", Success)}
          [] new = "tx"   -> {Result("idle", "off", Success), Result("idle", "off", Intr)}
          [] OTHER        -> {Result(new, new, Success), Result("idle", "off", Failed)})

-----------------------------------------------------------------------------

Init == state = "idle" /\ dma = "off"

(* The transfer is terminated; the state is given up unless the SMI is busy. *)
Halt == dma' = "off" /\ state' \in {state, "idle"}

(* A transfer starts from rest only, for the stream that is recorded with it. *)
Start ==
  /\ state = "idle" /\ dma = "off"
  /\ state' \in RxStreams
  /\ dma' = state'

Next == Halt \/ Start

Spec == Init /\ [][Next]_<<state, dma>>

=============================================================================
