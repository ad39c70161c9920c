---------------------------- MODULE BoundedFifo ----------------------------
(***************************************************************************)
(* What a fifo between two clock domains promises: a bounded queue that is  *)
(* written at one end and read at the other, in one step when both clocks   *)
(* tick together.  complex_fifo.v is shown to implement it.                 *)
(***************************************************************************)
EXTENDS Naturals, Sequences

CONSTANTS
  Capacity,  (* words that fit                                              *)
  Words

VARIABLES queue,  (* the words between the two sides                         *)
          out     (* the word read last                                     *)

Init == queue = <<>> /\ out \in Words

Push(w) == /\ Len(queue) < Capacity
           /\ queue' = Append(queue, w)
           /\ UNCHANGED out

Pop == /\ queue # <<>>
       /\ queue' = Tail(queue)
       /\ out' = Head(queue)

PushPop(w) == /\ queue # <<>>
              /\ Len(queue) < Capacity
              /\ queue' = Append(Tail(queue), w)
              /\ out' = Head(queue)

Next == Pop \/ \E w \in Words : Push(w) \/ PushPop(w)

Spec == Init /\ [][Next]_<<queue, out>>
=============================================================================
