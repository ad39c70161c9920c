----------------------------- MODULE SmiSamples ------------------------------
(***************************************************************************)
(* libcariboulite/src/caribou_smi/caribou_smi.c: from the bytes of the driver  *)
(* to the samples of the caller, and back.                                   *)
(*                                                                          *)
(* The driver's stream is bytes, four to a sample.  Where it begins within a    *)
(* sample is decided by the byte count of the FPGA, which never starts over    *)
(* (see FpgaStream); caribou_smi_read finds the samples by the constant bits    *)
(* of their words.  A byte is a number, byte k of sample s is 4 * s + k; of its   *)
(* value only those bits matter, and what the data may look like there.         *)
(*                                                                          *)
(* Lengths are in samples, as every length here is a multiple of four bytes:    *)
(* periods and fifos of the driver are, and so is what goes in and out.         *)
(* Not modelled: the debug modes (their stream is a test pattern) and the        *)
(* values of samples; caribou_smi_generate_data ignores its caller's.           *)
(***************************************************************************)
EXTENDS Integers, Sequences

CONSTANTS
  Period,     (* samples of a DMA period, the driver's unit                      *)
  Batch,      (* samples of native_batch_len                                   *)
  RxCap,      (* samples that rx_fifo holds                                     *)
  TxCap,      (* samples that tx_fifo holds                                     *)
  Lengths,    (* lengths the caller asks for                                    *)
  MaxPeriods, (* bound: periods captured                                        *)
  MaxRestarts (* bound: stops of the stream                                      *)

ASSUME SmiSamplesAssumption ==
  /\ Period \in Nat \ {0} /\ Batch \in Nat \ {0} /\ RxCap \in Nat /\ TxCap \in Nat
  /\ Lengths \subseteq Nat \ {0} /\ MaxPeriods \in Nat /\ MaxRestarts \in Nat

VARIABLES
  stream, (* the driver: see Streams                                            *)
  call,   (* the caller's last call, in progress or done: see Calls              *)
  out,    (* the caller's array, up to read_so_far                              *)
  past    (* history: see Pasts                                                *)

vars == <<stream, call, out, past>>

SampleOf(b) == b \div 4
PlaceOf(b) == b % 4

Streams ==
  [ (* does the driver receive?  rx_fifo, and the next byte of the modem        *)
    on : BOOLEAN, rx : Seq(Nat), next : Nat,
    (* samples in tx_fifo                                                     *)
    tx : 0..TxCap,
    (* by how many bytes a word may be displaced and still show the constant     *)
    (* bits, because of the data; 0: none.  A displacement of 2 never does: it   *)
    (* has the constant bits 10 of byte 3 where byte 1 has 01.                  *)
    like : {0, 1, 3} ]

(* ret: -1, -3 or a count.  accepted: samples the driver took.               *)
Calls ==
  [at : {"idle", "read", "write"}, of : {"none", "read", "write"}, left : Nat,
   ret : Int, accepted : Nat]

Pasts == [origin : 0..3, taken : Nat, periods : Nat, drops : Nat, restarts : Nat]

(* What the array holds: a sample's number, a word of two samples' bytes, the    *)
(* interpolated sample, or what was there before.                             *)
Mixed == -1
Made == -2
Old == -3

TypeOK ==
  /\ stream \in Streams /\ Len(stream.rx) <= 4 * RxCap
  /\ call \in Calls
  /\ out \in Seq(Nat \cup {Mixed, Made, Old})
  /\ past \in Pasts

Init ==
  \E k \in 0..3, like \in {0, 1, 3} :
    /\ stream = [on |-> TRUE, rx |-> <<>>, next |-> 4 + k, tx |-> 0, like |-> like]
    /\ call = [at |-> "idle", of |-> "none", left |-> 0, ret |-> 0, accepted |-> 0]
    /\ out = <<>>
    /\ past = [origin |-> k, taken |-> 0, periods |-> 0, drops |-> 0, restarts |-> 0]

Least(a, b) == IF a < b THEN a ELSE b

-----------------------------------------------------------------------------
(* caribou_smi_rx_data_analyze *)

(* The mask 0xC001C000: bits 15:14, 16 and 31:30 of a word, in its bytes 1 to 3. *)
Shows(buf, offs) ==
  \A i \in 1..3 :
    LET k == PlaceOf(buf[offs + i + 1]) IN k = i \/ k = (i + stream.like) % 4

(* Variant of FindBufferOffset: three displacements are tried. *)
FindBufferOffsetUpTo2(buf) ==
  IF Len(buf) <= 16 THEN 0
  ELSE LET four(o) == \A w \in 0..3 : Shows(buf, o + 4 * w)
       IN IF \E o \in 0..2 : four(o)
          THEN CHOOSE o \in 0..2 : four(o) /\ \A p \in 0..(o - 1) : ~four(p)
          ELSE -1

(* caribou_smi_find_buffer_offset: four words in a row show the bits.  In a      *)
(* buffer of four samples or less nothing is looked for.                       *)
FindBufferOffset(buf) ==
  IF Len(buf) <= 16 THEN 0
  ELSE LET four(o) == \A w \in 0..3 : Shows(buf, o + 4 * w)
           last == Len(buf) - 17
       IN IF \E o \in 0..last : four(o)
          THEN CHOOSE o \in 0..last : four(o) /\ \A p \in 0..(o - 1) : ~four(p)
          ELSE -1

Word(buf, offs) ==
  LET s == SampleOf(buf[offs + 1]) IN
  IF \A k \in 0..3 : buf[offs + k + 1] = 4 * s + k THEN s ELSE Mixed

(* Variant of Decoded: the array is as long as what was decoded.                *)
DecodedShort(buf, offs) ==
  LET lost == IF offs > 0 THEN offs \div 4 + 1 ELSE 0
  IN [i \in 1..(Len(buf) \div 4 - lost) |-> Word(buf, offs + 4 * (i - 1))]

(* The samples from the offset on; one is interpolated where the buffer ends     *)
(* early, and the rest of the array is left alone.                             *)
Decoded(buf, offs) ==
  LET lost == IF offs > 0 THEN offs \div 4 + 1 ELSE 0
      n == Len(buf) \div 4
  IN [i \in 1..n |-> IF i <= n - lost THEN Word(buf, offs + 4 * (i - 1))
                     ELSE IF i = n - lost + 1 THEN Made ELSE Old]

-----------------------------------------------------------------------------
(* The driver. *)

(* A period arrives; if rx_fifo has no room for it, it is dropped.              *)
Capture ==
  /\ stream.on /\ past.periods < MaxPeriods
  /\ LET room == Len(stream.rx) + 4 * Period <= 4 * RxCap
         bytes == [i \in 1..(4 * Period) |-> stream.next + i - 1]
     IN /\ stream' = [stream EXCEPT !.rx = IF room THEN @ \o bytes ELSE @,
                                    !.next = @ + 4 * Period]
        /\ past' = [past EXCEPT !.periods = @ + 1, !.drops = IF room THEN @ ELSE @ + 1]
  /\ UNCHANGED <<call, out>>

(* The stream is stopped and started between calls: bytes that the SMI fetched   *)
(* ahead are lost, rx_fifo is not emptied.                                    *)
Restart ==
  /\ past.restarts < MaxRestarts /\ call.at = "idle"
  /\ \E k \in 0..3 :
       stream' = [stream EXCEPT !.on = TRUE, !.next = 4 * (SampleOf(@) + 1) + k]
  /\ past' = [past EXCEPT !.restarts = @ + 1]
  /\ UNCHANGED <<call, out>>

-----------------------------------------------------------------------------
(* caribou_smi_read *)

Begin(of, n) ==
  call' = [at |-> of, of |-> of, left |-> n, ret |-> 0, accepted |-> 0]

Return(c, ret) == [c EXCEPT !.at = "idle", !.left = 0, !.ret = ret]

BeginRead ==
  /\ call.at = "idle"
  /\ \E n \in Lengths : Begin("read", n)
  /\ out' = <<>>
  /\ past' = [past EXCEPT !.taken = @ + IF call.of = "read" THEN call.accepted ELSE 0]
  /\ UNCHANGED stream

(* Variant of BatchLength: a whole batch, whatever is left to read. *)
BatchLengthWhole(left) == Batch

BatchLength(left) == Least(left, Batch)

(* read() gives what there is, up to the length of the batch.  Without four      *)
(* words that show their bits the call fails, and the batches before it with it. *)
ReadBatch ==
  /\ call.at = "read" /\ stream.rx # <<>>
  /\ LET n == Least(Len(stream.rx) \div 4, BatchLength(call.left))
         c == [call EXCEPT !.left = @ - n, !.ret = @ + n, !.accepted = @ + n]
     IN /\ stream' = [stream EXCEPT !.rx = SubSeq(@, 4 * n + 1, Len(@))]
        /\ \E buf \in {SubSeq(stream.rx, 1, 4 * n)} : \E offs \in {FindBufferOffset(buf)} :
             IF offs < 0 THEN call' = Return(c, -3) /\ out' = <<>>
             ELSE /\ out' = out \o Decoded(buf, offs)
                  /\ call' = IF c.left = 0 THEN Return(c, c.ret) ELSE c
  /\ UNCHANGED past

(* Variant of ReadTimesOut: another try. *)
ReadTimesOutAgain ==
  /\ call.at = "read" /\ stream.rx = <<>>
  /\ UNCHANGED <<stream, past, out, call>>

(* Nothing before poll() times out: what was read so far is the result.         *)
ReadTimesOut ==
  /\ call.at = "read" /\ stream.rx = <<>>
  /\ call' = Return(call, call.ret)
  /\ UNCHANGED <<stream, past, out>>

(* An error of read() or poll(). *)
ReadFails ==
  /\ call.at = "read"
  /\ call' = Return(call, -1) /\ out' = <<>>
  /\ UNCHANGED <<stream, past>>

(* caribou_smi_flush_fifo *)
Flush ==
  /\ call.at = "idle" /\ stream.rx # <<>>
  /\ stream' = [stream EXCEPT !.rx = <<>>]
  /\ past' = [past EXCEPT !.taken = @ + Len(stream.rx) \div 4
                                      + IF call.of = "read" THEN call.accepted ELSE 0]
  /\ call' = [call EXCEPT !.of = "none", !.ret = 0]
  /\ out' = <<>>

-----------------------------------------------------------------------------
(* caribou_smi_write *)

(* The driver's stream is set for tx: that stops the receive stream and empties  *)
(* tx_fifo, also of what the last write put there.                             *)
BeginWrite ==
  /\ call.at = "idle" /\ past.restarts < MaxRestarts
  /\ \E n \in Lengths : Begin("write", n)
  /\ stream' = [stream EXCEPT !.on = FALSE, !.tx = 0]
  /\ past' = [past EXCEPT !.taken = @ + IF call.of = "read" THEN call.accepted ELSE 0]
  /\ out' = <<>>

SetStreamFails ==
  /\ call.at = "idle" /\ past.restarts < MaxRestarts
  /\ call' = [at |-> "idle", of |-> "write", left |-> 0, ret |-> -1, accepted |-> 0]
  /\ \E on \in {FALSE, stream.on} : stream' = [stream EXCEPT !.on = on]
  /\ past' = [past EXCEPT !.taken = @ + IF call.of = "read" THEN call.accepted ELSE 0]
  /\ out' = <<>>

(* POLLOUT depends on the space in rx_fifo. *)
Writable == Len(stream.rx) < 4 * RxCap

(* Variant of Counted: also a batch of which nothing was written. *)
CountedFirst(n, accepted) == n

(* written_so_far grows by what was asked of write(), unless that wrote nothing. *)
Counted(n, accepted) == IF accepted = 0 THEN 0 ELSE n

WriteBatch ==
  /\ call.at = "write" /\ Writable
  /\ LET n == BatchLength(call.left)
         took == Least(n, TxCap - stream.tx)
         c == [call EXCEPT !.left = @ - took, !.ret = @ + Counted(n, took), !.accepted = @ + took]
     IN /\ stream' = [stream EXCEPT !.tx = @ + took]
        /\ call' = IF took = 0 \/ c.left = 0 THEN Return(c, c.ret) ELSE c
  /\ UNCHANGED <<out, past>>

WriteTimesOut ==
  /\ call.at = "write" /\ ~Writable
  /\ call' = Return(call, call.ret)
  /\ UNCHANGED <<stream, out, past>>

WriteFails ==
  /\ call.at = "write"
  /\ call' = Return(call, -1)
  /\ UNCHANGED <<stream, out, past>>

Next ==
  \/ Capture \/ Restart
  \/ BeginRead \/ ReadBatch \/ ReadTimesOut \/ ReadFails \/ Flush
  \/ BeginWrite \/ SetStreamFails \/ WriteBatch \/ WriteTimesOut \/ WriteFails

Spec == Init /\ [][Next]_vars

(* poll() returns, with data or without, and so do read() and write().          *)
FairSpec ==
  Spec /\ WF_vars(ReadBatch \/ ReadTimesOut) /\ WF_vars(WriteBatch \/ WriteTimesOut)

-----------------------------------------------------------------------------
(* A sample's place in the caller's arrays, from call to call, is its place in   *)
(* the stream: whatever the alignment, whatever the data look like and however   *)
(* reads are cut, nothing is skipped or inserted but the periods that the full   *)
(* fifo dropped.  What is interpolated stands for what was lost                *)
(* (caribou_smi.c:316-322, 386-390, 677-678).                                  *)
TimeBase ==
  past.restarts = 0 /\ stream.on =>
    \A i \in DOMAIN out : out[i] > 0 =>
      out[i] - (past.taken + i) \in
        {(IF past.origin = 0 THEN 0 ELSE 1) + Period * d : d \in 0..past.drops}

(* The buffers that the next read of the caller may fill.                        *)
NextReads == {Least(Len(stream.rx) \div 4, BatchLength(n)) : n \in Lengths}

(* A buffer of more than four samples in one piece is decoded to its samples,     *)
(* and at most its last is not one of them, wherever it begins; unless the data   *)
(* show the constant bits, and even then if it begins with a sample.            *)
InOnePiece(buf) == \A i \in DOMAIN buf : buf[i] = buf[1] + i - 1

ChunkDecoded ==
  \A n \in {n \in NextReads : n > 4} :
    LET buf == SubSeq(stream.rx, 1, 4 * n)
        offs == FindBufferOffset(buf)
        decoded == Decoded(buf, offs)
    IN
    InOnePiece(buf) /\ (stream.like = 0 \/ PlaceOf(buf[1]) = 0) =>
      /\ offs >= 0
      /\ \A i \in 1..(n - 1) : decoded[i] > 0
      /\ decoded[n] = IF PlaceOf(buf[1]) = 0 THEN SampleOf(buf[4 * n]) ELSE Made

(* A write whose batches the driver takes in part is to return "the number of        *)
(* samples written" (cariboulite_radio.h:605) and counts a short batch whole           *)
(* (caribou_smi.c:757).  It never reports too few, and less than a batch too many: the   *)
(* batch after a short one finds tx_fifo full and ends the call uncounted.              *)
AtMostOneShort ==
  call.at = "idle" /\ call.of = "write" /\ call.ret >= 0 =>
    call.accepted <= call.ret /\ call.ret < call.accepted + Batch

(* Every read and write returns, also when no sample arrives or leaves.         *)
CallsEnd == call.at # "idle" ~> call.at = "idle"
=============================================================================
