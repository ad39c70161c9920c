-------------------------- MODULE FpgaStreamProofs --------------------------
(***************************************************************************)
(* Proofs about the sample paths of the firmware, for fifos of every width,   *)
(* frames of every length and every spacing of the host's strobes from two    *)
(* edges of the system clock on: everything FpgaStream states but that a host  *)
(* that keeps reading catches up.                                            *)
(***************************************************************************)
EXTENDS FpgaStream, ComplexFifoProofs

-----------------------------------------------------------------------------
(* The inductive invariant, part by part. *)

(* How far the trigger has got through the two registers of the system clock:   *)
(* with two edges between strobes it has passed both before it changes again.   *)
Strobed ==
  /\ smi.since = 0 => smi.req = smi.req1
  /\ smi.since = 1 => smi.req = smi.trigger
  /\ smi.since >= 2 => smi.req = smi.trigger /\ smi.req1 = smi.trigger

(* The words that a receiver has yet to push. *)
Load(r) == (IF r.push THEN 1 ELSE 0) + (IF r.state # "idle" THEN 1 ELSE 0)

RxRoom == path = "rx" => made + Load(lines.rx[0]) + Load(lines.rx[1]) <= MaxRx

(* A receiver that pushes into a full fifo decided so before another one filled  *)
(* it, and is not the one whose channel is selected or can be.                  *)
RxPushes ==
  path = "rx" =>
    \A c \in Channels : lines.rx[c].push =>
      /\ lines.rx[c].state = "idle"
      /\ fifo.full => lines.channel # c /\ ~ReadyFor(c)

(* rx_fifo holds the words made last; the one before them was read last.        *)
RxWords ==
  path = "rx" => /\ fifo.rd_data = made - Held(fifo)
                 /\ \A i \in 1..Held(fifo) : Word(fifo, i) = made - Held(fifo) + i

(* Between the second and the fourth byte of a word, once, the fifo is read.     *)
RxHost ==
  path = "rx" =>
    /\ smi.trigger <=> smi.at = 2
    /\ fifo.rd_data # smi.word =>
         /\ fifo.rd_data = smi.word + 1
         /\ smi.at = 2 \/ smi.at = 3
         /\ smi.at = 2 => smi.since >= 2

(* lvds_tx.v: a word is pulled on the last clock but one of a frame; the frame is  *)
(* zero whenever a silence may begin outside its last phase.                   *)
Whole(l) ==
  /\ l.pulled => l.state = "tx" /\ l.phase = 0
  /\ l.state = "sync" /\ l.sync < SyncFrames => l.frame = 0 \/ (l.zero /\ l.phase = 0)

TxWhole == path = "tx" => Whole(lines)

TxHost ==
  path = "tx" =>
    /\ past.whole = 4 => smi.at = past.pos
    /\ past.whole \in 1..3 => past.pos = past.whole /\ smi.at \in {0, past.whole}

TxOffered ==
  path = "tx" =>
    /\ smi.at # 0 => ~smi.trigger
    /\ smi.word \in {0, made}
    /\ past.offered # made =>
         /\ past.offered = made - 1 /\ smi.word = made /\ smi.trigger /\ ~smi.req1
         /\ smi.since = 0 \/ smi.since = 1
    /\ smi.trigger /\ smi.word # 0 /\ past.offered = made => smi.req /\ smi.req1

(* The words of the fifo other than zero rise, above lo and up to hi. *)
Rising(f, lo, hi) ==
  \A i \in 1..Held(f) : Word(f, i) # 0 =>
    /\ lo < Word(f, i) /\ Word(f, i) <= hi
    /\ \A j \in 1..Held(f) : i < j /\ Word(f, j) # 0 => Word(f, i) < Word(f, j)

(* The last word that left the fifo for the line. *)
Left(l, f, sent) == IF l.pulled /\ f.rd_data # 0 THEN f.rd_data ELSE sent

TxWords ==
  path = "tx" =>
    /\ past.sent <= Left(lines, fifo, past.sent) /\ Left(lines, fifo, past.sent) <= past.offered
    /\ lines.frame # 0 => lines.frame = past.sent
    /\ Rising(fifo, Left(lines, fifo, past.sent), past.offered)

IInv ==
  /\ TypeOK /\ FifoInv(fifo) /\ Strobed
  /\ RxRoom /\ RxPushes /\ RxWords /\ RxHost
  /\ TxWhole /\ TxHost /\ TxOffered /\ TxWords

-----------------------------------------------------------------------------
(* The operators that the steps are built from. *)

(* The constants and the words as numbers. *)
LEMMA Numbers ==
  /\ StrobeEdges \in Nat /\ StrobeEdges >= 2 /\ FrameClocks \in Nat /\ FrameClocks >= 2
  /\ SyncFrames \in Nat /\ SyncFrames >= 1 /\ MaxRx \in Nat /\ MaxTx \in Nat
  /\ 0 \in Words /\ SyncFrames \in 0..SyncFrames
  /\ \A n \in Words : n \in Nat
  /\ \A n \in Nat : n <= MaxRx \/ n <= MaxTx => n \in Words
BY FpgaAssumption DEF Words

(* The fields of the SMI interface. *)
LEMMA SmiTyped ==
  ASSUME NEW s \in SmiStates
  PROVE  /\ s.at \in 0..3 /\ s.word \in Words /\ s.since \in Nat /\ s.since <= StrobeEdges
         /\ s.trigger \in BOOLEAN /\ s.req \in BOOLEAN /\ s.req1 \in BOOLEAN
BY Numbers DEF SmiStates

(* An edge of the system clock. *)
SysEdge(s, t) ==
  /\ t.at = s.at /\ t.trigger = s.trigger /\ t.word = s.word
  /\ t.req = s.trigger /\ t.req1 = s.req
  /\ t.since = IF s.since < StrobeEdges THEN s.since + 1 ELSE s.since

(* A system clock samples the strobe and changes nothing else. *)
LEMMA SampledEdge ==
  ASSUME NEW s \in SmiStates, NEW t, t = Sampled(s)
  PROVE  t \in SmiStates /\ SysEdge(s, t)
<1> DEFINE n == IF s.since < StrobeEdges THEN s.since + 1 ELSE s.since
<1>1. n \in 0..StrobeEdges
  BY SmiTyped, Numbers
<1>2. t = [s EXCEPT !.req = s.trigger, !.req1 = s.req, !.since = n]
  BY DEF Sampled
<1> HIDE DEF n
<1>3. t \in SmiStates
  BY <1>1, <1>2, SmiTyped DEF SmiStates
<1>4. t.at = s.at /\ t.trigger = s.trigger /\ t.word = s.word
  BY <1>2 DEF SmiStates
<1>5. t.req = s.trigger /\ t.req1 = s.req /\ t.since = n
  BY <1>2 DEF SmiStates
<1> QED
  BY <1>3, <1>4, <1>5 DEF SysEdge, n

(* A request is up for one edge, the second after the strobe that asked for it. *)
LEMMA Requested ==
  ASSUME smi \in SmiStates, Strobed, Request(smi)
  PROVE  smi.since = 1 /\ smi.trigger /\ smi.req /\ ~smi.req1
<1>1. smi.req /\ ~smi.req1
  BY SmiTyped DEF Request
<1>2. smi.since # 0 /\ ~(smi.since >= 2)
  BY <1>1, SmiTyped DEF Strobed
<1>3. smi.since = 1
  BY <1>2, SmiTyped
<1> QED
  BY <1>1, <1>3 DEF Strobed

-----------------------------------------------------------------------------
(* The receivers of lvds_rx.v. *)

(* The fields of a receiver. *)
LEMMA ReceiverTyped ==
  ASSUME NEW r \in Receivers
  PROVE  /\ r.state \in {"idle", "i_phase", "q_phase"} /\ r.push \in BOOLEAN
         /\ r.phase \in 0..(FrameClocks - 1) /\ r.phase \in Nat
BY Numbers DEF Receivers

(* A receiver pushes the word it has begun at most, and only where there was
   room. *)
LEMMA ReceiverClock ==
  ASSUME NEW r \in Receivers, NEW full \in BOOLEAN, NEW symbol \in BOOLEAN,
         NEW n, n = LvdsRxClock(r, full, symbol)
  PROVE  /\ n \in Receivers
         /\ n.push => n.state = "idle" /\ r.state # "idle" /\ ~full
         /\ Load(n) <= IF r.state # "idle" \/ symbol THEN 1 ELSE 0
<1> USE Numbers
<1>1. CASE r.state = "idle"
  <2>1. n = [state |-> IF symbol THEN "i_phase" ELSE "idle", phase |-> FrameClocks - 1,
             push |-> FALSE]
    BY <1>1 DEF LvdsRxClock
  <2>2. n.push = FALSE /\ n.state = IF symbol THEN "i_phase" ELSE "idle"
    BY <2>1
  <2>3. n \in Receivers
    BY <2>1 DEF Receivers
  <2> QED
    BY <1>1, <2>2, <2>3 DEF Load
<1>2. CASE r.state = "i_phase"
  <2> DEFINE s == IF r.phase > 0 THEN "i_phase" ELSE IF symbol THEN "q_phase" ELSE "idle"
             p == IF r.phase > 0 THEN r.phase - 1 ELSE IF symbol THEN FrameClocks - 2 ELSE 0
  <2>1. n = [state |-> s, phase |-> p, push |-> FALSE]
    BY <1>2 DEF LvdsRxClock
  <2>2. s \in {"idle", "i_phase", "q_phase"} /\ p \in 0..(FrameClocks - 1)
    BY ReceiverTyped
  <2> HIDE DEF s, p
  <2>3. n \in Receivers /\ n.push = FALSE
    BY <2>1, <2>2 DEF Receivers
  <2> QED
    BY <1>2, <2>3 DEF Load
<1>3. CASE r.state = "q_phase"
  <2> DEFINE s == IF r.phase > 0 THEN "q_phase" ELSE "idle"
             p == IF r.phase > 0 THEN r.phase - 1 ELSE 0
             q == r.phase = 0 /\ ~full
  <2>1. n = [state |-> s, phase |-> p, push |-> q]
    BY <1>3 DEF LvdsRxClock
  <2>2. s \in {"idle", "i_phase", "q_phase"} /\ p \in 0..(FrameClocks - 1) /\ q \in BOOLEAN
    BY ReceiverTyped
  <2>3. q => s = "idle" /\ ~full
    OBVIOUS
  <2> HIDE DEF s, p, q
  <2>4. n \in Receivers /\ n.push = q /\ n.state = s
    BY <2>1, <2>2 DEF Receivers
  <2> QED
    BY <1>3, <2>3, <2>4 DEF Load
<1> QED
  BY <1>1, <1>2, <1>3, ReceiverTyped

(* The size of a set of channels, which are two. *)
LEMMA TwoChannels ==
  ASSUME NEW S \in SUBSET Channels
  PROVE  Cardinality(S) = (IF 0 \in S THEN 1 ELSE 0) + (IF 1 \in S THEN 1 ELSE 0)
<1>1. S = {} \/ S = {0} \/ S = {1} \/ S = {0, 1}
  BY DEF Channels
<1>2. Cardinality({}) = 0 /\ Cardinality({0}) = 1 /\ Cardinality({1}) = 1
  BY FS_EmptySet, FS_Singleton
<1>3. Cardinality({0, 1}) = 2
  <2>1. IsFiniteSet({0}) /\ Cardinality({0}) = 1 /\ 1 \notin {0} /\ {0} \cup {1} = {0, 1}
    BY FS_Singleton
  <2>2. Cardinality({0} \cup {1}) = 2
    BY <2>1, FS_AddElement
  <2> QED
    BY <2>1, <2>2
<1> QED
  BY <1>1, <1>2, <1>3

(* The fields of the receive lines. *)
LEMMA LinesTyped ==
  ASSUME TypeOK, path = "rx"
  PROVE  /\ lines \in LvdsRx /\ lines.rx[0] \in Receivers /\ lines.rx[1] \in Receivers
         /\ lines.rx \in [Channels -> Receivers]
         /\ lines.channel \in Channels /\ lines.fed \in SUBSET Channels /\ lines.settled \in BOOLEAN
<1>1. lines \in LvdsRx
  BY DEF TypeOK
<1> QED
  BY <1>1 DEF LvdsRx, Channels

(* Both receivers on a clock of the modem. *)
Pushes(r) == IF r.push THEN 1 ELSE 0

RxClocked(n) ==
  /\ n \in LvdsRx
  /\ n.fed = lines.fed /\ n.channel = lines.channel
  /\ n.settled => Pushed \subseteq lines.fed
  /\ \A c \in Channels :
       n.rx[c].push => n.rx[c].state = "idle" /\ lines.rx[c].state # "idle" /\ ~fifo.full
  /\ made + Pushes(lines.rx[0]) + Pushes(lines.rx[1]) + Load(n.rx[0]) + Load(n.rx[1]) <= MaxRx

(* Both receivers on one clock take no more room than is left for them. *)
LEMMA ReceiversClock ==
  ASSUME TypeOK, path = "rx", RxRoom, NEW n \in LvdsRxNext
  PROVE  RxClocked(n)
<1> DEFINE room == made + Cardinality(Pushed) + Cardinality(Busy \cup lines.fed) <= MaxRx
           settled == (Busy \cup Pushed \subseteq lines.fed)
<1>1. PICK sym \in SUBSET (IF room THEN lines.fed ELSE lines.fed \cap Busy) :
        n = [lines EXCEPT !.rx = [c \in Channels |-> LvdsRxClock(lines.rx[c], fifo.full, c \in sym)],
                          !.settled = settled]
  BY DEF LvdsRxNext
<1>2. PICK rx : rx = [c \in Channels |-> LvdsRxClock(lines.rx[c], fifo.full, c \in sym)]
  OBVIOUS
<1>3. fifo.full \in BOOLEAN /\ made \in Nat
  BY FifoTyped, Numbers DEF TypeOK
<1>4. \A c \in Channels :
        /\ rx[c] \in Receivers
        /\ rx[c].push => rx[c].state = "idle" /\ lines.rx[c].state # "idle" /\ ~fifo.full
        /\ Load(rx[c]) <= IF lines.rx[c].state # "idle" \/ c \in sym THEN 1 ELSE 0
  <2> SUFFICES ASSUME NEW c \in Channels
               PROVE  /\ rx[c] \in Receivers
                      /\ rx[c].push => /\ rx[c].state = "idle" /\ lines.rx[c].state # "idle"
                                       /\ ~fifo.full
                      /\ Load(rx[c]) <= IF lines.rx[c].state # "idle" \/ c \in sym THEN 1 ELSE 0
    OBVIOUS
  <2>1. PICK r \in Receivers : r = lines.rx[c]
    BY LinesTyped
  <2> DEFINE s == c \in sym
  <2>2. s \in BOOLEAN /\ (s <=> c \in sym)
    OBVIOUS
  <2>3. rx[c] = LvdsRxClock(r, fifo.full, s)
    BY <1>2, <2>1
  <2> HIDE DEF s
  <2>4. /\ rx[c] \in Receivers
        /\ rx[c].push => rx[c].state = "idle" /\ r.state # "idle" /\ ~fifo.full
        /\ Load(rx[c]) <= IF r.state # "idle" \/ s THEN 1 ELSE 0
    BY <1>3, <2>2, <2>3, ReceiverClock
  <2> QED
    BY <2>1, <2>2, <2>4
<1>5. settled \in BOOLEAN /\ (settled => Pushed \subseteq lines.fed)
  OBVIOUS
<1>6. sym \subseteq lines.fed /\ (~room => sym \subseteq Busy)
  OBVIOUS
<1>7. room <=> made + Cardinality(Pushed) + Cardinality(Busy \cup lines.fed) <= MaxRx
  OBVIOUS
<1>8. n = [lines EXCEPT !.rx = rx, !.settled = settled]
  BY <1>1, <1>2
<1> HIDE DEF room, settled
<1>9. n.rx = rx /\ n.settled = settled /\ n.fed = lines.fed /\ n.channel = lines.channel
  BY <1>8, LinesTyped DEF LvdsRx
<1>10. n \in LvdsRx
  <2>1. rx \in [Channels -> Receivers]
    BY <1>2, <1>4
  <2> QED
    BY <1>5, <1>8, <2>1, LinesTyped DEF LvdsRx
<1>11. made + Pushes(lines.rx[0]) + Pushes(lines.rx[1]) + Load(rx[0]) + Load(rx[1]) <= MaxRx
  <2>1. 0 \in Channels /\ 1 \in Channels
    BY DEF Channels
  <2>2. /\ Pushes(lines.rx[0]) = (IF 0 \in Pushed THEN 1 ELSE 0)
        /\ Pushes(lines.rx[1]) = (IF 1 \in Pushed THEN 1 ELSE 0)
        /\ Load(lines.rx[0]) = Pushes(lines.rx[0]) + (IF 0 \in Busy THEN 1 ELSE 0)
        /\ Load(lines.rx[1]) = Pushes(lines.rx[1]) + (IF 1 \in Busy THEN 1 ELSE 0)
    BY <2>1 DEF Pushes, Load, Pushed, Busy
  <2>3. Pushed \in SUBSET Channels /\ Busy \cup lines.fed \in SUBSET Channels
    BY LinesTyped DEF Pushed, Busy
  <2>4. Cardinality(Pushed) = Pushes(lines.rx[0]) + Pushes(lines.rx[1])
    BY <2>2, <2>3, TwoChannels
  <2>5. PICK k : k = Cardinality(Busy \cup lines.fed)
    OBVIOUS
  <2>6. k = (IF 0 \in Busy \cup lines.fed THEN 1 ELSE 0)
              + (IF 1 \in Busy \cup lines.fed THEN 1 ELSE 0)
    BY <2>3, <2>5, TwoChannels
  <2>7. /\ Load(rx[0]) \in Nat /\ Load(rx[1]) \in Nat
        /\ Pushes(lines.rx[0]) \in Nat /\ Pushes(lines.rx[1]) \in Nat
        /\ made + Load(lines.rx[0]) + Load(lines.rx[1]) <= MaxRx
    BY DEF Load, Pushes, RxRoom
  <2>8. /\ Load(rx[0]) <= IF 0 \in Busy \/ 0 \in sym THEN 1 ELSE 0
        /\ Load(rx[1]) <= IF 1 \in Busy \/ 1 \in sym THEN 1 ELSE 0
    BY <1>4, <2>1 DEF Busy
  <2>9. CASE room
    <3>1. made + (Pushes(lines.rx[0]) + Pushes(lines.rx[1])) + k <= MaxRx
      BY <1>7, <2>4, <2>5, <2>9
    <3>2. Load(rx[0]) <= (IF 0 \in Busy \cup lines.fed THEN 1 ELSE 0)
      BY <1>6, <2>7, <2>8
    <3>3. Load(rx[1]) <= (IF 1 \in Busy \cup lines.fed THEN 1 ELSE 0)
      BY <1>6, <2>7, <2>8
    <3>4. Load(rx[0]) + Load(rx[1]) <= k
      BY <2>6, <2>7, <3>2, <3>3
    <3>5. k \in Nat
      BY <2>6
    <3> QED
      BY <1>3, <2>7, <3>1, <3>4, <3>5, Numbers
  <2>10. CASE ~room
    <3>1. Load(rx[0]) <= (IF 0 \in Busy THEN 1 ELSE 0) /\ Load(rx[1]) <= (IF 1 \in Busy THEN 1 ELSE 0)
      BY <1>6, <2>8, <2>10
    <3> QED
      BY <1>3, <2>2, <2>7, <3>1, Numbers
  <2> QED
    BY <2>9, <2>10
<1> QED
  BY <1>4, <1>5, <1>9, <1>10, <1>11 DEF RxClocked

-----------------------------------------------------------------------------
(* lvds_tx.v. *)

(* The fields of the transmitter. *)
LEMMA TransmitterTyped ==
  ASSUME NEW l \in LvdsTx
  PROVE  /\ l.state \in {"sync", "tx"} /\ l.phase \in 0..(2 * FrameClocks - 1)
         /\ l.pulled \in BOOLEAN /\ l.frame \in Words /\ l.sync \in 0..SyncFrames
         /\ l.zero \in BOOLEAN /\ l.on \in BOOLEAN
         /\ l.phase \in Nat /\ l.sync \in Nat
BY Numbers DEF LvdsTx

(* What a clock does with the word that was pulled and with the frame. *)
TxClocked(l, n, empty, word) ==
  /\ n.pulled => ~empty /\ ~l.pulled
  /\ n.frame # l.frame => l.phase = 0
  /\ \/ n.frame = 0 \/ n.frame = l.frame
     \/ l.pulled /\ n.frame = word /\ ~n.pulled
  /\ l.pulled => n.frame = word \/ (l.state = "tx" /\ ~l.on)

(* The word pulled is the frame a clock later, but for a turn of the direction.   *)
Shown(l, n, word) ==
  l.pulled /\ n.phase # l.phase => n.frame = word \/ (l.state = "tx" /\ ~l.on)

(* The transmitter's phase counts down around its frame. *)
LEMMA NextPhase ==
  ASSUME NEW l \in LvdsTx, NEW m \in LvdsTx, NEW n,
         n = [m EXCEPT !.phase = IF l.phase = 0 THEN 2 * FrameClocks - 1 ELSE l.phase - 1]
  PROVE  /\ n \in LvdsTx /\ n.state = m.state /\ n.pulled = m.pulled /\ n.frame = m.frame
         /\ n.sync = m.sync /\ n.zero = m.zero /\ n.on = m.on
         /\ n.phase \in Nat /\ (n.phase = 0 <=> l.phase = 1)
<1> DEFINE p == IF l.phase = 0 THEN 2 * FrameClocks - 1 ELSE l.phase - 1
<1>1. p \in 0..(2 * FrameClocks - 1) /\ (p = 0 <=> l.phase = 1)
  BY TransmitterTyped, Numbers
<1>2. n = [m EXCEPT !.phase = p]
  OBVIOUS
<1> HIDE DEF p
<1>3. n \in LvdsTx /\ n.phase = p
  BY <1>1, <1>2 DEF LvdsTx
<1>4. n.state = m.state /\ n.pulled = m.pulled /\ n.frame = m.frame
  BY <1>2 DEF LvdsTx
<1>5. n.sync = m.sync /\ n.zero = m.zero /\ n.on = m.on
  BY <1>2 DEF LvdsTx
<1> QED
  BY <1>1, <1>3, <1>4, <1>5

(* The transmitter takes a word only where a frame begins. *)
LEMMA TransmitterClock ==
  ASSUME NEW l \in LvdsTx, Whole(l), NEW empty \in BOOLEAN, NEW word \in Words,
         NEW n, n = LvdsTxClock(l, empty, word)
  PROVE  n \in LvdsTx /\ Whole(n) /\ TxClocked(l, n, empty, word)
<1> DEFINE next(m) == [m EXCEPT !.phase = IF l.phase = 0 THEN 2 * FrameClocks - 1 ELSE l.phase - 1]
<1>1. CASE l.state = "sync" /\ l.phase = 0
  <2> DEFINE f == IF l.zero THEN 0 ELSE l.frame
  <2>1. PICK m : m = [l EXCEPT !.frame = f, !.zero = FALSE]
    OBVIOUS
  <2>2. n = next(m)
    BY <1>1, <2>1 DEF LvdsTxClock
  <2>3. m \in LvdsTx /\ m.state = "sync" /\ m.pulled = FALSE /\ m.frame = f /\ m.sync = l.sync
    BY <1>1, <2>1, TransmitterTyped, Numbers, ZenonT(60) DEF LvdsTx, Whole
  <2>4. l.sync < SyncFrames => f = 0
    BY <1>1 DEF Whole
  <2>5. n \in LvdsTx /\ n.pulled = FALSE /\ n.frame = f /\ n.sync = l.sync
    BY <2>2, <2>3, NextPhase
  <2> QED
    BY <1>1, <2>4, <2>5 DEF Whole, TxClocked
<1>2. CASE l.state = "sync" /\ l.phase = 1 /\ l.sync > 0
  <2>1. PICK m : m = [l EXCEPT !.sync = l.sync - 1, !.zero = TRUE]
    OBVIOUS
  <2>2. n = next(m)
    BY <1>2, <2>1 DEF LvdsTxClock
  <2>3. l.sync - 1 \in 0..SyncFrames
    BY <1>2, TransmitterTyped, Numbers
  <2>4. m \in LvdsTx /\ m.pulled = FALSE /\ m.frame = l.frame /\ m.zero = TRUE
    BY <1>2, <2>1, <2>3, TransmitterTyped DEF LvdsTx, Whole
  <2>5. n \in LvdsTx /\ n.pulled = FALSE /\ n.frame = l.frame /\ n.zero = TRUE /\ n.phase = 0
    BY <1>2, <2>2, <2>4, NextPhase
  <2> QED
    BY <1>2, <2>5 DEF Whole, TxClocked
<1>3. CASE l.state = "sync" /\ l.phase = 1 /\ l.sync = 0 /\ l.on
  <2>1. PICK m : m = [l EXCEPT !.state = "tx", !.pulled = ~empty]
    OBVIOUS
  <2>2. n = next(m)
    BY <1>3, <2>1, TransmitterTyped DEF LvdsTxClock
  <2>3. m \in LvdsTx /\ m.state = "tx" /\ m.pulled = ~empty /\ m.frame = l.frame
    BY <1>3, <2>1, TransmitterTyped, ZenonT(60) DEF LvdsTx
  <2>4. n \in LvdsTx /\ n.state = "tx" /\ n.pulled = ~empty /\ n.frame = l.frame /\ n.phase = 0
    BY <1>3, <2>2, <2>3, NextPhase
  <2> QED
    BY <1>3, <2>4 DEF Whole, TxClocked
<1>4. CASE l.state = "sync" /\ l.phase = 1 /\ l.sync = 0 /\ ~l.on
  <2>1. PICK m : m = [l EXCEPT !.sync = SyncFrames, !.frame = 0]
    OBVIOUS
  <2>2. n = next(m)
    BY <1>4, <2>1, TransmitterTyped DEF LvdsTxClock
  <2>3. m \in LvdsTx /\ m.pulled = FALSE /\ m.frame = 0
    BY <1>4, <2>1, TransmitterTyped, Numbers DEF LvdsTx, Whole
  <2>4. n \in LvdsTx /\ n.pulled = FALSE /\ n.frame = 0
    BY <2>2, <2>3, NextPhase
  <2>5. l.frame = 0
    BY <1>4, Numbers DEF Whole
  <2> QED
    BY <1>4, <2>4, <2>5 DEF Whole, TxClocked
<1>5. CASE l.state = "tx" /\ ~l.on
  <2>1. PICK m : m = [l EXCEPT !.state = "sync", !.sync = SyncFrames, !.pulled = FALSE]
    OBVIOUS
  <2>2. n = next(m)
    BY <1>5, <2>1 DEF LvdsTxClock, Silenced
  <2>3. m \in LvdsTx /\ m.pulled = FALSE /\ m.frame = l.frame /\ m.sync = SyncFrames
    BY <2>1, TransmitterTyped, Numbers DEF LvdsTx
  <2>4. n \in LvdsTx /\ n.pulled = FALSE /\ n.frame = l.frame /\ n.sync = SyncFrames
    BY <2>2, <2>3, NextPhase
  <2> QED
    BY <1>5, <2>4, Numbers DEF Whole, TxClocked
<1>6. CASE l.state = "tx" /\ l.on /\ l.phase = 1
  <2>1. PICK m : m = [l EXCEPT !.pulled = ~empty]
    OBVIOUS
  <2>2. n = next(m)
    BY <1>6, <2>1 DEF LvdsTxClock
  <2>3. m \in LvdsTx /\ m.state = "tx" /\ m.pulled = ~empty /\ m.frame = l.frame
    BY <1>6, <2>1, TransmitterTyped DEF LvdsTx
  <2>4. n \in LvdsTx /\ n.state = "tx" /\ n.pulled = ~empty /\ n.frame = l.frame /\ n.phase = 0
    BY <1>6, <2>2, <2>3, NextPhase
  <2>5. ~l.pulled
    BY <1>6 DEF Whole
  <2>6. n.pulled => ~empty
    BY <2>4
  <2> QED
    BY <2>4, <2>5, <2>6 DEF Whole, TxClocked
<1>7. CASE l.state = "tx" /\ l.on /\ l.phase = 0 /\ l.pulled
  <2>1. PICK m : m = [l EXCEPT !.frame = word, !.pulled = FALSE]
    OBVIOUS
  <2>2. n = next(m)
    BY <1>7, <2>1 DEF LvdsTxClock
  <2>3. m \in LvdsTx /\ m.state = "tx" /\ m.pulled = FALSE /\ m.frame = word
    BY <1>7, <2>1, TransmitterTyped DEF LvdsTx
  <2>4. n \in LvdsTx /\ n.state = "tx" /\ n.pulled = FALSE /\ n.frame = word
    BY <2>2, <2>3, NextPhase
  <2> QED
    BY <1>7, <2>4 DEF Whole, TxClocked
<1>8. CASE l.state = "tx" /\ l.on /\ l.phase = 0 /\ ~l.pulled
  <2>1. PICK m : m = [l EXCEPT !.frame = 0, !.state = "sync", !.sync = SyncFrames]
    OBVIOUS
  <2>2. n = next(m)
    BY <1>8, <2>1 DEF LvdsTxClock
  <2>3. m \in LvdsTx /\ m.pulled = FALSE /\ m.frame = 0
    BY <1>8, <2>1, TransmitterTyped, Numbers DEF LvdsTx
  <2>4. n \in LvdsTx /\ n.pulled = FALSE /\ n.frame = 0
    BY <2>2, <2>3, NextPhase
  <2> QED
    BY <1>8, <2>4 DEF Whole, TxClocked
<1>9. CASE l.phase # 0 /\ l.phase # 1 /\ ~(l.state = "tx" /\ ~l.on)
  <2>1. n = next(l)
    BY <1>9 DEF LvdsTxClock
  <2>2. /\ n \in LvdsTx /\ n.state = l.state /\ n.pulled = l.pulled /\ n.frame = l.frame
        /\ n.sync = l.sync
    BY <2>1, NextPhase
  <2> QED
    BY <1>9, <2>2 DEF Whole, TxClocked
<1> QED
  BY <1>1, <1>2, <1>3, <1>4, <1>5, <1>6, <1>7, <1>8, <1>9, TransmitterTyped

-----------------------------------------------------------------------------
(* The receive path. *)

(* An edge of the modem's clock, of the system clock or of both. *)
RxTick(wen, ren) ==
  /\ path = "rx" /\ path' = path /\ past' = past
  /\ FifoStep(fifo, fifo', wen, made + 1, ren)
  /\ made' = IF wen THEN made + 1 ELSE made
  /\ \/ (wen <=> lines.rx[lines.channel].push) /\ RxClocked(lines')
     \/ ~wen /\ lines' = lines
  /\ \/ (ren <=> Pulling) /\ smi' = Sampled(smi)
     \/ ~ren /\ smi' = smi

RxEdge == RxClock \/ RxSysClock \/ RxBothClocks

(* Every clock edge of the receive path is a tick of the fifo with its
   enables. *)
LEMMA RxEdges ==
  ASSUME IInv, RxEdge
  PROVE  \E wen, ren \in BOOLEAN : RxTick(wen, ren)
<1>1. path = "rx" /\ TypeOK /\ RxRoom /\ smi \in SmiStates /\ fifo \in Fifos(Words)
  BY DEF RxEdge, RxClock, RxSysClock, RxBothClocks, IInv, TypeOK
<1> DEFINE push == Pushing
           pull == Pulling
<1>2. push \in BOOLEAN /\ (push <=> lines.rx[lines.channel].push)
  <2>1. lines.rx[lines.channel] \in Receivers
    BY <1>1, LinesTyped
  <2> QED
    BY <2>1, ReceiverTyped DEF Pushing
<1>3. pull \in BOOLEAN /\ (pull <=> Pulling)
  BY DEF Pulling
<1>4. Offer(TRUE) = made + 1 /\ Offer(push) = (IF push THEN made + 1 ELSE made)
  BY DEF Offer
<1>5. \A n \in LvdsRxNext : RxClocked(n)
  BY <1>1, ReceiversClock
<1>6. CASE RxClock
  <2>1. fifo' \in WriteOnly(fifo, push, made + 1) /\ made' = (IF push THEN made + 1 ELSE made)
    BY <1>4, <1>6 DEF RxClock
  <2>2. RxClocked(lines') /\ path' = path /\ past' = past /\ smi' = smi
    BY <1>5, <1>6 DEF RxClock
  <2> HIDE DEF push
  <2>3. RxTick(push, FALSE)
    BY <1>1, <1>2, <2>1, <2>2 DEF RxTick, FifoStep
  <2> QED
    BY <1>2, <2>3
<1>7. CASE RxSysClock
  <2>1. /\ fifo' \in ReadOnly(fifo, pull) /\ smi' = Sampled(smi)
        /\ path' = path /\ lines' = lines /\ made' = made /\ past' = past
    BY <1>7 DEF RxSysClock
  <2> HIDE DEF pull
  <2>2. RxTick(FALSE, pull)
    BY <1>1, <1>3, <2>1 DEF RxTick, FifoStep
  <2> QED
    BY <1>3, <2>2
<1>8. CASE RxBothClocks
  <2>1. /\ fifo' \in Together(fifo, push, made + 1, pull)
        /\ made' = (IF push THEN made + 1 ELSE made)
    BY <1>4, <1>8 DEF RxBothClocks
  <2>2. RxClocked(lines') /\ path' = path /\ past' = past /\ smi' = Sampled(smi)
    BY <1>5, <1>8 DEF RxBothClocks
  <2> HIDE DEF push, pull
  <2>3. RxTick(push, pull)
    BY <1>1, <1>2, <1>3, <2>1, <2>2 DEF RxTick, FifoStep
  <2> QED
    BY <1>2, <1>3, <2>3
<1> QED
  BY <1>6, <1>7, <1>8 DEF RxEdge

(* A word is pushed into room only, and read when there is one. *)
LEMMA RxAllowed ==
  ASSUME IInv, NEW wen \in BOOLEAN, NEW ren \in BOOLEAN, RxTick(wen, ren)
  PROVE  /\ wen => ~fifo.full /\ made + 1 \in Words
         /\ ren => ~fifo.empty /\ smi.since = 1 /\ smi.at = 2
<1>1. /\ path = "rx" /\ TypeOK /\ RxRoom /\ RxPushes /\ RxHost /\ Strobed /\ smi \in SmiStates
      /\ made \in Nat
  BY Numbers DEF RxTick, IInv, TypeOK
<1>2. ASSUME wen PROVE ~fifo.full /\ made + 1 \in Words
  <2>1. lines.rx[lines.channel].push /\ lines.channel \in Channels
    BY <1>1, <1>2, LinesTyped DEF RxTick
  <2>2. ~fifo.full
    BY <1>1, <2>1 DEF RxPushes
  <2>3. made + Load(lines.rx[0]) + Load(lines.rx[1]) <= MaxRx
    BY <1>1 DEF RxRoom
  <2>4. lines.rx[0].push \/ lines.rx[1].push
    BY <2>1 DEF Channels
  <2>5. made + 1 <= MaxRx
    BY <1>1, <2>3, <2>4, Numbers DEF Load
  <2> QED
    BY <1>1, <2>2, <2>5, Numbers
<1>3. ASSUME ren PROVE ~fifo.empty /\ smi.since = 1 /\ smi.at = 2
  <2>1. Request(smi) /\ ~fifo.empty
    BY <1>3 DEF RxTick, Pulling
  <2> QED
    BY <1>1, <2>1, Requested DEF RxHost
<1> QED
  BY <1>2, <1>3

(* The fifo of the receive path does what its enables say. *)
LEMMA RxFifo ==
  ASSUME IInv, NEW wen \in BOOLEAN, NEW ren \in BOOLEAN, RxTick(wen, ren)
  PROVE  fifo' \in Fifos(Words) /\ FifoInv(fifo') /\ Ticked(fifo, fifo', wen, made + 1, ren)
<1>1. fifo \in Fifos(Words) /\ FifoInv(fifo) /\ FifoStep(fifo, fifo', wen, made + 1, ren)
  BY DEF IInv, TypeOK, RxTick
<1>2. (wen => ~fifo.full) /\ (wen => made + 1 \in Words) /\ (ren => ~fifo.empty)
  BY RxAllowed
<1> QED
  BY <1>1, <1>2, FifoSteps

(* Sampling keeps the strobe and its two registers in step. *)
LEMMA StrobedSampled ==
  ASSUME smi \in SmiStates, Strobed, smi' = Sampled(smi)
  PROVE  smi' \in SmiStates /\ Strobed' /\ SysEdge(smi, smi')
<1>1. smi' \in SmiStates /\ SysEdge(smi, smi')
  BY SampledEdge
<1>2. PICK a \in Nat : a = smi.since
  BY SmiTyped
<1>3. PICK b \in Nat : b = smi'.since
  BY <1>1, SmiTyped
<1>4. b = (IF a < StrobeEdges THEN a + 1 ELSE a) /\ a <= StrobeEdges
  BY <1>1, <1>2, <1>3, SmiTyped DEF SysEdge
<1>5. b # 0 /\ (b = 1 => a = 0) /\ (b >= 2 => a >= 1)
  BY <1>4, Numbers
<1>6. a >= 1 => smi.req = smi.trigger
  BY <1>2 DEF Strobed
<1> QED
  BY <1>1, <1>2, <1>3, <1>5, <1>6 DEF Strobed, SysEdge

(* A clock edge of the receive path keeps the invariant and the word at the
   host. *)
LEMMA RxTickKeeps ==
  ASSUME IInv, NEW wen \in BOOLEAN, NEW ren \in BOOLEAN, RxTick(wen, ren)
  PROVE  IInv' /\ smi'.word = smi.word
<1>1. /\ path = "rx" /\ path' = "rx" /\ past' = past
      /\ TypeOK /\ RxRoom /\ RxPushes /\ RxWords /\ RxHost /\ Strobed
      /\ fifo \in Fifos(Words) /\ smi \in SmiStates /\ lines \in LvdsRx
      /\ made \in Words /\ past \in PastStates /\ made \in Nat
  BY Numbers DEF RxTick, IInv, TypeOK
<1>2. /\ fifo' \in Fifos(Words) /\ FifoInv(fifo') /\ Ticked(fifo, fifo', wen, made + 1, ren)
  BY RxFifo
<1>3. (wen => made + 1 \in Words) /\ (ren => smi.since = 1 /\ smi.at = 2)
  BY RxAllowed
<1>4. made' = (IF wen THEN made + 1 ELSE made) /\ made' \in Words /\ made' \in Nat
  BY <1>1, <1>3 DEF RxTick
<1>5. smi' \in SmiStates /\ Strobed' /\ (SysEdge(smi, smi') \/ (~ren /\ smi' = smi))
  <2>1. CASE smi' = Sampled(smi)
    BY <1>1, <2>1, StrobedSampled
  <2>2. CASE ~ren /\ smi' = smi
    BY <1>1, <2>2 DEF Strobed
  <2> QED
    BY <2>1, <2>2 DEF RxTick
<1>6. \/ (wen <=> lines.rx[lines.channel].push) /\ RxClocked(lines')
      \/ ~wen /\ lines' = lines
  BY DEF RxTick
<1>7. lines' \in LvdsRx
  BY <1>1, <1>6 DEF RxClocked
<1>8. TypeOK'
  BY <1>1, <1>2, <1>4, <1>5, <1>7 DEF TypeOK
<1>9. RxRoom'
  <2>1. CASE ~wen /\ lines' = lines
    BY <1>1, <1>4, <2>1 DEF RxRoom
  <2>2. CASE (wen <=> lines.rx[lines.channel].push) /\ RxClocked(lines')
    <3>1. made + Pushes(lines.rx[0]) + Pushes(lines.rx[1])
            + Load(lines'.rx[0]) + Load(lines'.rx[1]) <= MaxRx
      BY <2>2 DEF RxClocked
    <3>2. wen => lines.rx[0].push \/ lines.rx[1].push
      BY <1>1, <2>2, LinesTyped DEF Channels
    <3>3. /\ Pushes(lines.rx[0]) \in Nat /\ Pushes(lines.rx[1]) \in Nat
          /\ wen => Pushes(lines.rx[0]) + Pushes(lines.rx[1]) >= 1
      BY <3>2 DEF Pushes
    <3>4. Load(lines'.rx[0]) \in Nat /\ Load(lines'.rx[1]) \in Nat
      BY DEF Load
    <3>5. made' + Load(lines'.rx[0]) + Load(lines'.rx[1]) <= MaxRx
      BY <1>1, <1>4, <3>1, <3>3, <3>4, Numbers
    <3> QED
      BY <3>5 DEF RxRoom
  <2> QED
    BY <1>6, <2>1, <2>2
<1>10. RxPushes'
  <2> SUFFICES ASSUME NEW c \in Channels, lines'.rx[c].push
               PROVE  /\ lines'.rx[c].state = "idle"
                      /\ fifo'.full => lines'.channel # c /\ ~ReadyFor(c)'
    BY DEF RxPushes
  <2>1. fifo'.full => fifo.full \/ wen
    BY <1>2 DEF Ticked
  <2>2. CASE ~wen /\ lines' = lines
    BY <1>1, <2>1, <2>2 DEF RxPushes, ReadyFor
  <2>3. CASE (wen <=> lines.rx[lines.channel].push) /\ RxClocked(lines')
    <3>1. /\ lines'.rx[c].state = "idle" /\ lines.rx[c].state # "idle" /\ ~fifo.full
          /\ lines'.fed = lines.fed /\ lines'.channel = lines.channel
          /\ lines'.settled => Pushed \subseteq lines.fed
      BY <2>3 DEF RxClocked
    <3>2. ASSUME fifo'.full PROVE lines'.channel # c /\ ~ReadyFor(c)'
      <4>1. wen /\ lines.rx[lines.channel].push /\ lines.channel \in Channels
        BY <1>1, <2>1, <2>3, <3>1, <3>2, LinesTyped
      <4>2. lines.rx[lines.channel].state = "idle"
        BY <1>1, <4>1 DEF RxPushes
      <4>3. lines.channel # c
        BY <3>1, <4>2
      <4>4. lines.channel \in Pushed
        BY <4>1 DEF Pushed
      <4> QED
        BY <3>1, <4>3, <4>4 DEF ReadyFor
    <3> QED
      BY <3>1, <3>2
  <2> QED
    BY <1>6, <2>2, <2>3
<1>11. PICK n \in Nat : n = Held(fifo)
  BY <1>1, ContentsWords
<1>12. PICK m \in Nat : m = Held(fifo')
  BY <1>2, ContentsWords
<1>13. /\ m = n + (IF wen THEN 1 ELSE 0) - (IF ren THEN 1 ELSE 0)
       /\ fifo'.rd_data = (IF ren THEN Word(fifo, 1) ELSE fifo.rd_data)
       /\ \A i \in 1..m : Word(fifo', i) =
            IF wen /\ i = m THEN made + 1 ELSE Word(fifo, IF ren THEN i + 1 ELSE i)
  BY <1>2, <1>11, <1>12 DEF Ticked
<1>14. fifo.rd_data = made - n /\ \A i \in 1..n : Word(fifo, i) = made - n + i
  BY <1>1, <1>11 DEF RxWords
<1>15. fifo'.rd_data = IF ren THEN fifo.rd_data + 1 ELSE fifo.rd_data
  <2>1. ren => ~fifo.empty
    BY RxAllowed
  <2>2. FifoInv(fifo)
    BY DEF IInv
  <2>3. ren => n >= 1
    BY <1>1, <1>11, <2>1, <2>2, FlagsSafe
  <2>4. ren => Word(fifo, 1) = made - n + 1
    BY <1>14, <2>3
  <2> QED
    BY <1>1, <1>13, <1>14, <2>4
<1>16. RxWords'
  <2>1. fifo'.rd_data = made' - m
    BY <1>1, <1>4, <1>13, <1>14, <1>15
  <2>2. ASSUME NEW i \in 1..m PROVE Word(fifo', i) = made' - m + i
    <3>1. CASE wen /\ i = m
      BY <1>1, <1>4, <1>13, <3>1
    <3>2. CASE ~(wen /\ i = m)
      <4>1. PICK k : k = IF ren THEN i + 1 ELSE i
        OBVIOUS
      <4>2. k \in 1..n
        BY <1>13, <3>2, <4>1
      <4>3. Word(fifo', i) = Word(fifo, k)
        BY <1>13, <3>2, <4>1
      <4>4. Word(fifo, k) = made - n + k
        BY <1>14, <4>2
      <4> QED
        BY <1>1, <1>4, <1>13, <4>1, <4>3, <4>4
    <3> QED
      BY <3>1, <3>2
  <2> QED
    BY <1>12, <2>1, <2>2 DEF RxWords
<1>17. smi'.word = smi.word /\ smi'.at = smi.at /\ smi'.trigger = smi.trigger
  BY <1>5 DEF SysEdge
<1>18. RxHost'
  <2>1. fifo.rd_data # smi.word => /\ fifo.rd_data = smi.word + 1
                                   /\ smi.at = 2 \/ smi.at = 3
                                   /\ smi.at = 2 => smi.since >= 2
    BY <1>1 DEF RxHost
  <2>2. smi.since = 1 => smi'.since = 2 \/ smi' = smi
    BY <1>5, Numbers DEF SysEdge
  <2>3. smi.since >= 2 => smi'.since >= 2
    BY <1>1, <1>5, SmiTyped DEF SysEdge
  <2>4. CASE ren
    <3>1. smi.since = 1 /\ smi.at = 2 /\ SysEdge(smi, smi')
      BY <1>3, <1>5, <2>4
    <3>2. fifo.rd_data = smi.word
      BY <2>1, <3>1
    <3>3. smi'.since = 2
      BY <3>1, Numbers DEF SysEdge
    <3> QED
      BY <1>1, <1>15, <1>17, <2>4, <3>1, <3>2, <3>3 DEF RxHost
  <2>5. CASE ~ren
    BY <1>1, <1>15, <1>17, <2>1, <2>3, <2>5 DEF RxHost
  <2> QED
    BY <2>4, <2>5
<1>19. TxWhole' /\ TxHost' /\ TxOffered' /\ TxWords'
  BY <1>1 DEF TxWhole, TxHost, TxOffered, TxWords
<1> QED
  BY <1>2, <1>5, <1>8, <1>9, <1>10, <1>16, <1>17, <1>18, <1>19 DEF IInv

(* A strobe of the host: the level of the trigger changes, its two registers don't. *)
Strobe(s, t) ==
  /\ s.since = StrobeEdges /\ t.since = 0 /\ t.req = s.req /\ t.req1 = s.req1

(* At the host's next strobe both registers have caught up with the last. *)
LEMMA StrobedStrobe ==
  ASSUME smi \in SmiStates, Strobed, Strobe(smi, smi')
  PROVE  Strobed' /\ smi.req = smi.trigger /\ smi.req1 = smi.trigger
<1>1. smi.req = smi.trigger /\ smi.req1 = smi.trigger
  BY Numbers DEF Strobed, Strobe
<1>2. smi'.since = 0 /\ smi'.req = smi'.req1
  BY <1>1 DEF Strobe
<1> QED
  BY <1>1, <1>2 DEF Strobed

(* A strobe keeps the invariant and goes to the next word at most. *)
LEMMA RxStrobeKeeps ==
  ASSUME IInv, RxStrobe
  PROVE  IInv' /\ (smi'.word # smi.word => smi'.word = smi.word + 1)
<1>1. /\ path = "rx" /\ path' = "rx" /\ fifo' = fifo /\ lines' = lines /\ made' = made
      /\ past' = past /\ smi.since = StrobeEdges
      /\ TypeOK /\ Strobed /\ RxHost /\ FifoInv(fifo)
      /\ fifo \in Fifos(Words) /\ smi \in SmiStates
  BY DEF RxStrobe, IInv, TypeOK
<1> DEFINE a == (smi.at + 1) % 4
           t == smi.at = 1
           w == IF smi.at = 3 THEN fifo.rd_data ELSE smi.word
<1>2. smi' = [smi EXCEPT !.trigger = t, !.at = a, !.since = 0, !.word = w]
  BY DEF RxStrobe
<1>3. /\ a \in 0..3 /\ t \in BOOLEAN /\ w \in Words /\ 0 \in 0..StrobeEdges
      /\ a = IF smi.at = 3 THEN 0 ELSE smi.at + 1
  BY <1>1, SmiTyped, FifoTyped, Numbers
<1>4. (t <=> a = 2) /\ (smi.at = 3 => w = fifo.rd_data) /\ (smi.at # 3 => w = smi.word)
      /\ smi.at \in 0..3
  BY <1>1, <1>3, SmiTyped
<1> HIDE DEF a, t, w
<1>5. smi' \in SmiStates
  BY <1>1, <1>2, <1>3 DEF SmiStates
<1>6. /\ smi'.at = a /\ smi'.trigger = t /\ smi'.word = w
  BY <1>1, <1>2 DEF SmiStates
<1>7. smi'.since = 0 /\ smi'.req = smi.req /\ smi'.req1 = smi.req1
  BY <1>1, <1>2 DEF SmiStates
<1>8. Strobed'
  BY <1>1, <1>7, StrobedStrobe DEF Strobe
<1>9. TypeOK'
  BY <1>1, <1>5 DEF TypeOK
<1>10. fifo.rd_data # smi.word => /\ fifo.rd_data = smi.word + 1
                                  /\ smi.at = 2 \/ smi.at = 3
  BY <1>1 DEF RxHost
<1>11. RxHost'
  <2>1. CASE smi.at = 3
    BY <1>1, <1>3, <1>4, <1>6, <2>1 DEF RxHost
  <2>2. CASE smi.at = 2
    BY <1>1, <1>3, <1>4, <1>6, <1>10, <2>2 DEF RxHost
  <2>3. CASE smi.at = 0 \/ smi.at = 1
    BY <1>1, <1>3, <1>4, <1>6, <1>10, <2>3 DEF RxHost
  <2> QED
    BY <1>4, <2>1, <2>2, <2>3
<1>12. smi'.word # smi.word => smi'.word = smi.word + 1
  BY <1>4, <1>6, <1>10
<1>13. RxRoom' /\ RxPushes' /\ RxWords'
  BY <1>1 DEF IInv, RxRoom, RxPushes, RxWords, ReadyFor
<1>14. TxWhole' /\ TxHost' /\ TxOffered' /\ TxWords'
  BY <1>1 DEF TxWhole, TxHost, TxOffered, TxWords
<1> QED
  BY <1>1, <1>8, <1>9, <1>11, <1>12, <1>13, <1>14 DEF IInv

(* Switching radios or channels keeps the invariant. *)
LEMMA SelectKeeps ==
  ASSUME IInv, SelectRadio \/ SelectChannel
  PROVE  IInv' /\ smi'.word = smi.word
<1>1. /\ path = "rx" /\ path' = "rx" /\ fifo' = fifo /\ smi' = smi /\ made' = made
      /\ TypeOK /\ FifoInv(fifo) /\ RxPushes
  BY DEF SelectRadio, SelectChannel, IInv, TypeOK
<1>2. past' \in PastStates
  <2>1. past \in PastStates /\ past.faults + 1 \in Nat
    BY <1>1 DEF TypeOK, PastStates
  <2>2. past' = past \/ past' = [past EXCEPT !.faults = past.faults + 1]
    BY DEF SelectRadio, SelectChannel
  <2> QED
    BY <2>1, <2>2 DEF PastStates
<1>3. /\ lines' \in LvdsRx /\ lines'.rx = lines.rx
      /\ \/ lines'.channel = lines.channel /\ lines'.settled = FALSE
         \/ lines'.fed = lines.fed /\ lines'.settled = lines.settled /\ ReadyFor(lines'.channel)
  <2>1. CASE SelectRadio
    <3>1. PICK fed \in {{0}, {1}, {0, 1}} : lines' = [lines EXCEPT !.fed = fed, !.settled = FALSE]
      BY <2>1 DEF SelectRadio
    <3>2. fed \in SUBSET Channels
      BY DEF Channels
    <3> QED
      BY <1>1, <3>1, <3>2, LinesTyped DEF LvdsRx
  <2>2. CASE SelectChannel
    <3>1. PICK c \in Channels : ReadyFor(c) /\ lines' = [lines EXCEPT !.channel = c]
      BY <2>2 DEF SelectChannel
    <3> QED
      BY <1>1, <3>1, LinesTyped DEF LvdsRx
  <2> QED
    BY <2>1, <2>2
<1>4. TypeOK'
  BY <1>1, <1>2, <1>3 DEF TypeOK
<1>5. RxPushes'
  <2> SUFFICES ASSUME NEW c \in Channels, lines'.rx[c].push
               PROVE  /\ lines'.rx[c].state = "idle"
                      /\ fifo'.full => lines'.channel # c /\ ~ReadyFor(c)'
    BY DEF RxPushes
  <2>1. lines.rx[c].state = "idle" /\ (fifo.full => lines.channel # c /\ ~ReadyFor(c))
    BY <1>1, <1>3 DEF RxPushes
  <2> QED
    BY <1>1, <1>3, <2>1 DEF ReadyFor
<1>6. RxRoom' /\ RxWords' /\ RxHost' /\ Strobed'
  BY <1>1, <1>3 DEF IInv, RxRoom, RxWords, RxHost, Strobed
<1>7. TxWhole' /\ TxHost' /\ TxOffered' /\ TxWords'
  BY <1>1 DEF TxWhole, TxHost, TxOffered, TxWords
<1> QED
  BY <1>1, <1>4, <1>5, <1>6, <1>7 DEF IInv

-----------------------------------------------------------------------------
(* The transmit path. *)

(* The fields of the history. *)
LEMMA PastTyped ==
  ASSUME NEW p \in PastStates
  PROVE  /\ p.pos \in 0..3 /\ p.whole \in 0..4 /\ p.offered \in Words /\ p.sent \in Words
         /\ p.faults \in Nat /\ p.offered \in Nat /\ p.sent \in Nat
BY Numbers DEF PastStates

Noted(p, q) == q \in PastStates /\ q.pos = p.pos /\ q.whole = p.whole

(* What the history notes of a word offered to the fifo. *)
LEMMA OfferNoted ==
  ASSUME NEW p \in PastStates, smi.word \in Words, NEW q, q = NoteOffer(p)
  PROVE  /\ Noted(p, q) /\ q.sent = p.sent
         /\ q.offered = IF Request(smi) /\ smi.word # 0 THEN smi.word ELSE p.offered
<1> DEFINE o == IF Request(smi) /\ smi.word # 0 THEN smi.word ELSE p.offered
<1>1. q = [p EXCEPT !.offered = o]
  BY DEF NoteOffer, TxOffers
<1>2. o \in Words
  BY PastTyped
<1> HIDE DEF o
<1>3. q \in PastStates /\ q.offered = o /\ q.pos = p.pos /\ q.whole = p.whole /\ q.sent = p.sent
  BY <1>1, <1>2 DEF PastStates
<1> QED
  BY <1>3 DEF Noted, o

(* What the history notes of a word sent on the line. *)
LEMMA SentNoted ==
  ASSUME NEW p \in PastStates, LinesNext.frame \in Words, NEW q, q = NoteSent(p)
  PROVE  /\ Noted(p, q) /\ q.offered = p.offered
         /\ q.sent = IF LinesNext.frame # 0 THEN LinesNext.frame ELSE p.sent
<1> DEFINE o == IF LinesNext.frame # 0 THEN LinesNext.frame ELSE p.sent
<1>1. q = [p EXCEPT !.sent = o]
  BY DEF NoteSent
<1>2. o \in Words
  BY PastTyped
<1> HIDE DEF o
<1>3. /\ q \in PastStates /\ q.sent = o /\ q.pos = p.pos /\ q.whole = p.whole
      /\ q.offered = p.offered
  BY <1>1, <1>2 DEF PastStates
<1> QED
  BY <1>3 DEF Noted, o

(* An edge of the system clock, of the modem's or of both. *)
TxTick(wen, ren) ==
  /\ path = "tx" /\ path' = path /\ made' = made /\ Noted(past, past')
  /\ FifoStep(fifo, fifo', wen, smi.word, ren)
  /\ \/ /\ wen => Request(smi) /\ ~fifo.full
        /\ smi' = Sampled(smi)
        /\ past'.offered = IF Request(smi) /\ smi.word # 0 THEN smi.word ELSE past.offered
     \/ ~wen /\ smi' = smi /\ past'.offered = past.offered
  /\ \/ /\ ren <=> lines'.pulled
        /\ lines' \in LvdsTx /\ Whole(lines') /\ TxClocked(lines, lines', fifo.empty, fifo.rd_data)
        /\ past'.sent = IF lines'.frame # 0 THEN lines'.frame ELSE past.sent
     \/ ~ren /\ lines' = lines /\ past'.sent = past.sent

TxEdge == TxClock \/ TxSysClock \/ TxBothClocks

(* Every clock edge of the transmit path is a tick of the fifo with its
   enables. *)
LEMMA TxEdges ==
  ASSUME IInv, TxEdge
  PROVE  \E wen, ren \in BOOLEAN : TxTick(wen, ren)
<1>1. /\ path = "tx" /\ fifo \in Fifos(Words) /\ smi.word \in Words /\ smi \in SmiStates
      /\ past \in PastStates /\ lines \in LvdsTx /\ Whole(lines)
      /\ fifo.empty \in BOOLEAN /\ fifo.rd_data \in Words /\ fifo.full \in BOOLEAN
  <2>1. path = "tx" /\ TypeOK /\ TxWhole
    BY DEF TxEdge, TxClock, TxSysClock, TxBothClocks, IInv
  <2>2. fifo \in Fifos(Words) /\ smi \in SmiStates /\ past \in PastStates /\ lines \in LvdsTx
    BY <2>1 DEF TypeOK
  <2> QED
    BY <2>1, <2>2, FifoTyped, SmiTyped DEF TxWhole
<1> DEFINE push == TxPushing
           l == LinesNext
           pull == l.pulled
<1>2. push \in BOOLEAN /\ (push => Request(smi) /\ ~fifo.full)
  BY DEF TxPushing, TxOffers
<1>3. l \in LvdsTx /\ Whole(l) /\ TxClocked(lines, l, fifo.empty, fifo.rd_data)
  BY <1>1, TransmitterClock DEF LinesNext
<1>4. l.frame \in Words /\ l.pulled \in BOOLEAN
  BY <1>3, TransmitterTyped
<1>5. PICK o \in PastStates : o = NoteOffer(past)
  BY <1>1, OfferNoted DEF Noted
<1>6. /\ Noted(past, o) /\ o.sent = past.sent
      /\ o.offered = IF Request(smi) /\ smi.word # 0 THEN smi.word ELSE past.offered
  BY <1>1, <1>5, OfferNoted
<1>7. CASE TxClock
  <2>1. /\ lines' = l /\ fifo' \in ReadOnly(fifo, pull) /\ past' = NoteSent(past)
        /\ path' = path /\ smi' = smi /\ made' = made
    BY <1>7 DEF TxClock
  <2>2. /\ Noted(past, past') /\ past'.offered = past.offered
        /\ past'.sent = IF l.frame # 0 THEN l.frame ELSE past.sent
    BY <1>1, <1>4, <2>1, SentNoted
  <2>3. pull \in BOOLEAN /\ (pull <=> l.pulled)
    BY <1>4
  <2> HIDE DEF l, pull
  <2>4. TxTick(FALSE, pull)
    BY <1>1, <1>3, <2>1, <2>2, <2>3 DEF TxTick, FifoStep
  <2> QED
    BY <2>3, <2>4
<1>8. CASE TxSysClock
  <2>1. /\ fifo' \in WriteOnly(fifo, push, smi.word) /\ smi' = Sampled(smi) /\ past' = o
        /\ path' = path /\ lines' = lines /\ made' = made
    BY <1>5, <1>8 DEF TxSysClock
  <2> HIDE DEF push
  <2>2. TxTick(push, FALSE)
    BY <1>1, <1>2, <1>6, <2>1 DEF TxTick, FifoStep
  <2> QED
    BY <1>2, <2>2
<1>9. CASE TxBothClocks
  <2>1. /\ lines' = l /\ fifo' \in Together(fifo, push, smi.word, pull) /\ smi' = Sampled(smi)
        /\ past' = NoteSent(o) /\ path' = path /\ made' = made
    BY <1>5, <1>9 DEF TxBothClocks
  <2>2. /\ Noted(o, past') /\ past'.offered = o.offered
        /\ past'.sent = IF l.frame # 0 THEN l.frame ELSE o.sent
    BY <1>4, <1>5, <2>1, SentNoted
  <2>3. Noted(past, past')
    BY <1>6, <2>2 DEF Noted
  <2>4. pull \in BOOLEAN /\ (pull <=> l.pulled)
    BY <1>4
  <2> HIDE DEF l, pull, push
  <2>5. TxTick(push, pull)
    BY <1>1, <1>2, <1>3, <1>6, <2>1, <2>2, <2>3, <2>4 DEF TxTick, FifoStep
  <2> QED
    BY <1>2, <2>4, <2>5
<1> QED
  BY <1>7, <1>8, <1>9 DEF TxEdge

(* The fifo of the transmit path does what its enables say. *)
LEMMA TxFifo ==
  ASSUME IInv, NEW wen \in BOOLEAN, NEW ren \in BOOLEAN, TxTick(wen, ren)
  PROVE  /\ wen => ~fifo.full /\ smi.word \in Words
         /\ ren => ~fifo.empty
         /\ fifo' \in Fifos(Words) /\ FifoInv(fifo') /\ Ticked(fifo, fifo', wen, smi.word, ren)
<1>1. fifo \in Fifos(Words) /\ FifoInv(fifo) /\ FifoStep(fifo, fifo', wen, smi.word, ren)
      /\ smi.word \in Words
  BY SmiTyped DEF IInv, TypeOK, TxTick
<1>2. (wen => ~fifo.full) /\ (ren => ~fifo.empty)
  BY DEF TxTick, TxClocked
<1>3. wen => smi.word \in Words
  BY <1>1
<1> QED
  BY <1>1, <1>2, <1>3, FifoSteps

(* A word that is pushed and not zero is newer than every one before. *)
LEMMA OfferRises ==
  ASSUME IInv, path = "tx", Request(smi), smi.word # 0
  PROVE  smi.word = made /\ past.offered = made - 1
<1>1. smi.since = 1 /\ smi.trigger /\ smi.req /\ ~smi.req1
  BY Requested DEF IInv, TypeOK
<1>2. smi.word = made /\ ~(past.offered = made)
  BY <1>1 DEF IInv, TxOffered
<1> QED
  BY <1>2 DEF IInv, TxOffered

(* What was offered stays accounted for when the strobe is sampled. *)
LEMMA OfferKept ==
  ASSUME IInv, path = "tx", path' = path, made' = made, smi' = Sampled(smi),
         past'.offered = IF Request(smi) /\ smi.word # 0 THEN smi.word ELSE past.offered
  PROVE  TxOffered'
<1>1. /\ smi \in SmiStates /\ past \in PastStates /\ Strobed /\ TxOffered
      /\ past.offered \in Nat /\ made \in Nat
  BY PastTyped, Numbers DEF IInv, TypeOK
<1>2. /\ smi'.at = smi.at /\ smi'.trigger = smi.trigger /\ smi'.word = smi.word
      /\ smi'.req = smi.trigger /\ smi'.req1 = smi.req
      /\ smi'.since = IF smi.since < StrobeEdges THEN smi.since + 1 ELSE smi.since
  BY <1>1, SampledEdge DEF SysEdge
<1>3. (smi'.at # 0 => ~smi'.trigger) /\ smi'.word \in {0, made'}
  BY <1>1, <1>2 DEF TxOffered
<1>4. CASE past.offered = made
  <2>1. ~(Request(smi) /\ smi.word # 0)
    BY <1>1, <1>4, OfferRises
  <2>2. past'.offered = made'
    BY <1>4, <2>1
  <2>3. smi.trigger /\ smi.word # 0 => smi'.req /\ smi'.req1
    BY <1>1, <1>2, <1>4 DEF TxOffered
  <2> QED
    BY <1>2, <1>3, <2>2, <2>3 DEF TxOffered
<1>5. CASE past.offered # made
  <2>1. /\ past.offered = made - 1 /\ smi.word = made /\ smi.trigger /\ ~smi.req1
        /\ smi.since = 0 \/ smi.since = 1
    BY <1>1, <1>5 DEF TxOffered
  <2>2. smi.word # 0
    BY <1>1, <2>1
  <2>3. CASE smi.since = 0
    <3>1. ~smi.req
      BY <1>1, <2>1, <2>3 DEF Strobed
    <3>2. past'.offered = past.offered
      BY <3>1 DEF Request
    <3>3. smi'.since = 1 /\ ~smi'.req1
      BY <1>2, <2>3, <3>1, Numbers
    <3> QED
      BY <1>2, <1>3, <1>5, <2>1, <3>2, <3>3 DEF TxOffered
  <2>4. CASE smi.since = 1
    <3>1. smi.req
      BY <1>1, <2>1, <2>4 DEF Strobed
    <3>2. past'.offered = made'
      BY <2>1, <2>2, <3>1 DEF Request
    <3>3. smi'.req /\ smi'.req1
      BY <1>2, <2>1, <3>1
    <3> QED
      BY <1>2, <1>3, <3>2, <3>3 DEF TxOffered
  <2> QED
    BY <2>1, <2>3, <2>4
<1> QED
  BY <1>4, <1>5

(* A step of the fifo, lo the word that left it last. *)
LEMMA RisingKept ==
  ASSUME NEW f \in Fifos(Words), NEW g \in Fifos(Words), NEW wen \in BOOLEAN, NEW ren \in BOOLEAN,
         NEW w \in Words, Ticked(f, g, wen, w, ren),
         NEW lo \in Nat, NEW hi \in Nat, NEW lo2 \in Nat, NEW hi2 \in Nat, lo <= hi,
         Rising(f, lo, hi), ren => Held(f) >= 1, hi <= hi2,
         wen /\ w # 0 => hi < w /\ w <= hi2,
         lo2 <= IF ren /\ Word(f, 1) # 0 THEN Word(f, 1) ELSE lo
  PROVE  Rising(g, lo2, hi2)
<1>1. PICK n \in Nat : n = Held(f)
  BY ContentsWords
<1>2. PICK m \in Nat : m = Held(g)
  BY ContentsWords
<1>3. /\ m = n + (IF wen THEN 1 ELSE 0) - (IF ren THEN 1 ELSE 0)
      /\ \A i \in 1..m :
           Word(g, i) = IF wen /\ i = m THEN w ELSE Word(f, IF ren THEN i + 1 ELSE i)
      /\ ren => n >= 1
  BY <1>1, <1>2 DEF Ticked
<1>4. \A i \in 1..n : Word(f, i) \in Nat
  BY <1>1, ContentsWords, Numbers
<1>5. \A i \in 1..n : Word(f, i) # 0 =>
        /\ lo < Word(f, i) /\ Word(f, i) <= hi
        /\ \A j \in 1..n : i < j /\ Word(f, j) # 0 => Word(f, i) < Word(f, j)
  BY <1>1 DEF Rising
<1>6. w \in Nat
  BY Numbers
<1>7. lo2 <= hi
  BY <1>3, <1>4, <1>5
<1> DEFINE at(i) == IF ren THEN i + 1 ELSE i
<1>8. ASSUME NEW i \in 1..m, ~(wen /\ i = m)
      PROVE  at(i) \in 1..n /\ Word(g, i) = Word(f, at(i))
  BY <1>3, <1>8
<1>9. ASSUME NEW i \in 1..m, ~(wen /\ i = m), Word(g, i) # 0
      PROVE  lo2 < Word(g, i) /\ Word(g, i) <= hi /\ Word(g, i) \in Nat
  <2>1. PICK k \in 1..n : k = at(i) /\ Word(g, i) = Word(f, k)
    BY <1>8, <1>9
  <2>2. Word(f, k) \in Nat /\ lo < Word(f, k) /\ Word(f, k) <= hi
    BY <1>4, <1>5, <1>9, <2>1
  <2>3. CASE ren /\ Word(f, 1) # 0
    <3>1. 1 \in 1..n /\ 1 < k
      BY <1>3, <2>1, <2>3
    <3>2. Word(f, 1) < Word(f, k) /\ Word(f, 1) \in Nat
      BY <1>4, <1>5, <1>9, <2>1, <2>3, <3>1
    <3> QED
      BY <2>1, <2>2, <2>3, <3>2
  <2>4. CASE ~(ren /\ Word(f, 1) # 0)
    BY <2>1, <2>2, <2>4
  <2> QED
    BY <2>3, <2>4
<1>10. ASSUME NEW i \in 1..m, wen /\ i = m, Word(g, i) # 0
       PROVE  Word(g, i) = w /\ hi < w /\ w <= hi2
  BY <1>3, <1>10
<1> HIDE DEF at
<1>11. ASSUME NEW i \in 1..m, Word(g, i) # 0
       PROVE  lo2 < Word(g, i) /\ Word(g, i) <= hi2
  <2>1. CASE wen /\ i = m
    BY <1>6, <1>7, <1>10, <1>11, <2>1
  <2>2. CASE ~(wen /\ i = m)
    BY <1>9, <1>11, <2>2
  <2> QED
    BY <2>1, <2>2
<1>12. ASSUME NEW i \in 1..m, NEW j \in 1..m, Word(g, i) # 0, Word(g, j) # 0, i < j
       PROVE  Word(g, i) < Word(g, j)
  <2>1. ~(wen /\ i = m)
    BY <1>12
  <2>2. CASE wen /\ j = m
    <3>1. Word(g, i) <= hi /\ Word(g, i) \in Nat
      BY <1>9, <1>12, <2>1
    <3>2. Word(g, j) = w /\ hi < w
      BY <1>10, <1>12, <2>2
    <3> QED
      BY <1>6, <3>1, <3>2
  <2>3. CASE ~(wen /\ j = m)
    <3>1. at(i) \in 1..n /\ Word(g, i) = Word(f, at(i))
      BY <1>8, <2>1
    <3>2. at(j) \in 1..n /\ Word(g, j) = Word(f, at(j))
      BY <1>8, <2>3
    <3>3. at(i) < at(j)
      BY <1>12 DEF at
    <3> QED
      BY <1>5, <1>12, <3>1, <3>2, <3>3
  <2> QED
    BY <2>2, <2>3
<1> QED
  BY <1>2, <1>11, <1>12 DEF Rising

(* A clock edge of the transmit path keeps the invariant; a frame changes
   only where it begins. *)
LEMMA TxTickKeeps ==
  ASSUME IInv, NEW wen \in BOOLEAN, NEW ren \in BOOLEAN, TxTick(wen, ren)
  PROVE  /\ IInv' /\ (lines'.frame # lines.frame => lines.phase = 0)
         /\ Shown(lines, lines', fifo.rd_data)
<1>1. /\ path = "tx" /\ path' = "tx" /\ made' = made /\ Noted(past, past')
      /\ TypeOK /\ TxWhole /\ TxHost /\ TxOffered /\ TxWords /\ Strobed
      /\ fifo \in Fifos(Words) /\ smi \in SmiStates /\ lines \in LvdsTx /\ Whole(lines)
      /\ made \in Words /\ past \in PastStates /\ made \in Nat
      /\ path \in {"rx", "tx"}
  BY Numbers DEF TxTick, IInv, TypeOK, TxWhole
<1>2. /\ fifo' \in Fifos(Words) /\ FifoInv(fifo') /\ Ticked(fifo, fifo', wen, smi.word, ren)
      /\ ren => ~fifo.empty
  BY TxFifo
<1>3. smi' \in SmiStates /\ Strobed' /\ smi'.at = smi.at
  <2>1. CASE smi' = Sampled(smi)
    BY <1>1, <2>1, StrobedSampled DEF SysEdge
  <2>2. CASE smi' = smi
    BY <1>1, <2>2 DEF Strobed
  <2> QED
    BY <2>1, <2>2 DEF TxTick
<1>4. lines' \in LvdsTx /\ Whole(lines') /\ (lines'.frame # lines.frame => lines.phase = 0)
  BY <1>1 DEF TxTick, TxClocked
<1>25. Shown(lines, lines', fifo.rd_data)
  BY <1>1 DEF TxTick, TxClocked, Shown
<1>5. past' \in PastStates /\ past'.pos = past.pos /\ past'.whole = past.whole
  BY <1>1 DEF Noted
<1>6. TypeOK'
  BY <1>1, <1>2, <1>3, <1>4, <1>5 DEF TypeOK
<1>7. TxWhole' /\ TxHost'
  BY <1>1, <1>3, <1>4, <1>5 DEF TxWhole, TxHost
<1>8. TxOffered'
  <2>1. CASE smi' = smi /\ past'.offered = past.offered
    BY <1>1, <2>1 DEF TxOffered
  <2>2. CASE /\ smi' = Sampled(smi)
             /\ past'.offered = IF Request(smi) /\ smi.word # 0 THEN smi.word ELSE past.offered
    BY <1>1, <2>2, OfferKept
  <2> QED
    BY <2>1, <2>2 DEF TxTick
<1>9. PICK hi \in Nat : hi = past.offered
  BY <1>1, PastTyped
<1>10. PICK hi2 \in Nat : hi2 = past'.offered
  BY <1>5, PastTyped
<1>11. PICK sent \in Nat : sent = past.sent
  BY <1>1, PastTyped
<1>12. PICK sent2 \in Nat : sent2 = past'.sent
  BY <1>5, PastTyped
<1>13. PICK lo \in Nat : lo = Left(lines, fifo, sent)
  BY <1>1, FifoTyped, Numbers DEF Left
<1>14. PICK lo2 \in Nat : lo2 = Left(lines', fifo', sent2)
  BY <1>2, FifoTyped, Numbers DEF Left
<1>15. sent <= lo /\ lo <= hi /\ Rising(fifo, lo, hi) /\ (lines.frame # 0 => lines.frame = sent)
  BY <1>1, <1>9, <1>11, <1>13 DEF TxWords
<1>16. hi <= hi2 /\ (wen /\ smi.word # 0 => hi < smi.word /\ smi.word <= hi2)
  <2>1. CASE ~wen /\ past'.offered = past.offered
    BY <1>9, <1>10, <2>1
  <2>2. CASE /\ wen => Request(smi)
             /\ past'.offered = IF Request(smi) /\ smi.word # 0 THEN smi.word ELSE past.offered
    <3>1. CASE Request(smi) /\ smi.word # 0
      BY <1>1, <1>9, <1>10, <2>2, <3>1, OfferRises
    <3>2. CASE ~(Request(smi) /\ smi.word # 0)
      BY <1>9, <1>10, <2>2, <3>2
    <3> QED
      BY <3>1, <3>2
  <2> QED
    BY <2>1, <2>2 DEF TxTick
<1>17. fifo'.rd_data = IF ren THEN Word(fifo, 1) ELSE fifo.rd_data
  BY <1>2 DEF Ticked
<1>18. Held(fifo) \in Nat /\ (ren => Held(fifo) >= 1)
  BY <1>1, <1>2, FlagsSafe DEF IInv
<1>19. ren => Word(fifo, 1) \in Nat
  <2>1. ren => 1 \in 1..Held(fifo)
    BY <1>18
  <2> QED
    BY <1>1, <2>1, ContentsWords, Numbers
<1>20. /\ sent2 <= lo2 /\ (lines'.frame # 0 => lines'.frame = sent2)
       /\ lo2 <= IF ren /\ Word(fifo, 1) # 0 THEN Word(fifo, 1) ELSE lo
  <2>1. CASE ~ren /\ lines' = lines /\ past'.sent = past.sent
    BY <1>11, <1>12, <1>13, <1>14, <1>15, <1>17, <2>1 DEF Left
  <2>2. CASE /\ ren <=> lines'.pulled
             /\ TxClocked(lines, lines', fifo.empty, fifo.rd_data)
             /\ past'.sent = IF lines'.frame # 0 THEN lines'.frame ELSE past.sent
    <3>1. lines'.frame # 0 => lines'.frame = sent2
      BY <1>12, <2>2
    <3>2. /\ sent2 = sent \/ (sent2 = lo /\ ~ren)
      <4>1. CASE lines'.frame = 0
        BY <1>11, <1>12, <2>2, <4>1
      <4>2. CASE lines'.frame = lines.frame /\ lines'.frame # 0
        BY <1>15, <3>1, <4>2
      <4>3. CASE lines.pulled /\ lines'.frame = fifo.rd_data /\ ~lines'.pulled /\ lines'.frame # 0
        BY <1>13, <2>2, <3>1, <4>3 DEF Left
      <4> QED
        BY <2>2, <4>1, <4>2, <4>3 DEF TxClocked
    <3>3. CASE ~ren
      BY <1>14, <1>15, <2>2, <3>1, <3>2, <3>3 DEF Left
    <3>4. CASE ren
      <4>1. lines'.pulled /\ ~lines.pulled
        BY <2>2, <3>4 DEF TxClocked
      <4>2. lo = sent /\ sent2 = sent
        BY <1>13, <3>2, <3>4, <4>1 DEF Left
      <4>3. lo2 = IF Word(fifo, 1) # 0 THEN Word(fifo, 1) ELSE sent
        BY <1>14, <1>17, <3>4, <4>1, <4>2 DEF Left
      <4>4. Word(fifo, 1) # 0 => lo < Word(fifo, 1)
        BY <1>15, <1>18, <3>4 DEF Rising
      <4> QED
        BY <1>19, <3>1, <3>4, <4>2, <4>3, <4>4
    <3> QED
      BY <3>3, <3>4
  <2> QED
    BY <2>1, <2>2 DEF TxTick
<1>21. Rising(fifo', lo2, hi2)
  <2>1. PICK w \in Words : w = smi.word
    BY <1>1, SmiTyped
  <2>2. /\ Ticked(fifo, fifo', wen, w, ren) /\ (wen /\ w # 0 => hi < w /\ w <= hi2)
    BY <1>2, <1>16, <2>1
  <2> QED
    BY <1>1, <1>2, <1>15, <1>16, <1>18, <1>20, <2>2, RisingKept
<1>22. lo2 <= hi2
  <2>1. ren => Word(fifo, 1) = 0 \/ Word(fifo, 1) <= hi
    BY <1>15, <1>18 DEF Rising
  <2> QED
    BY <1>15, <1>16, <1>19, <1>20, <2>1
<1>23. TxWords'
  BY <1>10, <1>12, <1>14, <1>20, <1>21, <1>22 DEF TxWords
<1>24. RxRoom' /\ RxPushes' /\ RxWords' /\ RxHost'
  BY <1>1 DEF RxRoom, RxPushes, RxWords, RxHost
<1> QED
  BY <1>2, <1>3, <1>4, <1>6, <1>7, <1>8, <1>23, <1>24, <1>25 DEF IInv

(* A byte of the host: its place in the word, and the bytes in their place. *)
LEMMA ByteCounted ==
  ASSUME past \in PastStates, NEW inPlace \in BOOLEAN, HostByte(inPlace)
  PROVE  /\ past' \in PastStates /\ past'.offered = past.offered /\ past'.sent = past.sent
         /\ past'.pos = IF past.pos = 3 THEN 0 ELSE past.pos + 1
         /\ past'.whole = IF ~inPlace THEN 0
                          ELSE IF past.pos = 0 THEN (IF past.whole = 4 THEN 4 ELSE 1)
                          ELSE IF past.whole > 0 /\ past.whole < 4 THEN past.whole + 1
                          ELSE past.whole
<1> DEFINE p == (past.pos + 1) % 4
           k == IF ~inPlace THEN 0
                ELSE IF past.pos = 0 THEN (IF past.whole = 4 THEN 4 ELSE 1)
                ELSE IF past.whole > 0 /\ past.whole < 4 THEN past.whole + 1 ELSE past.whole
           n == IF inPlace THEN past.faults ELSE past.faults + 1
<1>1. past' = [past EXCEPT !.pos = p, !.whole = k, !.faults = n]
  BY DEF HostByte
<1>2. p \in 0..3 /\ k \in 0..4 /\ n \in Nat /\ p = IF past.pos = 3 THEN 0 ELSE past.pos + 1
  <2>1. p \in 0..3 /\ p = IF past.pos = 3 THEN 0 ELSE past.pos + 1
    BY PastTyped
  <2>2. k \in 0..4
    BY PastTyped
  <2>3. n \in Nat
    BY PastTyped
  <2> QED
    BY <2>1, <2>2, <2>3
<1> HIDE DEF p, k, n
<1>3. past' \in PastStates
  BY <1>1, <1>2 DEF PastStates
<1>4. past'.pos = p /\ past'.whole = k /\ past'.offered = past.offered /\ past'.sent = past.sent
  BY <1>1 DEF PastStates
<1> QED
  BY <1>2, <1>3, <1>4 DEF k

(* A strobe of the host keeps the invariant and leaves the line alone. *)
LEMMA TxStrobeKeeps ==
  ASSUME IInv, TxStrobe
  PROVE  IInv' /\ lines' = lines
<1>1. /\ path = "tx" /\ path' = "tx" /\ fifo' = fifo /\ lines' = lines
      /\ smi.since = StrobeEdges
      /\ TypeOK /\ Strobed /\ TxWhole /\ TxHost /\ TxOffered /\ TxWords /\ FifoInv(fifo)
      /\ fifo \in Fifos(Words) /\ smi \in SmiStates /\ past \in PastStates
      /\ made \in Words /\ made \in Nat
  BY Numbers DEF TxStrobe, IInv, TypeOK
<1>2. PICK flagged, inPlace \in BOOLEAN :
        LET complete == smi.at = 3 /\ ~flagged
            astray == smi.at = 0 /\ ~flagged
            aborted == smi.at = 3 /\ flagged
        IN /\ inPlace => flagged = (past.pos = 0)
           /\ complete => made < MaxTx
           /\ made' = IF complete THEN made + 1 ELSE made
           /\ smi' = [smi EXCEPT !.at = StateNext(smi.at, flagged), !.since = 0,
                                 !.trigger = complete \/ astray,
                                 !.word = IF complete THEN made + 1
                                          ELSE IF astray \/ aborted THEN 0 ELSE smi.word]
           /\ HostByte(inPlace)
  BY DEF TxStrobe
<1> DEFINE complete == smi.at = 3 /\ ~flagged
           astray == smi.at = 0 /\ ~flagged
           aborted == smi.at = 3 /\ flagged
           a == StateNext(smi.at, flagged)
           t == complete \/ astray
           w == IF complete THEN made + 1 ELSE IF astray \/ aborted THEN 0 ELSE smi.word
<1>3. /\ inPlace => (flagged <=> past.pos = 0)
      /\ complete => made < MaxTx
      /\ made' = IF complete THEN made + 1 ELSE made
      /\ smi' = [smi EXCEPT !.at = a, !.since = 0, !.trigger = t, !.word = w]
      /\ HostByte(inPlace)
  BY <1>2
<1>4. made' \in Words /\ made' \in Nat
  BY <1>1, <1>3, Numbers
<1>5. a = IF smi.at = 0 THEN (IF flagged THEN 1 ELSE 0)
          ELSE IF flagged \/ smi.at = 3 THEN 0 ELSE smi.at + 1
  BY <1>1, SmiTyped DEF StateNext
<1>6. a \in 0..3 /\ t \in BOOLEAN /\ 0 \in 0..StrobeEdges
  BY <1>1, <1>5, SmiTyped, Numbers
<1>7. w \in Words
  BY <1>1, <1>3, <1>4, SmiTyped, Numbers
<1>8. /\ t <=> (smi.at = 3 \/ smi.at = 0) /\ ~flagged
      /\ smi.at = 3 /\ ~flagged => w = made' /\ made' = made + 1
      /\ ~(smi.at = 3 /\ ~flagged) => made' = made /\ (w = 0 \/ w = smi.word)
      /\ smi.at = 0 /\ ~flagged => w = 0
  BY <1>3
<1> HIDE DEF a, t, w, complete, astray, aborted
<1>9. smi' \in SmiStates
  BY <1>1, <1>3, <1>6, <1>7 DEF SmiStates
<1>10. smi'.at = a /\ smi'.trigger = t /\ smi'.word = w
  BY <1>1, <1>3 DEF SmiStates
<1>11. smi'.since = 0 /\ smi'.req = smi.req /\ smi'.req1 = smi.req1
  BY <1>1, <1>3 DEF SmiStates
<1>12. Strobed' /\ smi.req = smi.trigger /\ smi.req1 = smi.trigger
  BY <1>1, <1>11, StrobedStrobe DEF Strobe
<1>13. /\ past' \in PastStates /\ past'.offered = past.offered /\ past'.sent = past.sent
       /\ past'.pos = IF past.pos = 3 THEN 0 ELSE past.pos + 1
       /\ past'.whole = IF ~inPlace THEN 0
                        ELSE IF past.pos = 0 THEN (IF past.whole = 4 THEN 4 ELSE 1)
                        ELSE IF past.whole > 0 /\ past.whole < 4 THEN past.whole + 1
                        ELSE past.whole
  BY <1>1, <1>3, ByteCounted
<1>14. TypeOK'
  BY <1>1, <1>4, <1>9, <1>13 DEF TypeOK
<1>15. TxHost'
  <2>1. past.pos \in 0..3 /\ past.whole \in 0..4 /\ smi.at \in 0..3
    BY <1>1, PastTyped, SmiTyped
  <2>2. /\ past.whole = 4 => smi.at = past.pos
        /\ past.whole \in 1..3 => past.pos = past.whole /\ smi.at \in {0, past.whole}
    BY <1>1 DEF TxHost
  <2>3. CASE ~inPlace
    BY <1>13, <2>3 DEF TxHost
  <2>4. CASE inPlace /\ past.pos = 0
    BY <1>3, <1>5, <1>10, <1>13, <2>1, <2>2, <2>4 DEF TxHost
  <2>5. CASE inPlace /\ past.pos # 0
    BY <1>3, <1>5, <1>10, <1>13, <2>1, <2>2, <2>5 DEF TxHost
  <2> QED
    BY <2>3, <2>4, <2>5
<1>16. past.offered = made
  BY <1>1, Numbers DEF TxOffered
<1>17. TxOffered'
  <2>1. smi.at # 0 => ~smi.trigger
    BY <1>1 DEF TxOffered
  <2>2. smi'.at # 0 => ~smi'.trigger
    BY <1>5, <1>8, <1>10
  <2>3. smi.word \in {0, made}
    BY <1>1 DEF TxOffered
  <2>4. CASE smi.at = 3 /\ ~flagged
    <3>1. ~smi'.req1 /\ smi'.trigger /\ smi'.word = made' /\ past'.offered = made' - 1
      <4>1. ~smi'.req1 /\ smi'.trigger /\ smi'.word = made'
        BY <1>8, <1>10, <1>11, <1>12, <2>1, <2>4
      <4>2. past'.offered = made' - 1
        BY <1>1, <1>8, <1>13, <1>16, <2>4
      <4> QED
        BY <4>1, <4>2
    <3>2. past'.offered # made'
      <4>1. PICK k \in Nat : k = made'
        BY <1>4
      <4>2. past'.offered = k - 1
        BY <3>1, <4>1
      <4>3. k - 1 # k
        OBVIOUS
      <4> QED
        BY <4>1, <4>2, <4>3
    <3> QED
      BY <1>11, <2>2, <3>1, <3>2 DEF TxOffered
  <2>5. CASE ~(smi.at = 3 /\ ~flagged)
    <3>1. made' = made /\ past'.offered = made' /\ smi'.word \in {0, made'}
      BY <1>8, <1>10, <1>13, <1>16, <2>3, <2>5
    <3>2. smi'.trigger => smi'.word = 0
      BY <1>8, <1>10, <2>5
    <3> QED
      BY <2>2, <3>1, <3>2 DEF TxOffered
  <2> QED
    BY <2>4, <2>5
<1>18. TxWhole' /\ TxWords'
  BY <1>1, <1>13 DEF TxWhole, TxWords
<1>19. RxRoom' /\ RxPushes' /\ RxWords' /\ RxHost'
  BY <1>1 DEF RxRoom, RxPushes, RxWords, RxHost
<1> QED
  BY <1>1, <1>12, <1>14, <1>15, <1>17, <1>18, <1>19 DEF IInv

(* A byte lost or a change of direction keeps the invariant. *)
LEMMA HostFaultsKeep ==
  ASSUME IInv, HostSlips \/ SelectDirection
  PROVE  IInv' /\ lines'.frame = lines.frame /\ lines'.phase = lines.phase
<1>1. /\ path = "tx" /\ path' = "tx" /\ fifo' = fifo /\ smi' = smi /\ made' = made
      /\ TypeOK /\ FifoInv(fifo) /\ TxWhole /\ TxHost /\ TxOffered /\ TxWords
      /\ past \in PastStates /\ lines \in LvdsTx
  BY DEF HostSlips, SelectDirection, IInv, TypeOK
<1>2. past.faults + 1 \in Nat
  BY <1>1, PastTyped
<1>3. /\ past' \in PastStates /\ past'.offered = past.offered /\ past'.sent = past.sent
      /\ past'.whole = 0 \/ (past'.whole = past.whole /\ past'.pos = past.pos)
  <2>1. CASE HostSlips
    <3>1. PICK pos \in 0..3 : past' = [past EXCEPT !.pos = pos, !.whole = 0, !.faults = past.faults + 1]
      BY <2>1 DEF HostSlips
    <3>2. past' \in PastStates
      <4>1. pos \in 0..3 /\ 0 \in 0..4 /\ past.faults + 1 \in Nat
        BY <1>2
      <4>2. PICK n : n = past.faults + 1
        OBVIOUS
      <4>3. past' = [past EXCEPT !.pos = pos, !.whole = 0, !.faults = n] /\ n \in Nat
        BY <3>1, <4>1, <4>2
      <4> QED
        BY <1>1, <4>1, <4>3 DEF PastStates
    <3>3. past'.offered = past.offered /\ past'.sent = past.sent /\ past'.whole = 0
      BY <1>1, <3>1 DEF PastStates
    <3> QED
      BY <3>2, <3>3
  <2>2. CASE SelectDirection
    <3>1. past' = [past EXCEPT !.faults = past.faults + 1]
      BY <2>2 DEF SelectDirection
    <3> QED
      BY <1>1, <1>2, <3>1 DEF PastStates
  <2> QED
    BY <2>1, <2>2
<1>4. /\ lines' \in LvdsTx /\ lines'.state = lines.state /\ lines'.pulled = lines.pulled
      /\ lines'.frame = lines.frame /\ lines'.sync = lines.sync /\ lines'.zero = lines.zero
      /\ lines'.phase = lines.phase
  <2>1. CASE lines' = lines
    BY <1>1, <2>1
  <2>2. CASE lines' = [lines EXCEPT !.on = ~lines.on]
    BY <1>1, <2>2 DEF LvdsTx
  <2> QED
    BY <2>1, <2>2 DEF HostSlips, SelectDirection
<1>5. TypeOK'
  BY <1>1, <1>3, <1>4 DEF TypeOK
<1>6. TxWhole' /\ TxHost' /\ TxOffered' /\ TxWords'
  <2>1. TxWhole'
    BY <1>1, <1>4 DEF TxWhole, Whole
  <2>2. TxHost'
    BY <1>1, <1>3 DEF TxHost
  <2>3. TxOffered'
    BY <1>1, <1>3 DEF TxOffered
  <2>4. TxWords'
    BY <1>1, <1>3, <1>4 DEF TxWords, Left
  <2> QED
    BY <2>1, <2>2, <2>3, <2>4
<1>7. RxRoom' /\ RxPushes' /\ RxWords' /\ RxHost' /\ Strobed'
  BY <1>1 DEF IInv, RxRoom, RxPushes, RxWords, RxHost, Strobed
<1> QED
  BY <1>1, <1>4, <1>5, <1>6, <1>7 DEF IInv

-----------------------------------------------------------------------------
(* Both paths. *)

(* The initial states satisfy the invariant. *)
LEMMA Start ==
  ASSUME Init
  PROVE  IInv
<1>1. /\ path \in {"rx", "tx"} /\ fifo = EmptyFifo(0) /\ made = 0
      /\ smi = [at |-> 0, trigger |-> FALSE, req |-> FALSE, req1 |-> FALSE, word |-> 0,
                since |-> StrobeEdges]
      /\ past = [pos |-> 0, whole |-> 4, offered |-> 0, sent |-> 0, faults |-> 0]
  BY DEF Init
<1>2. /\ fifo \in Fifos(Words) /\ FifoInv(fifo) /\ Held(fifo) = 0 /\ fifo.rd_data = 0
      /\ fifo.full = FALSE
  BY <1>1, Numbers, EmptyStart
<1>3. smi \in SmiStates
  BY <1>1, Numbers DEF SmiStates
<1>4. past \in PastStates
  BY <1>1, Numbers DEF PastStates
<1>5. CASE path = "rx"
  <2>1. lines = [rx |-> [c \in Channels |->
                           [state |-> "idle", phase |-> FrameClocks - 1, push |-> FALSE]],
                 fed |-> {0}, settled |-> TRUE, channel |-> 0]
    BY <1>5 DEF Init
  <2>2. PICK r : r = [state |-> "idle", phase |-> FrameClocks - 1, push |-> FALSE]
    OBVIOUS
  <2>3. r \in Receivers /\ r.push = FALSE /\ r.state = "idle"
    BY <2>2, Numbers DEF Receivers
  <2>4. \A c \in Channels : lines.rx[c] = r
    BY <2>1, <2>2
  <2>5. lines \in LvdsRx
    <3>1. [c \in Channels |-> r] \in [Channels -> Receivers]
      BY <2>3
    <3>2. {0} \in SUBSET Channels /\ 0 \in Channels
      BY DEF Channels
    <3> QED
      BY <2>1, <2>2, <3>1, <3>2 DEF LvdsRx
  <2>6. TypeOK
    BY <1>1, <1>2, <1>3, <1>4, <1>5, <2>5, Numbers DEF TypeOK
  <2>7. RxRoom
    <3>1. Load(lines.rx[0]) = 0 /\ Load(lines.rx[1]) = 0
      BY <2>3, <2>4 DEF Load, Channels
    <3> QED
      BY <1>1, <3>1, Numbers DEF RxRoom
  <2>8. RxPushes /\ RxWords /\ RxHost
    BY <1>1, <1>2, <2>3, <2>4 DEF RxPushes, RxWords, RxHost
  <2>9. TxWhole /\ TxHost /\ TxOffered /\ TxWords
    BY <1>5 DEF TxWhole, TxHost, TxOffered, TxWords
  <2>10. Strobed
    BY <1>1, Numbers DEF Strobed
  <2> QED
    BY <1>2, <2>6, <2>7, <2>8, <2>9, <2>10 DEF IInv
<1>6. CASE path = "tx"
  <2>1. lines = [state |-> "sync", phase |-> 2 * FrameClocks - 1, pulled |-> FALSE,
                 frame |-> 0, sync |-> SyncFrames, zero |-> FALSE, on |-> TRUE]
    BY <1>6 DEF Init
  <2>2. 2 * FrameClocks - 1 \in 0..(2 * FrameClocks - 1)
    BY Numbers
  <2>3. lines \in LvdsTx
    BY <2>1, <2>2, Numbers DEF LvdsTx
  <2>4. TypeOK
    BY <1>1, <1>2, <1>3, <1>4, <1>6, <2>3, Numbers DEF TypeOK
  <2>5. TxWhole
    BY <2>1, Numbers DEF TxWhole, Whole
  <2>6. TxHost /\ TxOffered
    BY <1>1 DEF TxHost, TxOffered
  <2>7. TxWords
    <3>1. Left(lines, fifo, past.sent) = 0
      BY <1>1, <1>2 DEF Left
    <3>2. Rising(fifo, 0, 0)
      BY <1>2 DEF Rising
    <3> QED
      BY <1>1, <2>1, <3>1, <3>2 DEF TxWords
  <2>8. RxRoom /\ RxPushes /\ RxWords /\ RxHost
    BY <1>6 DEF RxRoom, RxPushes, RxWords, RxHost
  <2>9. Strobed
    BY <1>1, Numbers DEF Strobed
  <2> QED
    BY <1>2, <2>4, <2>5, <2>6, <2>7, <2>8, <2>9 DEF IInv
<1> QED
  BY <1>1, <1>5, <1>6

(* Every step keeps the invariant, gives the host the next word or the same,       *)
(* changes the frame on the line on its last phase and to the word pulled for it.  *)
LEMMA Steps ==
  ASSUME IInv, [Next]_vars
  PROVE  /\ IInv'
         /\ path = "rx" /\ smi'.word # smi.word => smi'.word = smi.word + 1
         /\ path = "tx" /\ lines'.frame # lines.frame => lines.phase = 0
         /\ path = "tx" => Shown(lines, lines', fifo.rd_data)
<1>1. CASE RxEdge
  <2>1. PICK wen, ren \in BOOLEAN : RxTick(wen, ren)
    BY <1>1, RxEdges
  <2>2. path = "rx"
    BY <2>1 DEF RxTick
  <2> QED
    BY <2>1, <2>2, RxTickKeeps
<1>2. CASE RxStrobe
  <2>1. path = "rx"
    BY <1>2 DEF RxStrobe
  <2> QED
    BY <1>2, <2>1, RxStrobeKeeps
<1>3. CASE SelectRadio \/ SelectChannel
  <2>1. path = "rx"
    BY <1>3 DEF SelectRadio, SelectChannel
  <2> QED
    BY <1>3, <2>1, SelectKeeps
<1>4. CASE TxEdge
  <2>1. PICK wen, ren \in BOOLEAN : TxTick(wen, ren)
    BY <1>4, TxEdges
  <2>2. path = "tx"
    BY <2>1 DEF TxTick
  <2> QED
    BY <2>1, <2>2, TxTickKeeps
<1>5. CASE TxStrobe
  <2>1. path = "tx"
    BY <1>5 DEF TxStrobe
  <2> QED
    BY <1>5, <2>1, TxStrobeKeeps DEF Shown
<1>6. CASE HostSlips \/ SelectDirection
  <2>1. path = "tx"
    BY <1>6 DEF HostSlips, SelectDirection
  <2> QED
    BY <1>6, <2>1, HostFaultsKeep DEF Shown
<1>7. CASE UNCHANGED vars
  <2>1. /\ path' = path /\ fifo' = fifo /\ smi' = smi /\ lines' = lines /\ made' = made
        /\ past' = past
    BY <1>7 DEF vars
  <2>2. TypeOK' /\ Strobed' /\ FifoInv(fifo')
    BY <2>1 DEF IInv, TypeOK, Strobed
  <2>3. RxRoom' /\ RxPushes' /\ RxWords' /\ RxHost'
    BY <2>1 DEF IInv, RxRoom, RxPushes, RxWords, RxHost, ReadyFor
  <2>4. TxWhole' /\ TxHost' /\ TxOffered' /\ TxWords'
    BY <2>1 DEF IInv, TxWhole, TxHost, TxOffered, TxWords
  <2>5. Shown(lines, lines', fifo.rd_data)
    BY <2>1 DEF Shown
  <2> QED
    BY <2>1, <2>2, <2>3, <2>4, <2>5 DEF IInv
<1> QED
  BY <1>1, <1>2, <1>3, <1>4, <1>5, <1>6, <1>7 DEF Next, RxEdge, TxEdge

(* The invariant that the results below rest on holds of both sample paths.      *)
THEOREM Invariance == Spec => []IInv
<1>1. Init => IInv
  BY Start
<1>2. IInv /\ [Next]_vars => IInv'
  BY Steps
<1> QED
  BY <1>1, <1>2, PTL DEF Spec

(* Every register keeps its range; none of the words that enter is lost count of. *)
THEOREM TypeCorrect == Spec => []TypeOK
<1>1. IInv => TypeOK
  BY DEF IInv
<1> QED
  BY <1>1, Invariance, PTL

(* smi_ctrl.v finds the first byte of a word again after one whole word, whatever  *)
(* bytes were lost before.                                                   *)
THEOREM TxFramedHolds == Spec => []TxFramed
<1>1. IInv => TxFramed
  BY DEF IInv, TxHost, TxFramed
<1> QED
  BY <1>1, Invariance, PTL

(* The trigger of smi_ctrl.v that crosses into the system clock offers every word  *)
(* to tx_fifo before the word changes, as soon as two edges of the system clock   *)
(* lie between two strobes.                                                  *)
THEOREM EveryWordOfferedHolds == Spec => []EveryWordOffered
<1>1. IInv => EveryWordOffered
  BY DEF IInv, TxOffered, EveryWordOffered
<1> QED
  BY <1>1, Invariance, PTL

(* The words on the line to the modem are in the order of the host, each once.    *)
THEOREM SentOnceInOrderHolds == Spec => []SentOnceInOrder
<1>1. ASSUME IInv, path = "tx" PROVE SentOnceInOrder
  <2>1. fifo \in Fifos(Words) /\ past \in PastStates
    BY <1>1 DEF IInv, TypeOK
  <2>2. PICK sent \in Nat : sent = past.sent
    BY <2>1, PastTyped
  <2>3. PICK lo \in Nat : lo = Left(lines, fifo, sent)
    BY <2>1, <2>2, FifoTyped, Numbers DEF Left
  <2>4. PICK hi : hi = past.offered
    OBVIOUS
  <2>5. sent <= lo /\ Rising(fifo, lo, hi)
    BY <1>1, <2>2, <2>3, <2>4 DEF IInv, TxWords
  <2>6. PICK n \in Nat : n = Held(fifo)
    BY <2>1, ContentsWords
  <2>7. PICK q : q = Contents(fifo)
    OBVIOUS
  <2>8. DOMAIN q = 1..n /\ \A i \in 1..n : q[i] = Word(fifo, i) /\ q[i] \in Nat
    BY <2>1, <2>6, <2>7, ContentsWords, Numbers
  <2>9. ASSUME NEW i \in 1..n, q[i] # 0
        PROVE  sent < q[i] /\ \A j \in 1..n : i < j /\ q[j] # 0 => q[i] < q[j]
    <3>1. lo < q[i] /\ \A j \in 1..n : i < j /\ q[j] # 0 => q[i] < q[j]
      BY <2>5, <2>6, <2>8, <2>9 DEF Rising
    <3> QED
      BY <2>5, <2>8, <3>1
  <2> QED
    BY <2>2, <2>7, <2>8, <2>9 DEF SentOnceInOrder
<1>2. path # "tx" => SentOnceInOrder
  BY DEF SentOnceInOrder
<1>3. IInv => SentOnceInOrder
  BY <1>1, <1>2
<1> QED
  BY <1>3, Invariance, PTL

(* No word that entered rx_fifo is skipped or given out of order to the host.      *)
THEOREM ReadInOrderHolds == Spec => ReadInOrder
<1>1. ASSUME IInv, [Next]_vars
      PROVE  [path = "rx" /\ smi'.word # smi.word => smi'.word = smi.word + 1]_vars
  BY <1>1, Steps
<1> QED
  BY <1>1, Invariance, PTL DEF Spec, ReadInOrder

(* A word pulled from tx_fifo is the next frame on the line, unless the direction was *)
(* turned in the clock between the two.                                        *)
THEOREM PulledIsSentHolds == Spec => PulledIsSent
<1>1. ASSUME IInv, [Next]_vars
      PROVE  [ path = "tx" /\ lines.pulled /\ lines'.phase # lines.phase =>
                 \/ lines'.frame = fifo.rd_data
                 \/ lines.state = "tx" /\ ~lines.on ]_vars
  BY <1>1, Steps DEF Shown
<1> QED
  BY <1>1, Invariance, PTL DEF Spec, PulledIsSent

(* No frame on the line to the modem is cut.                                   *)
THEOREM WholeFramesHolds == Spec => WholeFrames
<1>1. ASSUME IInv, [Next]_vars
      PROVE  [path = "tx" /\ lines'.frame # lines.frame => lines.phase = 0]_vars
  BY <1>1, Steps
<1> QED
  BY <1>1, Invariance, PTL DEF Spec, WholeFrames

(* Seen through its contents, each fifo as the firmware uses it is a queue of     *)
(* Size - 1 words: the abstract fifo of BoundedFifo.                            *)
THEOREM ImplementsFifoHolds == Spec => ImplementsFifo
<1>1. Init => Queue!Init
  <2> SUFFICES ASSUME Init PROVE Queue!Init
    OBVIOUS
  <2>1. fifo \in Fifos(Words) /\ Held(fifo) = 0 /\ fifo.rd_data = 0 /\ 0 \in Words
    BY EmptyStart, Numbers DEF Init
  <2>2. Contents(fifo) \in Seq(Words) /\ Len(Contents(fifo)) = 0
    BY <2>1, ContentsWords
  <2>3. Contents(fifo) = << >>
    BY <2>2, EmptySeq
  <2> QED
    BY <2>1, <2>3 DEF Queue!Init
<1>2. ASSUME IInv, [Next]_vars
      PROVE  [Queue!Next]_<<Contents(fifo), fifo.rd_data>>
  <2>1. fifo \in Fifos(Words) /\ FifoInv(fifo)
    BY <1>2 DEF IInv, TypeOK
  <2>2. PICK q : q = Contents(fifo)
    OBVIOUS
  <2>3. PICK p : p = Contents(fifo')
    OBVIOUS
  <2>4. ASSUME NEW wen \in BOOLEAN, NEW ren \in BOOLEAN, NEW w, wen => ~fifo.full,
               ren => ~fifo.empty, wen => w \in Words, FifoStep(fifo, fifo', wen, w, ren)
        PROVE  [Queue!Next]_<<Contents(fifo), fifo.rd_data>>
    <3>1. /\ ren => q # << >>
          /\ wen => Len(q) < Size - 1
          /\ fifo'.rd_data = IF ren THEN Head(q) ELSE fifo.rd_data
          /\ p = LET rest == IF ren THEN Tail(q) ELSE q IN IF wen THEN Append(rest, w) ELSE rest
      <4>1. PICK f : f = fifo
        OBVIOUS
      <4>2. PICK g : g = fifo'
        OBVIOUS
      <4>3. /\ f \in Fifos(Words) /\ FifoInv(f) /\ FifoStep(f, g, wen, w, ren)
            /\ wen => ~f.full
            /\ ren => ~f.empty
            /\ wen => w \in Words
        BY <2>1, <2>4, <4>1, <4>2
      <4>4. q = Contents(f) /\ p = Contents(g)
        BY <2>2, <2>3, <4>1, <4>2
      <4>5. QueueStep(Contents(f), f.rd_data, Contents(g), g.rd_data, wen, w, ren)
        BY <4>3, FifoIsQueue
      <4> QED
        BY <4>1, <4>2, <4>4, <4>5 DEF QueueStep
    <3>2. CASE wen /\ ren
      <4>1. Queue!PushPop(w) /\ w \in Words
        BY <2>2, <2>3, <2>4, <3>1, <3>2 DEF Queue!PushPop
      <4> QED
        BY <4>1 DEF Queue!Next
    <3>3. CASE wen /\ ~ren
      <4>1. Queue!Push(w) /\ w \in Words
        BY <2>2, <2>3, <2>4, <3>1, <3>3 DEF Queue!Push
      <4> QED
        BY <4>1 DEF Queue!Next
    <3>4. CASE ~wen /\ ren
      <4>1. Queue!Pop
        BY <2>2, <2>3, <3>1, <3>4 DEF Queue!Pop
      <4> QED
        BY <4>1 DEF Queue!Next
    <3>5. CASE ~wen /\ ~ren
      BY <2>2, <2>3, <3>1, <3>5
    <3> QED
      BY <3>2, <3>3, <3>4, <3>5
  <2>5. CASE RxEdge
    <3>1. PICK wen, ren \in BOOLEAN : RxTick(wen, ren)
      BY <1>2, <2>5, RxEdges
    <3>2. (wen => ~fifo.full) /\ (wen => made + 1 \in Words) /\ (ren => ~fifo.empty)
      BY <1>2, <3>1, RxAllowed
    <3>3. FifoStep(fifo, fifo', wen, made + 1, ren)
      BY <3>1 DEF RxTick
    <3> QED
      BY <2>4, <3>2, <3>3
  <2>6. CASE TxEdge
    <3>1. PICK wen, ren \in BOOLEAN : TxTick(wen, ren)
      BY <1>2, <2>6, TxEdges
    <3>2. (wen => ~fifo.full) /\ (wen => smi.word \in Words) /\ (ren => ~fifo.empty)
      BY <1>2, <3>1, TxFifo
    <3>3. FifoStep(fifo, fifo', wen, smi.word, ren)
      BY <3>1 DEF TxTick
    <3> QED
      BY <2>4, <3>2, <3>3
  <2>7. CASE fifo' = fifo
    BY <2>7
  <2>8. RxEdge \/ TxEdge \/ fifo' = fifo
    BY <1>2 DEF Next, vars, RxEdge, TxEdge, RxStrobe, SelectRadio, SelectChannel, TxStrobe,
                HostSlips, SelectDirection
  <2> QED
    BY <2>5, <2>6, <2>7, <2>8
<1> QED
  BY <1>1, <1>2, Invariance, PTL DEF Spec, ImplementsFifo, Queue!Spec
==============================================================================
