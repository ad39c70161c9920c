-------------------------- MODULE SmiSamplesProofs --------------------------
(***************************************************************************)
(* Proofs about the samples of caribou_smi.c, for periods, batches, fifos and  *)
(* calls of every length: the search for the samples in the bytes, the time    *)
(* base of what is read and the count of what is written.                     *)
(***************************************************************************)
EXTENDS SmiSamples, FiniteSetTheorems, SequenceTheorems, WellFoundedInduction, TLAPS

-----------------------------------------------------------------------------
(* The search for the constant bits. *)

(* A set of numbers that is not empty has a first one: what is below it is least  *)
(* under the strict subset relation.                                          *)
LEMMA FirstOf ==
  ASSUME NEW T, T \subseteq Nat, T # {}
  PROVE  \E o \in T : \A p \in 0..(o - 1) : p \notin T
<1>1. PICK n : n \in T /\ n \in Nat
  OBVIOUS
<1> DEFINE S == 0..n
           Below(x) == 0..(x - 1)
           B == {Below(x) : x \in {t \in T : t <= n}}
<1>2. IsFiniteSet(S) /\ FiniteSubsetsOf(S) = SUBSET S
  <2>1. IsFiniteSet(S)
    BY <1>1, FS_Interval
  <2> HIDE DEF S
  <2> QED
    BY <2>1, FS_FiniteSubsetsOfFinite
<1>3. IsWellFoundedOn(StrictSubsetOrdering(S), SUBSET S)
  BY <1>2, FS_StrictSubsetOrderingWellFounded
<1>4. B \subseteq SUBSET S /\ B # {}
  BY <1>1
<1>5. PICK b \in B : \A c \in B : ~(<<c, b>> \in StrictSubsetOrdering(S))
  <2> HIDE DEF B, S
  <2> QED
    BY <1>3, <1>4, WFMin
<1>6. PICK x \in T : x <= n /\ b = Below(x)
  OBVIOUS
<1>7. ASSUME NEW y \in 0..(x - 1), y \in T PROVE FALSE
  <2>1. Below(y) \in B /\ Below(y) \subseteq Below(x) /\ Below(y) # Below(x)
    <3>1. y \in Below(x) /\ y \notin Below(y) /\ y <= n /\ x \in Nat /\ y < x
      BY <1>1, <1>6, <1>7
    <3> QED
      BY <1>1, <1>6, <1>7, <3>1
  <2> HIDE DEF Below, B, S
  <2>2. <<Below(y), b>> \in StrictSubsetOrdering(S)
    BY <1>4, <1>6, <2>1 DEF StrictSubsetOrdering
  <2> QED
    BY <1>5, <2>1, <2>2
<1> QED
  BY <1>7

(* Four words from offs on show their bits. *)
Four(buf, offs) == \A w \in 0..3 : Shows(buf, offs + 4 * w)

(* What caribou_smi_find_buffer_offset finds: the first place, of those that leave  *)
(* room for four words and a byte, where four words show their bits.             *)
LEMMA OffsetFound ==
  ASSUME NEW n \in Nat, NEW buf, Len(buf) = 4 * n, NEW offs, offs = FindBufferOffset(buf)
  PROVE  /\ n <= 4 => offs = 0
         /\ n > 4 =>
              \/ /\ offs = -1
                 /\ \A o \in 0..(4 * n - 17) : ~Four(buf, o)
              \/ /\ offs \in 0..(4 * n - 17) /\ Four(buf, offs)
                 /\ \A p \in 0..(offs - 1) : ~Four(buf, p)
<1>1. CASE n <= 4
  BY <1>1 DEF FindBufferOffset
<1>2. CASE n > 4
  <2> DEFINE last == 4 * n - 17
             T == {o \in 0..last : Four(buf, o)}
             Good(o) == o \in 0..last /\ Four(buf, o) /\ \A p \in 0..(o - 1) : ~Four(buf, p)
  <2>1. offs = IF \E o \in 0..last : Four(buf, o)
               THEN CHOOSE o \in 0..last : Four(buf, o) /\ \A p \in 0..(o - 1) : ~Four(buf, p)
               ELSE -1
    BY <1>2 DEF FindBufferOffset, Four
  <2>2. CASE \E o \in 0..last : Four(buf, o)
    <3>1. T \subseteq Nat /\ T # {}
      BY <2>2
    <3>2. PICK o \in T : \A p \in 0..(o - 1) : p \notin T
      <4> HIDE DEF T
      <4> QED
        BY <3>1, FirstOf
    <3>3. \A p \in 0..(o - 1) : p \in 0..last
      OBVIOUS
    <3>4. Good(o)
      BY <3>2, <3>3
    <3>5. offs = CHOOSE p \in 0..last : Four(buf, p) /\ \A q \in 0..(p - 1) : ~Four(buf, q)
      BY <2>1, <2>2
    <3>6. Good(offs)
      BY <3>4, <3>5
    <3> QED
      BY <1>2, <3>6
  <2>3. CASE ~\E o \in 0..last : Four(buf, o)
    BY <1>2, <2>1, <2>3
  <2> QED
    BY <2>2, <2>3
<1> QED
  BY <1>1, <1>2

(* Bytes whose places follow each other around, from the place p on. *)
InPlace(buf, p) == \A j \in 1..Len(buf) : PlaceOf(buf[j]) = (p + j - 1) % 4

(* Four words of such bytes show their bits where a sample begins, and where the   *)
(* data look like it.                                                        *)
LEMMA FourInPlace ==
  ASSUME NEW n \in Nat, NEW buf, Len(buf) = 4 * n, NEW p \in 0..3, InPlace(buf, p), n > 4,
         NEW o \in 0..(4 * n - 17), stream.like \in {0, 1, 3}
  PROVE  /\ (p + o) % 4 = 0 => Four(buf, o)
         /\ Four(buf, o) => (p + o) % 4 \in {0, stream.like}
<1>1. ASSUME NEW w \in 0..3, NEW i \in 1..3
      PROVE  PlaceOf(buf[(o + 4 * w) + i + 1]) = (p + o + i) % 4
  <2>1. PICK j \in Nat : j = (o + 4 * w) + i + 1
    OBVIOUS
  <2>2. j \in 1..Len(buf)
    BY <2>1
  <2>3. PlaceOf(buf[j]) = (p + j - 1) % 4
    BY <2>2 DEF InPlace
  <2>4. (p + j - 1) % 4 = (p + o + i) % 4
    BY <2>1
  <2> QED
    BY <2>1, <2>3, <2>4
<1>2. ASSUME (p + o) % 4 = 0 PROVE Four(buf, o)
  <2>1. \A i \in 1..3 : (p + o + i) % 4 = i
    BY <1>2
  <2> QED
    BY <1>1, <2>1 DEF Four, Shows
<1>3. ASSUME Four(buf, o) PROVE (p + o) % 4 \in {0, stream.like}
  <2>1. Shows(buf, o + 4 * 0)
    BY <1>3 DEF Four
  <2>2. LET k == PlaceOf(buf[(o + 4 * 0) + 1 + 1]) IN k = 1 \/ k = (1 + stream.like) % 4
    BY <2>1 DEF Shows
  <2>3. PlaceOf(buf[(o + 4 * 0) + 1 + 1]) = (p + o + 1) % 4
    BY <1>1
  <2>4. (p + o + 1) % 4 = 1 \/ (p + o + 1) % 4 = (1 + stream.like) % 4
    BY <2>2, <2>3
  <2>5. \A l \in {0, 1, 3} : (p + o + 1) % 4 = (1 + l) % 4 => (p + o) % 4 = l
    OBVIOUS
  <2>6. (p + o + 1) % 4 = 1 => (p + o) % 4 = 0
    OBVIOUS
  <2> QED
    BY <2>4, <2>5, <2>6
<1> QED
  BY <1>2, <1>3

-----------------------------------------------------------------------------
(* What a buffer is decoded to. *)

(* A word of the buffer is a sample's, if its first byte is the sample's first.    *)
LEMMA WordFacts ==
  ASSUME NEW buf \in Seq(Nat), NEW a \in Nat, a + 4 <= Len(buf)
  PROVE  /\ Word(buf, a) \in Nat \cup {Mixed}
         /\ Word(buf, a) > 0 => buf[a + 1] = 4 * Word(buf, a)
<1>1. PICK b \in Nat : b = buf[a + 1]
  <2>1. a + 1 \in 1..Len(buf)
    OBVIOUS
  <2> QED
    BY <2>1
<1>2. b \div 4 \in Nat
  OBVIOUS
<1>3. CASE \A k \in 0..3 : buf[a + k + 1] = 4 * (b \div 4) + k
  <2>1. Word(buf, a) = b \div 4
    BY <1>1, <1>3 DEF Word, SampleOf
  <2>2. buf[a + 0 + 1] = 4 * (b \div 4) + 0 /\ a + 0 + 1 = a + 1
    BY <1>3
  <2>3. buf[a + 1] = 4 * (b \div 4)
    BY <2>2, <1>2
  <2> QED
    BY <2>1, <2>3, <1>2
<1>4. CASE ~\A k \in 0..3 : buf[a + k + 1] = 4 * (b \div 4) + k
  BY <1>1, <1>4 DEF Word, SampleOf, Mixed
<1> QED
  BY <1>3, <1>4

(* Bytes of one sample make its word. *)
LEMMA WholeWord ==
  ASSUME NEW buf, NEW a \in Nat, NEW s \in Nat, \A k \in 0..3 : buf[a + k + 1] = 4 * s + k
  PROVE  Word(buf, a) = s
<1>1. buf[a + 0 + 1] = 4 * s + 0 /\ a + 0 + 1 = a + 1
  OBVIOUS
<1>2. buf[a + 1] = 4 * s
  BY <1>1
<1>3. SampleOf(buf[a + 1]) = s
  BY <1>2 DEF SampleOf
<1> QED
  BY <1>3 DEF Word

(* From an offset that leaves room for four words and a byte, or from 0, every    *)
(* sample of the array is a word of the buffer, made or left alone.               *)
LEMMA DecodedFacts ==
  ASSUME NEW n \in Nat, NEW buf \in Seq(Nat), Len(buf) = 4 * n, NEW offs \in Nat,
         offs = 0 \/ offs + 17 <= 4 * n
  PROVE  /\ Decoded(buf, offs) \in Seq(Nat \cup {Mixed, Made, Old})
         /\ Len(Decoded(buf, offs)) = n
         /\ \A i \in 1..n :
              Decoded(buf, offs)[i] > 0 =>
                /\ offs + 4 * (i - 1) + 4 <= 4 * n
                /\ buf[offs + 4 * (i - 1) + 1] = 4 * Decoded(buf, offs)[i]
<1> DEFINE lost == IF offs > 0 THEN offs \div 4 + 1 ELSE 0
           D == Decoded(buf, offs)
           el(i) == IF i <= n - lost THEN Word(buf, offs + 4 * (i - 1))
                    ELSE IF i = n - lost + 1 THEN Made ELSE Old
<1>1. Len(buf) \div 4 = n
  OBVIOUS
<1>2. D = [i \in 1..n |-> el(i)]
  BY <1>1 DEF Decoded
<1>3. lost \in Nat /\ (offs > 0 => 4 * lost >= offs + 1) /\ (offs = 0 => lost = 0)
  OBVIOUS
<1>4. ASSUME NEW i \in 1..n, i <= n - lost
      PROVE  offs + 4 * (i - 1) \in Nat /\ offs + 4 * (i - 1) + 4 <= 4 * n
  <2> HIDE DEF lost
  <2> QED
    BY <1>3, <1>4
<1> HIDE DEF lost, D
<1>5. ASSUME NEW i \in 1..n
      PROVE  /\ D[i] \in Nat \cup {Mixed, Made, Old}
             /\ D[i] > 0 => /\ offs + 4 * (i - 1) + 4 <= 4 * n
                            /\ buf[offs + 4 * (i - 1) + 1] = 4 * D[i]
  <2>1. D[i] = el(i)
    BY <1>2
  <2>2. CASE i <= n - lost
    <3>1. D[i] = Word(buf, offs + 4 * (i - 1))
      BY <2>1, <2>2
    <3>2. PICK a \in Nat : a = offs + 4 * (i - 1) /\ a + 4 <= Len(buf)
      BY <1>4, <2>2
    <3>3. /\ Word(buf, a) \in Nat \cup {Mixed}
          /\ Word(buf, a) > 0 => buf[a + 1] = 4 * Word(buf, a)
      BY <3>2, WordFacts
    <3> QED
      BY <3>1, <3>2, <3>3
  <2>3. CASE ~(i <= n - lost)
    <3>1. D[i] \in {Made, Old}
      BY <2>1, <2>3
    <3> QED
      BY <3>1 DEF Made, Old
  <2> QED
    BY <2>2, <2>3
<1>6. D \in Seq(Nat \cup {Mixed, Made, Old}) /\ Len(D) = n
  <2>1. D \in [1..n -> Nat \cup {Mixed, Made, Old}]
    <3> HIDE DEF el
    <3> QED
      BY <1>2, <1>5
  <2> QED
    BY <2>1
<1> QED
  BY <1>5, <1>6 DEF D

(* The offset found in bytes that are in place is at most that of the first sample. *)
LEMMA FirstSample ==
  ASSUME NEW n \in Nat, NEW buf, Len(buf) = 4 * n, NEW p \in 0..3, InPlace(buf, p),
         stream.like \in {0, 1, 3}, n > 4, NEW offs, offs = FindBufferOffset(buf)
  PROVE  /\ offs \in 0..3 /\ p + offs <= 4 /\ (p = 0 => offs = 0)
         /\ (p + offs) % 4 \in {0, stream.like}
<1>1. PICK o \in 0..3 : (p + o) % 4 = 0 /\ p + o <= 4 /\ (p = 0 => o = 0)
  <2>1. CASE p = 0
    BY <2>1
  <2>2. CASE p # 0
    <3>1. 4 - p \in 0..3 /\ p + (4 - p) = 4
      BY <2>2
    <3> QED
      BY <3>1, <2>2
  <2> QED
    BY <2>1, <2>2
<1>2. o \in 0..(4 * n - 17)
  OBVIOUS
<1>3. Four(buf, o)
  BY <1>1, <1>2, FourInPlace
<1>4. /\ offs \in 0..(4 * n - 17) /\ Four(buf, offs)
      /\ \A q \in 0..(offs - 1) : ~Four(buf, q)
  <2>1. \/ /\ offs = -1
           /\ \A q \in 0..(4 * n - 17) : ~Four(buf, q)
        \/ /\ offs \in 0..(4 * n - 17) /\ Four(buf, offs)
           /\ \A q \in 0..(offs - 1) : ~Four(buf, q)
    BY OffsetFound
  <2> QED
    BY <1>2, <1>3, <2>1
<1>5. offs <= o
  BY <1>3, <1>4
<1>6. (p + offs) % 4 \in {0, stream.like}
  BY <1>4, FourInPlace
<1> QED
  BY <1>1, <1>4, <1>5, <1>6

(* A buffer in one piece, of which the data show the constant bits nowhere or it    *)
(* begins with a sample, is decoded to all its samples but one that it cuts.       *)
LEMMA PieceDecoded ==
  ASSUME NEW n \in Nat, n > 4, NEW buf \in Seq(Nat), Len(buf) = 4 * n, InOnePiece(buf),
         \A j \in 1..Len(buf) : buf[j] >= 4, stream.like \in {0, 1, 3},
         stream.like = 0 \/ PlaceOf(buf[1]) = 0
  PROVE  LET offs == FindBufferOffset(buf)
             decoded == Decoded(buf, offs)
         IN /\ offs >= 0
            /\ \A i \in 1..(n - 1) : decoded[i] > 0
            /\ decoded[n] = IF PlaceOf(buf[1]) = 0 THEN SampleOf(buf[4 * n]) ELSE Made
<1> DEFINE offs == FindBufferOffset(buf)
           D == Decoded(buf, offs)
<1>1. PICK b \in Nat : b = buf[1] /\ b >= 4
  <2>1. 1 \in 1..Len(buf)
    OBVIOUS
  <2> QED
    BY <2>1
<1>2. PICK q \in Nat, p \in 0..3 : b = 4 * q + p /\ q > 0
  <2>1. b = 4 * (b \div 4) + (b % 4) /\ b \div 4 \in Nat /\ b % 4 \in 0..3
    OBVIOUS
  <2>2. b \div 4 > 0
    BY <1>1
  <2> QED
    BY <2>1, <2>2
<1>3. \A j \in 1..(4 * n) : buf[j] = 4 * q + p + j - 1
  <2>1. \A j \in DOMAIN buf : buf[j] = buf[1] + j - 1
    BY DEF InOnePiece
  <2>2. DOMAIN buf = 1..(4 * n)
    OBVIOUS
  <2> QED
    BY <1>1, <1>2, <2>1, <2>2
<1>4. InPlace(buf, p)
  <2>1. ASSUME NEW j \in 1..Len(buf) PROVE (4 * q + p + j - 1) % 4 = (p + j - 1) % 4
    OBVIOUS
  <2> QED
    BY <1>3, <2>1 DEF InPlace, PlaceOf
<1>5. PlaceOf(buf[1]) = p
  BY <1>1, <1>2 DEF PlaceOf
<1>6. /\ offs \in 0..3 /\ p + offs <= 4 /\ (p = 0 => offs = 0)
      /\ (p + offs) % 4 \in {0, stream.like}
  BY <1>4, FirstSample
<1>7. offs \in 0..3 /\ (p = 0 => offs = 0) /\ (p # 0 => p + offs = 4)
  <2>1. CASE p = 0
    BY <1>6, <2>1
  <2>2. CASE p # 0
    <3>1. stream.like = 0
      BY <1>5, <2>2
    <3>2. (p + offs) % 4 = 0 /\ offs \in 0..3 /\ p + offs <= 4
      BY <1>6, <3>1
    <3> HIDE DEF offs
    <3> QED
      BY <2>2, <3>2
  <2> QED
    BY <2>1, <2>2
<1> DEFINE u == IF p = 0 THEN 0 ELSE 1
<1>8. /\ u \in {0, 1} /\ p + offs = 4 * u /\ (u = 0 <=> p = 0) /\ (offs > 0 <=> u = 1)
      /\ u = (IF offs > 0 THEN offs \div 4 + 1 ELSE 0)
  BY <1>7
<1>9. D = [i \in 1..n |-> IF i <= n - u THEN Word(buf, offs + 4 * (i - 1))
                          ELSE IF i = n - u + 1 THEN Made ELSE Old]
  <2>1. Len(buf) \div 4 = n
    OBVIOUS
  <2> QED
    BY <1>8, <2>1 DEF Decoded
<1> HIDE DEF offs, D, u
<1>10. ASSUME NEW i \in 1..n, i <= n - u PROVE D[i] = q + u + i - 1
  <2>1. PICK a \in Nat : a = offs + 4 * (i - 1)
    BY <1>7
  <2>2. PICK s \in Nat : s = q + u + i - 1
    BY <1>8, SMTT(30)
  <2>3. ASSUME NEW k \in 0..3 PROVE buf[a + k + 1] = 4 * s + k
    <3>1. a + k + 1 \in 1..(4 * n)
      BY <1>7, <1>8, <1>10, <2>1
    <3>2. buf[a + k + 1] = 4 * q + p + (a + k + 1) - 1
      BY <1>3, <3>1
    <3> QED
      BY <1>7, <1>8, <2>1, <2>2, <3>2
  <2>4. Word(buf, a) = s
    BY <2>3, WholeWord
  <2> QED
    BY <1>9, <1>10, <2>1, <2>2, <2>4
<1>11. \A i \in 1..(n - 1) : D[i] > 0
  <2>1. ASSUME NEW i \in 1..(n - 1) PROVE i \in 1..n /\ i <= n - u /\ q + u + i - 1 > 0
    BY <1>2, <1>8
  <2> QED
    BY <1>10, <2>1
<1>12. D[n] = IF p = 0 THEN SampleOf(buf[4 * n]) ELSE Made
  <2>1. CASE p = 0
    <3>1. D[n] = q + n - 1
      BY <1>8, <1>10, <2>1
    <3>2. buf[4 * n] = 4 * (q + n - 1) + 3
      BY <1>3, <2>1
    <3>3. (4 * (q + n - 1) + 3) \div 4 = q + n - 1
      OBVIOUS
    <3> QED
      BY <2>1, <3>1, <3>2, <3>3 DEF SampleOf
  <2>2. CASE p # 0
    <3>1. u = 1 /\ ~(n <= n - u) /\ n = n - u + 1
      BY <1>8, <2>2
    <3> QED
      BY <1>9, <2>2, <3>1
  <2> QED
    BY <2>1, <2>2
<1> QED
  BY <1>5, <1>7, <1>11, <1>12 DEF offs, D

-----------------------------------------------------------------------------
(* The inductive invariant. *)

(* Samples of the periods that were dropped. *)
Gap(d) == Period * d

(* Samples that the caller's arrays were given before the next byte of rx_fifo.  *)
Acc == IF call.of = "read" THEN call.accepted ELSE 0
Base == past.taken + Acc

(* rx_fifo holds bytes of samples, and as many as samples have; byte 4 is the    *)
(* first of all.                                                             *)
RxWhole ==
  /\ Len(stream.rx) % 4 = 0
  /\ stream.next >= 4 /\ \A j \in 1..Len(stream.rx) : stream.rx[j] >= 4

(* Until the stream stops, byte j of rx_fifo is the j-th after those read, but    *)
(* for whole periods that were dropped before it.                              *)
InStream ==
  past.restarts = 0 /\ stream.on =>
    /\ stream.next = 4 + past.origin + 4 * Base + Len(stream.rx) + 4 * Gap(past.drops)
    /\ \A j \in 1..Len(stream.rx) : \E d \in 0..past.drops :
         stream.rx[j] = 3 + past.origin + 4 * Base + j + 4 * Gap(d)

(* The array and the count of a read go together.                               *)
Counts ==
  /\ call.at = "read" => call.of = "read" /\ Len(out) = call.accepted
  /\ call.at = "write" => call.of = "write"

IInv == TypeOK /\ RxWhole /\ InStream /\ Counts /\ TimeBase

(* One dropped period more is a period more. *)
LEMMA GapFacts ==
  \A d \in Nat : Gap(d) \in Nat /\ Gap(d + 1) = Gap(d) + Period
<1>1. Period \in Nat
  BY SmiSamplesAssumption
<1> QED
  BY <1>1 DEF Gap

(* An empty array is in time. *)
LEMMA EmptyInTime == ASSUME out = <<>> PROVE TimeBase
<1>1. DOMAIN out = {}
  <2>1. Len(out) = 0 /\ out \in Seq(Nat)
    OBVIOUS
  <2> QED
    BY <2>1
<1> QED
  BY <1>1 DEF TimeBase

(* The fields of the state. *)
LEMMA Fields ==
  ASSUME TypeOK
  PROVE  /\ stream.on \in BOOLEAN /\ stream.rx \in Seq(Nat) /\ stream.next \in Nat
         /\ stream.tx \in 0..TxCap /\ stream.like \in {0, 1, 3} /\ Len(stream.rx) \in Nat
         /\ call.at \in {"idle", "read", "write"} /\ call.of \in {"none", "read", "write"}
         /\ call.left \in Nat /\ call.ret \in Int /\ call.accepted \in Nat
         /\ past.origin \in 0..3 /\ past.taken \in Nat /\ past.periods \in Nat
         /\ past.drops \in Nat /\ past.restarts \in Nat
         /\ Acc \in Nat /\ Base \in Nat
<1>1. stream.on \in BOOLEAN /\ stream.rx \in Seq(Nat) /\ stream.next \in Nat
  BY DEF TypeOK, Streams
<1>2. stream.tx \in 0..TxCap /\ stream.like \in {0, 1, 3}
  BY DEF TypeOK, Streams
<1>3. call.at \in {"idle", "read", "write"} /\ call.of \in {"none", "read", "write"}
  BY DEF TypeOK, Calls
<1>4. call.left \in Nat /\ call.ret \in Int /\ call.accepted \in Nat
  BY DEF TypeOK, Calls
<1>5. past.origin \in 0..3 /\ past.taken \in Nat /\ past.periods \in Nat
  BY DEF TypeOK, Pasts
<1>6. past.drops \in Nat /\ past.restarts \in Nat
  BY DEF TypeOK, Pasts
<1>7. Acc \in Nat /\ Base \in Nat
  BY <1>4, <1>5 DEF Acc, Base
<1>8. Len(stream.rx) \in Nat
  BY <1>1, LenProperties
<1> QED
  BY <1>1, <1>2, <1>3, <1>4, <1>5, <1>6, <1>7, <1>8

(* The initial states satisfy the invariant. *)
LEMMA InitInvariant == ASSUME Init PROVE IInv
<1>1. PICK k \in 0..3, like \in {0, 1, 3} :
        /\ stream = [on |-> TRUE, rx |-> <<>>, next |-> 4 + k, tx |-> 0, like |-> like]
        /\ call = [at |-> "idle", of |-> "none", left |-> 0, ret |-> 0, accepted |-> 0]
        /\ out = <<>>
        /\ past = [origin |-> k, taken |-> 0, periods |-> 0, drops |-> 0, restarts |-> 0]
  BY DEF Init
<1>2. 0 \in 0..TxCap /\ 4 + k \in Nat /\ Len(<<>>) = 0 /\ 0 <= 4 * RxCap
  BY SmiSamplesAssumption
<1>3. TypeOK
  <2>1. stream \in Streams /\ stream.rx = <<>> /\ stream.next = 4 + k
    BY <1>1, <1>2 DEF Streams
  <2>2. call \in Calls
    BY <1>1 DEF Calls
  <2>3. past \in Pasts
    BY <1>1 DEF Pasts
  <2>4. out \in Seq(Nat \cup {Mixed, Made, Old})
    BY <1>1
  <2> QED
    BY <1>2, <2>1, <2>2, <2>3, <2>4 DEF TypeOK
<1>4. RxWhole
  BY <1>1, <1>2 DEF RxWhole
<1>5. InStream
  <2>1. Base = 0 /\ past.origin = k /\ past.drops = 0 /\ stream.next = 4 + k /\ stream.rx = <<>>
    BY <1>1 DEF Base, Acc
  <2>2. Gap(0) = 0
    BY SmiSamplesAssumption DEF Gap
  <2> QED
    BY <1>2, <2>1, <2>2 DEF InStream
<1>6. Counts
  BY <1>1 DEF Counts
<1>7. TimeBase
  BY <1>1, EmptyInTime
<1> QED
  BY <1>3, <1>4, <1>5, <1>6, <1>7 DEF IInv

-----------------------------------------------------------------------------
(* The steps that leave the bytes of rx_fifo alone. *)

(* The bytes are where they were when neither they nor what was taken
   changes. *)
LEMMA BytesKept ==
  ASSUME IInv, stream'.rx = stream.rx, stream'.next = stream.next, stream'.on => stream.on,
         past'.origin = past.origin, past'.drops = past.drops, past'.restarts = past.restarts,
         Base' = Base
  PROVE  RxWhole' /\ InStream'
<1>1. RxWhole'
  BY DEF IInv, RxWhole
<1>2. InStream'
  BY DEF IInv, InStream, Gap
<1> QED
  BY <1>1, <1>2

(* The same of the next state. *)
LEMMA EmptyInTimeNext == ASSUME out' = <<>> PROVE TimeBase'
<1>1. DOMAIN out' = {}
  <2>1. Len(out') = 0 /\ out' \in Seq(Nat)
    OBVIOUS
  <2> QED
    BY <2>1
<1> QED
  BY <1>1 DEF TimeBase

(* A call that fails or finds nothing changes nothing but itself. *)
LEMMA ReturnInvariant ==
  ASSUME IInv, NEW ret \in {-1, call.ret}, call' = Return(call, ret),
         UNCHANGED <<stream, past>>, out' \in {out, <<>>}
  PROVE  IInv'
<1>1. call' = [call EXCEPT !.at = "idle", !.left = 0, !.ret = ret]
  BY DEF Return
<1>2. call \in Calls /\ ret \in Int
  BY Fields DEF IInv, TypeOK
<1>3. /\ call'.at = "idle" /\ call'.of = call.of /\ call'.ret = ret
      /\ call'.accepted = call.accepted
  BY <1>1, <1>2 DEF Calls
<1>4. call' \in Calls
  <2>1. \A c \in Calls, r \in Int : [c EXCEPT !.at = "idle", !.left = 0, !.ret = r] \in Calls
    BY DEF Calls
  <2> QED
    BY <1>1, <1>2, <2>1
<1>5. TypeOK'
  <2>1. out' \in Seq(Nat \cup {Mixed, Made, Old})
    <3>1. out \in Seq(Nat \cup {Mixed, Made, Old})
      BY DEF IInv, TypeOK
    <3>2. <<>> \in Seq(Nat \cup {Mixed, Made, Old})
      OBVIOUS
    <3> QED
      BY <3>1, <3>2
  <2> QED
    BY <1>4, <2>1 DEF IInv, TypeOK
<1>6. Base' = Base
  BY <1>3 DEF Base, Acc
<1>7. RxWhole' /\ InStream'
  BY <1>6, BytesKept
<1>8. Counts'
  BY <1>2, <1>3 DEF IInv, Counts
<1>9. TimeBase'
  <2>1. CASE out' = <<>>
    BY <2>1, EmptyInTimeNext
  <2>2. CASE out' = out
    BY <2>2 DEF IInv, TimeBase
  <2> QED
    BY <2>1, <2>2
<1> QED
  BY <1>5, <1>7, <1>8, <1>9 DEF IInv

(* A read that times out keeps the invariant. *)
LEMMA ReadTimesOutInvariant == ASSUME IInv, ReadTimesOut PROVE IInv'
BY ReturnInvariant DEF ReadTimesOut

(* A read that fails keeps it. *)
LEMMA ReadFailsInvariant == ASSUME IInv, ReadFails PROVE IInv'
BY ReturnInvariant DEF ReadFails

(* A write that times out keeps it. *)
LEMMA WriteTimesOutInvariant == ASSUME IInv, WriteTimesOut PROVE IInv'
BY ReturnInvariant DEF WriteTimesOut

(* A write that fails keeps it. *)
LEMMA WriteFailsInvariant == ASSUME IInv, WriteFails PROVE IInv'
BY ReturnInvariant DEF WriteFails

(* A call that begins: what the last one read is the caller's.                   *)
LEMMA BeginInvariant ==
  ASSUME IInv, out' = <<>>,
         NEW of \in {"read", "write"}, NEW at \in {"idle", of}, NEW left \in Nat,
         NEW ret \in {-1, 0}, at = "write" \/ of = "read" => ret = 0,
         call' = [at |-> at, of |-> of, left |-> left, ret |-> ret, accepted |-> 0],
         past' = [past EXCEPT !.taken = @ + IF call.of = "read" THEN call.accepted ELSE 0],
         NEW on \in BOOLEAN, on => stream.on, NEW tx \in {0, stream.tx},
         stream' = [stream EXCEPT !.on = on, !.tx = tx]
  PROVE  IInv'
<1>1. /\ call' \in Calls /\ call'.at = at /\ call'.of = of /\ call'.ret = ret
      /\ call'.accepted = 0
  <2>1. at \in {"idle", "read", "write"} /\ of \in {"none", "read", "write"} /\ ret \in Int
    OBVIOUS
  <2>2. call' \in Calls
    BY <2>1 DEF Calls
  <2>3. call'.at = at /\ call'.of = of /\ call'.ret = ret
    OBVIOUS
  <2>4. call'.accepted = 0
    OBVIOUS
  <2> QED
    BY <2>2, <2>3, <2>4
<1>2. stream \in Streams /\ past \in Pasts /\ Acc \in Nat /\ tx \in 0..TxCap
  <2>1. stream \in Streams /\ past \in Pasts
    BY DEF IInv, TypeOK
  <2>2. Acc \in Nat /\ stream.tx \in 0..TxCap
    BY Fields DEF IInv
  <2>3. tx \in 0..TxCap
    BY <2>2, SmiSamplesAssumption
  <2> QED
    BY <2>1, <2>2, <2>3
<1>3. past' = [past EXCEPT !.taken = @ + Acc]
  BY DEF Acc
<1>4. /\ past' \in Pasts /\ past'.taken = past.taken + Acc /\ past'.origin = past.origin
      /\ past'.drops = past.drops /\ past'.restarts = past.restarts
  <2> HIDE DEF Acc
  <2> QED
    BY <1>2, <1>3 DEF Pasts
<1>5. stream' \in Streams /\ stream'.rx = stream.rx /\ stream'.next = stream.next /\ stream'.on = on
  BY <1>2 DEF Streams
<1>6. Base' = Base
  <2>1. Acc' = 0
    BY <1>1 DEF Acc
  <2>2. Base = past.taken + Acc /\ past.taken \in Nat
    BY Fields DEF Base, IInv
  <2>3. Base' = (past.taken + Acc) + 0
    BY <1>4, <2>1 DEF Base
  <2> QED
    BY <1>2, <2>2, <2>3
<1>7. TypeOK'
  BY <1>1, <1>4, <1>5 DEF IInv, TypeOK
<1>8. RxWhole' /\ InStream'
  BY <1>4, <1>5, <1>6, BytesKept
<1>9. Counts'
  <2>1. Len(out') = 0
    OBVIOUS
  <2> QED
    BY <1>1, <2>1 DEF Counts
<1> QED
  BY <1>7, <1>8, <1>9, EmptyInTimeNext DEF IInv

(* A read begins. *)
LEMMA BeginReadInvariant == ASSUME IInv, BeginRead PROVE IInv'
<1>1. PICK n \in Lengths : Begin("read", n)
  BY DEF BeginRead
<1>2. n \in Nat
  BY SmiSamplesAssumption
<1>3. call' = [at |-> "read", of |-> "read", left |-> n, ret |-> 0, accepted |-> 0]
  BY <1>1 DEF Begin
<1>4. /\ out' = <<>> /\ stream' = stream
      /\ past' = [past EXCEPT !.taken = @ + IF call.of = "read" THEN call.accepted ELSE 0]
  BY DEF BeginRead
<1>5. stream' = [stream EXCEPT !.on = stream.on, !.tx = stream.tx] /\ stream.on \in BOOLEAN
  BY <1>4, Fields DEF IInv, TypeOK, Streams
<1> QED
  BY <1>2, <1>3, <1>4, <1>5, BeginInvariant

(* A write begins. *)
LEMMA BeginWriteInvariant == ASSUME IInv, BeginWrite PROVE IInv'
<1>1. PICK n \in Lengths : Begin("write", n)
  BY DEF BeginWrite
<1>2. n \in Nat
  BY SmiSamplesAssumption
<1>3. call' = [at |-> "write", of |-> "write", left |-> n, ret |-> 0, accepted |-> 0]
  BY <1>1 DEF Begin
<1>4. /\ out' = <<>> /\ stream' = [stream EXCEPT !.on = FALSE, !.tx = 0]
      /\ past' = [past EXCEPT !.taken = @ + IF call.of = "read" THEN call.accepted ELSE 0]
  BY DEF BeginWrite
<1> QED
  BY <1>2, <1>3, <1>4, BeginInvariant

(* A write fails to set the stream. *)
LEMMA SetStreamFailsInvariant == ASSUME IInv, SetStreamFails PROVE IInv'
<1>1. PICK on \in {FALSE, stream.on} : stream' = [stream EXCEPT !.on = on]
  BY DEF SetStreamFails
<1>2. stream' = [stream EXCEPT !.on = on, !.tx = stream.tx] /\ on \in BOOLEAN
  BY <1>1, Fields DEF IInv, TypeOK, Streams
<1>3. /\ out' = <<>>
      /\ call' = [at |-> "idle", of |-> "write", left |-> 0, ret |-> -1,
                  accepted |-> 0]
      /\ past' = [past EXCEPT !.taken = @ + IF call.of = "read" THEN call.accepted ELSE 0]
  BY DEF SetStreamFails
<1> QED
  BY <1>1, <1>2, <1>3, BeginInvariant

-----------------------------------------------------------------------------
(* The driver's steps, and those that empty rx_fifo or fill tx_fifo. *)

(* Bytes put behind others. *)
LEMMA JoinFacts ==
  ASSUME NEW S, NEW s \in Seq(S), NEW t \in Seq(S), NEW m \in Nat, NEW k \in Nat,
         m = Len(s), k = Len(t)
  PROVE  /\ s \o t \in Seq(S) /\ Len(s \o t) = m + k
         /\ \A j \in 1..m : (s \o t)[j] = s[j]
         /\ \A j \in (m + 1)..(m + k) : (s \o t)[j] = t[j - m]
OBVIOUS

(* A period arrives, or is dropped. *)
LEMMA CaptureInvariant == ASSUME IInv, Capture PROVE IInv'
<1> DEFINE bytes == [i \in 1..(4 * Period) |-> stream.next + i - 1]
<1>1. /\ stream.rx \in Seq(Nat) /\ stream.next \in Nat /\ Period \in Nat \ {0}
      /\ past.drops \in Nat /\ past.periods \in Nat
  BY Fields, SmiSamplesAssumption DEF IInv
<1>2. PICK m \in Nat : m = Len(stream.rx)
  BY Fields DEF IInv
<1>7. PICK g \in Nat : g = Gap(past.drops) /\ Gap(past.drops + 1) = g + Period
  BY <1>1, GapFacts
<1>8. PICK o \in 0..3, base \in Nat : o = past.origin /\ base = Base
  BY Fields DEF IInv
<1>9. PICK next \in Nat : next = stream.next /\ next >= 4
  BY <1>1 DEF IInv, RxWhole
<1>3. stream \in Streams /\ past \in Pasts
  BY DEF IInv, TypeOK
<1>4. call' = call /\ out' = out
  BY DEF Capture
<1>5. CASE Len(stream.rx) + 4 * Period <= 4 * RxCap
  <2>1. /\ stream' = [stream EXCEPT !.rx = @ \o bytes, !.next = @ + 4 * Period]
        /\ past' = [past EXCEPT !.periods = @ + 1, !.drops = @]
    BY <1>5 DEF Capture
  <2>2. /\ bytes \in Seq(Nat) /\ Len(bytes) = 4 * Period
        /\ \A i \in 1..(4 * Period) : bytes[i] = stream.next + i - 1
    <3>1. bytes \in [1..(4 * Period) -> Nat]
      BY <1>1
    <3>2. 4 * Period \in Nat
      BY <1>1
    <3> QED
      BY <3>1, <3>2
  <2> HIDE DEF bytes
  <2>14. PICK k \in Nat : k = 4 * Period
    BY <1>1
  <2>15. k = Len(bytes) /\ m = Len(stream.rx) /\ bytes \in Seq(Nat) /\ stream.rx \in Seq(Nat)
    BY <1>1, <1>2, <2>2, <2>14
  <2> DEFINE rx2 == stream.rx \o bytes
  <2>3. rx2 \in Seq(Nat) /\ Len(rx2) = m + 4 * Period
    <3>1. rx2 \in Seq(Nat) /\ Len(rx2) = m + k
      BY <2>15, JoinFacts
    <3> QED
      BY <2>14, <3>1
  <2>4. /\ \A j \in 1..m : rx2[j] = stream.rx[j]
        /\ \A j \in (m + 1)..(m + 4 * Period) : rx2[j] = bytes[j - m]
    <3>1. \A j \in 1..m : rx2[j] = stream.rx[j]
      BY <2>15, JoinFacts
    <3>2. \A j \in (m + 1)..(m + k) : rx2[j] = bytes[j - m]
      BY <2>15, JoinFacts
    <3> QED
      BY <2>14, <3>1, <3>2
  <2> HIDE DEF rx2
  <2>5. PICK next2 \in Nat : next2 = stream.next + 4 * Period
    BY <1>1
  <2>6. /\ stream' \in Streams /\ stream'.rx = rx2 /\ stream'.next = next2
        /\ stream'.on = stream.on
    <3>1. stream' = [stream EXCEPT !.rx = rx2, !.next = next2]
      BY <2>1, <2>5 DEF rx2
    <3> QED
      BY <1>3, <2>3, <3>1 DEF Streams
  <2>7. /\ past' \in Pasts /\ past'.drops = past.drops /\ past'.origin = past.origin
        /\ past'.taken = past.taken /\ past'.restarts = past.restarts
    <3>1. past' = [past EXCEPT !.periods = past.periods + 1]
      BY <1>3, <2>1 DEF Pasts
    <3>2. past.periods + 1 \in Nat
      BY <1>1
    <3> QED
      BY <1>3, <3>1, <3>2 DEF Pasts
  <2>8. Base' = Base
    BY <1>4, <2>7 DEF Base, Acc
  <2>9. TypeOK'
    <3>1. Len(stream'.rx) <= 4 * RxCap
      BY <1>2, <1>5, <2>3, <2>6
    <3> QED
      BY <1>4, <2>6, <2>7, <3>1 DEF IInv, TypeOK
  <2>10. RxWhole'
    <3>3. \A a, b \in Nat : a % 4 = 0 => (a + 4 * b) % 4 = 0
      OBVIOUS
    <3>4. m % 4 = 0
      BY <1>2 DEF IInv, RxWhole
    <3>1. (m + 4 * Period) % 4 = 0 /\ next2 >= 4
      BY <1>1, <1>9, <2>5, <3>3, <3>4
    <3>2. ASSUME NEW j \in 1..(m + 4 * Period) PROVE rx2[j] >= 4
      <4>1. CASE j <= m
        <5>1. j \in 1..m
          BY <4>1
        <5> QED
          BY <1>2, <2>4, <5>1 DEF IInv, RxWhole
      <4>2. CASE j > m
        <5>1. j \in (m + 1)..(m + 4 * Period) /\ j - m \in 1..(4 * Period)
          BY <1>1, <4>2
        <5>2. rx2[j] = bytes[j - m] /\ bytes[j - m] = next + (j - m) - 1
          BY <1>9, <2>2, <2>4, <5>1
        <5> QED
          BY <1>9, <5>1, <5>2
      <4> QED
        BY <1>1, <4>1, <4>2
    <3> QED
      BY <2>3, <2>6, <3>1, <3>2 DEF RxWhole
  <2>11. InStream'
    <3> SUFFICES ASSUME past.restarts = 0, stream.on
                 PROVE  /\ next2 = 4 + o + 4 * base + (m + 4 * Period) + 4 * g
                        /\ \A j \in 1..(m + 4 * Period) : \E d \in 0..past.drops :
                             rx2[j] = 3 + past.origin + 4 * Base + j + 4 * Gap(d)
      BY <1>7, <1>8, <2>3, <2>6, <2>7, <2>8 DEF InStream, Gap
    <3>1. next = 4 + o + 4 * base + m + 4 * g
      BY <1>2, <1>7, <1>8, <1>9 DEF IInv, InStream
    <3>2. next2 = 4 + o + 4 * base + (m + 4 * Period) + 4 * g
      BY <1>1, <1>9, <2>5, <3>1
    <3>3. ASSUME NEW j \in 1..(m + 4 * Period)
          PROVE  \E d \in 0..past.drops :
                   rx2[j] = 3 + past.origin + 4 * Base + j + 4 * Gap(d)
      <4>1. CASE j <= m
        <5>1. j \in 1..m
          BY <4>1
        <5>2. rx2[j] = stream.rx[j]
          BY <2>4, <5>1
        <5> QED
          BY <1>2, <5>1, <5>2 DEF IInv, InStream
      <4>2. CASE j > m
        <5>1. j \in (m + 1)..(m + 4 * Period) /\ j - m \in 1..(4 * Period)
          BY <1>1, <4>2
        <5>2. rx2[j] = bytes[j - m] /\ bytes[j - m] = next + (j - m) - 1
          BY <1>9, <2>2, <2>4, <5>1
        <5>3. rx2[j] = 3 + o + 4 * base + j + 4 * g
          BY <3>1, <5>1, <5>2
        <5> QED
          BY <1>1, <1>7, <1>8, <5>3, SMTT(30)
      <4> QED
        BY <1>1, <4>1, <4>2
    <3> QED
      BY <3>2, <3>3
  <2>12. Counts'
    BY <1>4 DEF IInv, Counts
  <2>13. TimeBase'
    BY <1>4, <2>6, <2>7 DEF IInv, TimeBase
  <2> QED
    BY <2>9, <2>10, <2>11, <2>12, <2>13 DEF IInv
<1>6. CASE ~(Len(stream.rx) + 4 * Period <= 4 * RxCap)
  <2>1. /\ stream' = [stream EXCEPT !.rx = @, !.next = @ + 4 * Period]
        /\ past' = [past EXCEPT !.periods = @ + 1, !.drops = @ + 1]
    BY <1>6 DEF Capture
  <2>2. PICK next2 \in Nat : next2 = stream.next + 4 * Period /\ next2 >= 4
    BY <1>1, <1>9
  <2>3. /\ stream' \in Streams /\ stream'.rx = stream.rx /\ stream'.next = next2
        /\ stream'.on = stream.on
    <3>1. stream' = [stream EXCEPT !.next = next2]
      BY <1>3, <2>1, <2>2 DEF Streams
    <3> QED
      BY <1>3, <3>1 DEF Streams
  <2>4. PICK drops2 \in Nat : drops2 = past.drops + 1
    BY <1>1
  <2>5. /\ past' \in Pasts /\ past'.drops = drops2 /\ past'.origin = past.origin
        /\ past'.taken = past.taken /\ past'.restarts = past.restarts
    <3>1. past' = [past EXCEPT !.periods = past.periods + 1, !.drops = drops2]
      BY <2>1, <2>4
    <3>2. past.periods + 1 \in Nat
      BY <1>1
    <3> QED
      BY <1>3, <3>1, <3>2 DEF Pasts
  <2>6. Base' = Base
    BY <1>4, <2>5 DEF Base, Acc
  <2>7. TypeOK'
    BY <1>4, <2>3, <2>5 DEF IInv, TypeOK
  <2>8. RxWhole'
    BY <2>2, <2>3 DEF IInv, RxWhole
  <2>9. 0..past.drops \subseteq 0..drops2
    BY <1>1, <2>4
  <2>10. InStream'
    <3> SUFFICES ASSUME past.restarts = 0, stream.on
                 PROVE  /\ next2 = 4 + o + 4 * base + m + 4 * Gap(drops2)
                        /\ \A j \in 1..Len(stream.rx) : \E d \in 0..drops2 :
                             stream.rx[j] = 3 + past.origin + 4 * Base + j + 4 * Gap(d)
      BY <1>2, <1>8, <2>3, <2>5, <2>6 DEF InStream, Gap
    <3>1. next = 4 + o + 4 * base + m + 4 * g
      BY <1>2, <1>7, <1>8, <1>9 DEF IInv, InStream
    <3>4. next2 = next + 4 * Period /\ Gap(drops2) = g + Period
      BY <1>7, <1>9, <2>2, <2>4
    <3>2. next2 = 4 + o + 4 * base + m + 4 * Gap(drops2)
      BY <1>1, <3>1, <3>4
    <3>3. \A j \in 1..Len(stream.rx) : \E d \in 0..past.drops :
             stream.rx[j] = 3 + past.origin + 4 * Base + j + 4 * Gap(d)
      BY DEF IInv, InStream
    <3> QED
      BY <2>9, <3>2, <3>3
  <2>11. Counts'
    BY <1>4 DEF IInv, Counts
  <2>12. TimeBase'
    <3>1. past.restarts = 0 /\ stream.on =>
            \A i \in DOMAIN out : out[i] > 0 =>
              \E d \in 0..past.drops :
                out[i] - (past.taken + i) = (IF past.origin = 0 THEN 0 ELSE 1) + Gap(d)
      BY DEF IInv, TimeBase, Gap
    <3>2. past.restarts = 0 /\ stream.on =>
            \A i \in DOMAIN out : out[i] > 0 =>
              \E d \in 0..drops2 :
                out[i] - (past.taken + i) = (IF past.origin = 0 THEN 0 ELSE 1) + Gap(d)
      BY <2>9, <3>1
    <3> QED
      BY <1>4, <2>3, <2>5, <3>2 DEF TimeBase, Gap
  <2> QED
    BY <2>7, <2>8, <2>10, <2>11, <2>12 DEF IInv
<1> QED
  BY <1>5, <1>6

(* The stream starts over. *)
LEMMA RestartInvariant == ASSUME IInv, Restart PROVE IInv'
<1>1. PICK k \in 0..3 : stream' = [stream EXCEPT !.on = TRUE, !.next = 4 * (SampleOf(@) + 1) + k]
  BY DEF Restart
<1>2. stream \in Streams /\ past \in Pasts /\ stream.next \in Nat /\ past.restarts \in Nat
  <2>1. stream \in Streams /\ past \in Pasts
    BY DEF IInv, TypeOK
  <2>2. stream.next \in Nat /\ past.restarts \in Nat
    BY Fields DEF IInv
  <2> QED
    BY <2>1, <2>2
<1>3. PICK next2 \in Nat : next2 = 4 * (SampleOf(stream.next) + 1) + k /\ next2 >= 4
  <2>1. stream.next \div 4 \in Nat
    BY <1>2
  <2> QED
    BY <2>1 DEF SampleOf
<1>4. stream' \in Streams /\ stream'.rx = stream.rx /\ stream'.next = next2
  BY <1>1, <1>2, <1>3 DEF Streams
<1>5. past' \in Pasts /\ past'.restarts # 0
  BY <1>2 DEF Restart, Pasts
<1>6. call' = call /\ out' = out
  BY DEF Restart
<1>7. TypeOK'
  BY <1>4, <1>5, <1>6 DEF IInv, TypeOK
<1>8. RxWhole'
  BY <1>3, <1>4 DEF IInv, RxWhole
<1>9. InStream' /\ TimeBase'
  BY <1>5 DEF InStream, TimeBase
<1>10. Counts'
  BY <1>6 DEF IInv, Counts
<1> QED
  BY <1>7, <1>8, <1>9, <1>10 DEF IInv

-----------------------------------------------------------------------------
(* The steps that take bytes from rx_fifo, and the write. *)

(* The first bytes of a sequence are a sequence of bytes, the same ones.         *)
LEMMA FirstBytes ==
  ASSUME NEW s \in Seq(Nat), NEW k \in Nat, k <= Len(s)
  PROVE  /\ SubSeq(s, 1, k) \in Seq(Nat) /\ Len(SubSeq(s, 1, k)) = k
         /\ \A j \in 1..k : SubSeq(s, 1, k)[j] = s[j]
<1>1. \A i \in 1..k : s[i] \in Nat
  OBVIOUS
<1>2. /\ SubSeq(s, 1, k) \in Seq(Nat)
      /\ Len(SubSeq(s, 1, k)) = IF 1 <= k THEN k - 1 + 1 ELSE 0
      /\ \A i \in 1..(k - 1 + 1) : SubSeq(s, 1, k)[i] = s[1 + i - 1]
  BY <1>1, SubSeqProperties
<1>3. \A i \in Int : 1 + i - 1 = i
  OBVIOUS
<1> QED
  BY <1>2, <1>3

(* What a read takes: whole samples, not more than there are or are asked for.   *)
LEMMA ReadLength ==
  ASSUME TypeOK, NEW m \in Nat, Len(stream.rx) = 4 * m, NEW left \in Nat,
         NEW n, n = Least(Len(stream.rx) \div 4, BatchLength(left))
  PROVE  /\ n \in Nat /\ n <= m /\ n <= left
         /\ SubSeq(stream.rx, 1, 4 * n) \in Seq(Nat) /\ Len(SubSeq(stream.rx, 1, 4 * n)) = 4 * n
         /\ \A j \in 1..(4 * n) : SubSeq(stream.rx, 1, 4 * n)[j] = stream.rx[j]
<1>1. BatchLength(left) \in Nat /\ BatchLength(left) <= left
  BY SmiSamplesAssumption DEF BatchLength, Least
<1>2. (4 * m) \div 4 = m
  OBVIOUS
<1>3. n \in Nat /\ n <= m /\ n <= left
  BY <1>1, <1>2 DEF Least
<1>4. PICK k \in Nat : k = 4 * n /\ k <= Len(stream.rx)
  BY <1>3
<1>5. /\ SubSeq(stream.rx, 1, k) \in Seq(Nat) /\ Len(SubSeq(stream.rx, 1, k)) = k
      /\ \A j \in 1..k : SubSeq(stream.rx, 1, k)[j] = stream.rx[j]
  <2>1. stream.rx \in Seq(Nat)
    BY Fields
  <2> QED
    BY <1>4, <2>1, FirstBytes
<1> QED
  BY <1>3, <1>4, <1>5

(* The offset of a read leaves room for the words, or there is none.             *)
LEMMA OffsetRoom ==
  ASSUME NEW n \in Nat, NEW buf, Len(buf) = 4 * n, NEW offs, offs = FindBufferOffset(buf)
  PROVE  offs = -1 \/ (offs \in Nat /\ (offs = 0 \/ offs + 17 <= 4 * n))
<1>1. /\ n <= 4 => offs = 0
      /\ n > 4 => offs = -1 \/ offs \in 0..(4 * n - 17)
  BY OffsetFound
<1> QED
  BY <1>1

(* The stream has not stopped. *)
Running == past.restarts = 0 /\ stream.on

(* The first n samples' bytes of rx_fifo. *)
Front(buf, n) ==
  /\ buf \in Seq(Nat) /\ Len(buf) = 4 * n /\ 4 * n <= Len(stream.rx)
  /\ \A j \in 1..(4 * n) : buf[j] = stream.rx[j]

Found(buf, offs) == offs = FindBufferOffset(buf)

(* Sample x, the k-th after those read, is in the stream but for dropped periods. *)
Timely(k, x) ==
  \E d \in 0..past.drops : x = Base + k + (IF past.origin = 0 THEN 0 ELSE 1) + Gap(d)

(* A sample that a read decodes is as late as the periods dropped before it, and  *)
(* one sample more if the stream began within one.                            *)
LEMMA DecodedInTime ==
  ASSUME IInv, Running, NEW n \in Nat, NEW buf, Front(buf, n),
         NEW offs \in Nat, Found(buf, offs),
         NEW k \in 1..n, NEW x, x = Decoded(buf, offs)[k], x > 0
  PROVE  Timely(k, x)
<1>1. PICK o \in 0..3, base \in Nat : o = past.origin /\ base = Base
  BY Fields DEF IInv
<1>16. buf \in Seq(Nat) /\ Len(buf) = 4 * n
  BY DEF Front
<1>2. offs = 0 \/ offs + 17 <= 4 * n
  BY <1>16, OffsetRoom DEF Found
<1>4. x \in Nat \cup {Mixed, Made, Old}
  <2>1. Decoded(buf, offs) \in Seq(Nat \cup {Mixed, Made, Old}) /\ Len(Decoded(buf, offs)) = n
    BY <1>2, <1>16, DecodedFacts
  <2> QED
    BY <2>1
<1>5. offs + 4 * (k - 1) + 4 <= 4 * n /\ buf[offs + 4 * (k - 1) + 1] = 4 * x
  <2>1. \A i \in 1..n :
          Decoded(buf, offs)[i] > 0 =>
            /\ offs + 4 * (i - 1) + 4 <= 4 * n
            /\ buf[offs + 4 * (i - 1) + 1] = 4 * Decoded(buf, offs)[i]
    BY <1>2, <1>16, DecodedFacts
  <2> QED
    BY <2>1
<1>6. PICK j \in 1..(4 * n) : j = offs + 4 * (k - 1) + 1
  BY <1>5
<1>7. \A i \in 1..(4 * n) : \E d \in 0..past.drops :
        buf[i] = 3 + o + 4 * base + i + 4 * Gap(d)
  <2>1. Len(stream.rx) \in Nat
    BY Fields DEF IInv
  <2>2. \A i \in 1..(4 * n) : i \in 1..Len(stream.rx)
    BY <2>1 DEF Front
  <2>3. \A i \in 1..Len(stream.rx) : \E d \in 0..past.drops :
           stream.rx[i] = 3 + o + 4 * base + i + 4 * Gap(d)
    BY <1>1 DEF IInv, InStream, Running
  <2>4. \A i \in 1..(4 * n) : buf[i] = stream.rx[i]
    BY DEF Front
  <2> QED
    BY <2>2, <2>3, <2>4
<1>8. \A d \in 0..past.drops : Gap(d) \in Nat
  <2>1. past.drops \in Nat
    BY Fields DEF IInv
  <2> QED
    BY <2>1, GapFacts
<1>9. PICK d \in 0..past.drops : buf[j] = 3 + o + 4 * base + j + 4 * Gap(d)
  BY <1>7
<1>10. PICK g \in Nat : g = Gap(d)
  BY <1>8
<1>11. x \in Nat
  BY <1>4 DEF Mixed, Made, Old
<1>15. PICK y \in Nat : y = base + k + g
  OBVIOUS
<1>12. 4 * x = o + offs + 4 * y
  <2>1. 4 * x = buf[j]
    BY <1>5, <1>6
  <2>2. 4 * x = 3 + o + 4 * base + j + 4 * g
    BY <1>9, <1>10, <2>1
  <2> QED
    BY <1>6, <1>11, <1>15, <2>2
<1> DEFINE u == IF o = 0 THEN 0 ELSE 1
<1>13. o + offs = 4 * u
  <2>1. CASE n <= 4
    <3>1. offs = 0
      BY <1>16, <2>1, OffsetFound DEF Found
    <3>2. o = 4 * (x - y)
      BY <1>11, <1>12, <3>1
    <3> QED
      BY <1>11, <3>1, <3>2
  <2>2. CASE n > 4
    <3>1. InPlace(buf, o)
      <4>1. ASSUME NEW i \in 1..(4 * n) PROVE PlaceOf(buf[i]) = (o + i - 1) % 4
        <5>1. PICK e \in 0..past.drops : buf[i] = 3 + o + 4 * base + i + 4 * Gap(e)
          BY <1>7
        <5>2. PICK h \in Nat : h = Gap(e)
          BY <1>8
        <5>3. buf[i] = 4 * (base + h + 1) + (o + i - 1)
          BY <5>1, <5>2
        <5>4. \A a, b \in Nat : (4 * a + b) % 4 = b % 4
          OBVIOUS
        <5>5. base + h + 1 \in Nat /\ o + i - 1 \in Nat
          OBVIOUS
        <5>6. (4 * (base + h + 1) + (o + i - 1)) % 4 = (o + i - 1) % 4
          BY <5>4, <5>5
        <5> QED
          BY <5>3, <5>6 DEF PlaceOf
      <4> QED
        BY <1>16, <4>1 DEF InPlace
    <3>2. stream.like \in {0, 1, 3}
      BY Fields DEF IInv
    <3>3. offs \in 0..3 /\ o + offs <= 4 /\ (o = 0 => offs = 0)
      BY <1>16, <2>2, <3>1, <3>2, FirstSample, SMTT(30) DEF Found
    <3>4. o + offs = 4 * (x - y)
      BY <1>11, <1>12
    <3>5. o + offs = 0 \/ o + offs = 4
      BY <1>11, <3>3, <3>4
    <3> QED
      BY <3>3, <3>5
  <2> QED
    BY <2>1, <2>2
<1>14. x = base + k + u + g
  BY <1>11, <1>12, <1>13, <1>15
<1> QED
  BY <1>1, <1>10, <1>14 DEF Timely

(* rx_fifo holds m samples' bytes. *)
Whole(m) == Len(stream.rx) = 4 * m

(* What is left of m samples' bytes behind the first n samples. *)
Rest(rest, m, n) ==
  /\ rest \in Seq(Nat) /\ Len(rest) = 4 * (m - n)
  /\ \A j \in 1..(4 * (m - n)) : rest[j] = stream.rx[4 * n + j] /\ 4 * n + j \in 1..(4 * m)

(* The rest of the bytes, one by one. *)
LEMMA RestFacts ==
  ASSUME TypeOK, NEW m \in Nat, Whole(m), NEW n \in Nat, n <= m
  PROVE  Rest(SubSeq(stream.rx, 4 * n + 1, Len(stream.rx)), m, n)
<1> DEFINE rest == SubSeq(stream.rx, 4 * n + 1, Len(stream.rx))
<1>1. stream.rx \in Seq(Nat)
  BY Fields
<1>2. PICK a \in Nat, b \in Nat : a = 4 * n + 1 /\ b = 4 * m /\ a <= b + 1 /\ a >= 1
  OBVIOUS
<1>3. \A i \in a..b : stream.rx[i] \in Nat
  <2>1. Len(stream.rx) = b
    BY <1>2 DEF Whole
  <2>2. a..b \subseteq 1..b
    BY <1>2
  <2> QED
    BY <1>1, <2>1, <2>2
<1>4. /\ SubSeq(stream.rx, a, b) \in Seq(Nat)
      /\ Len(SubSeq(stream.rx, a, b)) = IF a <= b THEN b - a + 1 ELSE 0
      /\ \A i \in 1..(b - a + 1) : SubSeq(stream.rx, a, b)[i] = stream.rx[a + i - 1]
  BY <1>3, SubSeqProperties
<1>5. rest = SubSeq(stream.rx, a, b)
  BY <1>2 DEF Whole
<1> HIDE DEF rest
<1>6. b - a + 1 = 4 * (m - n) /\ (a <= b <=> m > n)
  BY <1>2
<1>7. \A j \in 1..(4 * (m - n)) : a + j - 1 = 4 * n + j /\ 4 * n + j \in 1..(4 * m)
  BY <1>2
<1>8. Len(rest) = 4 * (m - n)
  <2>1. Len(rest) = IF m > n THEN 4 * (m - n) ELSE 0
    BY <1>4, <1>5, <1>6
  <2> QED
    BY <2>1
<1>9. \A j \in 1..(4 * (m - n)) : rest[j] = stream.rx[a + j - 1]
  BY <1>4, <1>5, <1>6
<1> QED
  BY <1>4, <1>5, <1>7, <1>8, <1>9 DEF Rest, rest

(* Whole samples are in rx_fifo. *)
LEMMA WholeSamples ==
  ASSUME TypeOK, RxWhole
  PROVE  \E m \in Nat : Len(stream.rx) = 4 * m
<1>1. Len(stream.rx) \in Nat /\ Len(stream.rx) % 4 = 0
  BY Fields DEF RxWhole
<1>2. \A l \in Nat : l % 4 = 0 => l \div 4 \in Nat /\ l = 4 * (l \div 4)
  OBVIOUS
<1> QED
  BY <1>1, <1>2

(* A read takes n samples' bytes. *)
Cut(n) ==
  /\ stream' = [stream EXCEPT !.rx = SubSeq(@, 4 * n + 1, Len(@))]
  /\ UNCHANGED past /\ Base' = Base + n

(* The bytes after those that a read took are where they were in the stream.      *)
LEMMA RestInStream ==
  ASSUME IInv, NEW m \in Nat, Whole(m), NEW n \in Nat, n <= m, Cut(n)
  PROVE  /\ stream' \in Streams /\ Len(stream'.rx) <= 4 * RxCap /\ stream'.on = stream.on
         /\ RxWhole' /\ InStream'
<1>1. PICK rest : rest = SubSeq(stream.rx, 4 * n + 1, Len(stream.rx))
  OBVIOUS
<1>2. /\ rest \in Seq(Nat) /\ Len(rest) = 4 * (m - n)
      /\ \A j \in 1..(4 * (m - n)) : rest[j] = stream.rx[4 * n + j] /\ 4 * n + j \in 1..(4 * m)
  <2>1. Rest(rest, m, n)
    BY <1>1, RestFacts DEF IInv
  <2> QED
    BY <2>1 DEF Rest
<1>3. stream \in Streams /\ 4 * m <= 4 * RxCap
  BY DEF IInv, TypeOK, Whole
<1>4. /\ stream' \in Streams /\ stream'.rx = rest /\ stream'.next = stream.next
      /\ stream'.on = stream.on
  <2>1. stream' = [stream EXCEPT !.rx = rest]
    BY <1>1, <1>3 DEF Streams, Cut
  <2> QED
    BY <1>2, <1>3, <2>1 DEF Streams
<1>5. Len(stream'.rx) <= 4 * RxCap
  BY <1>2, <1>3, <1>4, SmiSamplesAssumption
<1>6. RxWhole'
  <2>1. (4 * (m - n)) % 4 = 0
    OBVIOUS
  <2>2. stream.next >= 4 /\ \A j \in 1..(4 * m) : stream.rx[j] >= 4
    BY DEF IInv, RxWhole, Whole
  <2> QED
    BY <1>2, <1>4, <2>1, <2>2 DEF RxWhole
<1>7. InStream'
  <2>1. PICK o \in 0..3, base \in Nat : o = past.origin /\ base = Base
    BY Fields DEF IInv
  <2>2. \A d \in 0..past.drops : Gap(d) \in Nat
    <3>1. past.drops \in Nat
      BY Fields DEF IInv
    <3> QED
      BY <3>1, GapFacts
  <2>3. PICK g \in Nat : g = Gap(past.drops)
    <3>1. past.drops \in 0..past.drops
      BY Fields DEF IInv
    <3> QED
      BY <2>2, <3>1
  <2> SUFFICES ASSUME past.restarts = 0, stream.on
               PROVE  /\ stream.next = 4 + o + 4 * (base + n) + 4 * (m - n) + 4 * g
                      /\ \A j \in 1..(4 * (m - n)) : \E d \in 0..past.drops :
                           rest[j] = 3 + o + 4 * (base + n) + j + 4 * Gap(d)
    <3>1. /\ past' = past /\ Base' = base + n /\ stream'.next = stream.next
          /\ stream'.on = stream.on /\ stream'.rx = rest
      BY <1>4, <2>1 DEF Cut
    <3> QED
      BY <1>2, <2>1, <2>3, <3>1 DEF InStream, Gap
  <2>4. /\ stream.next = 4 + o + 4 * base + 4 * m + 4 * g
        /\ \A j \in 1..(4 * m) : \E d \in 0..past.drops :
             stream.rx[j] = 3 + o + 4 * base + j + 4 * Gap(d)
    <3>1. PICK b \in Nat : b = past.origin
      BY <2>1
    <3>2. /\ stream.next = 4 + b + 4 * Base + Len(stream.rx) + 4 * Gap(past.drops)
          /\ \A j \in 1..Len(stream.rx) : \E d \in 0..past.drops :
               stream.rx[j] = 3 + b + 4 * Base + j + 4 * Gap(d)
      BY <3>1, Zenon DEF IInv, InStream
    <3>3. b = o /\ Base = base /\ Gap(past.drops) = g /\ Len(stream.rx) = 4 * m
      BY <2>1, <2>3, <3>1, Zenon DEF Whole
    <3> QED
      BY <3>2, <3>3, ZenonT(60)
  <2>5. stream.next = 4 + o + 4 * (base + n) + 4 * (m - n) + 4 * g
    <3>1. 4 + o + 4 * base + 4 * m + 4 * g = 4 + o + 4 * (base + n) + 4 * (m - n) + 4 * g
      OBVIOUS
    <3> QED
      BY <2>4, <3>1
  <2>6. ASSUME NEW j \in 1..(4 * (m - n))
        PROVE  \E d \in 0..past.drops :
                 rest[j] = 3 + o + 4 * (base + n) + j + 4 * Gap(d)
    <3>1. PICK i \in 1..(4 * m) : i = 4 * n + j /\ rest[j] = stream.rx[i]
      BY <1>2
    <3>2. PICK d \in 0..past.drops : stream.rx[i] = 3 + o + 4 * base + i + 4 * Gap(d)
      BY <2>4
    <3>3. PICK h \in Nat : h = Gap(d)
      BY <2>2
    <3>4. rest[j] = 3 + o + 4 * (base + n) + j + 4 * h
      BY <3>1, <3>2, <3>3
    <3> QED
      BY <3>3, <3>4
  <2> QED
    BY <2>5, <2>6
<1> QED
  BY <1>4, <1>5, <1>6, <1>7

(* What is flushed counts as taken. *)
LEMMA FlushInvariant == ASSUME IInv, Flush PROVE IInv'
<1>1. PICK m \in Nat : Len(stream.rx) = 4 * m
  BY WholeSamples DEF IInv
<1>2. /\ stream' = [stream EXCEPT !.rx = <<>>] /\ out' = <<>>
      /\ call' = [call EXCEPT !.of = "none", !.ret = 0] /\ call.at = "idle"
      /\ past' = [past EXCEPT !.taken = @ + m + Acc]
  <2>1. (4 * m) \div 4 = m
    OBVIOUS
  <2> QED
    BY <1>1, <2>1 DEF Flush, Acc
<1>3. stream \in Streams /\ past \in Pasts /\ call \in Calls
  BY DEF IInv, TypeOK
<1>4. /\ stream' \in Streams /\ stream'.rx = <<>> /\ stream'.next = stream.next
      /\ stream'.on = stream.on
  <2>1. PICK empty \in Seq(Nat) : empty = <<>>
    <3>1. <<>> \in Seq(Nat)
      OBVIOUS
    <3> QED
      BY <3>1, Zenon
  <2>2. stream' = [stream EXCEPT !.rx = empty]
    BY <1>2, <2>1
  <2>3. /\ stream' \in Streams /\ stream'.rx = empty /\ stream'.next = stream.next
        /\ stream'.on = stream.on
    BY <1>3, <2>2 DEF Streams
  <2> QED
    BY <2>1, <2>3
<1>5. PICK taken \in Nat : taken = past.taken + m + Acc
  BY Fields DEF IInv
<1>6. /\ past' \in Pasts /\ past'.taken = taken /\ past'.origin = past.origin
      /\ past'.drops = past.drops /\ past'.restarts = past.restarts
  <2>1. past' = [past EXCEPT !.taken = taken]
    BY <1>2, <1>3, <1>5 DEF Pasts
  <2> QED
    BY <1>3, <2>1 DEF Pasts
<1>7. call' \in Calls /\ call'.of = "none" /\ call'.at = "idle"
  <2>1. call' = [call EXCEPT !.of = "none", !.ret = 0] /\ call.at = "idle"
    BY <1>2
  <2>2. \A c \in Calls, r \in Int : [c EXCEPT !.of = "none", !.ret = r] \in Calls
    BY DEF Calls
  <2>3. call' \in Calls
    <3>1. PICK r \in Int : r = 0
      OBVIOUS
    <3>2. call' = [call EXCEPT !.of = "none", !.ret = r]
      BY <2>1, <3>1
    <3>3. [call EXCEPT !.of = "none", !.ret = r] \in Calls
      BY <1>3, <2>2
    <3> QED
      BY <3>2, <3>3
  <2>4. \A c \in Calls : /\ [c EXCEPT !.of = "none", !.ret = 0].of = "none"
                         /\ [c EXCEPT !.of = "none", !.ret = 0].at = c.at
    BY DEF Calls
  <2> QED
    BY <1>3, <2>1, <2>3, <2>4
<1>8. Len(stream'.rx) = 0
  BY <1>4
<1>9. TypeOK'
  BY <1>2, <1>4, <1>6, <1>7, <1>8, SmiSamplesAssumption DEF TypeOK
<1>10. RxWhole'
  BY <1>4, <1>8 DEF IInv, RxWhole
<1>11. InStream'
  <2>1. PICK o \in 0..3, base \in Nat : o = past.origin /\ base = Base
    BY Fields DEF IInv
  <2>2. Base' = base + m
    <3>1. Acc' = 0
      BY <1>7 DEF Acc
    <3>2. Base = past.taken + Acc /\ past.taken \in Nat /\ Acc \in Nat
      BY Fields DEF IInv, Base
    <3>3. Base' = taken + 0
      BY <1>6, <3>1 DEF Base
    <3> QED
      BY <1>5, <2>1, <3>2, <3>3
  <2>3. PICK g \in Nat : g = Gap(past.drops)
    <3>1. past.drops \in Nat
      BY Fields DEF IInv
    <3> QED
      BY <3>1, GapFacts
  <2> SUFFICES ASSUME past.restarts = 0, stream.on
               PROVE  stream.next = 4 + o + 4 * (base + m) + 0 + 4 * g
    BY <1>4, <1>6, <1>8, <2>1, <2>2, <2>3 DEF InStream, Gap
  <2>4. stream.next = 4 + o + 4 * base + 4 * m + 4 * g
    BY <1>1, <2>1, <2>3 DEF IInv, InStream
  <2>5. 4 + o + 4 * base + 4 * m + 4 * g = 4 + o + 4 * (base + m) + 0 + 4 * g
    OBVIOUS
  <2> QED
    BY <2>4, <2>5
<1>12. Counts'
  BY <1>7 DEF Counts
<1> QED
  BY <1>2, <1>9, <1>10, <1>11, <1>12, EmptyInTimeNext DEF IInv

(* The fields of a call that returns. *)
LEMMA Returned ==
  ASSUME NEW c \in Calls, NEW r \in Int
  PROVE  /\ Return(c, r) \in Calls /\ Return(c, r).at = "idle" /\ Return(c, r).of = c.of
         /\ Return(c, r).ret = r /\ Return(c, r).accepted = c.accepted
<1> DEFINE d == [c EXCEPT !.at = "idle", !.left = 0, !.ret = r]
<1>1. d \in Calls
  BY DEF Calls
<1>2. d.at = "idle" /\ d.of = c.of
  BY DEF Calls
<1>3. d.ret = r /\ d.accepted = c.accepted
  BY DEF Calls
<1>4. Return(c, r) = d
  BY DEF Return
<1> HIDE DEF d
<1> QED
  BY <1>1, <1>2, <1>3, <1>4

(* A batch is written, in full or in part. *)
LEMMA WriteBatchInvariant == ASSUME IInv, WriteBatch PROVE IInv'
<1> DEFINE n == BatchLength(call.left)
           took == Least(n, TxCap - stream.tx)
           left2 == call.left - took
           ret2 == call.ret + Counted(n, took)
           accepted2 == call.accepted + took
           c == [call EXCEPT !.left = left2, !.ret = ret2, !.accepted = accepted2]
<1>1. /\ stream' = [stream EXCEPT !.tx = @ + took]
      /\ call' = IF took = 0 \/ c.left = 0 THEN Return(c, c.ret) ELSE c
      /\ out' = out /\ past' = past
  BY DEF WriteBatch
<1>2. call.at = "write" /\ call.of = "write"
  BY DEF WriteBatch, IInv, Counts
<1>4. stream \in Streams /\ call \in Calls
  BY DEF IInv, TypeOK
<1>5. /\ call.left \in Nat /\ call.ret \in Int /\ call.accepted \in Nat
      /\ stream.tx \in 0..TxCap
  BY Fields DEF IInv
<1>6. n \in Nat /\ n <= call.left
  BY <1>5, SmiSamplesAssumption DEF BatchLength, Least
<1> HIDE DEF n
<1>7. took \in Nat /\ took <= n /\ stream.tx + took \in 0..TxCap
  BY <1>5, <1>6, SmiSamplesAssumption DEF Least
<1> HIDE DEF took
<1>8. left2 \in Nat /\ accepted2 \in Nat
  BY <1>5, <1>6, <1>7
<1>9. ret2 \in Int
  BY <1>5, <1>6 DEF Counted
<1> HIDE DEF left2, ret2, accepted2
<1>10. /\ c \in Calls /\ c.at = call.at /\ c.of = call.of /\ c.left = left2 /\ c.ret = ret2
       /\ c.accepted = accepted2
  <2>1. c = [call EXCEPT !.left = left2, !.ret = ret2, !.accepted = accepted2]
    OBVIOUS
  <2>2. ret2 \in Int
    BY <1>9
  <2> HIDE DEF c
  <2>3. c \in Calls
    BY <1>4, <1>8, <2>1, <2>2 DEF Calls
  <2>4. c.at = call.at /\ c.of = call.of /\ c.left = left2
    BY <1>4, <2>1 DEF Calls
  <2>5. c.ret = ret2 /\ c.accepted = accepted2
    BY <1>4, <2>1 DEF Calls
  <2> QED
    BY <2>3, <2>4, <2>5
<1> HIDE DEF c
<1>11. /\ call' \in Calls /\ call'.at \in {"write", "idle"} /\ call'.of = "write"
       /\ call'.ret = ret2 /\ call'.accepted = accepted2
  <2>1. CASE call' = c
    BY <1>2, <1>10, <2>1
  <2>2. CASE call' = Return(c, c.ret)
    <3>1. c.ret \in Int
      BY <1>9, <1>10
    <3> QED
      BY <1>2, <1>10, <2>2, <3>1, Returned
  <2> QED
    BY <1>1, <2>1, <2>2
<1>12. /\ stream' \in Streams /\ stream'.rx = stream.rx /\ stream'.next = stream.next
       /\ stream'.on = stream.on
  BY <1>1, <1>4, <1>7 DEF Streams
<1>13. TypeOK'
  BY <1>1, <1>11, <1>12 DEF IInv, TypeOK
<1>14. Base' = Base
  <2>1. Acc' = 0 /\ Acc = 0
    BY <1>2, <1>11 DEF Acc
  <2> QED
    BY <1>1, <2>1 DEF Base
<1>15. RxWhole' /\ InStream'
  BY <1>1, <1>12, <1>14, BytesKept
<1>16. Counts'
  BY <1>9, <1>11 DEF Counts
<1>17. TimeBase'
  BY <1>1, <1>12 DEF IInv, TimeBase
<1> QED
  BY <1>13, <1>15, <1>16, <1>17 DEF IInv

(* What is decoded is put behind what the call has read.                        *)
LEMMA GrownInTime ==
  ASSUME IInv, NEW n \in Nat, NEW buf, Front(buf, n), NEW offs \in Nat, Found(buf, offs),
         call.at = "read", out' = out \o Decoded(buf, offs), past' = past,
         stream'.on = stream.on
  PROVE  /\ out' \in Seq(Nat \cup {Mixed, Made, Old}) /\ Len(out') = call.accepted + n
         /\ TimeBase'
<1> DEFINE D == Decoded(buf, offs)
           S == Nat \cup {Mixed, Made, Old}
<1>1. buf \in Seq(Nat) /\ Len(buf) = 4 * n
  BY DEF Front
<1>2. offs = 0 \/ offs + 17 <= 4 * n
  BY <1>1, OffsetRoom DEF Found
<1>3. D \in Seq(S) /\ Len(D) = n
  BY <1>1, <1>2, DecodedFacts
<1>4. out \in Seq(S)
  BY DEF IInv, TypeOK
<1>5. PICK a \in Nat : a = call.accepted /\ a = Len(out) /\ call.of = "read"
  BY Fields DEF IInv, Counts
<1> HIDE DEF D, S
<1>6. /\ out' \in Seq(S) /\ Len(out') = a + n
      /\ \A i \in 1..a : out'[i] = out[i]
      /\ \A i \in (a + 1)..(a + n) : out'[i] = D[i - a]
  <2>1. out' = out \o D
    BY DEF D
  <2>5. out \in Seq(S) /\ D \in Seq(S) /\ a = Len(out) /\ n = Len(D)
    BY <1>3, <1>4, <1>5
  <2>2. out \o D \in Seq(S) /\ Len(out \o D) = a + n
    BY <2>5, JoinFacts
  <2>3. \A i \in 1..a : (out \o D)[i] = out[i]
    BY <2>5, JoinFacts
  <2>4. \A i \in (a + 1)..(a + n) : (out \o D)[i] = D[i - a]
    BY <2>5, JoinFacts
  <2> QED
    BY <2>1, <2>2, <2>3, <2>4
<1>7. TimeBase'
  <2> SUFFICES ASSUME Running
               PROVE  \A i \in 1..(a + n) : out'[i] > 0 =>
                        \E d \in 0..past.drops :
                          out'[i] - (past.taken + i) = (IF past.origin = 0 THEN 0 ELSE 1) + Gap(d)
    <3>1. DOMAIN out' = 1..(a + n)
      BY <1>6
    <3> QED
      BY <3>1 DEF TimeBase, Gap, Running
  <2>1. PICK taken \in Nat, o \in 0..3 : taken = past.taken /\ o = past.origin /\ past.drops \in Nat
    BY Fields DEF IInv
  <2>2. Base = taken + a
    BY <1>5, <2>1 DEF Base, Acc
  <2> DEFINE u == IF o = 0 THEN 0 ELSE 1
  <2>3. u \in Nat /\ u = IF past.origin = 0 THEN 0 ELSE 1
    BY <2>1
  <2> HIDE DEF u
  <2>4. ASSUME NEW i \in 1..(a + n), out'[i] > 0
        PROVE  \E d \in 0..past.drops : out'[i] - (taken + i) = u + Gap(d)
    <3>1. CASE i <= a
      <4>2. i \in 1..a
        BY <3>1
      <4>1. out'[i] = out[i] /\ i \in DOMAIN out
        BY <1>4, <1>5, <1>6, <4>2
      <4> QED
        BY <2>1, <2>3, <2>4, <4>1 DEF IInv, TimeBase, Gap, Running
    <3>2. CASE i > a
      <4>7. i - a \in 1..n /\ i \in (a + 1)..(a + n)
        BY <3>2
      <4>1. PICK k \in 1..n : k = i - a /\ out'[i] = D[k]
        BY <1>6, <4>7
      <4>2. PICK x : x = D[k]
        OBVIOUS
      <4>8. x = Decoded(buf, offs)[k] /\ x > 0
        BY <2>4, <4>1, <4>2 DEF D
      <4>3. Timely(k, x)
        BY <4>8, DecodedInTime
      <4>4. PICK d \in 0..past.drops : x = Base + k + u + Gap(d)
        BY <2>3, <4>3 DEF Timely
      <4>5. PICK g \in Nat : g = Gap(d)
        BY <2>1, GapFacts
      <4>6. x - (taken + i) = u + g
        BY <2>2, <2>3, <4>1, <4>4, <4>5, SMTT(30)
      <4> QED
        BY <4>1, <4>2, <4>5, <4>6
    <3>3. i <= a \/ i > a
      OBVIOUS
    <3> QED
      BY <3>1, <3>2, <3>3
  <2> QED
    BY <2>1, <2>3, <2>4
<1> QED
  BY <1>5, <1>6, <1>7 DEF S

(* A batch is read, whatever offset is found in it. *)
LEMMA ReadBatchInvariant == ASSUME IInv, ReadBatch PROVE IInv'
<1>1. PICK m \in Nat : Whole(m)
  BY WholeSamples DEF IInv, Whole
<1> DEFINE n == Least(Len(stream.rx) \div 4, BatchLength(call.left))
           buf == SubSeq(stream.rx, 1, 4 * n)
           offs == FindBufferOffset(buf)
           left2 == call.left - n
           ret2 == call.ret + n
           accepted2 == call.accepted + n
           c == [call EXCEPT !.left = left2, !.ret = ret2, !.accepted = accepted2]
<1>2. /\ stream' = [stream EXCEPT !.rx = SubSeq(@, 4 * n + 1, Len(@))] /\ past' = past
      /\ IF offs < 0 THEN call' = Return(c, -3) /\ out' = <<>>
         ELSE /\ out' = out \o Decoded(buf, offs)
              /\ call' = IF c.left = 0 THEN Return(c, c.ret) ELSE c
  BY DEF ReadBatch
<1>3. call.at = "read" /\ call.of = "read"
  BY DEF ReadBatch, IInv, Counts
<1>4. call \in Calls /\ call.left \in Nat /\ call.ret \in Int /\ call.accepted \in Nat
  <2>1. call \in Calls
    BY DEF IInv, TypeOK
  <2> QED
    BY <2>1, Fields DEF IInv
<1>5. n \in Nat /\ n <= m /\ n <= call.left /\ Front(buf, n)
  <2>1. /\ n \in Nat /\ n <= m /\ n <= call.left
        /\ buf \in Seq(Nat) /\ Len(buf) = 4 * n
        /\ \A j \in 1..(4 * n) : buf[j] = stream.rx[j]
    BY <1>1, <1>4, ReadLength DEF IInv, Whole
  <2>2. 4 * n <= Len(stream.rx)
    <3> HIDE DEF n
    <3> QED
      BY <1>1, <2>1 DEF Whole
  <2> HIDE DEF n, buf
  <2> QED
    BY <2>1, <2>2 DEF Front
<1>6. Found(buf, offs)
  BY DEF Found
<1> HIDE DEF n, buf, offs
<1>7. offs = -1 \/ offs \in Nat
  BY <1>5, <1>6, OffsetRoom DEF Found, Front
<1>8. left2 \in Nat /\ ret2 \in Int /\ accepted2 \in Nat
  BY <1>4, <1>5
<1> HIDE DEF left2, ret2, accepted2
<1>9. c \in Calls /\ c.at = "read" /\ c.of = "read" /\ c.ret = ret2 /\ c.accepted = accepted2
  <2>1. c = [call EXCEPT !.left = left2, !.ret = ret2, !.accepted = accepted2]
    OBVIOUS
  <2> HIDE DEF c
  <2>2. c \in Calls
    BY <1>4, <1>8, <2>1 DEF Calls
  <2>3. c.at = "read" /\ c.of = "read"
    BY <1>3, <1>4, <2>1 DEF Calls
  <2>4. c.ret = ret2 /\ c.accepted = accepted2
    BY <1>4, <2>1 DEF Calls
  <2> QED
    BY <2>2, <2>3, <2>4
<1> HIDE DEF c
<1>10. /\ call' \in Calls /\ call'.of = "read" /\ call'.accepted = accepted2
       /\ call'.at = "read" => offs \in Nat
  <2>1. CASE call' = c
    <3>1. offs \in Nat \/ call' = Return(c, -3)
      BY <1>2, <1>7
    <3>2. call' # Return(c, -3)
      <4>1. Return(c, -3).at = "idle"
        BY <1>9, Returned
      <4> QED
        BY <1>9, <2>1, <4>1
    <3> QED
      BY <1>9, <2>1, <3>1, <3>2
  <2>2. ASSUME NEW r \in Int, call' = Return(c, r)
        PROVE  call' \in Calls /\ call'.of = "read" /\ call'.accepted = accepted2 /\ call'.at = "idle"
    BY <1>9, <2>2, Returned
  <2>3. call' = c \/ \E r \in Int : call' = Return(c, r)
    BY <1>2, <1>8, <1>9
  <2> QED
    BY <2>1, <2>2, <2>3
<1>11. Base' = Base + n
  <2>1. Base' = past.taken + accepted2 /\ Base = past.taken + call.accepted
    BY <1>2, <1>3, <1>10 DEF Base, Acc
  <2>2. past.taken \in Nat
    BY Fields DEF IInv
  <2> QED
    BY <1>4, <1>5, <2>1, <2>2 DEF accepted2
<1>12. Cut(n)
  BY <1>2, <1>11 DEF Cut
<1>13. /\ stream' \in Streams /\ Len(stream'.rx) <= 4 * RxCap /\ stream'.on = stream.on
       /\ RxWhole' /\ InStream'
  BY <1>1, <1>5, <1>12, RestInStream
<1>14. /\ out' \in Seq(Nat \cup {Mixed, Made, Old}) /\ TimeBase'
       /\ offs \in Nat => Len(out') = accepted2
  <2>1. CASE offs \in Nat
    <3>1. out' = out \o Decoded(buf, offs)
      BY <1>2, <2>1
    <3>2. /\ out' \in Seq(Nat \cup {Mixed, Made, Old}) /\ Len(out') = call.accepted + n
          /\ TimeBase'
      BY <1>2, <1>3, <1>5, <1>6, <1>13, <2>1, <3>1, GrownInTime
    <3> QED
      BY <3>2 DEF accepted2
  <2>2. CASE offs = -1
    <3>1. out' = <<>>
      BY <1>2, <2>2
    <3>2. <<>> \in Seq(Nat \cup {Mixed, Made, Old})
      OBVIOUS
    <3> QED
      BY <2>2, <3>1, <3>2, EmptyInTimeNext
  <2> QED
    BY <1>7, <2>1, <2>2
<1>15. TypeOK'
  BY <1>2, <1>10, <1>13, <1>14 DEF IInv, TypeOK
<1>16. Counts'
  <2>1. call'.at \in {"idle", "read"}
    <3>1. ASSUME NEW r \in Int PROVE Return(c, r).at = "idle"
      BY <1>9, Returned
    <3>2. call' = c \/ \E r \in Int : call' = Return(c, r)
      BY <1>2, <1>8, <1>9
    <3> QED
      BY <1>9, <3>1, <3>2
  <2> QED
    BY <1>10, <1>14, <2>1 DEF Counts
<1> QED
  BY <1>13, <1>14, <1>15, <1>16 DEF IInv

-----------------------------------------------------------------------------
(* What a write reports. *)

(* A write in progress has counted what the driver took, or has filled tx_fifo with  *)
(* its one short batch, so that the next batch ends it.                           *)
ShortOnce ==
  /\ call.at = "write" =>
       /\ call.accepted <= call.ret /\ call.ret < call.accepted + Batch
       /\ call.ret = call.accepted \/ stream.tx = TxCap
  /\ AtMostOneShort

(* A batch is written in full, in part, or not at all. *)
LEMMA WriteBatchShort == ASSUME IInv, ShortOnce, WriteBatch PROVE ShortOnce'
<1> DEFINE n == BatchLength(call.left)
           took == Least(n, TxCap - stream.tx)
           c == [call EXCEPT !.left = @ - took, !.ret = @ + Counted(n, took),
                             !.accepted = @ + took]
<1>1. /\ stream' = [stream EXCEPT !.tx = @ + took]
      /\ call' = IF took = 0 \/ c.left = 0 THEN Return(c, c.ret) ELSE c
  BY DEF WriteBatch
<1>2. stream \in Streams /\ call \in Calls
  BY DEF IInv, TypeOK
<1>3. /\ call.left \in Nat /\ call.ret \in Int /\ call.accepted \in Nat
      /\ stream.tx \in 0..TxCap
  BY Fields DEF IInv
<1>4. /\ call.accepted <= call.ret /\ call.ret < call.accepted + Batch
      /\ call.ret = call.accepted \/ stream.tx = TxCap
  BY DEF WriteBatch, ShortOnce
<1>5. n \in Nat /\ n <= Batch
  BY <1>3, SmiSamplesAssumption DEF BatchLength, Least
<1>6. /\ c.ret = call.ret + Counted(n, took) /\ c.accepted = call.accepted + took
      /\ stream'.tx = stream.tx + took
  BY <1>1, <1>2 DEF Calls, Streams
<1> HIDE DEF n
<1>7. /\ took \in Nat /\ took <= n
      /\ took = n \/ stream.tx + took = TxCap
      /\ stream.tx = TxCap => took = 0
  BY <1>3, <1>5, SmiSamplesAssumption DEF Least
<1>8. /\ call'.ret = c.ret /\ call'.accepted = c.accepted
  BY <1>1, <1>2 DEF Return, Calls
<1> HIDE DEF took, c
<1>9. /\ c.accepted <= c.ret /\ c.ret < c.accepted + Batch
      /\ c.ret = c.accepted \/ stream'.tx = TxCap
  <2>1. CASE took = 0
    BY <1>3, <1>4, <1>6, <2>1 DEF Counted
  <2>2. CASE took # 0
    <3>1. call.ret = call.accepted
      BY <1>4, <1>7, <2>2
    <3>2. c.ret = call.accepted + n /\ c.accepted = call.accepted + took
      BY <1>6, <2>2, <3>1 DEF Counted
    <3>3. took \in Nat \ {0} /\ took <= n /\ n <= Batch /\ Batch \in Nat
      BY <1>5, <1>7, <2>2, SmiSamplesAssumption
    <3>4. call.accepted + took <= call.accepted + n
      BY <1>3, <1>5, <3>3
    <3>5. call.accepted + n < call.accepted + took + Batch
      BY <1>3, <1>5, <3>3
    <3>6. c.ret = c.accepted \/ stream'.tx = TxCap
      BY <1>6, <1>7, <3>2
    <3> QED
      BY <3>2, <3>4, <3>5, <3>6
  <2> QED
    BY <2>1, <2>2
<1> QED
  BY <1>8, <1>9 DEF ShortOnce, AtMostOneShort

(* The write ends with what it has counted, or with an error. *)
LEMMA WriteEndsShort ==
  ASSUME IInv, ShortOnce, WriteTimesOut \/ WriteFails PROVE ShortOnce'
<1>1. call \in Calls /\ call.ret \in Int
  BY Fields DEF IInv, TypeOK
<1>2. PICK r \in {call.ret, -1} : call' = Return(call, r)
  BY DEF WriteTimesOut, WriteFails
<1>3. r \in Int
  BY <1>1
<1>4. /\ call'.at = "idle" /\ call'.ret = r /\ call'.accepted = call.accepted
  BY <1>1, <1>2, <1>3, Returned
<1>5. call.accepted <= call.ret /\ call.ret < call.accepted + Batch
  BY DEF WriteTimesOut, WriteFails, ShortOnce
<1> QED
  BY <1>4, <1>5 DEF ShortOnce, AtMostOneShort

(* A read counts nothing written. *)
LEMMA ReadShort ==
  ASSUME IInv, BeginRead \/ ReadBatch \/ ReadTimesOut \/ ReadFails \/ Flush
  PROVE  ShortOnce'
<1>1. call \in Calls
  BY DEF IInv, TypeOK
<1>2. call'.of # "write" /\ call'.at # "write"
  <2>1. CASE BeginRead
    BY <2>1 DEF BeginRead, Begin
  <2>2. CASE Flush
    BY <1>1, <2>2 DEF Flush, Calls
  <2>3. CASE ReadBatch \/ ReadTimesOut \/ ReadFails
    <3>1. call.at = "read" /\ call.of = "read"
      BY <2>3 DEF ReadBatch, ReadTimesOut, ReadFails, IInv, Counts
    <3>2. CASE ReadBatch
      <4> DEFINE m == Least(Len(stream.rx) \div 4, BatchLength(call.left))
                 c == [call EXCEPT !.left = @ - m, !.ret = @ + m, !.accepted = @ + m]
      <4>1. call' = Return(c, -3) \/ call' = Return(c, c.ret) \/ call' = c
        BY <3>2 DEF ReadBatch
      <4>2. c.at = "read" /\ c.of = "read" /\ DOMAIN c = DOMAIN call
        BY <1>1, <3>1 DEF Calls
      <4>3. \A r : Return(c, r).at = "idle" /\ Return(c, r).of = "read"
        BY <1>1, <3>1 DEF Return, Calls
      <4> HIDE DEF c
      <4> QED
        BY <4>1, <4>2, <4>3
    <3>3. CASE ReadTimesOut \/ ReadFails
      <4>1. PICK r : call' = Return(call, r)
        BY <3>3 DEF ReadTimesOut, ReadFails
      <4> QED
        BY <1>1, <3>1, <4>1 DEF Return, Calls
    <3> QED
      BY <2>3, <3>2, <3>3
  <2> QED
    BY <2>1, <2>2, <2>3
<1> QED
  BY <1>2 DEF ShortOnce, AtMostOneShort

(* Every step keeps it. *)
LEMMA ShortStep == ASSUME IInv, ShortOnce, [Next]_vars PROVE ShortOnce'
<1>1. stream \in Streams
  BY DEF IInv, TypeOK
<1>2. CASE Capture \/ Restart \/ UNCHANGED vars
  <2>1. call' = call
    BY <1>2 DEF Capture, Restart, vars
  <2>2. stream'.tx = stream.tx
    BY <1>1, <1>2 DEF Capture, Restart, vars, Streams
  <2> QED
    BY <2>1, <2>2 DEF ShortOnce, AtMostOneShort
<1>3. CASE BeginWrite
  BY <1>3, SmiSamplesAssumption DEF BeginWrite, Begin, ShortOnce, AtMostOneShort
<1>4. CASE SetStreamFails
  BY <1>4 DEF SetStreamFails, ShortOnce, AtMostOneShort
<1>5. CASE WriteBatch
  BY <1>5, WriteBatchShort
<1>6. CASE WriteTimesOut \/ WriteFails
  BY <1>6, WriteEndsShort
<1>7. CASE BeginRead \/ ReadBatch \/ ReadTimesOut \/ ReadFails \/ Flush
  BY <1>7, ReadShort
<1> QED
  BY <1>2, <1>3, <1>4, <1>5, <1>6, <1>7 DEF Next

-----------------------------------------------------------------------------
(* The theorems. *)

(* Every step keeps the invariant. *)
LEMMA NextInvariant == ASSUME IInv, [Next]_vars PROVE IInv'
<1>1. CASE Capture
  BY <1>1, CaptureInvariant
<1>2. CASE Restart
  BY <1>2, RestartInvariant
<1>3. CASE BeginRead
  BY <1>3, BeginReadInvariant
<1>4. CASE ReadBatch
  BY <1>4, ReadBatchInvariant
<1>5. CASE ReadTimesOut
  BY <1>5, ReadTimesOutInvariant
<1>6. CASE ReadFails
  BY <1>6, ReadFailsInvariant
<1>7. CASE Flush
  BY <1>7, FlushInvariant
<1>8. CASE BeginWrite
  BY <1>8, BeginWriteInvariant
<1>9. CASE SetStreamFails
  BY <1>9, SetStreamFailsInvariant
<1>10. CASE WriteBatch
  BY <1>10, WriteBatchInvariant
<1>11. CASE WriteTimesOut
  BY <1>11, WriteTimesOutInvariant
<1>12. CASE WriteFails
  BY <1>12, WriteFailsInvariant
<1>13. CASE UNCHANGED vars
  BY <1>13, ZenonT(60) DEF vars, IInv, TypeOK, RxWhole, InStream, Base, Acc, Gap, Counts, TimeBase
<1> QED
  BY <1>1, <1>2, <1>3, <1>4, <1>5, <1>6, <1>7, <1>8, <1>9, <1>10, <1>11, <1>12, <1>13 DEF Next

(* The inductive invariant: the bytes of rx_fifo are where the samples that were    *)
(* read, the periods dropped and the byte the stream began with put them, and      *)
(* what a call counts is what it has taken.                                   *)
THEOREM Invariance == Spec => []IInv
<1>1. Init => IInv
  BY InitInvariant
<1>2. IInv /\ [Next]_vars => IInv'
  BY NextInvariant
<1> QED
  BY <1>1, <1>2, PTL DEF Spec

(* The state of the driver's stream, of the call and of the array is of its type:   *)
(* no count is negative and neither fifo holds more than it can.                 *)
THEOREM TypeCorrect == Spec => []TypeOK
<1>1. IInv => TypeOK
  BY DEF IInv
<1> QED
  BY <1>1, Invariance, PTL

(* A sample's place in the caller's arrays is its place in the stream, whatever     *)
(* caribou_smi_find_buffer_offset finds in the data and however the reads are cut,   *)
(* but for periods that the full fifo dropped.                                 *)
THEOREM TimeBaseHolds == Spec => []TimeBase
<1>1. IInv => TimeBase
  BY DEF IInv
<1> QED
  BY <1>1, Invariance, PTL

(* A write reports no fewer samples than the driver took, and less than a batch more,  *)
(* for all lengths of batches, writes and tx_fifo (caribou_smi.c:736-761).           *)
THEOREM AtMostOneShortHolds == Spec => []AtMostOneShort
<1>1. Init => ShortOnce
  BY SmiSamplesAssumption DEF Init, ShortOnce, AtMostOneShort
<1>2. IInv /\ ShortOnce /\ [Next]_vars => ShortOnce'
  BY ShortStep
<1>3. ShortOnce => AtMostOneShort
  BY DEF ShortOnce
<1> QED
  BY <1>1, <1>2, <1>3, Invariance, PTL DEF Spec

(* A buffer of more than four samples in one piece is decoded to its samples, and    *)
(* at most its last is not one of them, wherever within a sample it begins.         *)
THEOREM ChunkDecodedHolds == Spec => []ChunkDecoded
<1>1. ASSUME IInv PROVE ChunkDecoded
  <2>1. PICK m \in Nat : Whole(m)
    BY <1>1, WholeSamples DEF IInv, Whole
  <2>2. ASSUME NEW n \in NextReads, n > 4,
               InOnePiece(SubSeq(stream.rx, 1, 4 * n)),
               stream.like = 0 \/ PlaceOf(SubSeq(stream.rx, 1, 4 * n)[1]) = 0
        PROVE  LET buf == SubSeq(stream.rx, 1, 4 * n)
                   offs == FindBufferOffset(buf)
                   decoded == Decoded(buf, offs)
               IN /\ offs >= 0
                  /\ \A i \in 1..(n - 1) : decoded[i] > 0
                  /\ decoded[n] = IF PlaceOf(buf[1]) = 0 THEN SampleOf(buf[4 * n]) ELSE Made
    <3>1. PICK left \in Nat : n = Least(Len(stream.rx) \div 4, BatchLength(left))
      BY SmiSamplesAssumption DEF NextReads
    <3>2. PICK buf : buf = SubSeq(stream.rx, 1, 4 * n)
      OBVIOUS
    <3>3. /\ n \in Nat /\ n <= m /\ buf \in Seq(Nat) /\ Len(buf) = 4 * n
          /\ \A j \in 1..(4 * n) : buf[j] = stream.rx[j]
      BY <1>1, <2>1, <3>1, <3>2, ReadLength DEF IInv, Whole
    <3>4. \A j \in 1..Len(buf) : buf[j] >= 4
      <4>1. \A j \in 1..(4 * m) : stream.rx[j] >= 4
        BY <1>1, <2>1 DEF IInv, RxWhole, Whole
      <4>2. 1..(4 * n) \subseteq 1..(4 * m)
        BY <3>3
      <4> QED
        BY <3>3, <4>1, <4>2
    <3>5. stream.like \in {0, 1, 3}
      BY <1>1, Fields DEF IInv
    <3>6. InOnePiece(buf) /\ (stream.like = 0 \/ PlaceOf(buf[1]) = 0)
      BY <2>2, <3>2
    <3> QED
      BY <2>2, <3>2, <3>3, <3>4, <3>5, <3>6, PieceDecoded
  <2> QED
    BY <2>2 DEF ChunkDecoded
<1> QED
  BY <1>1, Invariance, PTL
==============================================================================
