---------------------------- MODULE ComplexFifoProofs ----------------------------
(***************************************************************************)
(* Proofs about complex_fifo.v for addresses of every width: the Gray code    *)
(* changes in one bit from an address to the next, which is why a register   *)
(* that catches it changing holds the old or the new address; and with that,  *)
(* whichever way the two clocks fall, the fifo is a queue, and its flags err    *)
(* on the safe side only.                                                    *)
(***************************************************************************)
EXTENDS ComplexFifo, FiniteSetTheorems, SequenceTheorems, WellFoundedInduction, TLAPS

-----------------------------------------------------------------------------
(* Numbers. *)

(* Every set of numbers that is not empty has a least one, and so a set with 0    *)
(* that is closed under + 1 holds them all: induction, stated with a set.       *)
LEMMA Least ==
  ASSUME NEW T \in SUBSET Nat, T # {}
  PROVE  \E x \in T : \A y \in T : x <= y
<1>1. PICK n : n \in T /\ n \in Nat
  OBVIOUS
<1> DEFINE S == 0..n
           Below(x) == 0..(x - 1)
           B == {Below(x) : x \in {t \in T : t <= n}}
<1>2. IsFiniteSet(S) /\ FiniteSubsetsOf(S) = SUBSET S
  <2>1. IsFiniteSet(S)
    BY <1>1, FS_Interval
  <2> HIDE DEF S
  <2> QED
    BY <2>1, FS_FiniteSubsetsOfFinite
<1>3. IsWellFoundedOn(StrictSubsetOrdering(S), SUBSET S)
  BY <1>2, FS_StrictSubsetOrderingWellFounded
<1>4. B \subseteq SUBSET S /\ B # {}
  BY <1>1
<1>5. PICK b \in B : \A c \in B : ~(<<c, b>> \in StrictSubsetOrdering(S))
  <2> HIDE DEF B, S
  <2> QED
    BY <1>3, <1>4, WFMin
<1>6. PICK x \in T : x <= n /\ b = Below(x)
  OBVIOUS
<1>7. \A y \in T : x <= y
  <2>1. SUFFICES ASSUME NEW y \in T, y < x PROVE FALSE
    OBVIOUS
  <2>2. Below(y) \in B /\ Below(y) \subseteq Below(x) /\ Below(y) # Below(x)
    <3>1. y \in Below(x) /\ y \notin Below(y) /\ y <= n
      BY <1>1, <1>6, <2>1
    <3> QED
      BY <1>1, <1>6, <2>1, <3>1
  <2> HIDE DEF Below, B, S
  <2>3. <<Below(y), b>> \in StrictSubsetOrdering(S)
    BY <1>4, <1>6, <2>2 DEF StrictSubsetOrdering
  <2> QED
    BY <1>5, <2>2, <2>3
<1> QED
  BY <1>7

(* Induction over a set: what a set has of 0 and of each successor it has of
   every number. *)
LEMMA Induction ==
  ASSUME NEW G, 0 \in G, \A n \in Nat : n \in G => n + 1 \in G
  PROVE  Nat \subseteq G
<1> DEFINE T == Nat \ G
<1>1. SUFFICES ASSUME T # {} PROVE FALSE
  OBVIOUS
<1>2. PICK x \in T : \A y \in T : x <= y
  BY <1>1, Least
<1>3. x - 1 \in Nat /\ x - 1 \in G /\ (x - 1) + 1 = x
  BY <1>2
<1> QED
  BY <1>2, <1>3

(* The recursive function satisfies its equation, as functions that satisfy it up   *)
(* to n exist and agree.                                                      *)
LEMMA Powers ==
  /\ PowerOf2 \in [Nat -> Nat] /\ PowerOf2[0] = 1
  /\ \A k \in Nat : PowerOf2[k + 1] = 2 * PowerOf2[k]
<1> DEFINE Good(g, n) == /\ g \in [0..n -> Nat] /\ g[0] = 1
                         /\ \A k \in 0..(n - 1) : g[k + 1] = 2 * g[k]
<1>1. \A n \in Nat : \E g : Good(g, n)
  <2> DEFINE G == {n \in Nat : \E g : Good(g, n)}
  <2>1. 0 \in G
    <3>1. Good([k \in 0..0 |-> 1], 0)
      OBVIOUS
    <3> QED
      BY <3>1
  <2>2. ASSUME NEW n \in Nat, n \in G PROVE n + 1 \in G
    <3>1. PICK g : Good(g, n)
      BY <2>2
    <3> DEFINE h == [k \in 0..(n + 1) |-> IF k = n + 1 THEN 2 * g[n] ELSE g[k]]
    <3>2. g[n] \in Nat /\ h \in [0..(n + 1) -> Nat] /\ h[0] = 1
      BY <3>1
    <3>3. ASSUME NEW k \in 0..n PROVE h[k + 1] = 2 * h[k]
      BY <3>1
    <3>4. (n + 1) - 1 = n
      OBVIOUS
    <3>5. Good(h, n + 1)
      BY <3>2, <3>3, <3>4
    <3> HIDE DEF Good, h
    <3>6. \E x : Good(x, n + 1)
      BY <3>5
    <3> QED
      BY <3>6
  <2> HIDE DEF G
  <2>3. Nat \subseteq G
    BY <2>1, <2>2, Induction
  <2> QED
    BY <2>3 DEF G
<1>2. ASSUME NEW n \in Nat, NEW m \in Nat, n <= m, NEW g, Good(g, n), NEW h, Good(h, m)
      PROVE  g[n] = h[n]
  <2> DEFINE G == {k \in Nat : k <= n => g[k] = h[k]}
  <2>1. 0 \in G
    BY <1>2
  <2>2. ASSUME NEW k \in Nat, k \in G PROVE k + 1 \in G
    <3>1. CASE k + 1 <= n
      <4>1. k \in 0..(n - 1) /\ k \in 0..(m - 1) /\ k <= n
        BY <1>2, <3>1
      <4> QED
        BY <1>2, <2>2, <4>1
    <3>2. CASE ~(k + 1 <= n)
      BY <3>2
    <3> QED
      BY <3>1, <3>2
  <2>3. Nat \subseteq G
    <3> HIDE DEF G
    <3> QED
      BY <2>1, <2>2, Induction
  <2> QED
    BY <2>3
<1> DEFINE the(n) == CHOOSE g : Good(g, n)
           f == [n \in Nat |-> the(n)[n]]
           Step(p) == [k \in Nat |-> IF k = 0 THEN 1 ELSE 2 * p[k - 1]]
<1>3. \A n \in Nat : Good(the(n), n)
  <2> HIDE DEF Good
  <2> QED
    BY <1>1
<1>4. f \in [Nat -> Nat] /\ f[0] = 1
  <2> HIDE DEF the
  <2> QED
    BY <1>3
<1>5. ASSUME NEW k \in Nat PROVE f[k + 1] = 2 * f[k]
  <2> HIDE DEF the
  <2>1. PICK h : h = the(k + 1) /\ Good(h, k + 1)
    BY <1>3
  <2>2. f[k] = h[k]
    <3>1. Good(the(k), k) /\ k <= k + 1 /\ k + 1 \in Nat
      BY <1>3
    <3> HIDE DEF Good
    <3> QED
      BY <1>2, <2>1, <3>1
  <2>3. f[k + 1] = h[k + 1] /\ k \in 0..((k + 1) - 1)
    BY <2>1
  <2> QED
    BY <2>1, <2>2, <2>3
<1> HIDE DEF f
<1>6. f = Step(f)
  <2>1. ASSUME NEW k \in Nat PROVE f[k] = IF k = 0 THEN 1 ELSE 2 * f[k - 1]
    <3>1. k # 0 => k - 1 \in Nat /\ (k - 1) + 1 = k
      OBVIOUS
    <3> QED
      BY <1>4, <1>5, <3>1
  <2> QED
    BY <1>4, <2>1
<1>7. PowerOf2 = CHOOSE p : p = Step(p)
  BY DEF PowerOf2
<1>8. PowerOf2 = Step(PowerOf2)
  <2> HIDE DEF Step
  <2> QED
    BY <1>6, <1>7
<1>9. \A k \in Nat : PowerOf2[k] = IF k = 0 THEN 1 ELSE 2 * PowerOf2[k - 1]
  BY <1>8
<1>10. PowerOf2[0] = 1 /\ \A k \in Nat : PowerOf2[k + 1] = 2 * PowerOf2[k]
  <2>1. \A k \in Nat : k + 1 \in Nat /\ k + 1 # 0 /\ (k + 1) - 1 = k
    OBVIOUS
  <2> QED
    BY <1>9, <2>1
<1>11. \A k \in Nat : PowerOf2[k] \in Nat
  <2> DEFINE G == {k \in Nat : PowerOf2[k] \in Nat}
  <2>1. 0 \in G /\ \A k \in Nat : k \in G => k + 1 \in G
    BY <1>10
  <2>2. Nat \subseteq G
    <3> HIDE DEF G
    <3> QED
      BY <2>1, Induction
  <2> QED
    BY <2>2
<1> QED
  BY <1>8, <1>10, <1>11

(* The memory has at least four places and the powers of two are positive. *)
LEMMA SizeFacts ==
  /\ AddrWidth \in Nat /\ AddrWidth >= 2 /\ Size \in Nat /\ Size >= 4
  /\ PowerOf2[0] = 1 /\ \A k \in Nat : PowerOf2[k] \in Nat /\ PowerOf2[k] >= 1
<1>1. AddrWidth \in Nat /\ AddrWidth >= 2
  BY ComplexFifoAssumption
<1> DEFINE G == {k \in Nat : PowerOf2[k] >= 1 /\ (k >= 2 => PowerOf2[k] >= 4)}
<1>2. 0 \in G /\ \A k \in Nat : k \in G => k + 1 \in G
  <2>1. 0 \in G
    BY Powers
  <2>2. ASSUME NEW k \in Nat, k \in G PROVE k + 1 \in G
    <3>1. PowerOf2[k + 1] = 2 * PowerOf2[k] /\ PowerOf2[k] \in Nat /\ PowerOf2[k + 1] \in Nat
      BY Powers
    <3>2. k + 1 >= 2 => PowerOf2[k + 1] >= 4
      <4>1. CASE k = 1
        <5>1. PowerOf2[0 + 1] = 2 * PowerOf2[0] /\ 0 + 1 = 1
          BY Powers
        <5> QED
          BY <3>1, <4>1, <5>1, Powers
      <4> QED
        BY <2>2, <3>1, <4>1
    <3> QED
      BY <2>2, <3>1, <3>2
  <2> QED
    BY <2>1, <2>2
<1>3. Nat \subseteq G
  <2> HIDE DEF G
  <2> QED
    BY <1>2, Induction
<1> QED
  BY <1>1, <1>3, Powers DEF Size

(* Dividing by the next power of two is dividing by this one and halving. *)
LEMMA Halving ==
  ASSUME NEW n \in Nat, NEW k \in Nat
  PROVE  /\ n \div PowerOf2[k] \in Nat
         /\ n \div PowerOf2[k + 1] = (n \div PowerOf2[k]) \div 2
<1>1. PICK p : p = PowerOf2[k]
  OBVIOUS
<1>2. p \in Nat /\ p >= 1 /\ PowerOf2[k + 1] = 2 * p
  BY <1>1, SizeFacts, Powers
<1>3. PICK q : q = n \div p
  OBVIOUS
<1>4. q \in Nat /\ p * q <= n /\ n < p * q + p
  BY <1>2, <1>3
<1>5. PICK h \in Nat : q = 2 * h \/ q = 2 * h + 1
  <2>1. q \div 2 \in Nat /\ (q = 2 * (q \div 2) \/ q = 2 * (q \div 2) + 1)
    BY <1>4
  <2> QED
    BY <2>1
<1>6. (2 * p) * h <= n /\ n < (2 * p) * h + 2 * p
  BY <1>2, <1>4, <1>5
<1>7. n \div (2 * p) = h
  BY <1>2, <1>5, <1>6
<1> QED
  BY <1>1, <1>2, <1>3, <1>4, <1>5, <1>7

-----------------------------------------------------------------------------
(* The Gray code. *)

(* What is left of n without its k lowest bits. *)
Above(n, k) == n \div PowerOf2[k]

(* The bits of an address above place k, from the whole address down to none. *)
LEMMA AboveFacts ==
  /\ \A n, k \in Nat : /\ Above(n, k) \in Nat /\ Bit(n, k) = Above(n, k) % 2
                       /\ Above(n, k + 1) = Above(n, k) \div 2
  /\ \A n \in Nat : Above(n, 0) = n
  /\ \A n \in Addresses : n \in Nat /\ Above(n, AddrWidth) = 0
  /\ Above(Size, AddrWidth) = 1
<1>1. \A n, k \in Nat : /\ Above(n, k) \in Nat /\ Bit(n, k) = Above(n, k) % 2
                        /\ Above(n, k + 1) = Above(n, k) \div 2
  BY Halving DEF Above, Bit
<1>2. \A n \in Nat : Above(n, 0) = n
  BY SizeFacts DEF Above
<1>3. ASSUME NEW n \in Addresses PROVE n \in Nat /\ Above(n, AddrWidth) = 0
  <2>1. PICK p : p = PowerOf2[AddrWidth]
    OBVIOUS
  <2>2. p \in Nat /\ p >= 1 /\ n \in 0..(p - 1)
    BY <2>1, SizeFacts DEF Addresses, Size
  <2>3. n \div p = 0
    BY <2>2
  <2> QED
    BY <2>1, <2>2, <2>3 DEF Above
<1>4. Above(Size, AddrWidth) = 1
  <2>1. PICK p : p = PowerOf2[AddrWidth]
    OBVIOUS
  <2>2. p \in Nat /\ p >= 1
    BY <2>1, SizeFacts
  <2>3. p \div p = 1
    BY <2>2
  <2> QED
    BY <2>1, <2>3 DEF Above, Size
<1> QED
  BY <1>1, <1>2, <1>3, <1>4

(* A number above place k is twice the number above the next one, and the
   bit. *)
LEMMA BitFacts ==
  ASSUME NEW n \in Nat, NEW k \in Nat
  PROVE  Bit(n, k) \in {0, 1} /\ Above(n, k) = 2 * Above(n, k + 1) + Bit(n, k)
<1>1. /\ Above(n, k) \in Nat /\ Bit(n, k) = Above(n, k) % 2
      /\ Above(n, k + 1) = Above(n, k) \div 2
  BY AboveFacts
<1>2. ASSUME NEW q \in Nat PROVE q % 2 \in {0, 1} /\ q = 2 * (q \div 2) + (q % 2)
  <2>1. q % 2 \in 0..1
    BY <1>2
  <2>2. q = 2 * (q \div 2) + (q % 2)
    BY <1>2
  <2> QED
    BY <2>1, <2>2
<1> QED
  BY <1>1, <1>2

Bits == 0..(AddrWidth - 1)

(* Bit k of a code is the sum of bits k and k + 1 of the address. *)
LEMMA GrayFacts ==
  /\ \A n \in Addresses : gray_conv[n] \in Codes
  /\ \A n \in Addresses, k \in Bits : gray_conv[n][k] = (Bit(n, k) + Bit(n, k + 1)) % 2
<1>1. \A n \in Addresses : gray_conv[n] = [k \in Bits |-> (Bit(n, k) + Bit(n, k + 1)) % 2]
  BY DEF gray_conv, Bits
<1>2. ASSUME NEW n \in Addresses, NEW k \in Bits
      PROVE  (Bit(n, k) + Bit(n, k + 1)) % 2 \in {0, 1}
  <2>1. n \in Nat /\ k \in Nat /\ k + 1 \in Nat
    BY AboveFacts, SizeFacts DEF Bits
  <2>2. Bit(n, k) \in {0, 1} /\ Bit(n, k + 1) \in {0, 1}
    BY <2>1, BitFacts
  <2> QED
    BY <2>2
<1> QED
  BY <1>1, <1>2, ZenonT(60) DEF Codes, Bits

(* Two addresses with the same code are the same: the code gives every bit from the *)
(* ones above it.                                                             *)
THEOREM GrayInjective ==
  ASSUME NEW a \in Addresses, NEW b \in Addresses, gray_conv[a] = gray_conv[b]
  PROVE  a = b
<1> DEFINE G == {j \in Nat : j <= AddrWidth =>
                               Above(a, AddrWidth - j) = Above(b, AddrWidth - j)}
<1>1. a \in Nat /\ b \in Nat /\ AddrWidth \in Nat
  BY AboveFacts, SizeFacts
<1>2. 0 \in G
  BY <1>1, AboveFacts
<1>3. ASSUME NEW j \in Nat, j \in G PROVE j + 1 \in G
  <2> SUFFICES ASSUME j + 1 <= AddrWidth
               PROVE  Above(a, AddrWidth - (j + 1)) = Above(b, AddrWidth - (j + 1))
    OBVIOUS
  <2>1. PICK k : k = AddrWidth - (j + 1)
    OBVIOUS
  <2>2. k \in Bits /\ k \in Nat /\ k + 1 \in Nat /\ k + 1 = AddrWidth - j
    BY <1>1, <2>1 DEF Bits
  <2>3. Above(a, k + 1) = Above(b, k + 1)
    BY <1>1, <1>3, <2>2
  <2>4. (Bit(a, k) + Bit(a, k + 1)) % 2 = (Bit(b, k) + Bit(b, k + 1)) % 2
    BY <2>2, GrayFacts
  <2>5. Bit(a, k + 1) = Bit(b, k + 1)
    <3>1. Bit(a, k + 1) = Above(a, k + 1) % 2 /\ Bit(b, k + 1) = Above(b, k + 1) % 2
      BY <1>1, <2>2, AboveFacts
    <3> QED
      BY <2>3, <3>1
  <2>6. Bit(a, k) = Bit(b, k)
    <3>1. Bit(a, k) \in {0, 1} /\ Bit(b, k) \in {0, 1} /\ Bit(a, k + 1) \in {0, 1}
      BY <1>1, <2>2, BitFacts
    <3> QED
      BY <2>4, <2>5, <3>1
  <2>7. Above(a, k) = Above(b, k)
    BY <1>1, <2>2, <2>3, <2>6, BitFacts
  <2> QED
    BY <2>1, <2>7
<1>4. AddrWidth \in G
  <2> HIDE DEF G
  <2> QED
    BY <1>1, <1>2, <1>3, Induction
<1>5. AddrWidth - AddrWidth = 0
  BY <1>1
<1> QED
  BY <1>1, <1>4, <1>5, AboveFacts

(* Counting up by one carries into bit k. *)
Carries(n, k) == Above(n + 1, k) = Above(n, k) + 1

(* Counting up changes bit k just when every bit below it is 1. *)
LEMMA Carrying ==
  ASSUME NEW n \in Nat, NEW k \in Nat
  PROVE  /\ Above(n + 1, k) \in {Above(n, k), Above(n, k) + 1}
         /\ Carries(n, k + 1) <=> Carries(n, k) /\ Bit(n, k) = 1
         /\ Bit(n + 1, k) # Bit(n, k) <=> Carries(n, k)
<1>1. ASSUME NEW i \in Nat, Above(n + 1, i) \in {Above(n, i), Above(n, i) + 1}
      PROVE  /\ Above(n + 1, i + 1) \in {Above(n, i + 1), Above(n, i + 1) + 1}
             /\ Carries(n, i + 1) <=> Carries(n, i) /\ Bit(n, i) = 1
             /\ Bit(n + 1, i) # Bit(n, i) <=> Carries(n, i)
  <2>1. /\ Bit(n, i) \in {0, 1} /\ Above(n, i) = 2 * Above(n, i + 1) + Bit(n, i)
        /\ Bit(n + 1, i) \in {0, 1} /\ Above(n + 1, i) = 2 * Above(n + 1, i + 1) + Bit(n + 1, i)
    BY BitFacts
  <2>2. Above(n, i + 1) \in Nat /\ Above(n + 1, i + 1) \in Nat
    <3>1. i + 1 \in Nat /\ n + 1 \in Nat
      OBVIOUS
    <3> QED
      BY <3>1, AboveFacts
  <2> QED
    BY <1>1, <2>1, <2>2 DEF Carries
<1> DEFINE G == {i \in Nat : Above(n + 1, i) \in {Above(n, i), Above(n, i) + 1}}
<1>2. 0 \in G
  BY AboveFacts
<1>3. \A i \in Nat : i \in G => i + 1 \in G
  BY <1>1
<1>4. k \in G
  <2> HIDE DEF G
  <2> QED
    BY <1>2, <1>3, Induction
<1> QED
  BY <1>1, <1>4

(* A carry into a bit comes through all the bits below it. *)
LEMMA CarryThrough ==
  ASSUME NEW n \in Nat, NEW i \in Nat, NEW j \in Nat, i <= j, Carries(n, j)
  PROVE  Carries(n, i)
<1> SUFFICES ASSUME ~Carries(n, i) PROVE FALSE
  OBVIOUS
<1> DEFINE G == {d \in Nat : ~Carries(n, i + d)}
<1>1. 0 \in G
  BY DEF Carries
<1>2. ASSUME NEW d \in Nat, d \in G PROVE d + 1 \in G
  <2>1. i + d \in Nat /\ (i + d) + 1 = i + (d + 1)
    OBVIOUS
  <2>2. ~Carries(n, (i + d) + 1)
    BY <1>2, <2>1, Carrying
  <2> QED
    BY <2>1, <2>2
<1>3. j - i \in Nat /\ i + (j - i) = j
  OBVIOUS
<1>4. j - i \in G
  <2> HIDE DEF G
  <2> QED
    BY <1>1, <1>2, <1>3, Induction
<1> QED
  BY <1>3, <1>4

(* From an address to the next, of which the last is 0 again, one bit of the code     *)
(* changes.                                                                  *)
THEOREM OneBit ==
  ASSUME NEW a \in Addresses, NEW b, b = Plus(a, 1), NEW i \in Bits, NEW j \in Bits,
         gray_conv[a][i] # gray_conv[b][i], gray_conv[a][j] # gray_conv[b][j]
  PROVE  i = j
<1>1. /\ a \in Nat /\ i \in Nat /\ j \in Nat /\ AddrWidth \in Nat /\ i < AddrWidth /\ j < AddrWidth
      /\ Size \in Nat /\ Size >= 4 /\ a <= Size - 1
  BY SizeFacts DEF Addresses, Bits
<1>2. CASE a + 1 < Size
  <2>1. b = a + 1 /\ b \in Addresses
    BY <1>1, <1>2 DEF Plus, Addresses
  <2>2. ASSUME NEW k \in Bits, gray_conv[a][k] # gray_conv[b][k]
        PROVE  Carries(a, k) /\ ~Carries(a, k + 1)
    <3>1. k \in Nat /\ k + 1 \in Nat
      BY SizeFacts DEF Bits
    <3>2. (Bit(a, k) + Bit(a, k + 1)) % 2 # (Bit(a + 1, k) + Bit(a + 1, k + 1)) % 2
      BY <2>1, <2>2, GrayFacts
    <3>3. /\ Bit(a, k) \in {0, 1} /\ Bit(a, k + 1) \in {0, 1}
          /\ Bit(a + 1, k) \in {0, 1} /\ Bit(a + 1, k + 1) \in {0, 1}
      <4>1. a + 1 \in Nat
        BY <1>1
      <4> QED
        BY <1>1, <3>1, <4>1, BitFacts
    <3>4. /\ Bit(a + 1, k) # Bit(a, k) <=> Carries(a, k)
          /\ Bit(a + 1, k + 1) # Bit(a, k + 1) <=> Carries(a, k + 1)
          /\ Carries(a, k + 1) => Carries(a, k)
      BY <1>1, <3>1, Carrying
    <3>5. ~(Carries(a, k) <=> Carries(a, k + 1))
      <4>1. Bit(a, k) = Bit(a + 1, k) => Bit(a, k + 1) # Bit(a + 1, k + 1)
        BY <3>2
      <4>2. Bit(a, k) # Bit(a + 1, k) => Bit(a, k + 1) = Bit(a + 1, k + 1)
        BY <3>2, <3>3
      <4> QED
        BY <3>4, <4>1, <4>2
    <3> QED
      BY <3>4, <3>5
  <2>3. /\ Carries(a, i) /\ ~Carries(a, i + 1) /\ Carries(a, j) /\ ~Carries(a, j + 1)
    BY <2>2
  <2>4. ~(i + 1 <= j) /\ ~(j + 1 <= i)
    <3>1. i + 1 \in Nat /\ j + 1 \in Nat
      BY <1>1
    <3> QED
      BY <1>1, <2>3, <3>1, CarryThrough
  <2> QED
    BY <1>1, <2>4
<1>3. CASE a + 1 = Size
  <2>1. b = 0 /\ 0 \in Addresses
    <3>1. Size % Size = 0
      BY <1>1
    <3> QED
      BY <1>1, <1>3, <3>1 DEF Plus, Addresses
  <2>2. \A k \in Nat : Bit(0, k) = 0
    <3> DEFINE G == {k \in Nat : Above(0, k) = 0}
    <3>1. 0 \in G
      BY AboveFacts
    <3>2. ASSUME NEW k \in Nat, k \in G PROVE k + 1 \in G
      <4>1. 0 \div 2 = 0
        OBVIOUS
      <4> QED
        BY <3>2, <4>1, AboveFacts
    <3>3. Nat \subseteq G
      <4> HIDE DEF G
      <4> QED
        BY <3>1, <3>2, Induction
    <3>4. 0 % 2 = 0
      OBVIOUS
    <3> QED
      BY <3>3, <3>4, AboveFacts
  <2>3. Carries(a, AddrWidth)
    <3>1. Above(a, AddrWidth) = 0 /\ Above(Size, AddrWidth) = 1
      BY AboveFacts
    <3> QED
      BY <1>3, <3>1 DEF Carries
  <2>4. ASSUME NEW k \in Nat, k < AddrWidth PROVE Bit(a, k) = 1
    <3>1. Carries(a, k + 1)
      BY <1>1, <2>3, <2>4, CarryThrough
    <3> QED
      BY <1>1, <3>1, Carrying
  <2>5. ASSUME NEW k \in Bits, gray_conv[a][k] # gray_conv[b][k]
        PROVE  k + 1 = AddrWidth
    <3> SUFFICES ASSUME k + 1 < AddrWidth PROVE FALSE
      BY SizeFacts DEF Bits
    <3>1. k \in Nat /\ k + 1 \in Nat /\ k < AddrWidth
      BY SizeFacts DEF Bits
    <3>2. gray_conv[a][k] = (1 + 1) % 2 /\ gray_conv[b][k] = (0 + 0) % 2
      BY <2>1, <2>2, <2>4, <3>1, GrayFacts
    <3>3. (1 + 1) % 2 = 0 /\ (0 + 0) % 2 = 0
      OBVIOUS
    <3> QED
      BY <2>5, <3>2, <3>3
  <2> QED
    BY <1>1, <2>5
<1> QED
  BY <1>1, <1>2, <1>3

(* So a register that catches the code of an address that changes, or not, catches   *)
(* the old one or the new one.                                               *)
LEMMA CaughtOld ==
  ASSUME NEW a \in Addresses, NEW c \in Caught[a][a]
  PROVE  c = gray_conv[a]
<1>1. /\ c \in [Bits -> {0, 1}] /\ gray_conv[a] \in [Bits -> {0, 1}]
      /\ \A k \in Bits : c[k] \in {gray_conv[a][k], gray_conv[a][k]}
  BY GrayFacts DEF Caught, Codes, Bits
<1> QED
  BY <1>1

(* What a register catches of an address that counts up by one, its wires
   settling in any order, is the old code or the new one and never a mixture. *)
THEOREM CaughtOldOrNew ==
  ASSUME NEW a \in Addresses, Plus(a, 1) \in Addresses, NEW c \in Caught[a][Plus(a, 1)]
  PROVE  c \in {gray_conv[a], gray_conv[Plus(a, 1)]}
<1>1. PICK b \in Addresses : b = Plus(a, 1)
  OBVIOUS
<1>2. /\ c \in [Bits -> {0, 1}] /\ gray_conv[a] \in [Bits -> {0, 1}]
      /\ gray_conv[b] \in [Bits -> {0, 1}]
      /\ \A k \in Bits : c[k] \in {gray_conv[a][k], gray_conv[b][k]}
  BY <1>1, GrayFacts DEF Caught, Codes, Bits
<1>3. CASE \A k \in Bits : c[k] = gray_conv[a][k]
  BY <1>2, <1>3
<1>4. ASSUME NEW i \in Bits, c[i] # gray_conv[a][i] PROVE c = gray_conv[b]
  <2>1. c[i] = gray_conv[b][i] /\ gray_conv[a][i] # gray_conv[b][i]
    BY <1>2, <1>4
  <2>2. \A k \in Bits : k # i => gray_conv[a][k] = gray_conv[b][k]
    BY <1>1, <2>1, OneBit
  <2>3. \A k \in Bits : c[k] = gray_conv[b][k]
    BY <1>2, <2>1, <2>2
  <2> QED
    BY <1>2, <2>3
<1> QED
  BY <1>1, <1>3, <1>4

-----------------------------------------------------------------------------
(* Addresses on their circle. *)

Dist(a, b) == (a - b) % Size

(* Addresses on the circle of the memory: sums and distances wrap once at
   most. *)
LEMMA CircleFacts ==
  ASSUME NEW a \in Addresses, NEW b \in Addresses
  PROVE  /\ a \in Nat /\ a < Size /\ Size \in Nat /\ Size >= 4
         /\ Plus(a, 0) = a
         /\ Plus(a, 1) = IF a + 1 < Size THEN a + 1 ELSE 0
         /\ Plus(a, 2) = IF a + 2 < Size THEN a + 2 ELSE a + 2 - Size
         /\ Plus(a, b) = IF a + b < Size THEN a + b ELSE a + b - Size
         /\ Dist(a, b) = IF b <= a THEN a - b ELSE a - b + Size
<1>1. a \in Nat /\ a < Size /\ b \in Nat /\ b < Size /\ Size \in Nat /\ Size >= 4
  BY SizeFacts DEF Addresses
<1>2. ASSUME NEW n \in Nat, n < Size
      PROVE  Plus(a, n) = IF a + n < Size THEN a + n ELSE a + n - Size
  <2>1. a + n < Size => (a + n) % Size = a + n
    BY <1>1, <1>2
  <2>2. a + n >= Size => (a + n) % Size = a + n - Size
    BY <1>1, <1>2
  <2> QED
    BY <1>1, <1>2, <2>1, <2>2 DEF Plus
<1>3. Dist(a, b) = IF b <= a THEN a - b ELSE a - b + Size
  <2>1. b <= a => (a - b) % Size = a - b
    BY <1>1
  <2>2. b > a => (a - b) % Size = a - b + Size
    BY <1>1
  <2> QED
    BY <1>1, <2>1, <2>2 DEF Dist
<1>4. Plus(a, 0) = a /\ Plus(a, 1) = (IF a + 1 < Size THEN a + 1 ELSE 0)
  BY <1>1, <1>2
<1>5. Plus(a, 2) = IF a + 2 < Size THEN a + 2 ELSE a + 2 - Size
  BY <1>1, <1>2
<1> QED
  BY <1>1, <1>2, <1>3, <1>4, <1>5

(* An address on an edge of its clock, with the enable en. *)
Step(a, en) == IF en THEN Plus(a, 1) ELSE a

(* Addresses step to addresses. *)
LEMMA StepTyped ==
  ASSUME NEW a \in Addresses, NEW en \in BOOLEAN
  PROVE  Step(a, en) \in Addresses /\ Plus(a, 1) \in Addresses /\ Plus(a, 2) \in Addresses
BY CircleFacts DEF Step, Addresses

(* What the writer knows of the reader: r1 and r2 are addresses that the reader has   *)
(* passed, r2 before r1, and if the flag full is down there is room for a word.    *)
Trails(wr, rd, r1, r2, full) ==
  /\ Dist(wr, rd) <= Dist(wr, r1) /\ Dist(wr, r1) <= Dist(wr, r2)
  /\ ~full => Dist(wr, r2) <= Size - 2

(* What the reader knows of the writer. *)
Leads(wr, rd, w1, w2, empty) ==
  /\ Dist(w2, rd) <= Dist(w1, rd) /\ Dist(w1, rd) <= Dist(wr, rd)
  /\ ~empty => Dist(w2, rd) >= 1

(* How a step of one address or of both changes the distance between them,
   and the distances at which the flags compare. *)
LEMMA Moved ==
  ASSUME NEW a \in Addresses, NEW b \in Addresses
  PROVE  /\ Dist(a, b) \in Nat /\ Dist(a, b) <= Size - 1
         /\ Dist(a, b) < Size - 1 => Dist(Plus(a, 1), b) = Dist(a, b) + 1
         /\ Dist(a, b) >= 1 => Dist(a, Plus(b, 1)) = Dist(a, b) - 1
         /\ Dist(Plus(a, 1), Plus(b, 1)) = Dist(a, b)
         /\ Dist(a, b) = Size - 2 <=> Plus(a, 2) = b
         /\ Dist(a, b) = Size - 1 <=> Plus(a, 1) = b
         /\ Dist(a, b) = 1 <=> Plus(b, 1) = a
         /\ Dist(a, b) = 0 <=> a = b
<1>1. /\ a \in Nat /\ a < Size /\ b \in Nat /\ b < Size /\ Size \in Nat /\ Size >= 4
  BY CircleFacts
<1>2. PICK c : c = Plus(a, 1)
  OBVIOUS
<1>3. PICK d : d = Plus(b, 1)
  OBVIOUS
<1>4. c \in Addresses /\ d \in Addresses
  BY <1>2, <1>3, StepTyped
<1>5. /\ c = (IF a + 1 < Size THEN a + 1 ELSE 0)
      /\ d = (IF b + 1 < Size THEN b + 1 ELSE 0)
  BY <1>2, <1>3, CircleFacts
<1>6. Plus(a, 2) = IF a + 2 < Size THEN a + 2 ELSE a + 2 - Size
  BY CircleFacts
<1>7. Dist(a, b) = IF b <= a THEN a - b ELSE a - b + Size
  BY CircleFacts
<1>8. Dist(c, b) = IF b <= c THEN c - b ELSE c - b + Size
  BY <1>4, CircleFacts
<1>9. Dist(a, d) = IF d <= a THEN a - d ELSE a - d + Size
  BY <1>4, CircleFacts
<1>10. Dist(c, d) = IF d <= c THEN c - d ELSE c - d + Size
  BY <1>4, CircleFacts
<1>11. /\ Dist(a, b) \in Nat /\ Dist(a, b) <= Size - 1
       /\ Dist(a, b) < Size - 1 => Dist(c, b) = Dist(a, b) + 1
       /\ Dist(a, b) >= 1 => Dist(a, d) = Dist(a, b) - 1
  BY <1>1, <1>5, <1>7, <1>8, <1>9
<1>12. Dist(c, d) = Dist(a, b)
  BY <1>1, <1>5, <1>7, <1>10
<1>13. /\ Dist(a, b) = Size - 2 <=> Plus(a, 2) = b
       /\ Dist(a, b) = Size - 1 <=> c = b
       /\ Dist(a, b) = 1 <=> d = a
       /\ Dist(a, b) = 0 <=> a = b
  BY <1>1, <1>5, <1>6, <1>7
<1> QED
  BY <1>2, <1>3, <1>11, <1>12, <1>13

(* The writer's copies of the read address stay behind it in order, and its
   full flag is never late, when both sides step as their flags allow. *)
LEMMA Trailing ==
  ASSUME NEW wr \in Addresses, NEW rd \in Addresses, NEW r1 \in Addresses, NEW r2 \in Addresses,
         NEW full \in BOOLEAN, Trails(wr, rd, r1, r2, full),
         NEW wen \in BOOLEAN, NEW ren \in BOOLEAN, wen => ~full, ren => Dist(wr, rd) >= 1,
         NEW r \in {rd, Step(rd, ren)},
         NEW full2, full2 <=> IF wen THEN Plus(wr, 2) = r2 ELSE full /\ Plus(wr, 1) = r2
  PROVE  Trails(Step(wr, wen), Step(rd, ren), r, r1, full2)
<1>1. Size \in Nat /\ Size >= 4 /\ Plus(wr, 1) \in Addresses /\ Plus(rd, 1) \in Addresses
  BY SizeFacts, StepTyped
<1>2. PICK c \in Nat : c = Dist(wr, rd)
  BY Moved
<1>3. PICK d1 \in Nat : d1 = Dist(wr, r1)
  BY Moved
<1>4. PICK d2 \in Nat : d2 = Dist(wr, r2)
  BY Moved
<1>5. /\ c <= d1 /\ d1 <= d2 /\ d2 <= Size - 1 /\ (~full => d2 <= Size - 2)
      /\ wen => d2 < Size - 1
      /\ ren => c >= 1
  BY <1>1, <1>2, <1>3, <1>4, Moved DEF Trails
<1>6. CASE wen
  <2>1. Step(wr, wen) = Plus(wr, 1) /\ (full2 <=> Plus(wr, 2) = r2)
    BY <1>6 DEF Step
  <2>2. Dist(Plus(wr, 1), r1) = d1 + 1
    BY <1>1, <1>3, <1>5, <1>6, Moved
  <2>3. ~full2 => d2 # Size - 2
    BY <1>4, <2>1, Moved
  <2>4. ~full2 => d1 + 1 <= Size - 2
    BY <1>1, <1>5, <1>6, <2>3
  <2>5. Dist(Plus(wr, 1), rd) = c + 1
    BY <1>1, <1>2, <1>5, <1>6, Moved
  <2>6. ren => Dist(Plus(wr, 1), Plus(rd, 1)) = c
    BY <1>2, Moved
  <2>7. /\ Dist(Plus(wr, 1), Step(rd, ren)) <= Dist(Plus(wr, 1), r)
        /\ Dist(Plus(wr, 1), r) <= d1 + 1
    BY <1>5, <2>5, <2>6 DEF Step
  <2> QED
    BY <2>1, <2>2, <2>4, <2>7 DEF Trails
<1>7. CASE ~wen
  <2>1. Step(wr, wen) = wr /\ (full2 <=> full /\ Plus(wr, 1) = r2)
    BY <1>7 DEF Step
  <2>2. ~full2 => d2 <= Size - 2
    <3>1. full /\ Plus(wr, 1) # r2 => d2 # Size - 1
      BY <1>4, Moved
    <3> QED
      BY <1>1, <1>5, <2>1, <3>1
  <2>3. ren => Dist(wr, Plus(rd, 1)) = c - 1
    BY <1>2, <1>5, Moved
  <2>4. Dist(wr, Step(rd, ren)) <= Dist(wr, r) /\ Dist(wr, r) <= d1
    BY <1>2, <1>5, <2>3 DEF Step
  <2> QED
    BY <1>1, <1>3, <1>5, <2>1, <2>2, <2>4 DEF Trails
<1> QED
  BY <1>6, <1>7

(* The same of the reader's copies of the write address and its empty flag. *)
LEMMA Leading ==
  ASSUME NEW wr \in Addresses, NEW rd \in Addresses, NEW w1 \in Addresses, NEW w2 \in Addresses,
         NEW empty \in BOOLEAN, Leads(wr, rd, w1, w2, empty),
         NEW wen \in BOOLEAN, NEW ren \in BOOLEAN, ren => ~empty, wen => Dist(wr, rd) <= Size - 2,
         NEW w \in {wr, Step(wr, wen)},
         NEW empty2, empty2 <=> IF ren THEN Plus(rd, 1) = w2 ELSE empty /\ rd = w2
  PROVE  Leads(Step(wr, wen), Step(rd, ren), w, w1, empty2)
<1>1. Size \in Nat /\ Size >= 4 /\ Plus(wr, 1) \in Addresses /\ Plus(rd, 1) \in Addresses
  BY SizeFacts, StepTyped
<1>2. PICK c \in Nat : c = Dist(wr, rd)
  BY Moved
<1>3. PICK e1 \in Nat : e1 = Dist(w1, rd)
  BY Moved
<1>4. PICK e2 \in Nat : e2 = Dist(w2, rd)
  BY Moved
<1>5. /\ e2 <= e1 /\ e1 <= c /\ c <= Size - 1 /\ (~empty => e2 >= 1)
      /\ ren => e2 >= 1
      /\ wen => c < Size - 1
  BY <1>1, <1>2, <1>3, <1>4, Moved DEF Leads
<1>6. CASE ren
  <2>1. Step(rd, ren) = Plus(rd, 1) /\ (empty2 <=> Plus(rd, 1) = w2)
    BY <1>6 DEF Step
  <2>2. Dist(w1, Plus(rd, 1)) = e1 - 1
    BY <1>1, <1>3, <1>5, <1>6, Moved
  <2>3. ~empty2 => e2 # 1
    BY <1>4, <2>1, Moved
  <2>4. ~empty2 => e1 - 1 >= 1
    BY <1>1, <1>5, <1>6, <2>3
  <2>5. Dist(wr, Plus(rd, 1)) = c - 1
    BY <1>1, <1>2, <1>5, <1>6, Moved
  <2>6. wen => Dist(Plus(wr, 1), Plus(rd, 1)) = c
    BY <1>2, Moved
  <2>7. /\ Dist(w, Plus(rd, 1)) <= Dist(Step(wr, wen), Plus(rd, 1))
        /\ e1 - 1 <= Dist(w, Plus(rd, 1))
    BY <1>5, <2>5, <2>6 DEF Step
  <2> QED
    BY <2>1, <2>2, <2>4, <2>7 DEF Leads
<1>7. CASE ~ren
  <2>1. Step(rd, ren) = rd /\ (empty2 <=> empty /\ rd = w2)
    BY <1>7 DEF Step
  <2>2. ~empty2 => e2 >= 1
    <3>1. empty /\ rd # w2 => e2 # 0
      BY <1>4, Moved
    <3> QED
      BY <1>1, <1>5, <2>1, <3>1
  <2>3. wen => Dist(Plus(wr, 1), rd) = c + 1
    BY <1>2, <1>5, Moved
  <2>4. Dist(w, rd) <= Dist(Step(wr, wen), rd) /\ e1 <= Dist(w, rd)
    BY <1>2, <1>5, <2>3 DEF Step
  <2> QED
    BY <1>1, <1>3, <1>5, <2>1, <2>2, <2>4 DEF Leads
<1> QED
  BY <1>6, <1>7

-----------------------------------------------------------------------------
(* The edges of the clocks. *)

(* An edge of the writer's clock. *)
Writes(f, g, wen, w, seen) ==
  /\ g.wr_addr = Step(f.wr_addr, wen)
  /\ g.mem = IF wen THEN [f.mem EXCEPT ![f.wr_addr] = w] ELSE f.mem
  /\ g.full = FullNext(f, wen) /\ g.rdSeen = seen /\ g.rdSeen2 = f.rdSeen

WriterKept(f, g) ==
  /\ g.wr_addr = f.wr_addr /\ g.mem = f.mem
  /\ g.full = f.full /\ g.rdSeen = f.rdSeen /\ g.rdSeen2 = f.rdSeen2

(* An edge of the reader's clock. *)
Reads(f, g, ren, seen) ==
  /\ g.rd_addr = Step(f.rd_addr, ren)
  /\ g.rd_data = IF ren THEN f.mem[f.rd_addr] ELSE f.rd_data
  /\ g.empty = EmptyNext(f, ren) /\ g.wrSeen = seen /\ g.wrSeen2 = f.wrSeen

ReaderKept(f, g) ==
  /\ g.rd_addr = f.rd_addr /\ g.rd_data = f.rd_data
  /\ g.empty = f.empty /\ g.wrSeen = f.wrSeen /\ g.wrSeen2 = f.wrSeen2

(* The fields of a fifo. *)
LEMMA FifoTyped ==
  ASSUME NEW W, NEW f \in Fifos(W)
  PROVE  /\ f.wr_addr \in Addresses /\ f.rd_addr \in Addresses
         /\ f.full \in BOOLEAN /\ f.empty \in BOOLEAN
         /\ f.rdSeen \in Codes /\ f.rdSeen2 \in Codes /\ f.wrSeen \in Codes /\ f.wrSeen2 \in Codes
         /\ f.mem \in [Addresses -> W] /\ f.rd_data \in W
BY DEF Fifos

(* A clock edge of the writer changes the writer's registers only. *)
LEMMA WriteEdgeTyped ==
  ASSUME NEW W, NEW f \in Fifos(W), NEW wen \in BOOLEAN, NEW w, wen => w \in W, NEW seen \in Codes,
         NEW g, g = WriteEdge(f, wen, w, seen)
  PROVE  g \in Fifos(W) /\ Writes(f, g, wen, w, seen) /\ ReaderKept(f, g)
<1> DEFINE a == Step(f.wr_addr, wen)
           t == IF wen THEN [f.mem EXCEPT ![f.wr_addr] = w] ELSE f.mem
           full == FullNext(f, wen)
<1>1. g = [f EXCEPT !.wr_addr = a, !.mem = t, !.full = full, !.rdSeen = seen, !.rdSeen2 = f.rdSeen]
  BY DEF WriteEdge, Step
<1>2. a \in Addresses /\ t \in [Addresses -> W] /\ full \in BOOLEAN /\ f.rdSeen \in Codes
  <2>1. a \in Addresses
    BY FifoTyped, StepTyped
  <2>2. t \in [Addresses -> W]
    BY FifoTyped
  <2>3. full \in BOOLEAN
    BY FifoTyped DEF FullNext
  <2> QED
    BY <2>1, <2>2, <2>3, FifoTyped
<1> HIDE DEF a, t, full
<1>3. /\ g.wr_addr = a /\ g.mem = t /\ g.full = full /\ g.rdSeen = seen /\ g.rdSeen2 = f.rdSeen
  BY <1>1 DEF Fifos
<1>4. ReaderKept(f, g)
  BY <1>1 DEF Fifos, ReaderKept
<1>5. g \in Fifos(W)
  BY <1>1, <1>2 DEF Fifos
<1> QED
  BY <1>3, <1>4, <1>5 DEF a, t, full, Writes

(* A clock edge of the reader changes the reader's registers only. *)
LEMMA ReadEdgeTyped ==
  ASSUME NEW W, NEW f \in Fifos(W), NEW ren \in BOOLEAN, NEW seen \in Codes,
         NEW g, g = ReadEdge(f, ren, seen)
  PROVE  g \in Fifos(W) /\ Reads(f, g, ren, seen) /\ WriterKept(f, g)
<1> DEFINE a == Step(f.rd_addr, ren)
           d == IF ren THEN f.mem[f.rd_addr] ELSE f.rd_data
           empty == EmptyNext(f, ren)
<1>1. g = [f EXCEPT !.rd_addr = a, !.rd_data = d, !.empty = empty, !.wrSeen = seen,
                    !.wrSeen2 = f.wrSeen]
  BY DEF ReadEdge, Step
<1>2. a \in Addresses /\ d \in W /\ empty \in BOOLEAN /\ f.wrSeen \in Codes
  <2>1. a \in Addresses
    BY FifoTyped, StepTyped
  <2>2. d \in W
    BY FifoTyped
  <2>3. empty \in BOOLEAN
    BY FifoTyped DEF EmptyNext
  <2> QED
    BY <2>1, <2>2, <2>3, FifoTyped
<1> HIDE DEF a, d, empty
<1>3. /\ g.rd_addr = a /\ g.rd_data = d /\ g.empty = empty /\ g.wrSeen = seen
      /\ g.wrSeen2 = f.wrSeen
  BY <1>1 DEF Fifos
<1>4. WriterKept(f, g)
  BY <1>1 DEF Fifos, WriterKept
<1>5. g \in Fifos(W)
  BY <1>1, <1>2 DEF Fifos
<1> QED
  BY <1>3, <1>4, <1>5 DEF a, d, empty, Reads

(* The invariant of the fifo: what the two sides know of each other.               *)
WriterKnows(f) ==
  \E r1, r2 \in Addresses : /\ f.rdSeen = gray_conv[r1] /\ f.rdSeen2 = gray_conv[r2]
                            /\ Trails(f.wr_addr, f.rd_addr, r1, r2, f.full)
ReaderKnows(f) ==
  \E w1, w2 \in Addresses : /\ f.wrSeen = gray_conv[w1] /\ f.wrSeen2 = gray_conv[w2]
                            /\ Leads(f.wr_addr, f.rd_addr, w1, w2, f.empty)
FifoInv(f) == WriterKnows(f) /\ ReaderKnows(f)

Held(f) == Dist(f.wr_addr, f.rd_addr)

(* Flags that are down tell the truth. *)
LEMMA FlagsSafe ==
  ASSUME NEW W, NEW f \in Fifos(W), FifoInv(f)
  PROVE  /\ Held(f) \in Nat /\ Held(f) <= Size - 1
         /\ ~f.full => Held(f) <= Size - 2
         /\ ~f.empty => Held(f) >= 1
<1>1. f.wr_addr \in Addresses /\ f.rd_addr \in Addresses
  BY FifoTyped
<1>2. PICK r1, r2 \in Addresses : Trails(f.wr_addr, f.rd_addr, r1, r2, f.full)
  BY DEF FifoInv, WriterKnows
<1>3. PICK w1, w2 \in Addresses : Leads(f.wr_addr, f.rd_addr, w1, w2, f.empty)
  BY DEF FifoInv, ReaderKnows
<1>4. PICK c \in Nat : c = Held(f)
  BY <1>1, Moved DEF Held
<1>5. /\ Dist(f.wr_addr, r1) \in Nat /\ Dist(f.wr_addr, r2) \in Nat
      /\ Dist(w1, f.rd_addr) \in Nat /\ Dist(w2, f.rd_addr) \in Nat
      /\ c <= Size - 1 /\ Size \in Nat
  BY <1>1, <1>4, Moved, SizeFacts DEF Held
<1>6. ~f.full => c <= Size - 2
  BY <1>2, <1>4, <1>5 DEF Trails, Held
<1>7. ~f.empty => c >= 1
  BY <1>3, <1>4, <1>5 DEF Leads, Held
<1> QED
  BY <1>4, <1>5, <1>6, <1>7

(* After an edge of the writer, what it knows of the reader is still behind
   it. *)
LEMMA WriterTicks ==
  ASSUME NEW W, NEW f \in Fifos(W), FifoInv(f), NEW wen \in BOOLEAN, wen => ~f.full,
         NEW ren \in BOOLEAN, ren => ~f.empty, NEW g, NEW w,
         NEW seen \in {gray_conv[f.rd_addr], gray_conv[Step(f.rd_addr, ren)]},
         Writes(f, g, wen, w, seen), g.rd_addr = Step(f.rd_addr, ren)
  PROVE  WriterKnows(g)
<1>1. /\ f.wr_addr \in Addresses /\ f.rd_addr \in Addresses /\ f.full \in BOOLEAN
      /\ Plus(f.wr_addr, 1) \in Addresses /\ Plus(f.wr_addr, 2) \in Addresses
      /\ Step(f.rd_addr, ren) \in Addresses
  BY FifoTyped, StepTyped
<1>2. PICK r1, r2 \in Addresses : /\ f.rdSeen = gray_conv[r1] /\ f.rdSeen2 = gray_conv[r2]
                                  /\ Trails(f.wr_addr, f.rd_addr, r1, r2, f.full)
  BY DEF FifoInv, WriterKnows
<1>3. PICK r \in {f.rd_addr, Step(f.rd_addr, ren)} : seen = gray_conv[r]
  OBVIOUS
<1>4. g.full <=> IF wen THEN Plus(f.wr_addr, 2) = r2 ELSE f.full /\ Plus(f.wr_addr, 1) = r2
  <2>1. /\ gray_conv[Plus(f.wr_addr, 2)] = gray_conv[r2] <=> Plus(f.wr_addr, 2) = r2
        /\ gray_conv[Plus(f.wr_addr, 1)] = gray_conv[r2] <=> Plus(f.wr_addr, 1) = r2
    BY <1>1, GrayInjective
  <2>2. g.full = IF wen THEN gray_conv[Plus(f.wr_addr, 2)] = f.rdSeen2
                        ELSE f.full /\ gray_conv[Plus(f.wr_addr, 1)] = f.rdSeen2
    BY DEF Writes, FullNext
  <2>3. CASE wen
    BY <1>2, <2>1, <2>2, <2>3
  <2>4. CASE ~wen
    BY <1>2, <2>1, <2>2, <2>4
  <2> QED
    BY <2>3, <2>4
<1>5. ren => Dist(f.wr_addr, f.rd_addr) >= 1
  BY FlagsSafe DEF Held
<1>6. Trails(Step(f.wr_addr, wen), Step(f.rd_addr, ren), r, r1, g.full)
  <2>1. PICK a \in Addresses : a = f.wr_addr
    BY <1>1
  <2>2. PICK b \in Addresses : b = f.rd_addr
    BY <1>1
  <2>3. PICK u \in BOOLEAN : u = f.full
    BY <1>1
  <2>4. PICK v : v = g.full
    OBVIOUS
  <2>5. v <=> IF wen THEN Plus(a, 2) = r2 ELSE u /\ Plus(a, 1) = r2
    BY <1>4, <2>1, <2>3, <2>4
  <2>6. Trails(a, b, r1, r2, u) /\ (wen => ~u) /\ (ren => Dist(a, b) >= 1) /\ r \in {b, Step(b, ren)}
    BY <1>2, <1>3, <1>5, <2>1, <2>2, <2>3
  <2>7. Trails(Step(a, wen), Step(b, ren), r, r1, v)
    BY <2>5, <2>6, Trailing
  <2> QED
    BY <2>1, <2>2, <2>4, <2>7
<1>7. g.rdSeen = gray_conv[r] /\ g.rdSeen2 = gray_conv[r1] /\ r \in Addresses
      /\ g.wr_addr = Step(f.wr_addr, wen)
  BY <1>1, <1>2, <1>3 DEF Writes
<1> QED
  BY <1>6, <1>7 DEF WriterKnows

(* After an edge of the reader, what it knows of the writer is still behind
   it. *)
LEMMA ReaderTicks ==
  ASSUME NEW W, NEW f \in Fifos(W), FifoInv(f), NEW wen \in BOOLEAN, wen => ~f.full,
         NEW ren \in BOOLEAN, ren => ~f.empty, NEW g, NEW h,
         NEW seen \in {gray_conv[f.wr_addr], gray_conv[Step(f.wr_addr, wen)]},
         ReaderKept(f, h), h.mem \in [Addresses -> W], Reads(h, g, ren, seen),
         g.wr_addr = Step(f.wr_addr, wen)
  PROVE  ReaderKnows(g)
<1>1. /\ f.wr_addr \in Addresses /\ f.rd_addr \in Addresses /\ f.empty \in BOOLEAN
      /\ Plus(f.rd_addr, 1) \in Addresses /\ Step(f.wr_addr, wen) \in Addresses
  BY FifoTyped, StepTyped
<1>2. PICK w1, w2 \in Addresses : /\ f.wrSeen = gray_conv[w1] /\ f.wrSeen2 = gray_conv[w2]
                                  /\ Leads(f.wr_addr, f.rd_addr, w1, w2, f.empty)
  BY DEF FifoInv, ReaderKnows
<1>3. PICK w \in {f.wr_addr, Step(f.wr_addr, wen)} : seen = gray_conv[w]
  OBVIOUS
<1>4. g.empty <=> IF ren THEN Plus(f.rd_addr, 1) = w2 ELSE f.empty /\ f.rd_addr = w2
  <2>1. /\ gray_conv[Plus(f.rd_addr, 1)] = gray_conv[w2] <=> Plus(f.rd_addr, 1) = w2
        /\ gray_conv[f.rd_addr] = gray_conv[w2] <=> f.rd_addr = w2
    BY <1>1, GrayInjective
  <2>2. g.empty = IF ren THEN gray_conv[Plus(f.rd_addr, 1)] = f.wrSeen2
                         ELSE f.empty /\ gray_conv[f.rd_addr] = f.wrSeen2
    BY DEF Reads, EmptyNext, ReaderKept
  <2>3. CASE ren
    BY <1>2, <2>1, <2>2, <2>3
  <2>4. CASE ~ren
    BY <1>2, <2>1, <2>2, <2>4
  <2> QED
    BY <2>3, <2>4
<1>5. wen => Dist(f.wr_addr, f.rd_addr) <= Size - 2
  BY FlagsSafe DEF Held
<1>6. Leads(Step(f.wr_addr, wen), Step(f.rd_addr, ren), w, w1, g.empty)
  <2>1. PICK a \in Addresses : a = f.wr_addr
    BY <1>1
  <2>2. PICK b \in Addresses : b = f.rd_addr
    BY <1>1
  <2>3. PICK u \in BOOLEAN : u = f.empty
    BY <1>1
  <2>4. PICK v : v = g.empty
    OBVIOUS
  <2>5. v <=> IF ren THEN Plus(b, 1) = w2 ELSE u /\ b = w2
    BY <1>4, <2>2, <2>3, <2>4
  <2>6. /\ Leads(a, b, w1, w2, u) /\ (ren => ~u) /\ (wen => Dist(a, b) <= Size - 2)
        /\ w \in {a, Step(a, wen)}
    BY <1>2, <1>3, <1>5, <2>1, <2>2, <2>3
  <2>7. Leads(Step(a, wen), Step(b, ren), w, w1, v)
    BY <2>5, <2>6, Leading
  <2> QED
    BY <2>1, <2>2, <2>4, <2>7
<1>7. g.wrSeen = gray_conv[w] /\ g.wrSeen2 = gray_conv[w1] /\ w \in Addresses
      /\ g.rd_addr = Step(f.rd_addr, ren)
  BY <1>1, <1>2, <1>3 DEF Reads, ReaderKept
<1> QED
  BY <1>6, <1>7 DEF ReaderKnows

(* While the clock of one side stands still, what it knew stays true. *)
LEMMA WriterWaits ==
  ASSUME NEW W, NEW f \in Fifos(W), FifoInv(f), NEW ren \in BOOLEAN, ren => ~f.empty,
         NEW g, WriterKept(f, g), g.rd_addr = Step(f.rd_addr, ren)
  PROVE  WriterKnows(g)
<1>1. PICK r1, r2 \in Addresses : /\ f.rdSeen = gray_conv[r1] /\ f.rdSeen2 = gray_conv[r2]
                                  /\ Trails(f.wr_addr, f.rd_addr, r1, r2, f.full)
  BY DEF FifoInv, WriterKnows
<1>2. PICK a \in Addresses : a = f.wr_addr
  BY FifoTyped
<1>3. PICK b \in Addresses : b = f.rd_addr
  BY FifoTyped
<1>4. ren => Dist(a, b) >= 1
  BY <1>2, <1>3, FlagsSafe DEF Held
<1>5. Dist(a, Step(b, ren)) <= Dist(a, b)
  BY <1>4, Moved DEF Step
<1>6. /\ Dist(a, b) \in Nat /\ Dist(a, r1) \in Nat
      /\ Dist(a, Step(b, ren)) \in Nat
  BY StepTyped, Moved
<1>7. Trails(a, Step(b, ren), r1, r2, f.full)
  BY <1>1, <1>2, <1>3, <1>5, <1>6 DEF Trails
<1> QED
  BY <1>1, <1>2, <1>3, <1>7 DEF WriterKnows, WriterKept

(* What the reader knows of the writer stays behind it when only the writer
   ticks. *)
LEMMA ReaderWaits ==
  ASSUME NEW W, NEW f \in Fifos(W), FifoInv(f), NEW wen \in BOOLEAN, wen => ~f.full,
         NEW g, ReaderKept(f, g), g.wr_addr = Step(f.wr_addr, wen)
  PROVE  ReaderKnows(g)
<1>1. PICK w1, w2 \in Addresses : /\ f.wrSeen = gray_conv[w1] /\ f.wrSeen2 = gray_conv[w2]
                                  /\ Leads(f.wr_addr, f.rd_addr, w1, w2, f.empty)
  BY DEF FifoInv, ReaderKnows
<1>2. PICK a \in Addresses : a = f.wr_addr
  BY FifoTyped
<1>3. PICK b \in Addresses : b = f.rd_addr
  BY FifoTyped
<1>4. wen => Dist(a, b) <= Size - 2
  BY <1>2, <1>3, FlagsSafe DEF Held
<1>5. Dist(a, b) <= Dist(Step(a, wen), b)
  BY <1>4, Moved, SizeFacts DEF Step
<1>6. /\ Dist(a, b) \in Nat /\ Dist(w1, b) \in Nat
      /\ Dist(Step(a, wen), b) \in Nat
  BY StepTyped, Moved
<1>7. Leads(Step(a, wen), b, w1, w2, f.empty)
  BY <1>1, <1>2, <1>3, <1>5, <1>6 DEF Leads
<1> QED
  BY <1>1, <1>2, <1>3, <1>7 DEF ReaderKnows, ReaderKept

-----------------------------------------------------------------------------
(* The words in the fifo. *)

Word(f, i) == f.mem[Plus(f.rd_addr, i - 1)]

(* A step of both sides, or of one with the other's enable down, on the data. *)
Moves(f, g, wen, w, ren) ==
  /\ g.wr_addr = Step(f.wr_addr, wen) /\ g.rd_addr = Step(f.rd_addr, ren)
  /\ g.mem = IF wen THEN [f.mem EXCEPT ![f.wr_addr] = w] ELSE f.mem
  /\ g.rd_data = IF ren THEN f.mem[f.rd_addr] ELSE f.rd_data
  /\ g.full => f.full \/ wen

(* The same as the users of the fifo see it. *)
Ticked(f, g, wen, w, ren) ==
  /\ Held(g) = Held(f) + (IF wen THEN 1 ELSE 0) - (IF ren THEN 1 ELSE 0)
  /\ g.rd_data = IF ren THEN Word(f, 1) ELSE f.rd_data
  /\ g.full => f.full \/ wen
  /\ \A i \in 1..Held(g) :
       Word(g, i) = IF wen /\ i = Held(g) THEN w ELSE Word(f, IF ren THEN i + 1 ELSE i)

(* The words held and the word read after the edges, from the addresses and
   the memory. *)
LEMMA FifoTicks ==
  ASSUME NEW W, NEW f \in Fifos(W), FifoInv(f), NEW wen \in BOOLEAN, wen => ~f.full,
         NEW ren \in BOOLEAN, ren => ~f.empty, NEW w, NEW g, Moves(f, g, wen, w, ren)
  PROVE  Ticked(f, g, wen, w, ren)
<1>1. PICK a \in Addresses : a = f.wr_addr
  BY FifoTyped
<1>2. PICK b \in Addresses : b = f.rd_addr
  BY FifoTyped
<1>3. PICK c \in Addresses : c = Step(a, wen)
  BY StepTyped
<1>4. PICK d \in Addresses : d = Step(b, ren)
  BY StepTyped
<1>5. g.wr_addr = c /\ g.rd_addr = d
  BY <1>1, <1>2, <1>3, <1>4 DEF Moves
<1>6. PICK n \in Nat : n = Dist(a, b)
  BY Moved
<1>7. /\ n <= Size - 1 /\ Size \in Nat /\ Size >= 4
      /\ wen => n <= Size - 2
      /\ ren => n >= 1
  BY <1>1, <1>2, <1>6, FlagsSafe, SizeFacts DEF Held
<1>8. PICK m \in Nat : m = Dist(c, d)
  BY Moved
<1>9. m = n + (IF wen THEN 1 ELSE 0) - (IF ren THEN 1 ELSE 0)
  <2>1. wen => Dist(Plus(a, 1), b) = n + 1
    BY <1>6, <1>7, Moved
  <2>2. ren => Dist(a, Plus(b, 1)) = n - 1
    BY <1>6, <1>7, Moved
  <2>3. Dist(Plus(a, 1), Plus(b, 1)) = n
    BY <1>6, Moved
  <2> QED
    BY <1>3, <1>4, <1>6, <1>8, <2>1, <2>2, <2>3 DEF Step
<1>10. Held(g) = m /\ Held(f) = n
  BY <1>1, <1>2, <1>5, <1>6, <1>8 DEF Held
<1>11. Plus(b, 0) = b
  BY CircleFacts
<1>12. g.rd_data = IF ren THEN Word(f, 1) ELSE f.rd_data
  BY <1>2, <1>11 DEF Moves, Word
<1>13. ASSUME NEW i \in 1..m
       PROVE  Word(g, i) = IF wen /\ i = m THEN w ELSE Word(f, IF ren THEN i + 1 ELSE i)
  <2>1. i \in Nat /\ 1 <= i /\ i <= m /\ i - 1 \in Nat /\ i - 1 < Size /\ m <= Size - 1
    BY <1>7, <1>9
  <2>2. i - 1 \in Addresses
    BY <2>1, <1>7 DEF Addresses
  <2>3. PICK k \in Addresses : k = Plus(b, IF ren THEN i ELSE i - 1)
    <3>1. (IF ren THEN i ELSE i - 1) \in Addresses
      BY <1>7, <2>1, <2>2 DEF Addresses
    <3>2. PICK j \in Addresses : j = IF ren THEN i ELSE i - 1
      BY <3>1
    <3>3. j \in Nat /\ j < Size /\ b \in Nat /\ b < Size /\ Size \in Nat
      BY CircleFacts
    <3>4. Plus(b, j) = IF b + j < Size THEN b + j ELSE b + j - Size
      BY CircleFacts
    <3>5. Plus(b, j) \in Addresses
      BY <3>3, <3>4 DEF Addresses
    <3> QED
      BY <3>2, <3>5
  <2>4. Plus(d, i - 1) = k
    <3>1. CASE ren
      <4>1. d = IF b + 1 < Size THEN b + 1 ELSE 0
        BY <1>4, <3>1, CircleFacts DEF Step
      <4>2. Plus(d, i - 1) = IF d + (i - 1) < Size THEN d + (i - 1) ELSE d + (i - 1) - Size
        BY <2>2, CircleFacts
      <4>3. i \in Addresses
        BY <1>7, <2>1 DEF Addresses
      <4>4. Plus(b, i) = IF b + i < Size THEN b + i ELSE b + i - Size
        BY <4>3, CircleFacts
      <4>5. b \in Nat /\ b < Size
        BY CircleFacts
      <4> QED
        BY <1>7, <2>1, <2>3, <3>1, <4>1, <4>2, <4>4, <4>5
    <3>2. CASE ~ren
      BY <1>4, <2>3, <3>2 DEF Step
    <3> QED
      BY <3>1, <3>2
  <2>5. Word(f, IF ren THEN i + 1 ELSE i) = f.mem[k]
    <3>1. (i + 1) - 1 = i
      BY <2>1
    <3> QED
      BY <1>2, <2>3, <3>1 DEF Word
  <2>6. Word(g, i) = g.mem[k]
    BY <1>5, <2>4 DEF Word
  <2>7. wen => (k = a <=> i = m)
    <3>1. Dist(a, b) = IF b <= a THEN a - b ELSE a - b + Size
      BY CircleFacts
    <3>2. a \in Nat /\ b \in Nat /\ a < Size /\ b < Size
      BY CircleFacts
    <3>3. (IF ren THEN i ELSE i - 1) \in Addresses
      BY <1>7, <2>1, <2>2 DEF Addresses
    <3>4. PICK j \in Addresses : j = IF ren THEN i ELSE i - 1
      BY <3>3
    <3>5. k = IF b + j < Size THEN b + j ELSE b + j - Size
      BY <2>3, <3>4, CircleFacts
    <3>6. j \in Nat /\ j < Size
      BY CircleFacts
    <3>7. wen => (i = m <=> j = n)
      BY <1>7, <1>9, <2>1, <3>4
    <3>8. k = a <=> j = n
      BY <1>6, <1>7, <3>1, <3>2, <3>5, <3>6
    <3> QED
      BY <3>7, <3>8
  <2>8. g.mem[k] = IF wen /\ k = a THEN w ELSE f.mem[k]
    <3>1. g.mem = IF wen THEN [f.mem EXCEPT ![a] = w] ELSE f.mem
      BY <1>1 DEF Moves
    <3>2. DOMAIN f.mem = Addresses
      BY FifoTyped
    <3> QED
      BY <3>1, <3>2
  <2> QED
    BY <2>5, <2>6, <2>7, <2>8
<1>14. g.full => f.full \/ wen
  BY DEF Moves
<1> QED
  BY <1>9, <1>10, <1>12, <1>13, <1>14 DEF Ticked

(* Addresses have codes. *)
LEMMA GrayTyped ==
  ASSUME NEW a \in Addresses
  PROVE  gray_conv[a] \in Codes
BY GrayFacts DEF Codes

(* The full flag rises only with a write. *)
LEMMA FullRises ==
  ASSUME NEW W, NEW f \in Fifos(W), NEW g, NEW wen \in BOOLEAN, NEW w, NEW seen,
         Writes(f, g, wen, w, seen), g.full
  PROVE  f.full \/ wen
BY FifoTyped DEF Writes, FullNext

(* An edge of the writer alone, which may catch the read address at rest. *)
LEMMA WriteOnlyStep ==
  ASSUME NEW W, NEW f \in Fifos(W), FifoInv(f), NEW wen \in BOOLEAN, wen => ~f.full,
         NEW w, wen => w \in W, NEW g \in WriteOnly(f, wen, w)
  PROVE  g \in Fifos(W) /\ FifoInv(g) /\ Ticked(f, g, wen, w, FALSE)
<1> DEFINE seen == gray_conv[f.rd_addr]
<1>1. seen \in Codes /\ seen \in {gray_conv[f.rd_addr], gray_conv[Step(f.rd_addr, FALSE)]}
  BY FifoTyped, GrayTyped
<1>2. g = WriteEdge(f, wen, w, seen)
  BY DEF WriteOnly
<1> HIDE DEF seen
<1>3. g \in Fifos(W) /\ Writes(f, g, wen, w, seen) /\ ReaderKept(f, g)
  BY <1>1, <1>2, WriteEdgeTyped
<1>4. Moves(f, g, wen, w, FALSE)
  <2>1. g.full => f.full \/ wen
    BY <1>3, FullRises
  <2> QED
    BY <1>3, <2>1 DEF Moves, Writes, ReaderKept, Step
<1>5. WriterKnows(g)
  BY <1>1, <1>3, <1>4, WriterTicks DEF Moves
<1>6. ReaderKnows(g)
  BY <1>3, <1>4, ReaderWaits DEF Moves
<1> QED
  BY <1>3, <1>4, <1>5, <1>6, FifoTicks DEF FifoInv

(* An edge of the reader alone, which may catch the write address at rest. *)
LEMMA ReadOnlyStep ==
  ASSUME NEW W, NEW f \in Fifos(W), FifoInv(f), NEW ren \in BOOLEAN, ren => ~f.empty,
         NEW w, NEW g \in ReadOnly(f, ren)
  PROVE  g \in Fifos(W) /\ FifoInv(g) /\ Ticked(f, g, FALSE, w, ren)
<1> DEFINE seen == gray_conv[f.wr_addr]
<1>1. seen \in Codes /\ seen \in {gray_conv[f.wr_addr], gray_conv[Step(f.wr_addr, FALSE)]}
  BY FifoTyped, GrayTyped
<1>2. g = ReadEdge(f, ren, seen)
  BY DEF ReadOnly
<1> HIDE DEF seen
<1>3. g \in Fifos(W) /\ Reads(f, g, ren, seen) /\ WriterKept(f, g)
  BY <1>1, <1>2, ReadEdgeTyped
<1>4. Moves(f, g, FALSE, w, ren)
  BY <1>3 DEF Moves, Reads, WriterKept, Step
<1>5. WriterKnows(g)
  BY <1>3, <1>4, WriterWaits DEF Moves
<1>6. ReaderKept(f, f) /\ f.mem \in [Addresses -> W] /\ g.wr_addr = Step(f.wr_addr, FALSE)
  BY <1>4, FifoTyped DEF ReaderKept, Moves
<1>7. ReaderKnows(g)
  BY <1>1, <1>3, <1>6, ReaderTicks
<1> QED
  BY <1>3, <1>4, <1>5, <1>7, FifoTicks DEF FifoInv

(* What a register catches of an address that may change is the address before  *)
(* or after.                                                                 *)
LEMMA CaughtStep ==
  ASSUME NEW a \in Addresses, NEW en \in BOOLEAN, NEW c \in Caught[a][Step(a, en)]
  PROVE  c \in Codes /\ c \in {gray_conv[a], gray_conv[Step(a, en)]}
<1>1. c \in Codes
  BY StepTyped DEF Caught
<1>2. CASE en
  <2>1. Step(a, en) = Plus(a, 1)
    BY <1>2 DEF Step
  <2>2. c \in Caught[a][Plus(a, 1)]
    BY <2>1
  <2>3. c = gray_conv[a] \/ c = gray_conv[Plus(a, 1)]
    BY <2>2, StepTyped, CaughtOldOrNew
  <2> QED
    BY <1>1, <2>1, <2>3
<1>3. CASE ~en
  BY <1>1, <1>3, CaughtOld DEF Step
<1> QED
  BY <1>2, <1>3

(* Edges of both at once, when each may catch the other's address as it
   changes. *)
LEMMA TogetherStep ==
  ASSUME NEW W, NEW f \in Fifos(W), FifoInv(f), NEW wen \in BOOLEAN, wen => ~f.full,
         NEW ren \in BOOLEAN, ren => ~f.empty, NEW w, wen => w \in W,
         NEW g \in Together(f, wen, w, ren)
  PROVE  g \in Fifos(W) /\ FifoInv(g) /\ Ticked(f, g, wen, w, ren)
<1>1. PICK rs \in Caught[f.rd_addr][Step(f.rd_addr, ren)],
           ws \in Caught[f.wr_addr][Step(f.wr_addr, wen)] :
        g = ReadEdge(WriteEdge(f, wen, w, rs), ren, ws)
  BY DEF Together, Step
<1>2. f.rd_addr \in Addresses /\ f.wr_addr \in Addresses
  BY FifoTyped
<1>3. rs \in Codes /\ rs \in {gray_conv[f.rd_addr], gray_conv[Step(f.rd_addr, ren)]}
  BY <1>2, CaughtStep
<1>4. ws \in Codes /\ ws \in {gray_conv[f.wr_addr], gray_conv[Step(f.wr_addr, wen)]}
  BY <1>2, CaughtStep
<1>5. PICK h : h = WriteEdge(f, wen, w, rs)
  OBVIOUS
<1>6. h \in Fifos(W) /\ Writes(f, h, wen, w, rs) /\ ReaderKept(f, h)
  BY <1>3, <1>5, WriteEdgeTyped
<1>7. g = ReadEdge(h, ren, ws)
  BY <1>1, <1>5
<1>8. g \in Fifos(W) /\ Reads(h, g, ren, ws) /\ WriterKept(h, g)
  BY <1>4, <1>6, <1>7, ReadEdgeTyped
<1>9. Writes(f, g, wen, w, rs)
  BY <1>6, <1>8 DEF Writes, WriterKept
<1>10. g.wr_addr = Step(f.wr_addr, wen) /\ g.rd_addr = Step(f.rd_addr, ren)
  BY <1>6, <1>8, <1>9 DEF Writes, Reads, ReaderKept
<1>11. WriterKnows(g)
  BY <1>3, <1>9, <1>10, WriterTicks
<1>12. h.mem \in [Addresses -> W]
  BY <1>6, FifoTyped
<1>13. ReaderKnows(g)
  BY <1>4, <1>6, <1>8, <1>10, <1>12, ReaderTicks
<1>14. ren => f.wr_addr # f.rd_addr
  <2>1. ren => Held(f) >= 1
    BY FlagsSafe
  <2> QED
    BY <1>2, <2>1, Moved DEF Held
<1>15. g.rd_data = IF ren THEN f.mem[f.rd_addr] ELSE f.rd_data
  <2>1. g.rd_data = IF ren THEN h.mem[f.rd_addr] ELSE f.rd_data
    BY <1>6, <1>8 DEF Reads, ReaderKept
  <2>2. ren => h.mem[f.rd_addr] = f.mem[f.rd_addr]
    BY <1>2, <1>6, <1>14, FifoTyped DEF Writes
  <2> QED
    BY <2>1, <2>2
<1>16. Moves(f, g, wen, w, ren)
  <2>1. g.full => f.full \/ wen
    BY <1>9, FullRises
  <2> QED
    BY <1>9, <1>10, <1>15, <2>1 DEF Moves, Writes
<1> QED
  BY <1>8, <1>11, <1>13, <1>16, FifoTicks DEF FifoInv

(* The reset. *)
LEMMA EmptyStart ==
  ASSUME NEW W, NEW w \in W, NEW f, f = EmptyFifo(w)
  PROVE  /\ f \in Fifos(W) /\ FifoInv(f) /\ Held(f) = 0 /\ f.rd_data = w
         /\ f.empty = TRUE /\ f.full = FALSE
<1>1. 0 \in Addresses /\ Size \in Nat /\ Size >= 4
  BY SizeFacts DEF Addresses
<1>2. gray_conv[0] \in Codes
  BY <1>1, GrayTyped
<1>3. [a \in Addresses |-> w] \in [Addresses -> W]
  OBVIOUS
<1>4. f \in Fifos(W)
  BY <1>1, <1>2, <1>3 DEF EmptyFifo, Fifos
<1>5. /\ f.wr_addr = 0 /\ f.rd_addr = 0 /\ f.rdSeen = gray_conv[0] /\ f.rdSeen2 = gray_conv[0]
      /\ f.wrSeen = gray_conv[0] /\ f.wrSeen2 = gray_conv[0]
      /\ f.full = FALSE /\ f.empty = TRUE /\ f.rd_data = w
  BY DEF EmptyFifo
<1>6. Dist(0, 0) = 0
  BY <1>1, Moved
<1>7. Trails(0, 0, 0, 0, FALSE) /\ Leads(0, 0, 0, 0, TRUE)
  BY <1>1, <1>6 DEF Trails, Leads
<1>8. WriterKnows(f)
  BY <1>1, <1>5, <1>7 DEF WriterKnows
<1>9. ReaderKnows(f)
  BY <1>1, <1>5, <1>7 DEF ReaderKnows
<1> QED
  BY <1>4, <1>5, <1>6, <1>8, <1>9 DEF FifoInv, Held

-----------------------------------------------------------------------------
(* The fifo as a queue. *)

(* The contents are the words of the held places, oldest first. *)
LEMMA ContentsWords ==
  ASSUME NEW W, NEW f \in Fifos(W)
  PROVE  /\ Held(f) \in Nat
         /\ Contents(f) \in Seq(W) /\ Len(Contents(f)) = Held(f)
         /\ DOMAIN Contents(f) = 1..Held(f)
         /\ \A i \in 1..Held(f) : Word(f, i) \in W /\ Contents(f)[i] = Word(f, i)
<1>1. f.wr_addr \in Addresses /\ f.rd_addr \in Addresses /\ f.mem \in [Addresses -> W]
  BY FifoTyped
<1>2. PICK n \in Nat : n = Held(f) /\ n <= Size - 1
  BY <1>1, Moved DEF Held
<1>3. Contents(f) = [i \in 1..n |-> Word(f, i)]
  BY <1>2 DEF Contents, Word, Held, Dist
<1>4. ASSUME NEW i \in 1..n PROVE Word(f, i) \in W
  <2>1. i - 1 \in Addresses
    BY <1>2, SizeFacts DEF Addresses
  <2>2. PICK b \in Addresses : b = f.rd_addr
    BY <1>1
  <2>3. PICK j \in Addresses : j = i - 1
    BY <2>1
  <2>4. /\ b \in Nat /\ b < Size /\ j \in Nat /\ j < Size /\ Size \in Nat
        /\ Plus(b, j) = IF b + j < Size THEN b + j ELSE b + j - Size
    BY CircleFacts
  <2>5. Plus(b, j) \in Addresses
    BY <2>4 DEF Addresses
  <2> QED
    BY <1>1, <2>2, <2>3, <2>5 DEF Word
<1>5. Contents(f) \in [1..n -> W]
  BY <1>3, <1>4
<1>6. Contents(f) \in Seq(W) /\ Len(Contents(f)) = n
  BY <1>2, <1>5
<1> QED
  BY <1>2, <1>3, <1>4, <1>6

(* A step of the fifo: an edge of one clock or of both. *)
FifoStep(f, g, wen, w, ren) ==
  \/ ~ren /\ g \in WriteOnly(f, wen, w)
  \/ ~wen /\ g \in ReadOnly(f, ren)
  \/ g \in Together(f, wen, w, ren)

(* Every step keeps the invariant of the fifo and has the effect of its
   enables. *)
LEMMA FifoSteps ==
  ASSUME NEW W, NEW f \in Fifos(W), FifoInv(f), NEW wen \in BOOLEAN, wen => ~f.full,
         NEW ren \in BOOLEAN, ren => ~f.empty, NEW w, wen => w \in W,
         NEW g, FifoStep(f, g, wen, w, ren)
  PROVE  g \in Fifos(W) /\ FifoInv(g) /\ Ticked(f, g, wen, w, ren)
<1>1. CASE ~ren /\ g \in WriteOnly(f, wen, w)
  <2>1. g \in Fifos(W) /\ FifoInv(g) /\ Ticked(f, g, wen, w, FALSE)
    BY <1>1, WriteOnlyStep
  <2> QED
    BY <1>1, <2>1
<1>2. CASE ~wen /\ g \in ReadOnly(f, ren)
  <2>1. g \in Fifos(W) /\ FifoInv(g) /\ Ticked(f, g, FALSE, w, ren)
    BY <1>2, ReadOnlyStep
  <2> QED
    BY <1>2, <2>1
<1>3. CASE g \in Together(f, wen, w, ren)
  BY <1>3, TogetherStep
<1> QED
  BY <1>1, <1>2, <1>3 DEF FifoStep

(* What such a step does to a queue q of which the word out was read last. *)
QueueStep(q, out, p, out2, wen, w, ren) ==
  /\ ren => q # << >>
  /\ wen => Len(q) < Size - 1
  /\ out2 = IF ren THEN Head(q) ELSE out
  /\ p = LET rest == IF ren THEN Tail(q) ELSE q IN IF wen THEN Append(rest, w) ELSE rest

(* Whatever the width of the addresses, whichever clock ticks and whatever a      *)
(* register catches of an address that changes: a step of complex_fifo.v appends  *)
(* the word that is written, takes the head that is read, and does nothing else to *)
(* the queue; its flags allow neither into a full nor out of an empty one; and the  *)
(* invariant that this rests on holds again.                                  *)
THEOREM FifoIsQueue ==
  ASSUME NEW W, NEW f \in Fifos(W), FifoInv(f), NEW wen \in BOOLEAN, wen => ~f.full,
         NEW ren \in BOOLEAN, ren => ~f.empty, NEW w, wen => w \in W,
         NEW g, FifoStep(f, g, wen, w, ren)
  PROVE  /\ g \in Fifos(W) /\ FifoInv(g)
         /\ QueueStep(Contents(f), f.rd_data, Contents(g), g.rd_data, wen, w, ren)
<1>1. g \in Fifos(W) /\ FifoInv(g) /\ Ticked(f, g, wen, w, ren)
  BY FifoSteps
<1>2. PICK q \in Seq(W) : q = Contents(f)
  BY ContentsWords
<1>3. PICK p \in Seq(W) : p = Contents(g)
  BY <1>1, ContentsWords
<1>4. PICK n \in Nat : n = Held(f)
  BY ContentsWords
<1>5. PICK m \in Nat : m = Held(g)
  BY <1>1, ContentsWords
<1>6. /\ Len(q) = n /\ Len(p) = m
      /\ \A i \in 1..n : q[i] = Word(f, i)
      /\ \A i \in 1..m : p[i] = Word(g, i)
  BY <1>1, <1>2, <1>3, <1>4, <1>5, ContentsWords
<1>7. /\ m = n + (IF wen THEN 1 ELSE 0) - (IF ren THEN 1 ELSE 0)
      /\ g.rd_data = IF ren THEN Word(f, 1) ELSE f.rd_data
      /\ \A i \in 1..m : Word(g, i) = IF wen /\ i = m THEN w ELSE Word(f, IF ren THEN i + 1 ELSE i)
  BY <1>1, <1>4, <1>5 DEF Ticked
<1>8. (ren => n >= 1) /\ (wen => n <= Size - 2) /\ Size \in Nat
  BY <1>4, FlagsSafe, SizeFacts
<1>9. (ren => q # << >>) /\ (wen => Len(q) < Size - 1)
  BY <1>6, <1>8
<1>10. g.rd_data = IF ren THEN Head(q) ELSE f.rd_data
  BY <1>6, <1>7, <1>8, <1>9
<1>11. PICK r : r = IF ren THEN Tail(q) ELSE q
  OBVIOUS
<1>12. PICK l \in Nat : l = n - (IF ren THEN 1 ELSE 0)
  BY <1>8
<1>13. r \in Seq(W) /\ Len(r) = l /\ \A i \in 1..l : r[i] = Word(f, IF ren THEN i + 1 ELSE i)
  <2>1. CASE ren
    <3>1. r \in Seq(W) /\ Len(r) = l /\ \A i \in 1..l : r[i] = q[i + 1]
      BY <1>6, <1>9, <1>11, <1>12, <2>1, HeadTailProperties
    <3>2. \A i \in 1..l : i + 1 \in 1..n
      BY <1>12, <2>1
    <3> QED
      BY <1>6, <2>1, <3>1, <3>2
  <2>2. CASE ~ren
    BY <1>6, <1>11, <1>12, <2>2
  <2> QED
    BY <2>1, <2>2
<1>14. p = IF wen THEN Append(r, w) ELSE r
  <2>1. CASE wen
    <3>1. m = l + 1
      BY <1>7, <1>12, <2>1
    <3>2. Append(r, w) \in Seq(W) /\ Len(Append(r, w)) = m
      BY <1>13, <2>1, <3>1
    <3>3. ASSUME NEW i \in 1..m PROVE p[i] = Append(r, w)[i]
      <4>1. p[i] = IF i = m THEN w ELSE Word(f, IF ren THEN i + 1 ELSE i)
        BY <1>6, <1>7, <2>1
      <4>2. Append(r, w)[i] = IF i = m THEN w ELSE r[i]
        BY <1>13, <3>1
      <4>3. i # m => i \in 1..l
        BY <3>1
      <4> QED
        BY <1>13, <4>1, <4>2, <4>3
    <3> QED
      BY <1>6, <2>1, <3>2, <3>3, SeqEqual
  <2>2. CASE ~wen
    <3>1. m = l
      BY <1>7, <1>12, <2>2
    <3>2. \A i \in 1..m : p[i] = r[i]
      BY <1>6, <1>7, <1>13, <2>2, <3>1
    <3> QED
      BY <1>6, <1>13, <2>2, <3>1, <3>2, SeqEqual
  <2> QED
    BY <2>1, <2>2
<1> QED
  BY <1>1, <1>2, <1>3, <1>9, <1>10, <1>11, <1>14 DEF QueueStep
==============================================================================
