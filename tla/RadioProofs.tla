----------------------------- MODULE RadioProofs -----------------------------
(***************************************************************************)
(* Proofs about Radio, for both products.  The calls are operators from a     *)
(* system to the systems they may leave, and so are the lemmas: each says      *)
(* what a call keeps or establishes, of any system it may be made in.         *)
(***************************************************************************)
EXTENDS Radio, TLAPS

(* What every call needs of the system it is made in: the transfer is that of   *)
(* the recorded stream, and no radio outputs the LO, as no call ever enables    *)
(* that.                                                                      *)
Callable(x) ==
  /\ x \in Systems
  /\ x.dma # "off" => x.state = x.dma
  /\ \A c \in Radios : ~x.lo[c]

(* StreamPath of any system. *)
PathSet(x) ==
  \A c \in Radios : x.dma = RxStream(c) =>
    /\ x.active[c] /\ x.dir[c] = "rx" /\ x.modem[c] = "rx"
    /\ x.iq = c /\ x.channel = c /\ x.data = 1
    /\ x.state = x.dma /\ x.smi = x.dma

(* QuietWhenInactive and CarrierByMode of one transceiver of any system. *)
AsCommanded(x, c) ==
  /\ x.modem[c] \in Directions => x.active[c] /\ x.dir[c] = x.modem[c]
  /\ x.modem[c] = "tx" => x.dac[c]
  /\ x.modem[c] = "tx_prep" => x.active[c] /\ x.dir[c] = "tx" /\ ~x.dac[c]

Keeps(x, y, c) == AsCommanded(x, c) => AsCommanded(y, c)

(* The inductive invariant. *)
IInv ==
  /\ Callable(sys)
  /\ PathSet(sys)
  /\ sys.up => \A c \in Radios : AsCommanded(sys, c)

-----------------------------------------------------------------------------
(* The driver's outcomes: a transfer runs afterwards only for the stream that   *)
(* was asked for, and is recorded with it.                                    *)
LEMMA DriverResult ==
  ASSUME NEW s \in SC!Streams, NEW d \in SC!RxStreams \cup {"off"}, d # "off" => s = d,
         NEW new \in SC!Streams, NEW r \in SC!SetStateResults(s, d, new)
  PROVE  /\ r.state \in SC!Streams /\ r.dma \in SC!RxStreams \cup {"off"}
         /\ r.dma # "off" => r.dma = new /\ r.state = new /\ r.ret = SC!Success
         /\ new = "idle" => r.dma = "off"
BY DEF SC!SetStateResults, SC!Result, SC!Streams, SC!RxStreams, SC!Success, SC!Again,
       SC!Intr, SC!Failed

(* x and y differ at most in the stream. *)
SameButStream(x, y) ==
  /\ y.up = x.up /\ y.active = x.active /\ y.dir = x.dir /\ y.lo = x.lo /\ y.cw = x.cw
  /\ y.modem = x.modem /\ y.dac = x.dac /\ y.iq = x.iq /\ y.channel = x.channel
  /\ y.data = x.data /\ y.rffe = x.rffe /\ y.mixerLo = x.mixerLo

(* The library's call of the driver changes nothing else, and the library        *)
(* knows of the transfer that runs.                                           *)
LEMMA SetStreamResult ==
  ASSUME NEW x, Callable(x), NEW new \in SC!Streams, NEW y \in SetStream(x, new)
  PROVE  /\ Callable(y)
         /\ SameButStream(x, y)
         /\ y.dma # "off" => y.dma = new /\ y.state = new /\ y.smi = new
         /\ new = "idle" => y.dma = "off"
<1>1. PICK r \in SC!SetStateResults(x.state, x.dma, new) :
        y = [x EXCEPT !.state = r.state, !.dma = r.dma,
                      !.smi = IF r.ret = SC!Success THEN new ELSE @]
  BY DEF SetStream
<1>2. /\ r.state \in SC!Streams /\ r.dma \in SC!RxStreams \cup {"off"}
      /\ r.dma # "off" => r.dma = new /\ r.state = new /\ r.ret = SC!Success
      /\ new = "idle" => r.dma = "off"
  BY DriverResult DEF Callable, Systems
<1> DEFINE l == IF r.ret = SC!Success THEN new ELSE x.smi
<1>3. l \in SC!Streams /\ y = [x EXCEPT !.state = r.state, !.dma = r.dma, !.smi = l]
  BY <1>1 DEF Callable, Systems
<1>4. Callable(y)
  BY <1>2, <1>3 DEF Callable, Systems
<1>5. y.state = r.state /\ y.dma = r.dma /\ y.smi = l /\ SameButStream(x, y)
  BY <1>3 DEF Callable, Systems, SameButStream
<1> QED
  BY <1>2, <1>3, <1>4, <1>5

-----------------------------------------------------------------------------
(* Activation. *)

(* After the first steps nothing is transferred, the radio's transceiver is off   *)
(* and its direction and activity are as asked for; the other radio's          *)
(* transceiver was not touched.                                               *)
LEMMA AtRest ==
  ASSUME NEW x, Callable(x), NEW c \in Radios, NEW d \in Directions, NEW a \in BOOLEAN,
         NEW y \in SetStream(Rest(x, c, d, a), "idle")
  PROVE  /\ Callable(y) /\ PathSet(y) /\ y.up = x.up
         /\ y.dma = "off" /\ y.modem[c] = "trx_off" /\ y.dir[c] = d /\ y.active[c] = a
         /\ \A e \in Radios \ {c} : Keeps(x, y, e)
<1> DEFINE z == Rest(x, c, d, a)
<1>1. Callable(z)
  BY DEF Rest, Callable, Systems
<1>2. "idle" \in SC!Streams
  BY DEF SC!Streams
<1>3. /\ Callable(y) /\ y.dma = "off"
      /\ SameButStream(z, y)
  BY <1>1, <1>2, SetStreamResult
<1>4. /\ y.up = x.up /\ y.dma = "off" /\ y.dac = x.dac
      /\ y.modem = [x.modem EXCEPT ![c] = "trx_off"]
      /\ y.dir = [x.dir EXCEPT ![c] = d] /\ y.active = [x.active EXCEPT ![c] = a]
  BY <1>3 DEF SameButStream, Rest, Callable, Systems
<1>5. y.modem[c] = "trx_off" /\ y.dir[c] = d /\ y.active[c] = a
  BY <1>4 DEF Callable, Systems
<1>6. PathSet(y)
  BY <1>4 DEF PathSet, RxStream
<1>7. \A e \in Radios \ {c} : Keeps(x, y, e)
  BY <1>4 DEF Keeps, AsCommanded, Callable, Systems
<1> QED
  BY <1>3, <1>4, <1>5, <1>6, <1>7

(* Reception: the whole way is set before the driver is asked for the stream.    *)
LEMMA ActivateRxResult ==
  ASSUME NEW x, Callable(x), NEW c \in Radios, x.active[c], x.dir[c] = "rx",
         NEW y \in ActivateRx(TxPrep(x, c), c)
  PROVE  /\ Callable(y) /\ PathSet(y) /\ y.up = x.up
         /\ AsCommanded(y, c) /\ \A e \in Radios \ {c} : Keeps(x, y, e)
<1> DEFINE z == [TxPrep(x, c) EXCEPT !.iq = c, !.channel = c, !.data = 1, !.modem[c] = "rx"]
<1>1. Callable(z)
  BY ZenonT(60) DEF TxPrep, Callable, Systems
<1>2. RxStream(c) \in SC!Streams
  BY DEF RxStream, SC!Streams, SC!RxStreams
<1>3. y \in SetStream(z, RxStream(c))
  BY DEF ActivateRx
<1>4. /\ Callable(y)
      /\ SameButStream(z, y)
      /\ y.dma # "off" => y.dma = RxStream(c) /\ y.state = RxStream(c) /\ y.smi = RxStream(c)
  BY <1>1, <1>2, <1>3, SetStreamResult
<1>5. /\ y.up = x.up /\ y.dac = x.dac
      /\ y.iq = c /\ y.channel = c /\ y.data = 1
      /\ y.modem = [x.modem EXCEPT ![c] = "rx"]
      /\ y.dir = x.dir /\ y.active = x.active
  BY <1>4 DEF SameButStream, TxPrep, Callable, Systems
<1>6. y.modem[c] = "rx"
  BY <1>5 DEF Callable, Systems
<1>7. PathSet(y)
  <2> SUFFICES ASSUME NEW e \in Radios, y.dma = RxStream(e)
               PROVE  e = c /\ y.dma # "off"
    BY <1>4, <1>5, <1>6 DEF PathSet
  <2> QED
    BY <1>4 DEF RxStream, Radios
<1>8. AsCommanded(y, c) /\ \A e \in Radios \ {c} : Keeps(x, y, e)
  BY <1>5, <1>6 DEF Keeps, AsCommanded, Callable, Systems
<1> QED
  BY <1>4, <1>5, <1>7, <1>8

(* Transmission: of samples, of a carrier, and not of the LO.                   *)
LEMMA ActivateTxResult ==
  ASSUME NEW x, Callable(x), NEW c \in Radios, x.active[c], x.dir[c] = "tx", x.dma = "off",
         NEW y \in ActivateTx(TxPrep(x, c), c)
  PROVE  /\ Callable(y) /\ PathSet(y) /\ y.up = x.up
         /\ AsCommanded(y, c) /\ \A e \in Radios \ {c} : Keeps(x, y, e)
<1> DEFINE p == [TxPrep(x, c) EXCEPT !.iq = "both"]
<1>0. ~p.lo[c] /\ p.cw[c] = x.cw[c] /\ x.cw[c] \in BOOLEAN
  BY DEF TxPrep, Callable, Systems
<1>1. CASE x.cw[c]
  <2>1. y = [p EXCEPT !.mixerLo = (@ /\ Product # "full"), !.dac[c] = TRUE, !.modem[c] = "tx"]
    BY <1>0, <1>1 DEF ActivateTx
  <2>2. Callable(y)
    BY <2>1, ZenonT(60) DEF TxPrep, Callable, Systems
  <2>3. /\ y.up = x.up /\ y.dma = "off"
        /\ y.dac = [x.dac EXCEPT ![c] = TRUE] /\ y.modem = [x.modem EXCEPT ![c] = "tx"]
        /\ y.dir = x.dir /\ y.active = x.active
    BY <2>1 DEF TxPrep, Callable, Systems
  <2>4. PathSet(y)
    BY <2>3 DEF PathSet, RxStream
  <2>5. AsCommanded(y, c) /\ \A e \in Radios \ {c} : Keeps(x, y, e)
    BY <2>3 DEF Keeps, AsCommanded, Callable, Systems
  <2> QED
    BY <2>2, <2>3, <2>4, <2>5
<1>2. CASE ~x.cw[c]
  <2> DEFINE z == [p EXCEPT !.dac[c] = FALSE, !.modem[c] = "tx_prep", !.data = 0]
  <2>1. y \in SetStream(z, "tx")
    BY <1>0, <1>2 DEF ActivateTx
  <2>2. Callable(z)
    BY DEF TxPrep, Callable, Systems
  <2>3. /\ Callable(y)
        /\ SameButStream(z, y)
        /\ y.dma # "off" => y.dma = "tx"
    BY <2>1, <2>2, SetStreamResult DEF SC!Streams
  <2>4. y.dma = "off"
    BY <2>3 DEF Callable, Systems, SC!RxStreams
  <2>5. /\ y.up = x.up /\ y.dma = "off"
        /\ y.dac = [x.dac EXCEPT ![c] = FALSE] /\ y.modem = [x.modem EXCEPT ![c] = "tx_prep"]
        /\ y.dir = x.dir /\ y.active = x.active
    BY <2>3, <2>4 DEF SameButStream, TxPrep, Callable, Systems
  <2>6. PathSet(y)
    BY <2>5 DEF PathSet, RxStream
  <2>7. AsCommanded(y, c) /\ \A e \in Radios \ {c} : Keeps(x, y, e)
    BY <2>5 DEF Keeps, AsCommanded, Callable, Systems, Directions
  <2> QED
    BY <2>3, <2>5, <2>6, <2>7
<1> QED
  BY <1>0, <1>1, <1>2

(* What any activation or deactivation leaves, wherever it fails.               *)
LEMMA ActivateResult ==
  ASSUME NEW x, Callable(x), NEW c \in Radios, NEW d \in Directions, NEW a \in BOOLEAN,
         NEW y \in Activate(x, c, d, a)
  PROVE  /\ Callable(y) /\ PathSet(y) /\ y.up = x.up
         /\ AsCommanded(y, c) /\ \A e \in Radios \ {c} : Keeps(x, y, e)
<1> DEFINE rest == SetStream(Rest(x, c, d, a), "idle")
<1>1. ASSUME NEW z \in rest
      PROVE  /\ Callable(z) /\ PathSet(z) /\ z.up = x.up
             /\ z.dma = "off" /\ z.dir[c] = d /\ z.active[c] = a
             /\ AsCommanded(z, c) /\ \A e \in Radios \ {c} : Keeps(x, z, e)
  BY AtRest DEF AsCommanded, Directions
<1>2. CASE y \in rest
  BY <1>1, <1>2
<1>3. CASE y \notin rest
  <2>1. a
    BY <1>3 DEF Activate
  <2>2. PICK z \in rest : y \in IF d = "rx" THEN ActivateRx(TxPrep(z, c), c)
                                ELSE ActivateTx(TxPrep(z, c), c)
    BY <1>3, <2>1 DEF Activate
  <2> HIDE DEF rest
  <2>3. /\ Callable(z) /\ z.up = x.up /\ z.dma = "off" /\ z.dir[c] = d /\ z.active[c]
        /\ \A e \in Radios \ {c} : Keeps(x, z, e)
    BY <1>1, <2>1
  <2>4. /\ Callable(y) /\ PathSet(y) /\ y.up = z.up
        /\ AsCommanded(y, c) /\ \A e \in Radios \ {c} : Keeps(z, y, e)
    <3>1. CASE d = "rx"
      BY <2>2, <2>3, <3>1, ActivateRxResult
    <3>2. CASE d # "rx"
      BY <2>2, <2>3, <3>2, ActivateTxResult DEF Directions
    <3> QED
      BY <3>1, <3>2
  <2> QED
    BY <2>3, <2>4 DEF Keeps
<1> QED
  BY <1>2, <1>3

-----------------------------------------------------------------------------
(* The calls built from activations. *)

(* What a call of the user leaves of an initialised or a fresh system, for all     *)
(* radios.                                                                    *)
Settled(x) == Callable(x) /\ PathSet(x) /\ \A c \in Radios : AsCommanded(x, c)

(* An activation settles the system if the other radio was.                      *)
LEMMA ActivateSettles ==
  ASSUME NEW x, Callable(x), NEW c \in Radios, NEW d \in Directions, NEW a \in BOOLEAN,
         \A e \in Radios \ {c} : AsCommanded(x, e),
         NEW y \in Activate(x, c, d, a)
  PROVE  Settled(y) /\ y.up = x.up
BY ActivateResult DEF Settled, Keeps

(* Tuning turns the transceiver off or to tx_prep, in a system whose transfer     *)
(* may still run; the activation at its end settles that.                      *)
LEMMA SetFrequencySettles ==
  ASSUME NEW x, Settled(x), NEW c \in Radios, NEW region \in Regions(c), NEW b \in BOOLEAN,
         NEW y \in SetFrequency(x, c, region, b)
  PROVE  Settled(y) /\ y.up = x.up
<1> DEFINE full == c = "hif" /\ Product = "full"
           off(z) == [z EXCEPT !.modem[c] = "trx_off"]
           broken == IF ~b THEN x
                     ELSE IF full THEN [off(x) EXCEPT !.rffe = "low_power"]
                     ELSE IF region = "out" THEN x ELSE off(x)
           tuned == IF full THEN TxPrep([broken EXCEPT !.rffe = FrontEnd(region, x.dir[c])], c)
                    ELSE broken
<1>1. x.dir[c] \in Directions /\ x.active[c] \in BOOLEAN
  BY DEF Settled, Callable, Systems
<1>2. Callable(broken) /\ \A e \in Radios \ {c} : AsCommanded(broken, e)
  <2>1. Callable(x) /\ \A e \in Radios : AsCommanded(x, e)
    BY DEF Settled
  <2>2. Callable(off(x)) /\ Callable([off(x) EXCEPT !.rffe = "low_power"])
    BY <2>1 DEF Callable, Systems
  <2>3. /\ \A e \in Radios \ {c} : AsCommanded(off(x), e)
        /\ \A e \in Radios \ {c} : AsCommanded([off(x) EXCEPT !.rffe = "low_power"], e)
    BY <2>1 DEF AsCommanded, Callable, Systems
  <2> QED
    BY <2>1, <2>2, <2>3
<1>3. broken.up = x.up
  BY DEF Settled, Callable, Systems
<1> HIDE DEF broken
<1>4. ASSUME region # "out"
      PROVE  Callable(tuned) /\ tuned.up = x.up /\ \A e \in Radios \ {c} : AsCommanded(tuned, e)
  <2>1. CASE full
    <3> DEFINE z == [broken EXCEPT !.rffe = FrontEnd(region, x.dir[c])]
    <3>1. FrontEnd(region, x.dir[c]) \in {"bypass", "rx_lowpass", "tx_lowpass", "rx_hipass", "tx_hipass"}
      BY <1>4, <2>1 DEF FrontEnd, Regions
    <3>2. Callable(z) /\ z.up = x.up /\ z.modem = broken.modem /\ z.dac = broken.dac
          /\ z.active = broken.active /\ z.dir = broken.dir
      BY <1>2, <1>3, <3>1 DEF Callable, Systems
    <3> HIDE DEF z
    <3>3. /\ Callable(TxPrep(z, c)) /\ TxPrep(z, c).up = x.up
          /\ \A e \in Radios \ {c} : AsCommanded(TxPrep(z, c), e)
      BY <1>2, <3>2, SMTT(30) DEF TxPrep, AsCommanded, Callable, Systems
    <3> QED
      BY <2>1, <3>3 DEF z
  <2> QED
    BY <1>2, <1>3, <2>1
<1> HIDE DEF tuned
<1>5. CASE region = "out"
  <2>1. PICK a \in BOOLEAN : y \in Activate(broken, c, x.dir[c], a)
    BY <1>5 DEF SetFrequency, broken
  <2> QED
    BY <1>1, <1>2, <1>3, <2>1, ActivateSettles
<1>6. CASE region # "out"
  <2>1. PICK a \in BOOLEAN : y \in Activate(tuned, c, x.dir[c], a)
    BY <1>1, <1>6 DEF SetFrequency, tuned, broken
  <2> QED
    BY <1>1, <1>4, <1>6, <2>1, ActivateSettles
<1> QED
  BY <1>5, <1>6

(* A call that changes no more than the stream settles. *)
LEMMA WriteSettles ==
  ASSUME NEW x, Settled(x), NEW y \in SetStream(x, "tx")
  PROVE  Settled(y) /\ y.up = x.up
<1>1. /\ Callable(y) /\ SameButStream(x, y)
      /\ y.dma # "off" => y.dma = "tx"
  BY SetStreamResult DEF Settled, SC!Streams
<1>2. PathSet(y)
  BY <1>1 DEF PathSet, RxStream, Callable, Systems, SC!RxStreams
<1>3. \A c \in Radios : AsCommanded(y, c)
  BY <1>1 DEF SameButStream, AsCommanded, Settled
<1> QED
  BY <1>1, <1>2, <1>3 DEF Settled, SameButStream

(* The carrier and LO flags move nothing by themselves, and LO stays off.        *)
LEMMA SetCwSettles ==
  ASSUME NEW x, Settled(x), NEW c \in Radios, NEW lo \in BOOLEAN, NEW cw \in BOOLEAN,
         NEW y \in SetCwOutputs(x, c, lo, cw)
  PROVE  Settled(y) /\ y.up = x.up
<1>1. y = [x EXCEPT !.lo[c] = (x.lo[c] /\ c = "hif" /\ lo), !.cw[c] = cw]
  BY DEF SetCwOutputs
<1>2. ~x.lo[c]
  BY DEF Settled, Callable
<1>3. /\ y \in Systems /\ y.lo = [x.lo EXCEPT ![c] = FALSE]
      /\ y.up = x.up /\ y.active = x.active /\ y.dir = x.dir /\ y.modem = x.modem
      /\ y.dac = x.dac /\ y.iq = x.iq /\ y.channel = x.channel /\ y.data = x.data
      /\ y.state = x.state /\ y.dma = x.dma /\ y.smi = x.smi
  BY <1>1, <1>2 DEF Settled, Callable, Systems
<1>4. Callable(y)
  BY <1>3 DEF Settled, Callable, Systems
<1>5. PathSet(y)
  BY <1>3 DEF Settled, PathSet
<1>6. \A e \in Radios : AsCommanded(y, e)
  BY <1>3 DEF Settled, AsCommanded
<1> QED
  BY <1>3, <1>4, <1>5, <1>6 DEF Settled

(* The driver's idle stops the transfer. *)
LEMMA DriverIdleResult ==
  ASSUME NEW x, Callable(x), NEW y \in DriverIdle(x)
  PROVE  /\ Callable(y) /\ PathSet(y) /\ y.dma = "off" /\ SameButStream(x, y)
<1>1. PICK r \in SC!SetStateResults(x.state, x.dma, "idle") :
        y = [x EXCEPT !.state = r.state, !.dma = r.dma]
  BY DEF DriverIdle
<1>2. r.state \in SC!Streams /\ r.dma = "off"
  <2>1. "idle" \in SC!Streams /\ x.state \in SC!Streams /\ x.dma \in SC!RxStreams \cup {"off"}
    BY DEF Callable, Systems, SC!Streams
  <2> QED
    BY <2>1, DriverResult, SMTT(30) DEF Callable
<1>3. Callable(y) /\ y.dma = "off" /\ SameButStream(x, y)
  BY <1>1, <1>2 DEF Callable, Systems, SameButStream
<1> QED
  BY <1>3 DEF PathSet, RxStream

-----------------------------------------------------------------------------
(* Set-up, release and the end of the process. *)

(* The first activation and deactivation of a radio settle its transceiver.      *)
LEMMA RadioInitResult ==
  ASSUME NEW x, Callable(x), NEW c \in Radios, NEW y \in RadioInit(x, c)
  PROVE  /\ Callable(y) /\ PathSet(y) /\ AsCommanded(y, c)
         /\ \A e \in Radios \ {c} : Keeps(x, y, e)
<1> DEFINE z == [x EXCEPT !.lo[c] = FALSE, !.cw[c] = FALSE]
<1>1. Callable(z) /\ \A e \in Radios \ {c} : Keeps(x, z, e)
  BY DEF Callable, Systems, Keeps, AsCommanded
<1>2. PICK u \in Activate(z, c, "rx", TRUE) : y \in Activate(u, c, "rx", FALSE)
  BY DEF RadioInit, Then
<1> HIDE DEF z
<1>3. Callable(u) /\ \A e \in Radios \ {c} : Keeps(z, u, e)
  <2> DEFINE d == "rx"  a == TRUE
  <2>1. d \in Directions /\ a \in BOOLEAN /\ u \in Activate(z, c, d, a)
    BY <1>2 DEF Directions
  <2> HIDE DEF d, a
  <2> QED
    BY <1>1, <2>1, ActivateResult
<1>4. /\ Callable(y) /\ PathSet(y) /\ AsCommanded(y, c)
      /\ \A e \in Radios \ {c} : Keeps(u, y, e)
  <2> DEFINE d == "rx"  a == FALSE
  <2>1. d \in Directions /\ a \in BOOLEAN /\ y \in Activate(u, c, d, a)
    BY <1>2 DEF Directions
  <2> HIDE DEF d, a
  <2> QED
    BY <1>3, <2>1, ActivateResult
<1> QED
  BY <1>1, <1>3, <1>4 DEF Keeps

(* A deactivation, as it occurs in the calls below. *)
LEMMA DeactivateResult ==
  ASSUME NEW x, Callable(x), NEW c \in Radios, NEW y \in Activate(x, c, "rx", FALSE)
  PROVE  /\ Callable(y) /\ PathSet(y) /\ AsCommanded(y, c) /\ y.up = x.up
         /\ \A e \in Radios \ {c} : Keeps(x, y, e)
<1> DEFINE d == "rx"  a == FALSE
<1>1. d \in Directions /\ a \in BOOLEAN /\ y \in Activate(x, c, d, a)
  BY DEF Directions
<1> HIDE DEF d, a
<1> QED
  BY <1>1, ActivateResult

(* Whatever was found, both radios are settled when the system comes up.         *)
LEMMA InitDriverSettles ==
  ASSUME NEW x, Callable(x), NEW y \in InitDriver(x)
  PROVE  Settled(y)
<1> DEFINE low  == Then(DriverIdle(Fresh(x)), LAMBDA z : RadioInit(z, "s1g"))
           high == Then(low, LAMBDA z : RadioInit(z, "hif"))
           off  == Then(high, LAMBDA z : Activate(z, "s1g", "rx", FALSE))
<1>1. Callable(Fresh(x))
  BY DEF Fresh, All, Callable, Systems, SC!Streams
<1>2. "s1g" \in Radios /\ "hif" \in Radios /\ Radios = {"s1g", "hif"}
  BY DEF Radios
<1>3. \A z \in low : Callable(z) /\ AsCommanded(z, "s1g")
  <2> SUFFICES ASSUME NEW z \in low PROVE Callable(z) /\ AsCommanded(z, "s1g")
    OBVIOUS
  <2>1. PICK u \in DriverIdle(Fresh(x)) : z \in RadioInit(u, "s1g")
    BY DEF Then
  <2>2. Callable(u)
    BY <1>1, DriverIdleResult
  <2> QED
    BY <1>2, <2>1, <2>2, RadioInitResult
<1> HIDE DEF low
<1>4. \A z \in high : Settled(z)
  <2> SUFFICES ASSUME NEW z \in high PROVE Settled(z)
    OBVIOUS
  <2>1. PICK u \in low : z \in RadioInit(u, "hif")
    BY DEF Then
  <2> QED
    BY <1>2, <1>3, <2>1, RadioInitResult DEF Settled, Keeps
<1> HIDE DEF high
<1>5. \A z \in off : Settled(z)
  <2> SUFFICES ASSUME NEW z \in off PROVE Settled(z)
    OBVIOUS
  <2>1. PICK u \in high : z \in Activate(u, "s1g", "rx", FALSE)
    BY DEF Then
  <2> QED
    BY <1>2, <1>4, <2>1, DeactivateResult DEF Settled, Keeps
<1> HIDE DEF off
<1>6. PICK z \in Then(off, LAMBDA u : Activate(u, "hif", "rx", FALSE)) : y = [z EXCEPT !.up = TRUE]
  BY DEF InitDriver, low, high, off
<1>7. PICK u \in off : z \in Activate(u, "hif", "rx", FALSE)
  BY <1>6 DEF Then
<1>8. Settled(z)
  BY <1>2, <1>5, <1>7, DeactivateResult DEF Settled, Keeps
<1>9. /\ y \in Systems /\ y.lo = z.lo /\ y.active = z.active /\ y.dir = z.dir /\ y.modem = z.modem
      /\ y.dac = z.dac /\ y.iq = z.iq /\ y.channel = z.channel /\ y.data = z.data
      /\ y.state = z.state /\ y.dma = z.dma /\ y.smi = z.smi
  BY <1>6, <1>8 DEF Settled, Callable, Systems
<1>10. Callable(y) /\ PathSet(y)
  BY <1>8, <1>9 DEF Settled, Callable, PathSet
<1>11. \A c \in Radios : AsCommanded(y, c)
  BY <1>8, <1>9 DEF Settled, AsCommanded
<1> QED
  BY <1>10, <1>11 DEF Settled

(* Disposing a radio deactivates it: the next call can be made.                 *)
LEMMA DisposeResult ==
  ASSUME NEW x, Callable(x), NEW c \in Radios, NEW y \in Dispose(x, c)
  PROVE  Callable(y)
<1>1. PICK z \in Activate(x, c, "rx", FALSE) :
        y = [z EXCEPT !.modem[c] = "trx_off", !.rffe = IF c = "hif" THEN "low_power" ELSE @]
  BY DEF Dispose
<1>2. Callable(z)
  BY DeactivateResult
<1> QED
  BY <1>1, <1>2, ZenonT(60) DEF Callable, Systems

(* A release leaves no transfer running.                                        *)
LEMMA ReleaseDriverResult ==
  ASSUME NEW x, Callable(x), NEW y \in ReleaseDriver(x)
  PROVE  Callable(y) /\ PathSet(y) /\ ~y.up
<1> DEFINE disposed == Then(Dispose(x, "s1g"), LAMBDA z : Dispose(z, "hif"))
<1>1. "s1g" \in Radios /\ "hif" \in Radios
  BY DEF Radios
<1>2. \A z \in disposed : Callable(z)
  <2> SUFFICES ASSUME NEW z \in disposed PROVE Callable(z)
    OBVIOUS
  <2>1. PICK u \in Dispose(x, "s1g") : z \in Dispose(u, "hif")
    BY DEF Then
  <2> QED
    BY <1>1, <2>1, DisposeResult
<1> HIDE DEF disposed
<1>3. PICK z \in Then(disposed, DriverIdle) :
        y = [z EXCEPT !.modem = All("trx_off"), !.iq = "none", !.up = FALSE]
  BY DEF ReleaseDriver, disposed
<1>4. PICK u \in disposed : z \in DriverIdle(u)
  BY <1>3 DEF Then
<1>5. Callable(z) /\ z.dma = "off"
  BY <1>2, <1>4, DriverIdleResult
<1>6. Callable(y) /\ y.dma = "off" /\ ~y.up
  BY <1>3, <1>5 DEF Callable, Systems, All
<1> QED
  BY <1>6 DEF PathSet, RxStream

(* Nor does the death of the process.                                           *)
LEMMA DieResult ==
  ASSUME NEW x, Callable(x), NEW y \in Die(x)
  PROVE  Callable(y) /\ PathSet(y) /\ ~y.up
<1> DEFINE z == [x EXCEPT !.up = FALSE, !.active = All(FALSE), !.dir = All("rx"),
                          !.lo = All(FALSE), !.cw = All(FALSE), !.smi = "idle"]
<1>1. Callable(z) /\ ~z.up
  BY DEF Callable, Systems, All, Directions, SC!Streams
<1>2. y \in DriverIdle(z)
  BY DEF Die
<1> HIDE DEF z
<1> QED
  BY <1>1, <1>2, DriverIdleResult DEF SameButStream

-----------------------------------------------------------------------------
(* The calls of the user, one by one. *)

(* The invariant holds before the first set-up.                                 *)
LEMMA InitInvariant == Init => IInv
<1> SUFFICES ASSUME Init PROVE IInv
  OBVIOUS
<1>1. Callable(sys)
  BY DEF Init, Callable, Systems, All, Radios, Directions, SC!Streams, SC!RxStreams
<1>2. sys.dma = "off" /\ ~sys.up
  BY DEF Init
<1> QED
  BY <1>1, <1>2 DEF IInv, PathSet, RxStream

(* Each call keeps it.                                                         *)
LEMMA StepInvariant == IInv /\ [Next]_vars => IInv'
<1> SUFFICES ASSUME IInv, [Next]_vars PROVE IInv'
  OBVIOUS
<1> USE DEF IInv
<1>0. sys.up => Settled(sys)
  BY DEF Settled
<1>a. ASSUME Settled(sys') PROVE IInv'
  BY <1>a DEF Settled, Callable, PathSet, AsCommanded
<1>b. ASSUME Callable(sys'), PathSet(sys'), ~sys'.up PROVE IInv'
  BY <1>b DEF Callable, PathSet
<1>1. CASE SetUp
  BY <1>1, <1>a, InitDriverSettles DEF SetUp, Call, Callable
<1>2. CASE Release
  BY <1>2, <1>b, ReleaseDriverResult DEF Release, Call
<1>3. CASE Kill
  BY <1>3, <1>b, DieResult DEF Kill, Call
<1>4. CASE WriteSamples
  BY <1>0, <1>4, <1>a, WriteSettles DEF WriteSamples, Call
<1>5. ASSUME NEW c \in Radios, NEW d \in Directions, ActivateChannel(c, d) PROVE IInv'
  <2> DEFINE a == TRUE
  <2>1. a \in BOOLEAN /\ sys' \in Activate(sys, c, d, a) /\ Settled(sys)
    BY <1>0, <1>5 DEF ActivateChannel, Call
  <2> HIDE DEF a
  <2> QED
    BY <1>a, <2>1, ActivateSettles DEF Settled
<1>6. ASSUME NEW c \in Radios, NEW d \in Directions, DeactivateChannel(c, d) PROVE IInv'
  <2> DEFINE a == FALSE
  <2>1. a \in BOOLEAN /\ sys' \in Activate(sys, c, d, a) /\ Settled(sys)
    BY <1>0, <1>6 DEF DeactivateChannel, Call
  <2> HIDE DEF a
  <2> QED
    BY <1>a, <2>1, ActivateSettles DEF Settled
<1>7. ASSUME NEW c \in Radios, NEW region \in Regions(c), NEW b \in BOOLEAN, Tune(c, region, b)
      PROVE  IInv'
  BY <1>0, <1>7, <1>a, SetFrequencySettles DEF Tune, Call
<1>8. ASSUME NEW c \in Radios, NEW lo \in BOOLEAN, NEW cw \in BOOLEAN, SetCw(c, lo, cw)
      PROVE  IInv'
  BY <1>0, <1>8, <1>a, SetCwSettles DEF SetCw, Call
<1>9. CASE UNCHANGED vars
  BY <1>9 DEF vars, Callable, PathSet, AsCommanded
<1> QED
  BY <1>1, <1>2, <1>3, <1>4, <1>5, <1>6, <1>7, <1>8, <1>9 DEF Next

(* The inductive invariant: whatever the calls and their failures, the transfer    *)
(* is the recorded stream's, the way of its samples is set, and while the         *)
(* system is up every transceiver is as it was last commanded.                   *)
THEOREM Invariance == Spec => []IInv
BY InitInvariant, StepInvariant, PTL DEF Spec

(* Every call leaves a system: the types (cariboulite_radio.h:150-192).          *)
THEOREM TypeCorrect == Spec => []TypeOK
<1>1. IInv => TypeOK
  BY DEF IInv, Callable, TypeOK
<1> QED
  BY Invariance, <1>1, PTL

(* While the transfer runs every stage of the way is set for the one radio whose  *)
(* stream it is, on both products (cariboulite_radio.c:1066-1228).              *)
THEOREM StreamPathHolds == Spec => []StreamPath
<1>1. IInv => StreamPath
  BY DEF IInv, PathSet, StreamPath
<1> QED
  BY Invariance, <1>1, PTL

(* No call leaves a transceiver sending or receiving for a radio that is not       *)
(* active in that direction (cariboulite_radio.c:1071-1085, 1033-1053).         *)
THEOREM QuietHolds == Spec => []QuietWhenInactive
<1>1. IInv => QuietWhenInactive
  BY DEF IInv, AsCommanded, QuietWhenInactive
<1> QED
  BY Invariance, <1>1, PTL

(* A sending transceiver has the carrier's constant at its DACs and one that       *)
(* waits for samples has not (cariboulite_radio.c:1181-1221).                   *)
THEOREM CarrierHolds == Spec => []CarrierByMode
<1>1. IInv => CarrierByMode
  BY DEF IInv, AsCommanded, CarrierByMode
<1> QED
  BY Invariance, <1>1, PTL
=============================================================================
