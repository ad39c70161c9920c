-------------------------------- MODULE Radio --------------------------------
(***************************************************************************)
(* libcariboulite/src/cariboulite_radio.c: the two radios of the board and  *)
(* what they share, from the set-up of the system to its release or the      *)
(* death of the process.                                                    *)
(*                                                                          *)
(* Each radio has its own transceiver in the modem.  They share the modem's *)
(* I/Q interface, the stream multiplexer in the FPGA, the RF front end, and  *)
(* the one sample stream of the kernel driver: activating either radio moves *)
(* all of these.  A call of the library is one step: the library has no      *)
(* locks and its users call it from one thread.  What a call can meet on its *)
(* way (a PLL that does not lock, a driver that refuses) makes its outcomes  *)
(* several; the driver's are those of StreamControl, which SmiStreamDev      *)
(* implements.                                                              *)
(***************************************************************************)

CONSTANT Product  (* numeric_product_id: "ism", or "full" with the mixer *)

ASSUME RadioAssumption == Product \in {"ism", "full"}

VARIABLE sys  (* the system: see Systems *)

vars == sys

Radios == {"s1g", "hif"}
Directions == {"rx", "tx"}

SC == INSTANCE StreamControl WITH state <- sys.state, dma <- sys.dma

(* The receive stream of a radio, by its smi_channel_id. *)
RxStream(c) == IF c = "s1g" THEN "rx0" ELSE "rx1"

Systems ==
  [ (* system_status is sys_status_full_init *)
    up : BOOLEAN,
    (* per radio: its fields of cariboulite_radio_state_st *)
    active : [Radios -> BOOLEAN], dir : [Radios -> Directions],
    lo : [Radios -> BOOLEAN], cw : [Radios -> BOOLEAN],
    (* per radio: the state of its transceiver, and a constant at its DACs *)
    modem : [Radios -> {"trx_off", "tx_prep", "tx", "rx"}], dac : [Radios -> BOOLEAN],
    (* the radio the modem's I/Q interface serves *)
    iq : Radios \cup {"both", "none"},
    (* the FPGA: selected radio, direction (1 is to the host), front-end mode *)
    channel : Radios, data : {0, 1},
    rffe : {"low_power", "bypass", "rx_lowpass", "tx_lowpass", "rx_hipass", "tx_hipass"},
    (* does the mixer output its LO? *)
    mixerLo : BOOLEAN,
    (* caribou_smi's idea of the stream, the driver's, and the transfer *)
    smi : SC!Streams, state : SC!Streams, dma : SC!RxStreams \cup {"off"} ]

(* The outcomes of call f in each of the systems xs, the outcomes of the last. *)
Then(xs, f(_)) == UNION {f(x) : x \in xs}

-----------------------------------------------------------------------------
(* Every operator below gives the systems that a call made in system x may      *)
(* leave.                                                                     *)

(* caribou_smi_set_driver_streaming_state: the library's idea of the stream   *)
(* changes only if the driver's did.  No other thread holds write_lock here,   *)
(* so that the call is not interrupted.                                      *)
SetStream(x, new) ==
  { [x EXCEPT !.state = r.state, !.dma = r.dma,
              !.smi = IF r.ret = SC!Success THEN new ELSE @] :
      r \in {r \in SC!SetStateResults(x.state, x.dma, new) : r.ret # SC!Intr} }

(* Variant of ActivateRx: the FPGA's channel is not selected. *)
ActivateRxNoChannel(x, c) ==
  SetStream([x EXCEPT !.iq = c, !.data = 1, !.modem[c] = "rx"], RxStream(c))

(* The I/Q interface and the FPGA first, then the modem, the driver last. *)
ActivateRx(x, c) ==
  SetStream([x EXCEPT !.iq = c, !.channel = c, !.data = 1, !.modem[c] = "rx"], RxStream(c))

(* Variant of ActivateTx: the constant at the DACs is not taken back. *)
ActivateTxKeepsDac(x, c) ==
  IF x.cw[c] THEN {[x EXCEPT !.iq = "both", !.dac[c] = TRUE, !.modem[c] = "tx"]}
  ELSE SetStream([x EXCEPT !.iq = "both", !.data = 0, !.modem[c] = "tx_prep"], "tx")

(* The mixer's LO, a carrier from the modem, or samples: for those the modem  *)
(* waits in tx_prep, and what the driver answers is not looked at before the   *)
(* direction of the data is set.                                              *)
ActivateTx(x, c) ==
  LET y == [x EXCEPT !.iq = "both"] IN
  IF y.lo[c] /\ c = "hif" /\ Product = "full" THEN {[y EXCEPT !.mixerLo = TRUE]}
  ELSE IF y.cw[c]
  THEN {[y EXCEPT !.mixerLo = (@ /\ Product # "full"), !.dac[c] = TRUE, !.modem[c] = "tx"]}
  ELSE SetStream([y EXCEPT !.dac[c] = FALSE, !.modem[c] = "tx_prep", !.data = 0], "tx")

(* Variant of Rest: the transceiver is left as it is. *)
RestModemLeftOn(x, c, d, a) == [x EXCEPT !.dir[c] = d, !.active[c] = a]

(* The first steps of any activation or deactivation. *)
Rest(x, c, d, a) == [x EXCEPT !.dir[c] = d, !.active[c] = a, !.modem[c] = "trx_off"]

TxPrep(x, c) == [x EXCEPT !.modem[c] = "tx_prep"]

(* cariboulite_radio_activate_channel.  A modem PLL that does not lock leaves *)
(* the transceiver off.                                                      *)
Activate(x, c, d, a) ==
  LET rest == SetStream(Rest(x, c, d, a), "idle")
  IN IF ~a THEN rest
     ELSE rest \cup UNION { IF d = "rx" THEN ActivateRx(TxPrep(y, c), c)
                           ELSE ActivateTx(TxPrep(y, c), c) : y \in rest }

(* Where a frequency lies for a radio: "out" of its ranges, inside ("none":    *)
(* no conversion), or where the mixer converts "up" or "down".                *)
Regions(c) ==
  IF c = "hif" /\ Product = "full" THEN {"up", "none", "down", "out"} ELSE {"none", "out"}

(* caribou_fpga_set_io_ctrl_mode, from the conversion and the direction. *)
FrontEnd(region, d) ==
  CASE region = "none" -> "bypass"
    [] region = "up"   -> IF d = "rx" THEN "rx_lowpass" ELSE "tx_lowpass"
    [] region = "down" -> IF d = "rx" THEN "rx_hipass" ELSE "tx_hipass"

(* cariboulite_radio_set_frequency with break_before_make = b.  A frequency    *)
(* out of range deactivates the radio, and so does, with the mixer, a PLL that *)
(* does not lock; otherwise the radio is activated as it was.                  *)
SetFrequency(x, c, region, b) ==
  LET full == c = "hif" /\ Product = "full"
      off(y) == [y EXCEPT !.modem[c] = "trx_off"]
      broken == IF ~b THEN x
                ELSE IF full THEN [off(x) EXCEPT !.rffe = "low_power"]
                ELSE IF region = "out" THEN x ELSE off(x)
      tuned == IF full THEN TxPrep([broken EXCEPT !.rffe = FrontEnd(region, x.dir[c])], c)
               ELSE broken
  IN IF region = "out" THEN Activate(broken, c, x.dir[c], FALSE)
     ELSE Activate(tuned, c, x.dir[c], x.active[c])
          \cup (IF full THEN Activate(tuned, c, x.dir[c], FALSE) ELSE {})

(* cariboulite_radio_set_cw_outputs *)
SetCwOutputs(x, c, lo, cw) == {[x EXCEPT !.lo[c] = (@ /\ c = "hif" /\ lo), !.cw[c] = cw]}

(* cariboulite_radio_init: a fresh structure, activated once and deactivated.  *)
RadioInit(x, c) ==
  Then(Activate([x EXCEPT !.lo[c] = FALSE, !.cw[c] = FALSE], c, "rx", TRUE),
       LAMBDA y : Activate(y, c, "rx", FALSE))

(* cariboulite_radio_dispose *)
Dispose(x, c) ==
  { [y EXCEPT !.modem[c] = "trx_off", !.rffe = IF c = "hif" THEN "low_power" ELSE @] :
      y \in Activate(x, c, "rx", FALSE) }

(* The driver's open and release, which set its stream to idle if they can. *)
DriverIdle(x) ==
  { [x EXCEPT !.state = r.state, !.dma = r.dma] :
      r \in SC!SetStateResults(x.state, x.dma, "idle") }

All(v) == [c \in Radios |-> v]

(* The modem and the mixer after a reset and their initial configuration, and  *)
(* caribou_smi's structure cleared.  The FPGA keeps its registers.             *)
Fresh(x) ==
  [x EXCEPT !.modem = All("trx_off"), !.dac = All(FALSE), !.iq = "both",
            !.mixerLo = FALSE, !.smi = "idle"]

(* cariboulite_init_driver, when it succeeds. *)
InitDriver(x) ==
  LET low  == Then(DriverIdle(Fresh(x)), LAMBDA y : RadioInit(y, "s1g"))
      high == Then(low, LAMBDA y : RadioInit(y, "hif"))
      off  == Then(high, LAMBDA y : Activate(y, "s1g", "rx", FALSE))
  IN {[y EXCEPT !.up = TRUE] : y \in Then(off, LAMBDA y : Activate(y, "hif", "rx", FALSE))}

(* cariboulite_release_driver *)
ReleaseDriver(x) ==
  LET disposed == Then(Dispose(x, "s1g"), LAMBDA y : Dispose(y, "hif"))
  IN {[y EXCEPT !.modem = All("trx_off"), !.iq = "none", !.up = FALSE] :
        y \in Then(disposed, DriverIdle)}

(* The process dies without a word: the kernel closes the device file, and     *)
(* what the library knew is gone.                                             *)
Die(x) ==
  DriverIdle([x EXCEPT !.up = FALSE, !.active = All(FALSE), !.dir = All("rx"),
                       !.lo = All(FALSE), !.cw = All(FALSE), !.smi = "idle"])

-----------------------------------------------------------------------------
(* The calls of the library's user. *)

Init ==
  sys = [ up |-> FALSE, active |-> All(FALSE), dir |-> All("rx"),
             lo |-> All(FALSE), cw |-> All(FALSE), modem |-> All("trx_off"),
             dac |-> All(FALSE), iq |-> "none", channel |-> "s1g", data |-> 0,
             rffe |-> "low_power", mixerLo |-> FALSE,
             smi |-> "idle", state |-> "idle", dma |-> "off" ]

Call(outs) == sys' \in outs

SetUp == ~sys.up /\ Call(InitDriver(sys))

ActivateChannel(c, d) == sys.up /\ Call(Activate(sys, c, d, TRUE))

DeactivateChannel(c, d) == sys.up /\ Call(Activate(sys, c, d, FALSE))

Tune(c, region, b) == sys.up /\ Call(SetFrequency(sys, c, region, b))

SetCw(c, lo, cw) == sys.up /\ Call(SetCwOutputs(sys, c, lo, cw))

(* cariboulite_radio_write_samples, of either radio: caribou_smi_write claims   *)
(* the stream for tx.                                                         *)
WriteSamples == sys.up /\ Call(SetStream(sys, "tx"))

Release == sys.up /\ Call(ReleaseDriver(sys))

Kill == sys.up /\ Call(Die(sys))

Next ==
  \/ SetUp \/ Release \/ Kill \/ WriteSamples
  \/ \E c \in Radios :
       \/ \E d \in Directions : ActivateChannel(c, d) \/ DeactivateChannel(c, d)
       \/ \E region \in Regions(c), b \in BOOLEAN : Tune(c, region, b)
       \/ \E lo, cw \in BOOLEAN : SetCw(c, lo, cw)

Spec == Init /\ [][Next]_vars
-----------------------------------------------------------------------------
TypeOK == sys \in Systems

(* While the transfer runs, every part of the way is set for the one radio     *)
(* whose samples the host believes to read: its transceiver receives, the I/Q   *)
(* interface and the FPGA select it, the data flows to the host, and library    *)
(* and driver agree on the stream, though the library ignores most refusals.    *)
StreamPath ==
  \A c \in Radios : sys.dma = RxStream(c) =>
    /\ sys.active[c] /\ sys.dir[c] = "rx" /\ sys.modem[c] = "rx"
    /\ sys.iq = c /\ sys.channel = c /\ sys.data = 1
    /\ sys.state = sys.dma /\ sys.smi = sys.dma

(* A transceiver sends or receives only for a radio that is active in that      *)
(* direction: no call, failed or not, leaves one on behind the user's back.     *)
QuietWhenInactive ==
  sys.up =>
    \A c \in Radios :
      sys.modem[c] \in Directions => sys.active[c] /\ sys.dir[c] = sys.modem[c]

(* The carrier constant at the DACs of a sending transceiver, and none when     *)
(* the radio waits in tx_prep for samples, whatever it sent before.              *)
CarrierByMode ==
  sys.up => \A c \in Radios :
    /\ sys.modem[c] = "tx" => sys.dac[c]
    /\ sys.modem[c] = "tx_prep" => sys.active[c] /\ sys.dir[c] = "tx" /\ ~sys.dac[c]
=============================================================================
