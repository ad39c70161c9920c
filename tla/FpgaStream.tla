---------------------------- MODULE FpgaStream -----------------------------
(***************************************************************************)
(* The firmware's two sample paths: lvds_rx.v -> rx_fifo -> smi_ctrl.v to     *)
(* the host, and smi_ctrl.v -> tx_fifo -> lvds_tx.v from it, wired as top.v   *)
(* does.  The two have no register in common, so a behaviour follows one.    *)
(*                                                                          *)
(* Three clocks are independent: that of the modem's lines, the system clock  *)
(* and the host's strobes on the memory interface.  A word is a number: the   *)
(* words of a path are numbered in the order they come in, 0 is the zero     *)
(* frame (and what an untouched register holds).                             *)
(*                                                                          *)
(* Both paths start from a complete reset, with all three clocks running.    *)
(***************************************************************************)
EXTENDS ComplexFifo, Sequences, FiniteSets

CONSTANTS
  FrameClocks,   (* modem clocks of an I or Q half frame: 8 in the source      *)
  SyncFrames,    (* sync_duration_frames: 10 in the source                     *)
  StrobeEdges,   (* system clock edges between two strobes of the host: the    *)
                 (* 8 core cycles that caribou_smi programs are two           *)
  MaxRx, MaxTx,  (* bound: words that enter the receive, the transmit path      *)
  MaxSwitches,   (* bound: switches of the radio that is received              *)
  MaxFaults      (* bound: bytes of the host out of their place and changes     *)
                 (* of direction, on the transmit path                        *)

ASSUME FpgaAssumption ==
  /\ FrameClocks \in Nat \ {0, 1} /\ SyncFrames \in Nat \ {0}
  /\ StrobeEdges \in Nat \ {0, 1} /\ MaxRx \in Nat /\ MaxTx \in Nat
  /\ MaxSwitches \in Nat /\ MaxFaults \in Nat

VARIABLES
  path,   (* which path the behaviour follows: "rx" or "tx"                     *)
  fifo,   (* rx_fifo or tx_fifo                                               *)
  smi,    (* smi_ctrl.v: see SmiStates                                         *)
  lines,  (* the modem's side: LvdsRx or LvdsTx                                 *)
  made,   (* history: words that entered the path                              *)
  past    (* history: see PastStates                                           *)

vars == <<path, fifo, smi, lines, made, past>>

Words == 0..(IF MaxRx > MaxTx THEN MaxRx ELSE MaxTx)
Channels == {0, 1}

SmiStates ==
  [ at : 0..3,          (* int_cnt_rx / 8, tx_reg_state: bytes of a word seen   *)
    trigger : BOOLEAN,  (* w_fifo_pull_trigger, w_fifo_push_trigger             *)
    req : BOOLEAN, req1 : BOOLEAN,  (* r_fifo_pull, r_fifo_pull_1; _push        *)
    word : Words,       (* r_fifo_pulled_data, o_tx_fifo_pushed_data            *)
    since : 0..StrobeEdges ]  (* system clock edges since the last strobe       *)

Receivers ==
  [state : {"idle", "i_phase", "q_phase"}, phase : 0..(FrameClocks - 1), push : BOOLEAN]

(* fed: the receivers whose line carries frames.  settled: since that changed, *)
(* the others have ended the frame they were in.  channel: r_channel.          *)
LvdsRx ==
  [rx : [Channels -> Receivers], fed : SUBSET Channels, settled : BOOLEAN, channel : Channels]

(* on: i_tx_state, the direction register being 0.                             *)
LvdsTx ==
  [state : {"sync", "tx"}, phase : 0..(2 * FrameClocks - 1), pulled : BOOLEAN,
   frame : Words, sync : 0..SyncFrames, zero : BOOLEAN, on : BOOLEAN]

(* pos: where the host is in its word.  whole: bytes in their place since the *)
(* first of a word, up to 4.  offered: the last word offered to the tx fifo.    *)
(* sent: the last word on the line.  faults: of MaxSwitches, MaxFaults.         *)
PastStates == [pos : 0..3, whole : 0..4, offered : Words, sent : Words, faults : Nat]

TypeOK ==
  /\ path \in {"rx", "tx"}
  /\ fifo \in Fifos(Words)
  /\ smi \in SmiStates
  /\ lines \in (IF path = "rx" THEN LvdsRx ELSE LvdsTx)
  /\ made \in Words
  /\ past \in PastStates

Init ==
  /\ path \in {"rx", "tx"}
  /\ fifo = EmptyFifo(0)
  /\ smi = [at |-> 0, trigger |-> FALSE, req |-> FALSE, req1 |-> FALSE, word |-> 0,
            since |-> StrobeEdges]
  /\ lines = IF path = "rx"
             THEN [rx |-> [c \in Channels |->
                             [state |-> "idle", phase |-> FrameClocks - 1, push |-> FALSE]],
                   fed |-> {0}, settled |-> TRUE, channel |-> 0]
             ELSE [state |-> "sync", phase |-> 2 * FrameClocks - 1, pulled |-> FALSE,
                   frame |-> 0, sync |-> SyncFrames, zero |-> FALSE, on |-> TRUE]
  /\ made = 0
  /\ past = [pos |-> 0, whole |-> 4, offered |-> 0, sent |-> 0, faults |-> 0]

Fault == past.faults < IF path = "rx" THEN MaxSwitches ELSE MaxFaults

(* The system clock's side of smi_ctrl.v: two registers make an edge out of the *)
(* trigger, a level that lasts from one strobe to the next.                    *)
Sampled(s) ==
  [s EXCEPT !.req = s.trigger, !.req1 = s.req,
            !.since = IF @ < StrobeEdges THEN @ + 1 ELSE @]

(* Variants of Request: without the second register, a level; the other edge.   *)
RequestLevel(s) == s.req
RequestFalling(s) == s.req1 /\ ~s.req

Request(s) == s.req /\ ~s.req1

(***************************************************************************)
(* Receive path.                                                            *)
(***************************************************************************)

(* A receiver on a clock of the modem: r, with the fifo's flag and whether the *)
(* symbol it waits for is there.  The flag is looked at once per frame.        *)
LvdsRxClock(r, full, symbol) ==
  CASE r.state = "idle" ->
         [state |-> IF symbol THEN "i_phase" ELSE "idle",
          phase |-> FrameClocks - 1, push |-> FALSE]
    [] r.state = "i_phase" ->
         [state |-> IF r.phase > 0 THEN "i_phase" ELSE IF symbol THEN "q_phase" ELSE "idle",
          phase |-> IF r.phase > 0 THEN r.phase - 1
                    ELSE IF symbol THEN FrameClocks - 2 ELSE 0,
          push |-> FALSE]
    [] r.state = "q_phase" ->
         [state |-> IF r.phase > 0 THEN "q_phase" ELSE "idle",
          phase |-> IF r.phase > 0 THEN r.phase - 1 ELSE 0,
          push |-> r.phase = 0 /\ ~full]

Busy == {c \in Channels : lines.rx[c].state # "idle"}
Pushed == {c \in Channels : lines.rx[c].push}

(* The lines of the receivers that are fed may carry their symbol, the others   *)
(* never do.  Near the bound the modem begins no more frames.                   *)
LvdsRxNext ==
  LET room == made + Cardinality(Pushed) + Cardinality(Busy \cup lines.fed) <= MaxRx
  IN { [lines EXCEPT !.rx = [c \in Channels |->
                               LvdsRxClock(lines.rx[c], fifo.full, c \in sym)],
                     !.settled = (Busy \cup Pushed \subseteq lines.fed)] :
         sym \in SUBSET (IF room THEN lines.fed ELSE lines.fed \cap Busy) }

(* top.v: w_rx_fifo_push follows the channel register.                          *)
Pushing == lines.rx[lines.channel].push

Offer(en) == IF en THEN made + 1 ELSE made

RxClock ==
  /\ path = "rx"
  /\ fifo' \in WriteOnly(fifo, Pushing, Offer(TRUE))
  /\ made' = Offer(Pushing)
  /\ lines' \in LvdsRxNext
  /\ UNCHANGED <<path, smi, past>>

Pulling == Request(smi) /\ ~fifo.empty

RxSysClock ==
  /\ path = "rx"
  /\ fifo' \in ReadOnly(fifo, Pulling)
  /\ smi' = Sampled(smi)
  /\ UNCHANGED <<path, lines, made, past>>

RxBothClocks ==
  /\ path = "rx"
  /\ fifo' \in Together(fifo, Pushing, Offer(TRUE), Pulling)
  /\ smi' = Sampled(smi)
  /\ made' = Offer(Pushing)
  /\ lines' \in LvdsRxNext
  /\ UNCHANGED <<path, past>>

(* A strobe of SOE: one byte goes to the host.  The second byte of a word pulls  *)
(* the fifo, the fourth takes what the fifo gave last for the next word.  The   *)
(* count of bytes never starts over.  The host's transfers wait for ReadRequest,  *)
(* but how many strobes one request is good for is its DMA's affair: a strobe    *)
(* may also come without it.                                                  *)
RxStrobe ==
  /\ path = "rx"
  /\ smi.since = StrobeEdges
  /\ smi' = [smi EXCEPT !.trigger = (smi.at = 1), !.at = (@ + 1) % 4, !.since = 0,
                        !.word = IF smi.at = 3 THEN fifo.rd_data ELSE @]
  /\ UNCHANGED <<path, fifo, lines, made, past>>

(* o_smi_read_req, which top.v gives to the host while it receives. *)
ReadRequest == ~fifo.empty

(* cariboulite_radio_activate_channel moves the modem's I/Q interface to a     *)
(* radio, or to both, and then the FPGA's channel.                             *)
SelectRadio ==
  /\ path = "rx" /\ Fault
  /\ \E fed \in {{0}, {1}, {0, 1}} : lines' = [lines EXCEPT !.fed = fed, !.settled = FALSE]
  /\ past' = [past EXCEPT !.faults = @ + 1]
  /\ UNCHANGED <<path, fifo, smi, made>>

(* The write of the register over SPI takes longer than the frame that the      *)
(* receiver of the other channel may have begun.                               *)
ReadyFor(c) == lines.fed = {c} /\ lines.settled

SelectChannel ==
  /\ path = "rx"
  /\ \E c \in Channels : ReadyFor(c) /\ lines' = [lines EXCEPT !.channel = c]
  /\ UNCHANGED <<path, fifo, smi, made, past>>

(***************************************************************************)
(* Transmit path.                                                           *)
(***************************************************************************)

(* The host's position after a byte, and how many in a row were in their place. *)
HostByte(inPlace) ==
  LET whole == IF ~inPlace THEN 0
               ELSE IF past.pos = 0 THEN (IF past.whole = 4 THEN 4 ELSE 1)
               ELSE IF past.whole > 0 /\ past.whole < 4 THEN past.whole + 1 ELSE past.whole
  IN past' = [past EXCEPT !.pos = (@ + 1) % 4, !.whole = whole,
                          !.faults = IF inPlace THEN @ ELSE @ + 1]

(* Variant of StateNext: the first byte's flag is not looked at. *)
StateNextAnyFirst(at, flagged) ==
  IF at = 0 THEN 1 ELSE IF flagged THEN 0 ELSE (at + 1) % 4

(* tx_reg_state: the first byte of a word is flagged, the others are not. *)
StateNext(at, flagged) ==
  IF at = 0 THEN (IF flagged THEN 1 ELSE 0)
  ELSE IF flagged THEN 0 ELSE (at + 1) % 4

(* A strobe of SWE.  The word pushed after four bytes is not the host's: a      *)
(* counter of words overrides it.  Unflagged bytes between words push a zero   *)
(* word; the trigger is a level, so that a run of them pushes one.              *)
TxStrobe ==
  /\ path = "tx"
  /\ smi.since = StrobeEdges
  /\ \E flagged, inPlace \in BOOLEAN :
       LET complete == smi.at = 3 /\ ~flagged
           astray == smi.at = 0 /\ ~flagged
           aborted == smi.at = 3 /\ flagged
       IN /\ inPlace => flagged = (past.pos = 0)
          /\ ~inPlace => Fault /\ flagged # (past.pos = 0)
          /\ complete => made < MaxTx
          /\ made' = IF complete THEN made + 1 ELSE made
          /\ smi' = [smi EXCEPT !.at = StateNext(@, flagged), !.since = 0,
                                !.trigger = complete \/ astray,
                                !.word = IF complete THEN made + 1
                                         ELSE IF astray \/ aborted THEN 0 ELSE @]
          /\ HostByte(inPlace)
  /\ UNCHANGED <<path, fifo, lines>>

(* A byte that the host never sent or that was lost shifts its place. *)
HostSlips ==
  /\ path = "tx" /\ Fault
  /\ \E pos \in 0..3 : past' = [past EXCEPT !.pos = pos, !.whole = 0, !.faults = @ + 1]
  /\ UNCHANGED <<path, fifo, smi, lines, made>>

(* o_tx_fifo_push.  A word that finds the fifo full is gone.  While it transmits, *)
(* top.v shows the host a fifo that is not full on the pin of the read request;   *)
(* on that of the write request it shows the host's own strobe, so that nothing   *)
(* is assumed to hold its writes back.                                         *)
TxOffers == Request(smi)
TxPushing == TxOffers /\ ~fifo.full

NoteOffer(p) == [p EXCEPT !.offered = IF TxOffers /\ smi.word # 0 THEN smi.word ELSE @]

(* Variants of Silenced: the line is silenced at once; tx_fifo is still pulled. *)
SilencedAtOnce(l) ==
  [l EXCEPT !.state = "sync", !.sync = SyncFrames, !.pulled = FALSE, !.frame = 0]

SilencedPulling(l) == [l EXCEPT !.state = "sync", !.sync = SyncFrames]

(* A transmission ends: the direction was turned. *)
Silenced(l) == [l EXCEPT !.state = "sync", !.sync = SyncFrames, !.pulled = FALSE]

(* lvds_tx.v on a clock of the modem, without the debug loop back and the      *)
(* sample gap: their outputs of sys_ctrl.v are not driven.  A frame is loaded  *)
(* on its last phase, a word for it pulled one clock before.                   *)
LvdsTxClock(l, empty, word) ==
  LET next(m) == [m EXCEPT !.phase = IF l.phase = 0 THEN 2 * FrameClocks - 1 ELSE l.phase - 1]
      end == l.phase = 0
      pull == l.phase = 1
  IN CASE l.state = "sync" /\ end ->
            next([l EXCEPT !.frame = IF l.zero THEN 0 ELSE @, !.zero = FALSE])
       [] l.state = "sync" /\ pull /\ l.sync > 0 ->
            next([l EXCEPT !.sync = @ - 1, !.zero = TRUE])
       [] l.state = "sync" /\ pull /\ l.sync = 0 ->
            next(IF l.on THEN [l EXCEPT !.state = "tx", !.pulled = ~empty]
                         ELSE [l EXCEPT !.sync = SyncFrames, !.frame = 0])
       [] l.state = "tx" /\ ~l.on -> next(Silenced(l))
       [] l.state = "tx" /\ l.on /\ pull -> next([l EXCEPT !.pulled = ~empty])
       [] l.state = "tx" /\ l.on /\ end ->
            next(IF l.pulled THEN [l EXCEPT !.frame = word, !.pulled = FALSE]
                 ELSE [l EXCEPT !.frame = 0, !.state = "sync", !.sync = SyncFrames])
       [] OTHER -> next(l)

(* tx_fifo is read on the other edge of the modem clock, half a clock after    *)
(* lvds_tx.v raised r_pulled: the two edges are one step, as nothing of the    *)
(* other clocks is looked at between them.                                    *)
LinesNext == LvdsTxClock(lines, fifo.empty, fifo.rd_data)

NoteSent(p) == [p EXCEPT !.sent = IF LinesNext.frame # 0 THEN LinesNext.frame ELSE @]

TxClock ==
  /\ path = "tx"
  /\ lines' = LinesNext
  /\ fifo' \in ReadOnly(fifo, LinesNext.pulled)
  /\ past' = NoteSent(past)
  /\ UNCHANGED <<path, smi, made>>

TxSysClock ==
  /\ path = "tx"
  /\ fifo' \in WriteOnly(fifo, TxPushing, smi.word)
  /\ smi' = Sampled(smi)
  /\ past' = NoteOffer(past)
  /\ UNCHANGED <<path, lines, made>>

TxBothClocks ==
  /\ path = "tx"
  /\ lines' = LinesNext
  /\ fifo' \in Together(fifo, TxPushing, smi.word, LinesNext.pulled)
  /\ smi' = Sampled(smi)
  /\ past' = NoteSent(NoteOffer(past))
  /\ UNCHANGED <<path, made>>

(* The direction register, written by the host between any two clocks. *)
SelectDirection ==
  /\ path = "tx" /\ Fault
  /\ lines' = [lines EXCEPT !.on = ~@]
  /\ past' = [past EXCEPT !.faults = @ + 1]
  /\ UNCHANGED <<path, fifo, smi, made>>

Next ==
  \/ RxClock \/ RxSysClock \/ RxBothClocks \/ RxStrobe \/ SelectRadio \/ SelectChannel
  \/ TxClock \/ TxSysClock \/ TxBothClocks \/ TxStrobe \/ HostSlips \/ SelectDirection

Spec == Init /\ [][Next]_vars

(* The system clock does not stop, and the host reads while it is requested to.   *)
FairSpec ==
  /\ Spec
  /\ WF_vars(RxSysClock \/ RxBothClocks)
  /\ WF_vars(RxStrobe /\ ReadRequest)

-----------------------------------------------------------------------------
(* Every fifo of the firmware is a queue: nothing is overwritten, read twice    *)
(* or read before it was written, whichever way the two clocks fall and        *)
(* whatever a register catches of an address that changes.                     *)
Queue == INSTANCE BoundedFifo
           WITH Capacity <- Size - 1, queue <- Contents(fifo), out <- fifo.rd_data

ImplementsFifo == Queue!Spec

(* No word that entered rx_fifo is skipped on the way to the host: a strobe     *)
(* gives the word after the last one, or that one again when the fifo was      *)
(* empty (smi_ctrl.v:120, 130, 137).                                         *)
ReadInOrder == [][path = "rx" /\ smi'.word # smi.word => smi'.word = smi.word + 1]_vars

(* A host that reads whenever it is requested to empties rx_fifo, again and again,  *)
(* and has begun every word that entered it but the last: none stays behind a flag  *)
(* that does not fall.  The last may stay in rd_data until another one comes, as    *)
(* nothing requests the strobes that would take it (smi_ctrl.v:119, 137).          *)
CatchesUp == []<>(path = "rx" => Contents(fifo) = <<>> /\ smi.word >= made - 1)

(* After one word whose four bytes are in their place the transmit side counts  *)
(* bytes as the host does, whatever came before (smi_ctrl.v:192-256).           *)
TxFramed == path = "tx" /\ past.whole = 4 => smi.at = past.pos

(* Every complete word of the host is offered to tx_fifo before the next one    *)
(* or a zero word takes its place, though the trigger crosses into another      *)
(* clock (smi_ctrl.v:173, 266, 267).                                          *)
EveryWordOffered ==
  path = "tx" /\ past.offered # made => past.offered = made - 1 /\ smi.word = made

(* The words in tx_fifo are newer than the last one on the line, and each is    *)
(* there once.                                                               *)
SentOnceInOrder ==
  LET words == Contents(fifo)
      full == {i \in DOMAIN words : words[i] # 0}
  IN path = "tx" => \A i \in full : /\ past.sent < words[i]
                                    /\ \A j \in full : i < j => words[i] < words[j]

(* The word that a clock of the modem pulled from tx_fifo is the frame on the line  *)
(* a clock later.  One word is lost, with what it was pulled for, when the          *)
(* direction was turned between the two (lvds_tx.v:84, 101-104, 116).              *)
PulledIsSent ==
  [][ path = "tx" /\ lines.pulled /\ lines'.phase # lines.phase =>
        \/ lines'.frame = fifo.rd_data
        \/ lines.state = "tx" /\ ~lines.on ]_vars

(* A frame on the line to the modem is never cut: it changes on its last phase, *)
(* also when the host turns the direction in the middle (lvds_tx.v:67-126).     *)
WholeFrames == [][path = "tx" /\ lines'.frame # lines.frame => lines.phase = 0]_vars
=============================================================================
