------------------------------ MODULE LifeCycle ------------------------------
(***************************************************************************)
(* The driver from set-up to release: cariboulite_setup.c, with the parts of  *)
(* caribou_fpga, caribou_prog, io_utils_spi, caribou_smi, at86rf215 and       *)
(* rffc507x that take and give back resources, under its three users: the C   *)
(* library (cariboulite.c), the test application and the SoapySDR session.    *)
(*                                                                          *)
(* A call is a sequence of stages, each a step.  A signal may come between    *)
(* any two, or inside one that talks over SPI and holds its mutex; its handler *)
(* runs on the stack of the call and never goes back to it.  Any process may  *)
(* die at any time; the FPGA keeps its configuration and the next finds it.   *)
(*                                                                          *)
(* Not modelled: files and mappings that cannot be opened under /dev except   *)
(* /dev/smi, and a signal inside a signal handler.                           *)
(***************************************************************************)
EXTENDS Integers, FiniteSets

CONSTANTS
  MaxChips,   (* IO_UTILS_MAX_CHIPS                                           *)
  MaxCalls,   (* bound: set-ups that a process asks for                        *)
  MaxFaults,  (* bound: failures of the hardware                              *)
  MaxRuns     (* bound: processes, one after the other                         *)

ASSUME LifeCycleAssumption ==
  /\ MaxChips \in Nat /\ MaxChips >= 4
  /\ MaxCalls \in Nat /\ MaxFaults \in Nat /\ MaxRuns \in Nat

VARIABLES
  m,     (* memory of the process and what it holds open: see Memories          *)
  fpga,  (* is the FPGA "blank" or "configured"?                               *)
  pc,    (* the next stage of the call ("main") and of a signal's "handler"     *)
  call,  (* the set-up in progress: see Calls                                   *)
  past   (* history and bounds: see Pasts                                      *)

vars == <<m, fpga, pc, call, past>>

Client == call.client
Product == call.product

Slots == 0..(MaxChips - 1)
Chips == {"fpga", "prog", "modem", "mixer"}

(* The chips that have a /dev/spidev file each; the others are bit-banged. *)
HasFile(c) == c \in {"fpga", "modem"}

EmptySlot == [chip |-> "none", hard |-> FALSE, open |-> FALSE]

SetUpStages == {"detect", "io", "fpga", "program", "smi", "modem", "mixer", "selftest", "succeed"}
ReleaseStages ==
  {"release", "dispose", "close_smi", "close_modem", "close_mixer", "close_fpga", "close_io", "reset"}

Memories ==
  [ (* sys_st: system_status, and when signal_cb, if set, is called (sig_op)    *)
    status : {"unintialized", "minimal_init", "full_init"},
    cb : {"none", "last", "first", "override"},
    (* io_utils_spi_st: initialized, chips (is_hard_spi, and whether the spidev  *)
    (* it keeps is open), num_of_chips                                         *)
    spi : BOOLEAN,
    slots : [Slots -> [chip : Chips \cup {"none"}, hard : BOOLEAN, open : BOOLEAN]],
    count : Nat,
    (* initialized and io_spi_handle of each driver                            *)
    ready : [Chips -> BOOLEAN], handle : [Chips -> Slots],
    (* caribou_smi_st.filedesc; the mapping of io_utils                         *)
    smi : {"none", "open", "closed"}, mapped : BOOLEAN,
    (* ctx.initialized, or sessionCount                                        *)
    users : Nat ]

(* client, product (numeric_product_id): never change.  force:                *)
(* force_fpga_reprogramming.  left: prog_retries.  locked: the signal came     *)
(* while the call held the mutex of the SPI.                                   *)
Calls == [client : {"library", "application", "session"}, product : {"ism", "full"},
          force : BOOLEAN, left : 0..3, locked : BOOLEAN]

(* lost: files nothing refers to any more.  twice: files closed when they were  *)
(* not open.  failed: a self-test failed.  The others count.                  *)
Pasts == [lost : SUBSET {"smi", "fpga", "modem"}, twice : SUBSET {"smi", "spidev"},
          failed : BOOLEAN, calls : Nat, faults : Nat, runs : Nat]

TypeOK ==
  /\ m \in Memories /\ m.count <= MaxChips
  /\ fpga \in {"blank", "configured"}
  /\ pc \in [main : {"idle", "dead"} \cup SetUpStages \cup ReleaseStages,
             handler : {"none", "stuck"} \cup ReleaseStages]
  /\ call \in Calls
  /\ past \in Pasts

NewMemory ==
  [status |-> "unintialized", cb |-> "none", spi |-> FALSE, slots |-> [i \in Slots |-> EmptySlot],
   count |-> 0, ready |-> [c \in Chips |-> FALSE], handle |-> [c \in Chips |-> 0],
   smi |-> "none", mapped |-> FALSE, users |-> 0]

Init ==
  /\ m = NewMemory
  /\ fpga \in {"blank", "configured"}
  /\ pc = [main |-> "idle", handler |-> "none"]
  /\ call \in Calls /\ ~call.force /\ call.left = 3 /\ ~call.locked
  /\ past = [lost |-> {}, twice |-> {}, failed |-> FALSE, calls |-> 0, faults |-> 0, runs |-> 1]

-----------------------------------------------------------------------------
(* Resources. *)

(* Chip c is given the first free slot. *)
AddChip(x, c) ==
  LET i == CHOOSE j \in Slots : /\ x.slots[j].chip = "none"
                                /\ \A k \in 0..(j - 1) : x.slots[k].chip # "none"
  IN  [x EXCEPT !.slots[i] = [chip |-> c, hard |-> HasFile(c), open |-> HasFile(c)],
                !.count = @ + 1, !.ready[c] = TRUE, !.handle[c] = i]

(* The driver of chip c gives its slot back; is_hard_spi stays as it is. *)
RemoveChip(x, c) ==
  LET i == x.handle[c]
  IN  IF x.count = 0 \/ x.slots[i].chip = "none" THEN [x EXCEPT !.ready[c] = FALSE]
      ELSE [x EXCEPT !.slots[i] = [chip |-> "none", hard |-> @.hard, open |-> FALSE],
                     !.count = @ - 1, !.ready[c] = FALSE]

Close(x, c) == IF x.ready[c] THEN RemoveChip(x, c) ELSE x

(* caribou_fpga_close, which also releases the programmer. *)
CloseFpga(x) == IF x.ready["fpga"] THEN Close(RemoveChip(x, "fpga"), "prog") ELSE x

(* Variant: it goes through all the slots. *)
ClosedSlotsAll(x) == {i \in Slots : x.slots[i].hard}

(* The loop of io_utils_spi_close ends at num_of_chips, whatever slots are used. *)
ClosedSlots(x) == {i \in Slots : i < x.count /\ x.slots[i].hard}

ReleaseIo(x) ==
  [x EXCEPT !.spi = FALSE, !.mapped = FALSE, !.count = 0,
            !.slots = IF x.spi THEN [i \in Slots |-> EmptySlot] ELSE @]

(* What history makes of releasing the I/O in memory x. *)
IoReleased(p, x) ==
  [p EXCEPT !.lost = @ \cup {x.slots[i].chip : i \in {j \in Slots \ ClosedSlots(x) : x.slots[j].open}},
            !.twice = IF \E i \in ClosedSlots(x) : ~x.slots[i].open THEN @ \cup {"spidev"} ELSE @]

-----------------------------------------------------------------------------
(* A set-up. *)

Alive == pc.main # "dead"
At(stage) == pc.main = stage /\ pc.handler = "none"
Main(stage) == pc' = [pc EXCEPT !.main = stage]

Fault == /\ past.faults < MaxFaults
         /\ past' = [past EXCEPT !.faults = @ + 1]

(* cariboulite_init_driver: where it starts depends on how far it got before. *)
FirstStage(x) == CASE x.status = "unintialized" -> "detect"
                   [] x.status = "minimal_init" -> "smi"
                   [] OTHER -> "succeed"

(* The session starts from a fresh sys_st, and only for its first user. *)
Fresh == [NewMemory EXCEPT !.users = m.users]

SetUp(force) ==
  /\ At("idle") /\ past.calls < MaxCalls
  /\ Client = "application" => past.calls = 0 /\ ~force
  /\ Client = "session" => m.users = 0 /\ ~force
  /\ call' = [call EXCEPT !.force = force]
  /\ LET x == IF Client = "session" THEN Fresh ELSE m
     IN  /\ m' = IF x.status = "unintialized" THEN [x EXCEPT !.cb = "none"] ELSE x
         /\ Main(FirstStage(x))
  /\ past' = [past EXCEPT !.calls = @ + 1,
                !.lost = IF Client = "session" /\ m.smi = "open" THEN @ \cup {"smi"} ELSE @]
  /\ UNCHANGED fpga

(* A further user of the session takes it as it is. *)
JoinSession ==
  /\ Client = "session" /\ At("idle") /\ m.users = 1
  /\ m' = [m EXCEPT !.users = 2]
  /\ UNCHANGED <<fpga, pc, call, past>>

(* What the client does when the set-up has failed. *)
Failed(x) ==
  /\ Main(IF Client = "application" THEN "dead" ELSE "idle")
  /\ m' = IF Client = "session" THEN [x EXCEPT !.cb = "first", !.users = 1] ELSE x

Succeed ==
  /\ At("succeed") /\ Main("idle")
  /\ m' = [m EXCEPT !.users = 1,
                    !.cb = CASE Client = "library" -> "override"
                             [] Client = "application" -> "last"
                             [] Client = "session" -> "first"]
  /\ UNCHANGED <<fpga, call, past>>

Detect ==
  /\ At("detect")
  /\ \/ Main("io") /\ UNCHANGED <<m, past>>
     \/ Fault /\ Failed(m)
  /\ UNCHANGED <<fpga, call>>

SetupIo ==
  /\ At("io") /\ Main("fpga")
  /\ m' = [m EXCEPT !.mapped = TRUE, !.spi = TRUE, !.count = 0,
                    !.slots = [i \in Slots |-> EmptySlot]]
  /\ UNCHANGED <<fpga, call, past>>

(* A programmer that was never released keeps the slot it had. *)
InitFpga ==
  /\ At("fpga") /\ Main("program")
  /\ m' = LET x == AddChip(m, "fpga") IN IF x.ready["prog"] THEN x ELSE AddChip(x, "prog")
  /\ call' = [call EXCEPT !.left = 3]
  /\ UNCHANGED <<fpga, past>>

NeedsProgram == fpga = "blank" \/ call.force

KeepFpga ==
  /\ At("program") /\ ~NeedsProgram
  /\ Main("smi") /\ m' = [m EXCEPT !.status = "minimal_init"]
  /\ UNCHANGED <<fpga, call, past>>

(* Variant: a pass is not counted. *)
ProgramFailsUncounted ==
  /\ At("program") /\ NeedsProgram /\ call.left > 0
  /\ IF m.slots[m.handle["prog"]].chip = "prog" THEN Fault ELSE UNCHANGED past
  /\ fpga' = "blank" /\ UNCHANGED <<m, pc, call>>

(* Variant: the loop does not end at no retries left. *)
ProgramFailsOnceMore ==
  /\ At("program") /\ NeedsProgram
  /\ IF m.slots[m.handle["prog"]].chip = "prog" THEN Fault ELSE UNCHANGED past
  /\ fpga' = "blank" /\ call' = [call EXCEPT !.left = @ - 1]
  /\ UNCHANGED <<m, pc>>

(* One pass of the loop: configuring starts with the reset of the FPGA, and   *)
(* fails if the programmer's slot is not its own.                              *)
ProgramFails ==
  /\ At("program") /\ NeedsProgram /\ call.left > 0
  /\ IF m.slots[m.handle["prog"]].chip = "prog" THEN Fault ELSE UNCHANGED past
  /\ fpga' = "blank" /\ call' = [call EXCEPT !.left = @ - 1]
  /\ UNCHANGED <<m, pc>>

(* prog_retries is compared with 0 after the loop, where 0 means that the last *)
(* of three attempts succeeded, and -1 that none did.                         *)
Program ==
  /\ At("program") /\ NeedsProgram /\ call.left > 0
  /\ m.slots[m.handle["prog"]].chip = "prog"
  /\ fpga' = "configured" /\ call' = [call EXCEPT !.left = @ - 1]
  /\ IF call.left = 1
     THEN /\ Failed(ReleaseIo(CloseFpga(m)))
          /\ past' = IoReleased(past, CloseFpga(m))
     ELSE /\ Main("smi") /\ m' = [m EXCEPT !.status = "minimal_init"]
          /\ UNCHANGED past

ProgramExhausted ==
  /\ At("program") /\ call.left = 0
  /\ Main("smi") /\ m' = [m EXCEPT !.status = "minimal_init"]
  /\ UNCHANGED <<fpga, call, past>>

(* Variant: the I/O is kept for the next attempt. *)
AfterFailureKeepsIo(x, p) == Failed(CloseFpga(x)) /\ past' = p

(* cariboulite_init_driver after a sub-module or the self-test has failed.     *)
(* The status stays minimal_init.                                             *)
AfterFailure(x, p) ==
  /\ Failed(ReleaseIo(CloseFpga(x)))
  /\ past' = IoReleased(p, CloseFpga(x))

SmiLost == IF m.smi = "open" THEN past.lost \cup {"smi"} ELSE past.lost

(* caribou_smi_init starts by forgetting the file it had. *)
SmiFails ==
  /\ At("smi") /\ past.faults < MaxFaults
  /\ AfterFailure([m EXCEPT !.smi = "none"], [past EXCEPT !.faults = @ + 1, !.lost = SmiLost])
  /\ UNCHANGED <<fpga, call>>

(* The pins are set up next: without the mapping that is a SIGSEGV. *)
SmiInit ==
  /\ At("smi")
  /\ m' = [m EXCEPT !.smi = "open"]
  /\ past' = [past EXCEPT !.lost = SmiLost]
  /\ IF m.mapped THEN Main("modem") ELSE pc' = [pc EXCEPT !.handler = "release"]
  /\ UNCHANGED <<fpga, call>>

ModemInit ==
  /\ At("modem") /\ Main("mixer")
  /\ m' = AddChip(m, "modem")
  /\ UNCHANGED <<fpga, call, past>>

(* The mixer of a full board, and the initial state of both radios. *)
MixerInit ==
  /\ At("mixer") /\ Main("selftest")
  /\ m' = IF Product = "full" THEN AddChip(m, "mixer") ELSE m
  /\ UNCHANGED <<fpga, call, past>>

SelfTest ==
  /\ At("selftest")
  /\ \/ /\ Main("succeed") /\ m' = [m EXCEPT !.status = "full_init"]
        /\ UNCHANGED past
     \/ /\ past.faults < MaxFaults
        /\ AfterFailure(m, [past EXCEPT !.faults = @ + 1, !.failed = TRUE])
  /\ UNCHANGED <<fpga, call>>

-----------------------------------------------------------------------------
(* A release, by the call or by the handler of a signal. *)

Actors == {"main", "handler"}

Runs(w, stage) == /\ Alive /\ pc[w] = stage
                  /\ w = "main" => pc.handler = "none"

To(w, stage) == pc' = [pc EXCEPT ![w] = stage]

(* The mutex of the SPI is not recursive: its holder is below on the stack. *)
MayLock(w) == w = "handler" => ~call.locked

(* The library forgets that it is initialised before it releases the driver;  *)
(* a session is released by its last user.                                     *)
CloseDriver ==
  /\ At("idle") /\ m.users > 0
  /\ m' = [m EXCEPT !.users = @ - 1]
  /\ IF m.users = 1 THEN Main("release") ELSE UNCHANGED pc
  /\ UNCHANGED <<fpga, call, past>>

(* The end of the release: the application and every handler end the process. *)
Released(w) ==
  pc' = IF w = "handler" \/ Client = "application" THEN [main |-> "dead", handler |-> "none"]
        ELSE [pc EXCEPT !.main = "idle"]

Release(w) ==
  /\ Runs(w, "release")
  /\ CASE m.status = "unintialized" -> Released(w)
       [] m.status = "minimal_init" -> To(w, "close_fpga")
       [] OTHER -> To(w, "dispose")
  /\ UNCHANGED <<m, fpga, call, past>>

Dispose(w) ==
  /\ Runs(w, "dispose") /\ MayLock(w) /\ To(w, "close_smi")
  /\ UNCHANGED <<m, fpga, call, past>>

CloseSmi(w) ==
  /\ Runs(w, "close_smi") /\ To(w, "close_modem")
  /\ m' = [m EXCEPT !.smi = "closed"]
  /\ past' = [past EXCEPT !.twice = IF m.smi = "open" THEN @ ELSE @ \cup {"smi"}]
  /\ UNCHANGED <<fpga, call>>

CloseModem(w) ==
  /\ Runs(w, "close_modem") /\ MayLock(w) /\ To(w, "close_mixer")
  /\ m' = Close(m, "modem")
  /\ UNCHANGED <<fpga, call, past>>

CloseMixer(w) ==
  /\ Runs(w, "close_mixer") /\ MayLock(w) /\ To(w, "close_io")
  /\ m' = Close(m, "mixer")
  /\ UNCHANGED <<fpga, call, past>>

(* Only a driver that is half set up closes the FPGA. *)
CloseFpgaStage(w) ==
  /\ Runs(w, "close_fpga") /\ (m.ready["fpga"] => MayLock(w)) /\ To(w, "close_io")
  /\ m' = CloseFpga(m)
  /\ UNCHANGED <<fpga, call, past>>

(* io_utils_spi_close waits for the mutex with a time limit that has passed. *)
CloseIo(w) ==
  /\ Runs(w, "close_io") /\ To(w, "reset")
  /\ m' = ReleaseIo(m)
  /\ past' = IoReleased(past, m)
  /\ UNCHANGED <<fpga, call>>

(* Variant: the status is not reset. *)
StatusKept(w) ==
  /\ Runs(w, "reset") /\ Released(w)
  /\ UNCHANGED <<m, fpga, call, past>>

ResetStatus(w) ==
  /\ Runs(w, "reset") /\ Released(w)
  /\ m' = [m EXCEPT !.status = "unintialized"]
  /\ UNCHANGED <<fpga, call, past>>

-----------------------------------------------------------------------------
(* Signals and the end of the process. *)

(* The stages that hold the mutex of the SPI at some time; the set-up of the sample *)
(* device does when it fails.                                                 *)
Transfers == {"fpga", "program", "smi", "modem", "mixer", "selftest",
              "dispose", "close_modem", "close_mixer", "close_fpga", "close_io"}

(* cariboulite_sigaction_basehandler.  An overriding callback changes nothing  *)
(* here.  The session's comes first and takes the session's mutex, which its   *)
(* calls hold, but for SIGHUP, SIGQUIT and SIGBUS; what it releases the handler   *)
(* does not release again.                                                   *)
Signal ==
  /\ Alive /\ pc.handler = "none" /\ m.cb # "override"
  /\ past.calls > 0
  /\ \E held \in (IF m.spi /\ pc.main \in Transfers THEN BOOLEAN ELSE {FALSE}) :
       call' = [call EXCEPT !.locked = held]
  /\ \E first \in (IF m.cb = "first" /\ pc.main # "idle" THEN {"release", "stuck"} ELSE {"release"}) :
       pc' = [pc EXCEPT !.handler = first]
  /\ UNCHANGED <<m, fpga, past>>

Kill ==
  /\ Alive /\ past.runs < MaxRuns
  /\ pc' = [main |-> "dead", handler |-> "none"]
  /\ UNCHANGED <<m, fpga, call, past>>

(* The next process: the kernel has closed the files of the last one. *)
Restart ==
  /\ ~Alive /\ past.runs < MaxRuns
  /\ m' = NewMemory
  /\ pc' = [main |-> "idle", handler |-> "none"]
  /\ call' = [call EXCEPT !.force = FALSE, !.left = 3, !.locked = FALSE]
  /\ past' = [past EXCEPT !.lost = {}, !.twice = {}, !.failed = FALSE, !.calls = 0, !.runs = @ + 1]
  /\ UNCHANGED fpga

SetUpStep ==
  \/ Detect \/ SetupIo \/ InitFpga \/ KeepFpga \/ ProgramFails \/ Program \/ ProgramExhausted
  \/ SmiFails \/ SmiInit \/ ModemInit \/ MixerInit \/ SelfTest \/ Succeed

ReleaseStep(w) ==
  \/ Release(w) \/ Dispose(w) \/ CloseSmi(w) \/ CloseModem(w) \/ CloseMixer(w)
  \/ CloseFpgaStage(w) \/ CloseIo(w) \/ ResetStatus(w)

Next ==
  \/ \E force \in BOOLEAN : SetUp(force)
  \/ JoinSession \/ CloseDriver
  \/ SetUpStep
  \/ \E w \in Actors : ReleaseStep(w)
  \/ Signal \/ Kill \/ Restart

Spec == Init /\ [][Next]_vars

(* A call and a handler go on until they end. *)
FairSpec == Spec /\ WF_vars(SetUpStep) /\ \A w \in Actors : WF_vars(ReleaseStep(w))
-----------------------------------------------------------------------------
(* Correctness. *)

Uses(c) == m.ready[c] /\ m.slots[m.handle[c]].chip = c

(* A driver that says it is fully initialised has everything it needs: the     *)
(* mapping, the SPI with a slot of its own for every chip, the sample device,   *)
(* and an FPGA that is configured unless three attempts to do so failed. This   *)
(* is about the returns of cariboulite_init_driver, after any history of        *)
(* set-ups, failures, releases, signals and earlier processes.                  *)
ReadyIsWhole ==
  m.status = "full_init" /\ pc.main \in {"idle", "succeed"} /\ pc.handler = "none"
    => /\ m.mapped /\ m.spi /\ m.smi = "open"
       /\ Uses("fpga") /\ Uses("modem")
       /\ Product = "full" => Uses("mixer")
       /\ m.slots[m.handle["fpga"]].open /\ m.slots[m.handle["modem"]].open
       /\ fpga = "configured" \/ call.left = 0

(* Between calls a driver that is not ready holds nothing, neither the I/O nor  *)
(* files, whichever stage failed.  The failure of a self-test is the exception:  *)
(* it gives back neither the sample device nor the modem.                       *)
NothingLeftBehind ==
  m.status # "full_init" /\ pc.main = "idle" /\ pc.handler = "none"
    => /\ ~m.spi /\ ~m.mapped
       /\ past.lost # {} \/ m.smi = "open" => past.failed

(* In a process that lives on no file is closed twice, which would close         *)
(* whatever has been opened in its place.  The exception is the FPGA's file after *)
(* a failed self-test, as a slot that was given back still looks used.          *)
ClosedOnce ==
  Alive /\ pc.handler = "none" =>
    "smi" \notin past.twice /\ ("spidev" \in past.twice => past.failed)

(* The handler waits for a lock that the call below it on the stack holds. *)
SelfLocked ==
  \/ pc.handler = "stuck"
  \/ call.locked /\ pc.handler \in {"dispose", "close_modem", "close_mixer", "close_fpga"}

(* Every set-up and release returns, or its process ends: the retries of the    *)
(* programming end, and the only wait without end is a handler's for a lock of   *)
(* the call it interrupted.                                                   *)
CallsEnd == pc.main # "idle" ~> pc.main \in {"idle", "dead"} \/ SelfLocked

(* cariboulite.h, of force_fpga_prog: "force the FPGA to program".  It fails     *)
(* without any fault: see ProgramFails.                                        *)
ForcedIsProgrammed == pc.main = "succeed" /\ call.force => fpga = "configured"
=============================================================================
