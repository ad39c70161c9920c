--------------------------- MODULE LifeCycleProofs ---------------------------
(***************************************************************************)
(* Proofs about LifeCycle, for every size of the table of chips that fits a   *)
(* board, and any number of set-ups, faults and processes.  The invariant      *)
(* follows the one thread of control: it says what the driver holds at each    *)
(* stage of a set-up and of a release, as long as no signal has come.  What a   *)
(* signal's handler leaves is only typed: the process ends with it.            *)
(***************************************************************************)
EXTENDS LifeCycle, TLAPS

(* What memory x holds: nothing of the I/O, or chips in the first n slots.      *)
NoChips(x) == x.count = 0 /\ \A i \in Slots : x.slots[i] = EmptySlot
Nothing(x) == ~x.mapped /\ ~x.spi /\ NoChips(x)

(* A slot as its chip uses it. *)
SlotOf(c) == [chip |-> c, hard |-> HasFile(c), open |-> HasFile(c)]

Mounted(x, c, i) == x.ready[c] /\ x.handle[c] = i /\ x.slots[i] = SlotOf(c)

(* The FPGA has the first slot, and the programmer the next or, if it was never  *)
(* released, none: see InitFpga.                                             *)
HasProgrammer(x) == x.slots[1].chip = "prog"
Next1(x) == IF HasProgrammer(x) THEN 2 ELSE 1

Based(x) ==
  /\ x.mapped /\ x.spi
  /\ Mounted(x, "fpga", 0)
  /\ HasProgrammer(x) => Mounted(x, "prog", 1)

Boards(x, n) ==
  /\ Based(x) /\ x.count = n
  /\ \A i \in Slots : i >= n => x.slots[i] = EmptySlot

(* The mixer is on full boards only. *)
HasMixer(x, product) == product = "full" => Mounted(x, "mixer", Next1(x) + 1)
WithMixer(n, product) == IF product = "full" THEN n + 1 ELSE n

Whole(x, product) ==
  /\ Boards(x, WithMixer(Next1(x) + 1, product))
  /\ Mounted(x, "modem", Next1(x)) /\ HasMixer(x, product)

(* The modem is gone, but for is_hard_spi of its slot. *)
Stripped(x, product) ==
  /\ Based(x) /\ HasMixer(x, product) /\ x.count = WithMixer(Next1(x), product)
  /\ \A i \in Slots : i >= Next1(x) => ~x.slots[i].open
  /\ ~x.slots[Next1(x)].open

(* What the loop of io_utils_spi_close closes is what is open. *)
ClosesRight(x) ==
  /\ \A i \in Slots : x.slots[i].open <=> i \in ClosedSlots(x)
  /\ x.spi \/ NoChips(x)

(* Only chips with a file of their own have one open. *)
OpenFiles(x) == \A i \in Slots : x.slots[i].open => HasFile(x.slots[i].chip)

(* The inductive invariant: what memory x holds at stage s of a call that no      *)
(* signal has interrupted, with the FPGA f, the call k and the history q.        *)
Unset(x) == x.status = "unintialized"
Half(x) == x.status = "minimal_init"
Full(x) == x.status = "full_init"

Rested(x) == Nothing(x) /\ (Half(x) => ~x.ready["fpga"])

Configured(f, k) == f = "configured" \/ k.left = 0

Ready(x, f, k) == Whole(x, k.product) /\ Configured(f, k)

SetUpTable(s, x, f, k) ==
  /\ s \in {"detect", "io"} => Unset(x) /\ Nothing(x)
  /\ s = "fpga" => Unset(x) /\ x.mapped /\ x.spi /\ NoChips(x)
  /\ s = "program" => Unset(x) /\ Boards(x, Next1(x))
  /\ s = "smi" => Half(x) /\ (Rested(x) \/ (Boards(x, Next1(x)) /\ Configured(f, k)))
  /\ s = "modem" => Half(x) /\ Boards(x, Next1(x)) /\ Configured(f, k)
  /\ s = "mixer" => /\ Half(x) /\ Boards(x, Next1(x) + 1) /\ Configured(f, k)
                    /\ Mounted(x, "modem", Next1(x))
  /\ s = "selftest" => Half(x) /\ Ready(x, f, k)
  /\ s = "succeed" => Full(x) /\ Ready(x, f, k)

ReleaseTable(s, x, f, k) ==
  /\ s \in {"idle", "release"} => (Full(x) /\ Ready(x, f, k)) \/ (~Full(x) /\ Rested(x))
  /\ s \in {"dispose", "close_smi", "close_modem"} => Full(x) /\ Whole(x, k.product)
  /\ s = "close_mixer" => Stripped(x, k.product)
  /\ s = "close_fpga" => Half(x) /\ Rested(x)
  /\ s = "close_io" => ClosesRight(x)
  /\ s = "reset" => Nothing(x)

(* The sample device: open from its stage to the release, and otherwise only     *)
(* after a self-test that failed.                                            *)
SmiInUse(s, x) ==
  \/ s \in {"modem", "mixer", "selftest", "succeed", "dispose", "close_smi"}
  \/ s \in {"idle", "release"} /\ Full(x)

Device(s, x, q) ==
  /\ SmiInUse(s, x) => x.smi = "open"
  /\ s \in {"close_modem", "close_mixer"} => x.smi = "closed"
  /\ ~SmiInUse(s, x) /\ x.smi = "open" => q.failed

History(q) ==
  /\ "smi" \notin q.twice
  /\ q.lost # {} \/ "spidev" \in q.twice => q.failed

(* What holds at every stage: a programmer that is not released keeps its slot.   *)
Steady(s, x, k) ==
  /\ x.ready["prog"] => x.handle["prog"] = 1
  /\ k.product # "full" => ~x.ready["mixer"]
  /\ k.client = "session" /\ x.users = 0 /\ s = "idle" => ~Full(x)

Consistent(s, x, f, k, q) ==
  /\ SetUpTable(s, x, f, k) /\ ReleaseTable(s, x, f, k)
  /\ Device(s, x, q) /\ History(q) /\ Steady(s, x, k)

Calm == Alive /\ pc.handler = "none"

IInv ==
  /\ TypeOK /\ OpenFiles(m)
  /\ Calm => Consistent(pc.main, m, fpga, call, past)

-----------------------------------------------------------------------------
(* The table of chips. *)

Table == [Slots -> [chip : Chips \cup {"none"}, hard : BOOLEAN, open : BOOLEAN]]

(* The parts of the memory that the table has nothing to do with. *)
Others(x, y) ==
  /\ y.status = x.status /\ y.cb = x.cb /\ y.spi = x.spi /\ y.smi = x.smi
  /\ y.mapped = x.mapped /\ y.users = x.users

(* There is room in the chip table for every chip of the board. *)
LEMMA FirstSlots == {0, 1, 2, 3} \subseteq Slots /\ MaxChips \in Nat /\ MaxChips >= 4
BY LifeCycleAssumption DEF Slots

(* A chip is added behind those that are there. *)
Added(x, y, c, n) ==
  /\ y \in Memories /\ Others(x, y)
  /\ y.slots[n] = SlotOf(c) /\ \A i \in Slots : i # n => y.slots[i] = x.slots[i]
  /\ y.count = x.count + 1
  /\ y.ready[c] /\ y.handle[c] = n
  /\ \A d \in Chips : d # c => (y.ready[d] <=> x.ready[d]) /\ y.handle[d] = x.handle[d]

(* io_utils_spi_add_chip fills the first empty slot. *)
LEMMA Adding ==
  ASSUME NEW x \in Memories, NEW c \in Chips, NEW n \in Slots,
         \A i \in 0..(n - 1) : x.slots[i].chip # "none", x.slots[n] = EmptySlot,
         NEW y, y = AddChip(x, c)
  PROVE  Added(x, y, c, n)
<1> DEFINE First(j) == /\ x.slots[j].chip = "none"
                       /\ \A k \in 0..(j - 1) : x.slots[k].chip # "none"
<1>1. PICK i : i = CHOOSE j \in Slots : First(j)
  OBVIOUS
<1>2. First(n)
  BY DEF EmptySlot
<1>3. i \in Slots /\ First(i)
  BY <1>1, <1>2
<1>4. i = n
  <2>1. n \in 0..(i - 1) \/ i \in 0..(n - 1) \/ i = n
    BY <1>3, FirstSlots DEF Slots
  <2> QED
    BY <1>2, <1>3, <2>1
<1> HIDE DEF First
<1>5. y = [x EXCEPT !.slots[n] = SlotOf(c), !.count = @ + 1, !.ready[c] = TRUE, !.handle[c] = n]
  BY <1>1, <1>4 DEF AddChip, SlotOf, First
<1>6. SlotOf(c) \in [chip : Chips \cup {"none"}, hard : BOOLEAN, open : BOOLEAN]
  BY DEF SlotOf, HasFile
<1>7. /\ x.slots \in Table /\ x.ready \in [Chips -> BOOLEAN] /\ x.handle \in [Chips -> Slots]
      /\ x.count \in Nat
  BY DEF Memories, Table
<1>8. /\ Others(x, y)
      /\ y.slots = [x.slots EXCEPT ![n] = SlotOf(c)] /\ y.count = x.count + 1
      /\ y.ready = [x.ready EXCEPT ![c] = TRUE] /\ y.handle = [x.handle EXCEPT ![c] = n]
  BY <1>5 DEF Memories, Others
<1>9. /\ y.slots \in Table /\ y.ready \in [Chips -> BOOLEAN] /\ y.handle \in [Chips -> Slots]
      /\ y.count \in Nat
  BY <1>6, <1>7, <1>8 DEF Table
<1>10. y \in Memories
  <2>1. y = [x EXCEPT !.slots = y.slots, !.count = y.count, !.ready = y.ready, !.handle = y.handle]
    BY <1>5, <1>8 DEF Memories
  <2> QED
    BY <1>9, <2>1 DEF Memories, Table
<1> QED
  BY <1>7, <1>8, <1>9, <1>10 DEF Table, Added

(* A driver gives its slot back. *)
Removed(x, y, c) ==
  /\ y \in Memories /\ Others(x, y) /\ y.handle = x.handle
  /\ ~y.ready[c] /\ \A d \in Chips : d # c => (y.ready[d] <=> x.ready[d])
  /\ x.handle[c] \in Slots
  /\ \A i \in Slots : i # x.handle[c] => y.slots[i] = x.slots[i]
  /\ \/ /\ x.count = 0 \/ x.slots[x.handle[c]].chip = "none"
        /\ y.count = x.count /\ y.slots = x.slots
     \/ /\ x.count # 0 /\ x.slots[x.handle[c]].chip # "none"
        /\ y.count = x.count - 1
        /\ y.slots[x.handle[c]] = [chip |-> "none", hard |-> x.slots[x.handle[c]].hard, open |-> FALSE]

(* io_utils_spi_remove_chip empties the slot of its chip's handle and no other. *)
LEMMA Removing ==
  ASSUME NEW x \in Memories, NEW c \in Chips, NEW y, y = RemoveChip(x, c)
  PROVE  Removed(x, y, c)
<1> DEFINE i == x.handle[c]
<1>1. /\ x.slots \in Table /\ x.ready \in [Chips -> BOOLEAN] /\ x.handle \in [Chips -> Slots]
      /\ x.count \in Nat /\ i \in Slots
  BY DEF Memories, Table
<1>2. CASE x.count = 0 \/ x.slots[i].chip = "none"
  <2>1. y = [x EXCEPT !.ready[c] = FALSE]
    BY <1>2 DEF RemoveChip
  <2>2. Others(x, y) /\ y.handle = x.handle /\ y.count = x.count /\ y.slots = x.slots
        /\ y.ready = [x.ready EXCEPT ![c] = FALSE]
    BY <2>1 DEF Memories, Others
  <2>3. y \in Memories
    <3>1. y = [x EXCEPT !.ready = y.ready]
      BY <2>1, <2>2 DEF Memories
    <3>2. y.ready \in [Chips -> BOOLEAN]
      BY <1>1, <2>2
    <3> QED
      BY <3>1, <3>2 DEF Memories
  <2> QED
    BY <1>1, <1>2, <2>2, <2>3 DEF Removed
<1>3. CASE ~(x.count = 0 \/ x.slots[i].chip = "none")
  <2>1. y = [x EXCEPT !.slots[i] = [chip |-> "none", hard |-> @.hard, open |-> FALSE],
                      !.count = @ - 1, !.ready[c] = FALSE]
    BY <1>3 DEF RemoveChip
  <2> DEFINE new == [chip |-> "none", hard |-> x.slots[i].hard, open |-> FALSE]
  <2>2. x.slots[i] \in [chip : Chips \cup {"none"}, hard : BOOLEAN, open : BOOLEAN]
    BY <1>1 DEF Table
  <2>9. y = [x EXCEPT !.slots = [x.slots EXCEPT ![i] = new], !.count = x.count - 1,
                      !.ready = [x.ready EXCEPT ![c] = FALSE]]
    BY <2>1
  <2> HIDE DEF i, new
  <2>4. /\ Others(x, y) /\ y.handle = x.handle /\ y.count = x.count - 1
        /\ y.ready = [x.ready EXCEPT ![c] = FALSE]
        /\ y.slots = [x.slots EXCEPT ![i] = new]
    BY <2>9 DEF Memories, Others
  <2>5. y.slots[i] = new /\ \A j \in Slots : j # i => y.slots[j] = x.slots[j]
    BY <1>1, <2>4 DEF Table
  <2>6. y.slots \in Table /\ y.ready \in [Chips -> BOOLEAN] /\ y.count \in Nat
    <3>1. new \in [chip : Chips \cup {"none"}, hard : BOOLEAN, open : BOOLEAN]
      BY <2>2 DEF new
    <3>2. y.slots \in Table
      BY <1>1, <2>4, <3>1 DEF Table
    <3>3. y.count \in Nat
      BY <1>1, <1>3, <2>4
    <3> QED
      BY <1>1, <2>4, <3>2, <3>3
  <2>7. y \in Memories
    <3>1. y = [x EXCEPT !.slots = y.slots, !.count = y.count, !.ready = y.ready]
      BY <2>4, <2>9 DEF Memories
    <3> QED
      BY <2>6, <3>1 DEF Memories, Table
  <2> QED
    BY <1>1, <1>3, <2>4, <2>5, <2>7 DEF i, new, Removed
<1> QED
  BY <1>2, <1>3

(* Closing a chip takes only that chip away. *)
LEMMA Closing ==
  ASSUME NEW x \in Memories, OpenFiles(x), NEW c \in Chips,
         NEW y, y = RemoveChip(x, c) \/ y = Close(x, c)
  PROVE  /\ y \in Memories /\ OpenFiles(y) /\ Others(x, y) /\ y.count <= x.count
         /\ ~y.ready[c] /\ y.handle = x.handle
         /\ \A d \in Chips : d # c => (y.ready[d] <=> x.ready[d])
         /\ NoChips(x) => NoChips(y)
<1>1. x.count \in Nat /\ \A d \in Chips : x.ready[d] \in BOOLEAN
  BY DEF Memories
<1>2. CASE y = RemoveChip(x, c)
  <2>0. Removed(x, y, c)
    BY <1>2, Removing
  <2>1. y \in Memories /\ Others(x, y) /\ y.handle = x.handle
    BY <2>0 DEF Removed
  <2>2. ~y.ready[c] /\ \A d \in Chips : d # c => (y.ready[d] <=> x.ready[d])
    BY <2>0 DEF Removed
  <2>3. /\ x.handle[c] \in Slots
        /\ \A i \in Slots : i # x.handle[c] => y.slots[i] = x.slots[i]
        /\ \/ /\ x.count = 0 \/ x.slots[x.handle[c]].chip = "none"
              /\ y.count = x.count /\ y.slots = x.slots
           \/ /\ x.count # 0 /\ y.count = x.count - 1 /\ ~y.slots[x.handle[c]].open
    BY <2>0 DEF Removed
  <2>4. y.count <= x.count /\ OpenFiles(y)
    BY <1>1, <2>3 DEF OpenFiles
  <2>5. NoChips(x) => NoChips(y)
    BY <2>3 DEF NoChips
  <2> QED
    BY <2>1, <2>2, <2>4, <2>5
<1>3. CASE y = x /\ ~x.ready[c]
  BY <1>1, <1>3 DEF Others
<1> QED
  BY <1>2, <1>3 DEF Close

(* caribou_fpga_close takes only the FPGA and its soft reset away. *)
LEMMA ClosingFpga ==
  ASSUME NEW x \in Memories, OpenFiles(x), NEW y, y = CloseFpga(x)
  PROVE  /\ y \in Memories /\ OpenFiles(y) /\ Others(x, y) /\ y.count <= x.count
         /\ ~y.ready["fpga"] /\ y.handle = x.handle
         /\ \A d \in Chips : y.ready[d] => x.ready[d]
         /\ NoChips(x) => NoChips(y)
<1>1. /\ x.count \in Nat /\ "fpga" \in Chips /\ "prog" \in Chips
      /\ \A d \in Chips : x.ready[d] \in BOOLEAN
  BY DEF Memories, Chips
<1>2. CASE x.ready["fpga"]
  <2>1. PICK z : z = RemoveChip(x, "fpga")
    OBVIOUS
  <2>2. /\ z \in Memories /\ OpenFiles(z) /\ Others(x, z) /\ z.count <= x.count
        /\ ~z.ready["fpga"] /\ z.handle = x.handle
        /\ \A d \in Chips : d # "fpga" => (z.ready[d] <=> x.ready[d])
        /\ NoChips(x) => NoChips(z)
    BY <1>1, <2>1, Closing
  <2>3. y = Close(z, "prog")
    BY <1>2, <2>1 DEF CloseFpga
  <2>4. /\ y \in Memories /\ OpenFiles(y) /\ Others(z, y) /\ y.count <= z.count
        /\ ~y.ready["prog"] /\ y.handle = z.handle
        /\ \A d \in Chips : d # "prog" => (y.ready[d] <=> z.ready[d])
        /\ NoChips(z) => NoChips(y)
    BY <1>1, <2>2, <2>3, Closing
  <2>5. z.count \in Nat /\ y.count \in Nat
    BY <2>2, <2>4 DEF Memories
  <2> QED
    BY <1>1, <2>2, <2>4, <2>5 DEF Others
<1>3. CASE ~x.ready["fpga"]
  <2>1. y = x
    BY <1>3 DEF CloseFpga
  <2> QED
    BY <1>1, <1>3, <2>1 DEF Others
<1> QED
  BY <1>2, <1>3

(* Before any chip but the FPGA and the programmer is added, closing them leaves  *)
(* nothing open.                                                             *)
LEMMA ClosingBase ==
  ASSUME NEW x \in Memories, Boards(x, Next1(x)), x.ready["prog"] => x.handle["prog"] = 1,
         NEW y, y = CloseFpga(x)
  PROVE  ClosesRight(y)
<1>1. "fpga" \in Chips /\ "prog" \in Chips /\ 0 \in Slots /\ 1 \in Slots
  BY FirstSlots DEF Chips
<1>2. /\ x.spi /\ x.ready["fpga"] /\ x.handle["fpga"] = 0 /\ x.slots[0] = SlotOf("fpga")
      /\ x.count = Next1(x) /\ \A i \in Slots : i >= Next1(x) => x.slots[i] = EmptySlot
      /\ HasProgrammer(x) => x.ready["prog"] /\ x.slots[1] = SlotOf("prog")
  BY DEF Boards, Based, Mounted
<1>3. PICK z : z = RemoveChip(x, "fpga")
  OBVIOUS
<1>4. /\ z \in Memories /\ Others(x, z) /\ z.handle = x.handle /\ (z.ready["prog"] <=> x.ready["prog"])
      /\ \A i \in Slots : i # 0 => z.slots[i] = x.slots[i]
      /\ z.count = x.count - 1 /\ z.slots[0].open = FALSE /\ z.slots[0].chip = "none"
  <2>1. x.count # 0 /\ x.slots[0].chip # "none"
    BY <1>2 DEF Next1, SlotOf
  <2>2. Removed(x, z, "fpga")
    BY <1>1, <1>3, Removing
  <2> QED
    BY <1>1, <1>2, <2>1, <2>2 DEF Removed
<1>5. y = Close(z, "prog")
  BY <1>2, <1>3 DEF CloseFpga
<1>6. y.spi
  <2>1. z.spi
    BY <1>2, <1>4 DEF Others
  <2>2. y = z \/ Removed(z, y, "prog")
    BY <1>1, <1>4, <1>5, Removing DEF Close
  <2> QED
    BY <2>1, <2>2 DEF Removed, Others
<1>7. y.count = 0 /\ \A i \in Slots : ~y.slots[i].open
  <2>1. CASE HasProgrammer(x)
    <3>1. y = RemoveChip(z, "prog") /\ z.handle["prog"] = 1
      BY <1>2, <1>4, <1>5, <2>1 DEF Close
    <3>2. z.count = 1 /\ z.slots[1].chip = "prog"
      BY <1>1, <1>2, <1>4, <2>1 DEF Next1, HasProgrammer
    <3>3. /\ \A i \in Slots : i # 1 => y.slots[i] = z.slots[i]
          /\ y.count = 0 /\ y.slots[1].open = FALSE
      <4>1. Removed(z, y, "prog")
        BY <1>1, <1>4, <3>1, Removing
      <4> QED
        BY <1>1, <3>1, <3>2, <4>1 DEF Removed
    <3>4. \A i \in Slots : i # 0 /\ i # 1 => x.slots[i] = EmptySlot
      BY <1>2, <2>1, FirstSlots DEF Next1, Slots
    <3> QED
      BY <1>1, <1>4, <3>3, <3>4 DEF EmptySlot
  <2>2. CASE ~HasProgrammer(x)
    <3>1. z.count = 0
      BY <1>2, <1>4, <2>2 DEF Next1
    <3>2. \A i \in Slots : i # 0 => x.slots[i] = EmptySlot
      BY <1>2, <2>2, FirstSlots DEF Next1, Slots
    <3>3. y.count = 0 /\ y.slots = z.slots
      <4>1. y = z \/ Removed(z, y, "prog")
        BY <1>1, <1>4, <1>5, Removing DEF Close
      <4> QED
        BY <3>1, <4>1 DEF Removed
    <3> QED
      BY <1>1, <1>4, <3>2, <3>3 DEF EmptySlot
  <2> QED
    BY <2>1, <2>2
<1> QED
  BY <1>6, <1>7 DEF ClosesRight, ClosedSlots, Slots

(* Releasing the I/O closes the SPI and its table and leaves the chips' own
   state alone. *)
LEMMA Releasing ==
  ASSUME NEW x \in Memories, NEW y, y = ReleaseIo(x)
  PROVE  /\ y \in Memories /\ ~y.spi /\ ~y.mapped /\ y.count = 0
         /\ y.status = x.status /\ y.cb = x.cb /\ y.smi = x.smi /\ y.users = x.users
         /\ y.ready = x.ready /\ y.handle = x.handle
         /\ OpenFiles(x) => OpenFiles(y)
         /\ x.spi \/ NoChips(x) => NoChips(y)
<1> DEFINE s == IF x.spi THEN [i \in Slots |-> EmptySlot] ELSE x.slots
<1>1. y = [x EXCEPT !.spi = FALSE, !.mapped = FALSE, !.count = 0, !.slots = s]
  BY DEF ReleaseIo
<1>2. s \in Table /\ x.slots \in Table
  BY DEF Memories, Table, EmptySlot
<1>3. OpenFiles(x) => \A i \in Slots : s[i].open => HasFile(s[i].chip)
  BY DEF OpenFiles, EmptySlot
<1>4. x.spi \/ NoChips(x) => \A i \in Slots : s[i] = EmptySlot
  BY DEF NoChips
<1> HIDE DEF s
<1>5. /\ ~y.spi /\ ~y.mapped /\ y.count = 0 /\ y.slots = s
      /\ y.status = x.status /\ y.cb = x.cb /\ y.smi = x.smi /\ y.users = x.users
      /\ y.ready = x.ready /\ y.handle = x.handle
  <2>1. ~y.spi /\ ~y.mapped /\ y.count = 0 /\ y.slots = s
    BY <1>1 DEF Memories
  <2>2. y.status = x.status /\ y.cb = x.cb /\ y.smi = x.smi
    BY <1>1 DEF Memories
  <2>3. y.users = x.users /\ y.ready = x.ready /\ y.handle = x.handle
    BY <1>1 DEF Memories
  <2> QED
    BY <2>1, <2>2, <2>3
<1>6. y \in Memories
  <2>1. y = [x EXCEPT !.spi = y.spi, !.mapped = y.mapped, !.count = y.count, !.slots = y.slots]
    BY <1>1, <1>5
  <2>2. y.spi \in BOOLEAN /\ y.mapped \in BOOLEAN /\ y.count \in Nat /\ y.slots \in Table
    BY <1>1, <1>2, <1>5 DEF Memories
  <2> QED
    BY <2>1, <2>2 DEF Memories, Table
<1> QED
  BY <1>3, <1>4, <1>5, <1>6 DEF OpenFiles, NoChips

(* What the history notes when the I/O is released: nothing new if the table is right. *)
LEMMA IoHistory ==
  ASSUME NEW x \in Memories, OpenFiles(x), NEW p \in Pasts, NEW q, q = IoReleased(p, x)
  PROVE  /\ q \in Pasts /\ q.failed = p.failed
         /\ "smi" \in q.twice => "smi" \in p.twice
         /\ ClosesRight(x) => q.lost = p.lost /\ q.twice = p.twice
<1> DEFINE left == {x.slots[i].chip : i \in {j \in Slots \ ClosedSlots(x) : x.slots[j].open}}
           again == \E i \in ClosedSlots(x) : ~x.slots[i].open
           lost == p.lost \cup left
           twice == IF again THEN p.twice \cup {"spidev"} ELSE p.twice
<1>1. q = [p EXCEPT !.lost = lost, !.twice = twice]
  BY DEF IoReleased
<1>2. left \subseteq {"smi", "fpga", "modem"}
  BY DEF OpenFiles, HasFile
<1>3. ClosesRight(x) => left = {} /\ ~again
  BY DEF ClosesRight, ClosedSlots
<1>4. p.lost \in SUBSET {"smi", "fpga", "modem"} /\ p.twice \in SUBSET {"smi", "spidev"}
  BY DEF Pasts
<1>5. lost \in SUBSET {"smi", "fpga", "modem"} /\ twice \in SUBSET {"smi", "spidev"}
  BY <1>2, <1>4
<1>6. /\ ClosesRight(x) => lost = p.lost /\ twice = p.twice
      /\ "smi" \in twice => "smi" \in p.twice
  BY <1>3
<1> HIDE DEF lost, twice
<1>7. q \in Pasts /\ q.failed = p.failed /\ q.lost = lost /\ q.twice = twice
  BY <1>1, <1>5 DEF Pasts
<1> QED
  BY <1>6, <1>7

-----------------------------------------------------------------------------
(* The inductive invariant holds at first. *)

Stages == {"idle", "dead"} \cup SetUpStages \cup ReleaseStages
Control == [main : Stages, handler : {"none", "stuck"} \cup ReleaseStages]

(* A fresh process satisfies the invariant. *)
LEMMA InitOk == Init => IInv
<1> SUFFICES ASSUME Init PROVE IInv
  OBVIOUS
<1>1. 0 \in Slots /\ MaxChips \in Nat
  BY FirstSlots
<1>2. /\ m.status = "unintialized" /\ m.cb = "none" /\ m.spi = FALSE /\ m.smi = "none"
      /\ m.mapped = FALSE /\ m.users = 0 /\ m.count = 0
      /\ m.slots = [i \in Slots |-> EmptySlot] /\ m.ready = [c \in Chips |-> FALSE]
      /\ m.handle = [c \in Chips |-> 0]
  BY DEF Init, NewMemory
<1>3. m \in Memories
  <2>1. [i \in Slots |-> EmptySlot] \in Table
    BY DEF Table, EmptySlot
  <2>2. [c \in Chips |-> FALSE] \in [Chips -> BOOLEAN] /\ [c \in Chips |-> 0] \in [Chips -> Slots]
    BY <1>1
  <2> QED
    BY <2>1, <2>2 DEF Init, NewMemory, Memories, Table
<1>4. pc \in Control /\ pc.main = "idle" /\ pc.handler = "none"
  BY DEF Init, Control, Stages
<1>5. past \in Pasts /\ past.lost = {} /\ past.twice = {}
  BY DEF Init, Pasts
<1>6. TypeOK
  BY <1>1, <1>2, <1>3, <1>4, <1>5 DEF TypeOK, Init, Control, Stages
<1>7. OpenFiles(m)
  BY <1>2 DEF OpenFiles, EmptySlot
<1>8. Rested(m) /\ ~Full(m)
  BY <1>2 DEF Rested, Nothing, NoChips, Half, Full
<1>9. Consistent("idle", m, fpga, call, past)
  <2>1. m.smi # "open" /\ ~m.ready["prog"] /\ ~m.ready["mixer"]
    BY <1>2 DEF Chips
  <2> QED
    BY <1>5, <1>8, <2>1
       DEF Consistent, SetUpTable, ReleaseTable, Device, SmiInUse, History, Steady
<1> QED
  BY <1>4, <1>6, <1>7, <1>9 DEF IInv

-----------------------------------------------------------------------------
(* What all the steps share. *)

(* The main program goes to its next stage. *)
LEMMA Going ==
  ASSUME pc \in Control, NEW s \in Stages, Main(s)
  PROVE  pc' \in Control /\ pc'.main = s /\ pc'.handler = pc.handler
BY DEF Main, Control

(* The variables' types, from the type invariant. *)
LEMMA Typed ==
  ASSUME TypeOK
  PROVE  /\ m \in Memories /\ m.count \in Nat /\ m.users \in Nat /\ m.count <= MaxChips
         /\ fpga \in {"blank", "configured"} /\ pc \in Control /\ call \in Calls /\ past \in Pasts
BY DEF TypeOK, Memories, Control, Stages

(* What the invariant says at a stage that the main program alone runs. *)
LEMMA AtStage ==
  ASSUME IInv, NEW s \in Stages \ {"dead"}, At(s)
  PROVE  /\ TypeOK /\ OpenFiles(m) /\ pc.main = s /\ pc.handler = "none"
         /\ Consistent(s, m, fpga, call, past)
BY DEF IInv, At, Calm, Alive

(* The invariant holds where the memory is what the stage arrived at wants. *)
LEMMA Arriving ==
  ASSUME m' \in Memories, m'.count <= MaxChips, OpenFiles(m)', fpga' \in {"blank", "configured"},
         pc' \in Control, call' \in Calls, past' \in Pasts,
         Consistent(pc'.main, m', fpga', call', past')
  PROVE  IInv'
BY DEF IInv, TypeOK, Control, Stages

(* A call that has failed leaves the driver at rest. *)
LEMMA FailedOk ==
  ASSUME TypeOK, pc.handler = "none",
         NEW x \in Memories, OpenFiles(x), Rested(x), ~Full(x), Failed(x),
         x.ready["prog"] => x.handle["prog"] = 1, call.product # "full" => ~x.ready["mixer"],
         fpga' \in {"blank", "configured"}, call' \in Calls, call'.product = call.product,
         past' \in Pasts, History(past'), x.smi = "open" => past'.failed
  PROVE  IInv'
<1>1. /\ m' \in Memories /\ OpenFiles(m') /\ Rested(m') /\ ~Full(m') /\ m'.smi = x.smi
      /\ m'.count = x.count
      /\ m'.ready = x.ready /\ m'.handle = x.handle
  <2>1. CASE m' = x
    BY <2>1
  <2>2. CASE m' = [x EXCEPT !.cb = "first", !.users = 1]
    BY <2>2 DEF Memories, OpenFiles, Rested, Nothing, NoChips, Full, Half
  <2> QED
    BY <2>1, <2>2 DEF Failed
<1>2. pc' \in Control /\ pc'.main \in {"idle", "dead"}
  BY Typed, Going DEF Failed, Stages
<1>3. m'.count <= MaxChips
  BY <1>1, FirstSlots DEF Rested, Nothing, NoChips
<1>4. Consistent(pc'.main, m', fpga', call', past')
  <2>1. SetUpTable(pc'.main, m', fpga', call') /\ ReleaseTable(pc'.main, m', fpga', call')
    BY <1>1, <1>2 DEF SetUpTable, ReleaseTable
  <2>2. Device(pc'.main, m', past')
    BY <1>1, <1>2 DEF Device, SmiInUse
  <2> QED
    BY <1>1, <2>1, <2>2 DEF Consistent, Steady
<1> QED
  BY <1>1, <1>2, <1>3, <1>4, Arriving

-----------------------------------------------------------------------------
(* A set-up keeps the invariant, one lemma for every action. *)

(* A setup starts from an idle library. *)
LEMMA SetUpOk ==
  ASSUME IInv, NEW force \in BOOLEAN, SetUp(force)
  PROVE  IInv'
<1>1. /\ TypeOK /\ OpenFiles(m) /\ pc.main = "idle" /\ pc.handler = "none"
      /\ Consistent("idle", m, fpga, call, past) /\ pc.main \in Stages \ {"dead"}
  BY AtStage DEF SetUp, Stages
<1>2. /\ m \in Memories /\ pc \in Control /\ call \in Calls /\ past \in Pasts /\ m.count <= MaxChips
      /\ fpga' \in {"blank", "configured"}
  BY <1>1, Typed DEF SetUp
<1> DEFINE fresh == call.client = "session"
           x == IF fresh THEN Fresh ELSE m
<1>3. /\ (Full(m) /\ Ready(m, fpga, call)) \/ (~Full(m) /\ Rested(m))
      /\ fresh => ~Full(m)
  BY <1>1 DEF SetUp, Client, Consistent, ReleaseTable, Steady
<1>4. /\ x \in Memories /\ OpenFiles(x) /\ x.count <= MaxChips
      /\ Full(x) => Ready(x, fpga, call)
      /\ ~Full(x) => Rested(x)
      /\ x.smi = "open" => m.smi = "open" /\ ~fresh
      /\ x.ready["prog"] => x.handle["prog"] = 1
      /\ call.product # "full" => ~x.ready["mixer"]
      /\ Full(x) => x.smi = "open"
      /\ ~fresh => x = m
  <2>1. CASE fresh
    <3>1. [i \in Slots |-> EmptySlot] \in Table
      BY DEF Table, EmptySlot
    <3>2. [c \in Chips |-> FALSE] \in [Chips -> BOOLEAN] /\ [c \in Chips |-> 0] \in [Chips -> Slots]
      BY FirstSlots
    <3>3. m.users \in Nat
      BY <1>2 DEF Memories
    <3>4. Fresh \in Memories
      BY <3>1, <3>2, <3>3 DEF Fresh, NewMemory, Memories, Table
    <3>5. /\ Fresh.status = "unintialized" /\ ~Fresh.spi /\ Fresh.smi = "none" /\ ~Fresh.mapped
          /\ Fresh.count = 0 /\ Fresh.slots = [i \in Slots |-> EmptySlot]
          /\ Fresh.ready = [c \in Chips |-> FALSE]
      BY DEF Fresh, NewMemory
    <3>6. /\ Rested(Fresh) /\ ~Full(Fresh) /\ OpenFiles(Fresh) /\ ~Fresh.ready["prog"]
          /\ ~Fresh.ready["mixer"]
      BY <3>5 DEF Rested, Nothing, NoChips, Half, Full, OpenFiles, EmptySlot, Chips
    <3> QED
      BY <2>1, <3>4, <3>5, <3>6, FirstSlots
  <2>2. CASE ~fresh
    <3>1. Full(m) => m.smi = "open"
      BY <1>1 DEF Consistent, Device, SmiInUse
    <3> QED
      BY <1>1, <1>2, <1>3, <2>2, <3>1 DEF Consistent, Steady
  <2> QED
    BY <2>1, <2>2
<1> HIDE DEF x
<1>5. /\ m' = IF x.status = "unintialized" THEN [x EXCEPT !.cb = "none"] ELSE x
      /\ Main(FirstStage(x))
  BY DEF SetUp, x, Client
<1>6. /\ m' \in Memories /\ m'.status = x.status /\ m'.smi = x.smi /\ m'.count = x.count
      /\ m'.slots = x.slots /\ m'.spi = x.spi /\ m'.mapped = x.mapped
      /\ m'.ready = x.ready /\ m'.handle = x.handle
  <2>1. CASE m' = x
    BY <1>4, <2>1
  <2>2. CASE m' = [x EXCEPT !.cb = "none"]
    BY <1>4, <2>2 DEF Memories
  <2> QED
    BY <1>5, <2>1, <2>2
<1>7. /\ OpenFiles(m') /\ (Rested(x) => Rested(m')) /\ Full(m') = Full(x)
      /\ Ready(x, fpga, call) => Ready(m', fpga, call)
  <2>1. OpenFiles(m') /\ Full(m') = Full(x)
    BY <1>4, <1>6 DEF OpenFiles, Full
  <2>2. Rested(x) => Rested(m')
    BY <1>6 DEF Rested, Nothing, NoChips, Half
  <2>3. Ready(x, fpga, call) => Ready(m', fpga, call)
    BY <1>6 DEF Ready, Whole, Boards, Based, Mounted, HasProgrammer, Next1, HasMixer
  <2> QED
    BY <2>1, <2>2, <2>3
<1>8. /\ call' \in Calls /\ call'.product = call.product /\ call'.left = call.left
      /\ call'.client = call.client
  BY <1>2 DEF SetUp, Calls
<1>9. /\ past' \in Pasts /\ History(past') /\ (m.smi = "open" /\ ~fresh /\ ~Full(m) => past'.failed)
  <2> DEFINE lost == IF fresh /\ m.smi = "open" THEN past.lost \cup {"smi"} ELSE past.lost
  <2>1. past' = [past EXCEPT !.calls = past.calls + 1, !.lost = lost]
    BY DEF SetUp, Client
  <2>2. lost \in SUBSET {"smi", "fpga", "modem"} /\ past.calls + 1 \in Nat
    BY <1>2 DEF Pasts
  <2>3. Device("idle", m, past) /\ History(past)
    BY <1>1 DEF Consistent
  <2>4. m.smi = "open" /\ ~Full(m) => past.failed
    BY <2>3 DEF Device, SmiInUse
  <2>5. lost # {} => past.failed
    BY <1>3, <2>3, <2>4 DEF History
  <2> HIDE DEF lost
  <2>6. past' \in Pasts
    BY <1>2, <2>1, <2>2 DEF Pasts
  <2>7. past'.lost = lost /\ past'.twice = past.twice /\ past'.failed = past.failed
    BY <1>2, <2>1 DEF Pasts
  <2> QED
    BY <2>3, <2>4, <2>5, <2>6, <2>7 DEF History
<1>10. PICK s \in {"detect", "smi", "succeed"} :
         /\ s = FirstStage(x) /\ pc' \in Control /\ pc'.main = s
         /\ s = "detect" <=> Unset(x)
         /\ s = "smi" <=> Half(x)
         /\ s = "succeed" <=> Full(x)
  <2>1. x.status \in {"unintialized", "minimal_init", "full_init"}
    BY <1>4 DEF Memories
  <2> QED
    BY <1>2, <1>5, <2>1, Going DEF FirstStage, Unset, Half, Full, Stages, SetUpStages
<1>11. Consistent(s, m', fpga, call', past')
  <2>1. CASE s = "succeed"
    <3>1. Full(m') /\ Ready(m', fpga, call') /\ m'.smi = "open"
      BY <1>4, <1>6, <1>7, <1>8, <1>10, <2>1 DEF Ready, Configured
    <3> QED
      BY <1>4, <1>6, <1>8, <1>9, <2>1, <3>1
         DEF Consistent, SetUpTable, ReleaseTable, Device, SmiInUse, Steady
  <2>2. CASE s # "succeed"
    <3>0. ~Full(x)
      BY <1>10, <2>2
    <3>1. Rested(m') /\ (m'.smi = "open" => past'.failed)
      BY <1>4, <1>6, <1>7, <1>9, <3>0
    <3>2. s = "detect" => Unset(m') /\ Nothing(m')
      BY <1>6, <1>10, <3>1 DEF Unset, Rested
    <3>3. s = "smi" => Half(m') /\ Rested(m')
      BY <1>6, <1>10, <3>1 DEF Half
    <3> QED
      BY <1>4, <1>6, <1>8, <1>9, <2>2, <3>1, <3>2, <3>3
         DEF Consistent, SetUpTable, ReleaseTable, Device, SmiInUse, Steady
  <2> QED
    BY <2>1, <2>2
<1>12. fpga' = fpga /\ m'.count <= MaxChips
  BY <1>4, <1>6 DEF SetUp
<1> QED
  BY <1>2, <1>6, <1>7, <1>8, <1>9, <1>10, <1>11, <1>12, Arriving

(* Memories with the same I/O, chips and drivers. *)
Alike(x, y) ==
  /\ y.mapped = x.mapped /\ y.spi = x.spi /\ y.slots = x.slots /\ y.count = x.count
  /\ y.ready = x.ready /\ y.handle = x.handle

(* Memories whose chips and table are alike are in the same stage. *)
LEMMA AlikeHold ==
  ASSUME NEW x, NEW y, Alike(x, y), NEW p
  PROVE  /\ OpenFiles(x) => OpenFiles(y)
         /\ NoChips(x) => NoChips(y)
         /\ Nothing(x) => Nothing(y)
         /\ Next1(y) = Next1(x)
         /\ \A n : Boards(x, n) => Boards(y, n)
         /\ \A n : Mounted(x, "modem", n) => Mounted(y, "modem", n)
         /\ Whole(x, p) => Whole(y, p)
         /\ ClosesRight(x) => ClosesRight(y)
<1>1. OpenFiles(x) => OpenFiles(y)
  BY DEF Alike, OpenFiles
<1>2. (NoChips(x) => NoChips(y)) /\ (Nothing(x) => Nothing(y))
  BY DEF Alike, NoChips, Nothing
<1>3. Next1(y) = Next1(x) /\ \A c, n : Mounted(x, c, n) <=> Mounted(y, c, n)
  BY DEF Alike, Next1, HasProgrammer, Mounted
<1>4. \A n : Boards(x, n) => Boards(y, n)
  BY <1>3 DEF Alike, Boards, Based, HasProgrammer
<1>5. Whole(x, p) => Whole(y, p)
  BY <1>3, <1>4 DEF Whole, HasMixer
<1>6. ClosesRight(x) => ClosesRight(y)
  BY <1>2 DEF Alike, ClosesRight, ClosedSlots
<1> QED
  BY <1>1, <1>2, <1>3, <1>4, <1>5, <1>6

(* A second session joins a driver that is ready. *)
LEMMA JoinSessionOk == IInv /\ JoinSession => IInv'
<1> SUFFICES ASSUME IInv, JoinSession PROVE IInv'
  OBVIOUS
<1>1. /\ TypeOK /\ OpenFiles(m) /\ pc.main = "idle"
      /\ Consistent("idle", m, fpga, call, past)
  BY AtStage DEF JoinSession, Stages
<1>2. /\ m \in Memories /\ pc \in Control /\ call \in Calls /\ past \in Pasts /\ m.count <= MaxChips
      /\ fpga \in {"blank", "configured"}
  BY <1>1, Typed
<1>3. /\ m' \in Memories /\ m'.status = m.status /\ m'.smi = m.smi /\ m'.users = 2 /\ Alike(m, m')
  <2>1. m' = [m EXCEPT !.users = 2]
    BY DEF JoinSession
  <2> QED
    BY <1>2, <2>1 DEF Memories, Alike
<1>4. Consistent("idle", m', fpga, call, past)
  BY <1>1, <1>3, AlikeHold
     DEF Consistent, SetUpTable, ReleaseTable, Device, SmiInUse, Steady, Ready, Full, Half, Rested, Alike
<1> QED
  BY <1>1, <1>2, <1>3, <1>4, AlikeHold, Arriving DEF JoinSession, Alike

(* The setup succeeds with every chip open. *)
LEMMA SucceedOk == IInv /\ Succeed => IInv'
<1> SUFFICES ASSUME IInv, Succeed PROVE IInv'
  OBVIOUS
<1>1. TypeOK /\ OpenFiles(m) /\ Consistent("succeed", m, fpga, call, past)
  BY AtStage DEF Succeed, Stages, SetUpStages
<1>2. /\ m \in Memories /\ pc \in Control /\ call \in Calls /\ past \in Pasts /\ m.count <= MaxChips
      /\ fpga \in {"blank", "configured"}
  BY <1>1, Typed
<1>3. /\ m' \in Memories /\ m'.status = m.status /\ m'.smi = m.smi /\ m'.users = 1 /\ Alike(m, m')
  <2>1. PICK cb \in {"override", "last", "first"} : m' = [m EXCEPT !.users = 1, !.cb = cb]
    BY <1>2 DEF Succeed, Client, Calls
  <2> QED
    BY <1>2, <2>1 DEF Memories, Alike
<1>4. pc' \in Control /\ pc'.main = "idle"
  BY <1>2, Going DEF Succeed, Stages
<1>5. Consistent("idle", m', fpga, call, past)
  BY <1>1, <1>3, AlikeHold
     DEF Consistent, SetUpTable, ReleaseTable, Device, SmiInUse, Steady, Ready, Full, Half, Rested, Alike
<1> QED
  BY <1>1, <1>2, <1>3, <1>4, <1>5, AlikeHold, Arriving DEF Succeed, Alike

(* The HAT is detected or not. *)
LEMMA DetectOk == IInv /\ Detect => IInv'
<1> SUFFICES ASSUME IInv, Detect PROVE IInv'
  OBVIOUS
<1>1. TypeOK /\ OpenFiles(m) /\ Consistent("detect", m, fpga, call, past) /\ pc.handler = "none"
  BY AtStage DEF Detect, Stages, SetUpStages
<1>2. /\ m \in Memories /\ pc \in Control /\ call \in Calls /\ past \in Pasts /\ m.count <= MaxChips
      /\ fpga \in {"blank", "configured"}
  BY <1>1, Typed
<1>3. /\ Unset(m) /\ Nothing(m) /\ History(past) /\ (m.smi = "open" => past.failed)
      /\ m.ready["prog"] => m.handle["prog"] = 1
      /\ call.product # "full" => ~m.ready["mixer"]
  BY <1>1 DEF Consistent, SetUpTable, Device, SmiInUse, Steady
<1>4. CASE Main("io") /\ UNCHANGED <<m, past>>
  <2>1. pc' \in Control /\ pc'.main = "io"
    BY <1>2, <1>4, Going DEF Stages, SetUpStages
  <2>2. Consistent("io", m, fpga, call, past)
    BY <1>3 DEF Consistent, SetUpTable, ReleaseTable, Device, SmiInUse, Steady
  <2> QED
    BY <1>1, <1>2, <1>4, <2>1, <2>2, Arriving DEF Detect
<1>5. CASE Fault /\ Failed(m)
  <2>1. /\ past' \in Pasts /\ History(past') /\ past'.failed = past.failed
    BY <1>2, <1>3, <1>5 DEF Fault, Pasts, History
  <2>2. Rested(m) /\ ~Full(m)
    BY <1>3 DEF Rested, Unset, Half, Full
  <2> QED
    BY <1>1, <1>2, <1>3, <1>5, <2>1, <2>2, FailedOk DEF Detect
<1> QED
  BY <1>4, <1>5 DEF Detect

(* The I/O is set up. *)
LEMMA SetupIoOk == IInv /\ SetupIo => IInv'
<1> SUFFICES ASSUME IInv, SetupIo PROVE IInv'
  OBVIOUS
<1>1. TypeOK /\ OpenFiles(m) /\ Consistent("io", m, fpga, call, past)
  BY AtStage DEF SetupIo, Stages, SetUpStages
<1>2. /\ m \in Memories /\ pc \in Control /\ call \in Calls /\ past \in Pasts
      /\ fpga \in {"blank", "configured"}
  BY <1>1, Typed
<1>3. /\ m' \in Memories /\ m'.status = m.status /\ m'.smi = m.smi /\ m'.users = m.users
      /\ m'.ready = m.ready /\ m'.handle = m.handle /\ m'.count = 0 /\ m'.mapped /\ m'.spi
      /\ m'.slots = [i \in Slots |-> EmptySlot]
  <2>1. [i \in Slots |-> EmptySlot] \in Table
    BY DEF Table, EmptySlot
  <2>2. PICK t \in Table : t = [i \in Slots |-> EmptySlot]
    BY <2>1
  <2>3. m' = [m EXCEPT !.mapped = TRUE, !.spi = TRUE, !.count = 0, !.slots = t]
    BY <2>2 DEF SetupIo
  <2> QED
    BY <1>2, <2>2, <2>3 DEF Memories, Table
<1>4. pc' \in Control /\ pc'.main = "fpga"
  BY <1>2, Going DEF SetupIo, Stages, SetUpStages
<1>5. OpenFiles(m') /\ NoChips(m')
  BY <1>3 DEF OpenFiles, NoChips, EmptySlot
<1>6. Consistent("fpga", m', fpga, call, past)
  BY <1>1, <1>3, <1>5
     DEF Consistent, SetUpTable, ReleaseTable, Device, SmiInUse, Steady, Unset
<1> QED
  BY <1>1, <1>2, <1>3, <1>4, <1>5, <1>6, FirstSlots, Arriving DEF SetupIo

(* The FPGA is opened. *)
LEMMA InitFpgaOk == IInv /\ InitFpga => IInv'
<1> SUFFICES ASSUME IInv, InitFpga PROVE IInv'
  OBVIOUS
<1>1. TypeOK /\ OpenFiles(m) /\ Consistent("fpga", m, fpga, call, past)
  BY AtStage DEF InitFpga, Stages, SetUpStages
<1>2. /\ m \in Memories /\ pc \in Control /\ call \in Calls /\ past \in Pasts
      /\ fpga \in {"blank", "configured"}
  BY <1>1, Typed
<1>3. /\ Unset(m) /\ m.mapped /\ m.spi /\ m.count = 0 /\ \A i \in Slots : m.slots[i] = EmptySlot
  BY <1>1 DEF Consistent, SetUpTable, NoChips
<1>4. 0 \in Slots /\ 1 \in Slots /\ "fpga" \in Chips /\ "prog" \in Chips /\ "mixer" \in Chips
  BY FirstSlots DEF Chips
<1>5. PICK x : x = AddChip(m, "fpga")
  OBVIOUS
<1>6. Added(m, x, "fpga", 0)
  <2>1. \A i \in 0..(0 - 1) : m.slots[i].chip # "none"
    OBVIOUS
  <2> QED
    BY <1>2, <1>3, <1>4, <1>5, <2>1, Adding
<1>7. /\ x \in Memories /\ Others(m, x) /\ x.slots[0] = SlotOf("fpga") /\ x.count = 1
      /\ \A i \in Slots : i # 0 => x.slots[i] = EmptySlot
      /\ x.ready["fpga"] /\ x.handle["fpga"] = 0
      /\ x.ready["prog"] => x.handle["prog"] = 1
      /\ call.product # "full" => ~x.ready["mixer"]
  <2>1. (m.ready["prog"] => m.handle["prog"] = 1) /\ (call.product # "full" => ~m.ready["mixer"])
    BY <1>1 DEF Consistent, Steady
  <2> QED
    BY <1>3, <1>4, <1>6, <2>1 DEF Added
<1>8. m' = IF x.ready["prog"] THEN x ELSE AddChip(x, "prog")
  BY <1>5 DEF InitFpga
<1>9. /\ m' \in Memories /\ Others(m, m') /\ Boards(m', Next1(m')) /\ m'.count \in {1, 2}
      /\ m'.ready["prog"] => m'.handle["prog"] = 1
      /\ call.product # "full" => ~m'.ready["mixer"]
      /\ OpenFiles(m')
  <2>1. CASE x.ready["prog"]
    <3>1. m' = x /\ ~HasProgrammer(x)
      BY <1>4, <1>7, <1>8, <2>1 DEF HasProgrammer, EmptySlot
    <3>2. Boards(x, 1)
      BY <1>3, <1>4, <1>7, <3>1 DEF Boards, Based, Mounted, Others, Slots
    <3>3. OpenFiles(x)
      BY <1>7 DEF OpenFiles, EmptySlot, SlotOf
    <3> QED
      BY <1>7, <3>1, <3>2, <3>3 DEF Next1
  <2>2. CASE ~x.ready["prog"]
    <3>1. Added(x, m', "prog", 1)
      <4>1. x.slots[0].chip # "none" /\ x.slots[1] = EmptySlot
        BY <1>4, <1>7 DEF SlotOf
      <4>2. \A i \in 0..(1 - 1) : x.slots[i].chip # "none"
        BY <4>1
      <4> QED
        BY <1>4, <1>7, <1>8, <2>2, <4>1, <4>2, Adding
    <3>2. /\ m' \in Memories /\ Others(x, m') /\ m'.slots[1] = SlotOf("prog") /\ m'.count = 2
          /\ m'.slots[0] = SlotOf("fpga")
          /\ \A i \in Slots : i # 0 /\ i # 1 => m'.slots[i] = EmptySlot
          /\ m'.ready["fpga"] /\ m'.handle["fpga"] = 0
          /\ m'.ready["prog"] /\ m'.handle["prog"] = 1
          /\ call.product # "full" => ~m'.ready["mixer"]
      BY <1>4, <1>7, <3>1 DEF Added
    <3>3. HasProgrammer(m')
      BY <3>2 DEF HasProgrammer, SlotOf
    <3>4. Boards(m', 2)
      BY <1>3, <1>4, <1>7, <3>2, <3>3 DEF Boards, Based, Mounted, Others, Slots
    <3>5. OpenFiles(m')
      BY <3>2 DEF OpenFiles, EmptySlot, SlotOf
    <3> QED
      BY <1>7, <3>2, <3>3, <3>4, <3>5 DEF Next1, Others
  <2> QED
    BY <2>1, <2>2
<1>10. call' \in Calls /\ call'.product = call.product /\ call'.client = call.client
  BY <1>2 DEF InitFpga, Calls
<1>11. pc' \in Control /\ pc'.main = "program"
  BY <1>2, Going DEF InitFpga, Stages, SetUpStages
<1>12. Consistent("program", m', fpga, call', past)
  BY <1>1, <1>3, <1>9, <1>10
     DEF Consistent, SetUpTable, ReleaseTable, Device, SmiInUse, Steady, Unset, Others
<1> QED
  BY <1>2, <1>9, <1>10, <1>11, <1>12, FirstSlots, Arriving DEF InitFpga

(* The FPGA is configured, or need not be: the driver is half set up. *)
LEMMA ProgrammedOk ==
  ASSUME IInv, At("program"), Main("smi"), m' = [m EXCEPT !.status = "minimal_init"],
         fpga' \in {"blank", "configured"}, call' \in Calls, UNCHANGED past,
         call'.product = call.product, Configured(fpga', call')
  PROVE  IInv'
<1>1. TypeOK /\ OpenFiles(m) /\ Consistent("program", m, fpga, call, past)
  BY AtStage DEF Stages, SetUpStages
<1>2. m \in Memories /\ pc \in Control /\ past \in Pasts /\ m.count <= MaxChips
  BY <1>1, Typed
<1>3. /\ m' \in Memories /\ Half(m') /\ m'.smi = m.smi /\ m'.users = m.users /\ Alike(m, m')
  BY <1>2 DEF Memories, Alike, Half
<1>4. pc' \in Control /\ pc'.main = "smi"
  BY <1>2, Going DEF Stages, SetUpStages
<1>5. Boards(m, Next1(m)) /\ Unset(m)
  BY <1>1 DEF Consistent, SetUpTable
<1>6. Boards(m', Next1(m')) /\ OpenFiles(m')
  BY <1>1, <1>3, <1>5, AlikeHold
<1>7. Consistent("smi", m', fpga', call', past)
  BY <1>1, <1>3, <1>6
     DEF Consistent, SetUpTable, ReleaseTable, Device, SmiInUse, Steady, Alike
<1> QED
  BY <1>2, <1>3, <1>4, <1>6, <1>7, Arriving DEF Alike

(* The FPGA is kept as it is configured. *)
LEMMA KeepFpgaOk == IInv /\ KeepFpga => IInv'
<1> SUFFICES ASSUME IInv, KeepFpga PROVE IInv'
  OBVIOUS
<1>1. call \in Calls /\ fpga \in {"blank", "configured"}
  BY Typed DEF IInv
<1> QED
  BY <1>1, ProgrammedOk DEF KeepFpga, NeedsProgram, Configured

(* The attempts to program the FPGA run out. *)
LEMMA ProgramExhaustedOk == IInv /\ ProgramExhausted => IInv'
<1> SUFFICES ASSUME IInv, ProgramExhausted PROVE IInv'
  OBVIOUS
<1>1. call \in Calls /\ fpga \in {"blank", "configured"}
  BY Typed DEF IInv
<1> QED
  BY <1>1, ProgrammedOk DEF ProgramExhausted, Configured

(* Programming fails and is retried. *)
LEMMA ProgramFailsOk == IInv /\ ProgramFails => IInv'
<1> SUFFICES ASSUME IInv, ProgramFails PROVE IInv'
  OBVIOUS
<1>1. TypeOK /\ OpenFiles(m) /\ pc.main = "program" /\ Consistent("program", m, fpga, call, past)
  BY AtStage DEF ProgramFails, Stages, SetUpStages
<1>2. /\ m \in Memories /\ pc \in Control /\ call \in Calls /\ past \in Pasts /\ m.count <= MaxChips
  BY <1>1, Typed
<1>3. call' \in Calls /\ call'.product = call.product /\ call'.client = call.client
  <2>1. call.left - 1 \in 0..3
    BY <1>2 DEF ProgramFails, Calls
  <2> QED
    BY <1>2, <2>1 DEF ProgramFails, Calls
<1>4. past' \in Pasts /\ past'.failed = past.failed /\ past'.lost = past.lost /\ past'.twice = past.twice
  <2>1. past' = past \/ past' = [past EXCEPT !.faults = past.faults + 1]
    BY DEF ProgramFails, Fault
  <2> QED
    BY <1>2, <2>1 DEF Pasts
<1>5. Consistent("program", m, fpga', call', past')
  BY <1>1, <1>3, <1>4
     DEF Consistent, SetUpTable, ReleaseTable, Device, SmiInUse, Steady, History
<1>6. fpga' \in {"blank", "configured"} /\ UNCHANGED <<m, pc>>
  BY DEF ProgramFails
<1> QED
  BY <1>1, <1>2, <1>3, <1>4, <1>5, <1>6, Arriving

(* A set-up that fails closes the FPGA and releases the I/O.  No file is lost or  *)
(* closed twice if closing the FPGA left open what the loop will close.          *)
LEMMA GivenBack ==
  ASSUME NEW x \in Memories, OpenFiles(x), NEW p \in Pasts,
         x.spi \/ NoChips(x), x.ready["prog"] => x.handle["prog"] = 1,
         NEW y, y = ReleaseIo(CloseFpga(x)), NEW q, q = IoReleased(p, CloseFpga(x))
  PROVE  /\ y \in Memories /\ OpenFiles(y) /\ Rested(y) /\ y.status = x.status /\ y.smi = x.smi
         /\ y.ready["prog"] => y.handle["prog"] = 1
         /\ ~x.ready["mixer"] => ~y.ready["mixer"]
         /\ q \in Pasts /\ q.failed = p.failed /\ ("smi" \in q.twice => "smi" \in p.twice)
         /\ NoChips(x) \/ Boards(x, Next1(x)) => q.lost = p.lost /\ q.twice = p.twice
<1>1. PICK z : z = CloseFpga(x)
  OBVIOUS
<1>2. /\ z \in Memories /\ OpenFiles(z) /\ Others(x, z) /\ ~z.ready["fpga"] /\ z.handle = x.handle
      /\ \A d \in Chips : z.ready[d] => x.ready[d]
      /\ NoChips(x) => NoChips(z)
  BY <1>1, ClosingFpga
<1>3. /\ y \in Memories /\ ~y.spi /\ ~y.mapped /\ y.count = 0 /\ y.status = z.status /\ y.smi = z.smi
      /\ y.ready = z.ready /\ y.handle = z.handle /\ OpenFiles(y)
      /\ z.spi \/ NoChips(z) => NoChips(y)
  BY <1>1, <1>2, Releasing
<1>4. /\ q \in Pasts /\ q.failed = p.failed /\ ("smi" \in q.twice => "smi" \in p.twice)
      /\ ClosesRight(z) => q.lost = p.lost /\ q.twice = p.twice
  BY <1>1, <1>2, IoHistory
<1>5. NoChips(x) \/ Boards(x, Next1(x)) => ClosesRight(z)
  <2>1. NoChips(z) => ClosesRight(z)
    BY DEF NoChips, ClosesRight, ClosedSlots, EmptySlot, Slots
  <2> QED
    BY <1>1, <1>2, <2>1, ClosingBase
<1>6. Rested(y)
  BY <1>2, <1>3 DEF Rested, Nothing, Others
<1> QED
  BY <1>2, <1>3, <1>4, <1>5, <1>6 DEF Others, Chips

(* The FPGA is programmed. *)
LEMMA ProgramOk == IInv /\ Program => IInv'
<1> SUFFICES ASSUME IInv, Program PROVE IInv'
  OBVIOUS
<1>1. /\ TypeOK /\ OpenFiles(m) /\ pc.handler = "none"
      /\ Consistent("program", m, fpga, call, past)
  BY AtStage DEF Program, Stages, SetUpStages
<1>2. /\ m \in Memories /\ pc \in Control /\ call \in Calls /\ past \in Pasts /\ m.count <= MaxChips
  BY <1>1, Typed
<1>3. call' \in Calls /\ call'.product = call.product /\ call'.client = call.client
  <2>1. call.left - 1 \in 0..3
    BY <1>2 DEF Program, Calls
  <2> QED
    BY <1>2, <2>1 DEF Program, Calls
<1>4. fpga' = "configured"
  BY DEF Program
<1>5. CASE call.left = 1
  <2>1. PICK y : y = ReleaseIo(CloseFpga(m))
    OBVIOUS
  <2>2. PICK q : q = IoReleased(past, CloseFpga(m))
    OBVIOUS
  <2>3. Failed(y) /\ past' = q
    BY <1>5, <2>1, <2>2 DEF Program
  <2>4. /\ Boards(m, Next1(m)) /\ Unset(m) /\ (m.ready["prog"] => m.handle["prog"] = 1)
        /\ call.product # "full" => ~m.ready["mixer"]
        /\ History(past) /\ (m.smi = "open" => past.failed) /\ m.spi
    BY <1>1 DEF Consistent, SetUpTable, Steady, Device, SmiInUse, Boards, Based
  <2>5. /\ y \in Memories /\ OpenFiles(y) /\ Rested(y) /\ y.status = m.status /\ y.smi = m.smi
        /\ y.ready["prog"] => y.handle["prog"] = 1
        /\ ~m.ready["mixer"] => ~y.ready["mixer"]
        /\ q \in Pasts /\ q.failed = past.failed /\ q.lost = past.lost /\ q.twice = past.twice
    BY <1>1, <1>2, <2>1, <2>2, <2>4, GivenBack
  <2>6. ~Full(y) /\ History(q)
    BY <2>4, <2>5 DEF Full, Unset, History
  <2> QED
    BY <1>1, <1>3, <1>4, <2>3, <2>4, <2>5, <2>6, FailedOk
<1>6. CASE call.left # 1
  <2>1. Main("smi") /\ m' = [m EXCEPT !.status = "minimal_init"] /\ past' = past
    BY <1>6 DEF Program
  <2> QED
    BY <1>3, <1>4, <2>1, ProgrammedOk DEF Program, Configured
<1> QED
  BY <1>5, <1>6

(* The SMI does not open. *)
LEMMA SmiFailsOk == IInv /\ SmiFails => IInv'
<1> SUFFICES ASSUME IInv, SmiFails PROVE IInv'
  OBVIOUS
<1>1. /\ TypeOK /\ OpenFiles(m) /\ pc.handler = "none" /\ Consistent("smi", m, fpga, call, past)
  BY AtStage DEF SmiFails, Stages, SetUpStages
<1>2. /\ m \in Memories /\ pc \in Control /\ call \in Calls /\ past \in Pasts
      /\ fpga \in {"blank", "configured"}
  BY <1>1, Typed
<1>3. /\ Half(m) /\ (Rested(m) \/ Boards(m, Next1(m))) /\ (m.ready["prog"] => m.handle["prog"] = 1)
      /\ call.product # "full" => ~m.ready["mixer"]
      /\ History(past) /\ (m.smi = "open" => past.failed)
  BY <1>1 DEF Consistent, SetUpTable, Steady, Device, SmiInUse
<1>4. PICK x : x = [m EXCEPT !.smi = "none"]
  OBVIOUS
<1>5. /\ x \in Memories /\ x.smi = "none" /\ x.status = m.status /\ Alike(m, x)
  BY <1>2, <1>4 DEF Memories, Alike
<1>6. PICK p : p = [past EXCEPT !.faults = @ + 1, !.lost = SmiLost]
  OBVIOUS
<1>7. /\ p \in Pasts /\ p.failed = past.failed /\ p.twice = past.twice
      /\ p.lost = past.lost \/ past.failed
  <2>1. SmiLost \in SUBSET {"smi", "fpga", "modem"} /\ past.faults + 1 \in Nat
    BY <1>2 DEF SmiLost, Pasts
  <2>2. SmiLost = past.lost \/ past.failed
    BY <1>3 DEF SmiLost
  <2>3. p.lost = SmiLost
    BY <1>2, <1>6 DEF Pasts
  <2> QED
    BY <1>2, <1>6, <2>1, <2>2, <2>3 DEF Pasts
<1>8. /\ OpenFiles(x) /\ (x.spi \/ NoChips(x)) /\ (NoChips(x) \/ Boards(x, Next1(x)))
      /\ x.ready["prog"] => x.handle["prog"] = 1
  <2>1. CASE Rested(m)
    <3>1. NoChips(m)
      BY <2>1 DEF Rested, Nothing
    <3> QED
      BY <1>1, <1>3, <1>5, <3>1, AlikeHold DEF Alike
  <2>2. CASE Boards(m, Next1(m))
    <3>1. Boards(x, Next1(x))
      BY <1>5, <2>2, AlikeHold
    <3> QED
      BY <1>1, <1>3, <1>5, <3>1, AlikeHold DEF Alike, Boards, Based
  <2> QED
    BY <1>3, <2>1, <2>2
<1>9. PICK y : y = ReleaseIo(CloseFpga(x))
  OBVIOUS
<1>10. PICK q : q = IoReleased(p, CloseFpga(x))
  OBVIOUS
<1>11. Failed(y) /\ past' = q
  BY <1>4, <1>6, <1>9, <1>10 DEF SmiFails, AfterFailure
<1>12. /\ y \in Memories /\ OpenFiles(y) /\ Rested(y) /\ y.status = x.status /\ y.smi = x.smi
       /\ y.ready["prog"] => y.handle["prog"] = 1
       /\ ~x.ready["mixer"] => ~y.ready["mixer"]
       /\ q \in Pasts /\ q.failed = p.failed /\ q.lost = p.lost /\ q.twice = p.twice
  BY <1>5, <1>7, <1>8, <1>9, <1>10, GivenBack
<1>13. ~Full(y) /\ History(q)
  BY <1>3, <1>5, <1>7, <1>12 DEF Full, Half, History
<1> QED
  BY <1>1, <1>2, <1>3, <1>5, <1>11, <1>12, <1>13, FailedOk DEF SmiFails, Alike

(* The SMI opens. *)
LEMMA SmiInitOk == IInv /\ SmiInit => IInv'
<1> SUFFICES ASSUME IInv, SmiInit PROVE IInv'
  OBVIOUS
<1>1. /\ TypeOK /\ OpenFiles(m) /\ Consistent("smi", m, fpga, call, past)
  BY AtStage DEF SmiInit, Stages, SetUpStages
<1>2. /\ m \in Memories /\ pc \in Control /\ call \in Calls /\ past \in Pasts
      /\ m.count <= MaxChips /\ fpga \in {"blank", "configured"}
  BY <1>1, Typed
<1>3. /\ Half(m) /\ (Rested(m) \/ (Boards(m, Next1(m)) /\ Configured(fpga, call)))
      /\ History(past) /\ (m.smi = "open" => past.failed)
  BY <1>1 DEF Consistent, SetUpTable, Device, SmiInUse
<1>4. m' \in Memories /\ m'.smi = "open" /\ m'.status = m.status /\ m'.users = m.users /\ Alike(m, m')
  BY <1>2 DEF SmiInit, Memories, Alike
<1>5. past' \in Pasts /\ History(past')
  <2>1. SmiLost \in SUBSET {"smi", "fpga", "modem"} /\ (SmiLost = past.lost \/ past.failed)
    BY <1>2, <1>3 DEF SmiLost, Pasts
  <2>2. past' = [past EXCEPT !.lost = SmiLost]
    BY DEF SmiInit
  <2> QED
    BY <1>2, <1>3, <2>1, <2>2 DEF Pasts, History
<1>6. OpenFiles(m') /\ m'.count <= MaxChips /\ fpga' \in {"blank", "configured"} /\ call' \in Calls
  BY <1>1, <1>2, <1>4, AlikeHold DEF SmiInit, Alike
<1>7. CASE m.mapped
  <2>1. pc' \in Control /\ pc'.main = "modem"
    BY <1>2, <1>7, Going DEF SmiInit, Stages, SetUpStages
  <2>2. Boards(m, Next1(m)) /\ Configured(fpga, call)
    BY <1>3, <1>7 DEF Rested, Nothing
  <2>3. Boards(m', Next1(m')) /\ Configured(fpga', call')
    BY <1>4, <2>2, AlikeHold DEF SmiInit
  <2>4. Consistent("modem", m', fpga', call', past')
    BY <1>1, <1>3, <1>4, <1>5, <2>3
       DEF Consistent, SetUpTable, ReleaseTable, Device, SmiInUse, Steady, Alike, Half, SmiInit
  <2> QED
    BY <1>4, <1>5, <1>6, <2>1, <2>4, Arriving
<1>8. CASE ~m.mapped
  <2>1. pc' = [pc EXCEPT !.handler = "release"]
    BY <1>8 DEF SmiInit
  <2>2. pc' \in Control /\ pc'.handler # "none"
    BY <1>2, <2>1 DEF Control, ReleaseStages
  <2> QED
    BY <1>4, <1>5, <1>6, <2>2 DEF IInv, TypeOK, Calm, Control, Stages
<1> QED
  BY <1>7, <1>8

(* A chip that is added to a board takes the slot behind the others. *)
LEMMA AddingBehind ==
  ASSUME NEW x \in Memories, OpenFiles(x), NEW n \in 1..3, Boards(x, n), n >= Next1(x),
         \A i \in 0..(n - 1) : x.slots[i].chip # "none",
         NEW c \in {"modem", "mixer"}, NEW y, y = AddChip(x, c)
  PROVE  /\ y \in Memories /\ OpenFiles(y) /\ Others(x, y) /\ Next1(y) = Next1(x)
         /\ Boards(y, n + 1) /\ Mounted(y, c, n)
         /\ \A i \in Slots : i < n => y.slots[i] = x.slots[i]
         /\ \A d \in Chips : d # c => (y.ready[d] <=> x.ready[d]) /\ y.handle[d] = x.handle[d]
<1>1. /\ c \in Chips /\ n \in Slots /\ 0 \in Slots /\ 1 \in Slots /\ "prog" \in Chips /\ "fpga" \in Chips
      /\ c # "prog" /\ c # "fpga" /\ n \in Nat /\ n # 0 /\ x.count \in Nat
  BY FirstSlots DEF Chips, Memories
<1>2. x.slots[n] = EmptySlot /\ Based(x) /\ x.count = n /\ \A i \in Slots : i >= n => x.slots[i] = EmptySlot
  BY <1>1 DEF Boards
<1>3. Added(x, y, c, n)
  BY <1>1, <1>2, Adding
<1>4. /\ y \in Memories /\ Others(x, y) /\ y.count = n + 1
      /\ \A d \in Chips : d # c => (y.ready[d] <=> x.ready[d]) /\ y.handle[d] = x.handle[d]
  BY <1>2, <1>3 DEF Added
<1>5. /\ y.slots[n] = SlotOf(c) /\ \A i \in Slots : i # n => y.slots[i] = x.slots[i]
      /\ y.ready[c] /\ y.handle[c] = n
  BY <1>3 DEF Added
<1>6. HasProgrammer(y) <=> HasProgrammer(x)
  <2>1. CASE n = 1
    BY <1>1, <1>2, <1>5, <2>1 DEF HasProgrammer, SlotOf, EmptySlot
  <2>2. CASE n # 1
    BY <1>1, <1>5, <2>2 DEF HasProgrammer
  <2> QED
    BY <2>1, <2>2
<1>7. Based(y)
  <2>1. y.mapped /\ y.spi
    BY <1>2, <1>4 DEF Based, Others
  <2>2. Mounted(y, "fpga", 0)
    BY <1>1, <1>2, <1>4, <1>5 DEF Based, Mounted
  <2>3. HasProgrammer(y) => n # 1
    BY <1>6 DEF Next1
  <2>4. HasProgrammer(y) => Mounted(y, "prog", 1)
    BY <1>1, <1>2, <1>4, <1>5, <1>6, <2>3 DEF Based, Mounted
  <2> QED
    BY <2>1, <2>2, <2>4 DEF Based
<1>8. \A i \in Slots : i >= n + 1 => y.slots[i] = EmptySlot
  BY <1>1, <1>2, <1>5 DEF Slots
<1>9. OpenFiles(y)
  BY <1>5 DEF OpenFiles, SlotOf
<1> QED
  BY <1>1, <1>4, <1>5, <1>6, <1>7, <1>8, <1>9 DEF Boards, Mounted, Next1, Slots

(* The modem is opened. *)
LEMMA ModemInitOk == IInv /\ ModemInit => IInv'
<1> SUFFICES ASSUME IInv, ModemInit PROVE IInv'
  OBVIOUS
<1>1. /\ TypeOK /\ OpenFiles(m) /\ Consistent("modem", m, fpga, call, past)
  BY AtStage DEF ModemInit, Stages, SetUpStages
<1>2. /\ m \in Memories /\ pc \in Control /\ call \in Calls /\ past \in Pasts
      /\ fpga \in {"blank", "configured"}
  BY <1>1, Typed
<1>3. Half(m) /\ Boards(m, Next1(m)) /\ Configured(fpga, call)
  BY <1>1 DEF Consistent, SetUpTable
<1>4. PICK n \in {1, 2} : n = Next1(m)
  BY DEF Next1
<1>5. \A i \in 0..(n - 1) : m.slots[i].chip # "none"
  <2>1. m.slots[0].chip # "none" /\ (n = 2 => m.slots[1].chip # "none")
    BY <1>3, <1>4 DEF Boards, Based, Mounted, SlotOf, Next1, HasProgrammer
  <2> QED
    BY <2>1
<1>6. m' = AddChip(m, "modem")
  BY DEF ModemInit
<1>7. /\ m' \in Memories /\ OpenFiles(m') /\ Others(m, m') /\ Next1(m') = n
      /\ Boards(m', n + 1) /\ Mounted(m', "modem", n)
      /\ \A d \in Chips : d # "modem" => (m'.ready[d] <=> m.ready[d]) /\ m'.handle[d] = m.handle[d]
  BY <1>1, <1>2, <1>3, <1>4, <1>5, <1>6, AddingBehind
<1>8. pc' \in Control /\ pc'.main = "mixer"
  BY <1>2, Going DEF ModemInit, Stages, SetUpStages
<1>9. m'.count <= MaxChips
  BY <1>4, <1>7, FirstSlots DEF Boards
<1>10. Consistent("mixer", m', fpga, call, past)
  <2>1. Device("mixer", m', past) /\ History(past)
    BY <1>1, <1>7 DEF Consistent, Device, SmiInUse, Others
  <2>2. Steady("mixer", m', call)
    BY <1>1, <1>7 DEF Consistent, Steady, Chips
  <2>3. Half(m')
    BY <1>3, <1>7 DEF Half, Others
  <2> QED
    BY <1>3, <1>7, <2>1, <2>2, <2>3 DEF Consistent, SetUpTable, ReleaseTable
<1> QED
  BY <1>2, <1>7, <1>8, <1>9, <1>10, Arriving DEF ModemInit

(* The mixer is opened, on boards that have one. *)
LEMMA MixerInitOk == IInv /\ MixerInit => IInv'
<1> SUFFICES ASSUME IInv, MixerInit PROVE IInv'
  OBVIOUS
<1>1. /\ TypeOK /\ OpenFiles(m) /\ Consistent("mixer", m, fpga, call, past)
  BY AtStage DEF MixerInit, Stages, SetUpStages
<1>2. /\ m \in Memories /\ pc \in Control /\ call \in Calls /\ past \in Pasts
      /\ fpga \in {"blank", "configured"}
  BY <1>1, Typed
<1>3. PICK n \in {1, 2} : n = Next1(m)
  BY DEF Next1
<1>4. Half(m) /\ Boards(m, n + 1) /\ Configured(fpga, call) /\ Mounted(m, "modem", n)
  BY <1>1, <1>3 DEF Consistent, SetUpTable
<1>5. \A i \in 0..n : m.slots[i].chip # "none"
  <2>1. /\ m.slots[0].chip # "none" /\ m.slots[n].chip # "none"
        /\ n = 2 => m.slots[1].chip # "none"
    BY <1>3, <1>4 DEF Boards, Based, Mounted, SlotOf, Next1, HasProgrammer
  <2> QED
    BY <2>1
<1>6. /\ m' \in Memories /\ OpenFiles(m') /\ Others(m, m') /\ Next1(m') = n
      /\ Whole(m', call.product) /\ m'.count \in Nat /\ m'.count <= 4
      /\ m'.ready["prog"] => m'.handle["prog"] = 1
      /\ call.product # "full" => ~m'.ready["mixer"]
  <2>1. CASE call.product = "full"
    <3>1. m' = AddChip(m, "mixer")
      BY <2>1 DEF MixerInit, Product
    <3>2. n + 1 \in 1..3 /\ (n + 1) - 1 = n /\ n + 1 >= Next1(m) /\ n < n + 1 /\ n \in Slots
      BY <1>3, FirstSlots
    <3>3. /\ m' \in Memories /\ OpenFiles(m') /\ Others(m, m') /\ Next1(m') = Next1(m)
          /\ Boards(m', (n + 1) + 1) /\ Mounted(m', "mixer", n + 1)
          /\ \A i \in Slots : i < n + 1 => m'.slots[i] = m.slots[i]
          /\ \A d \in Chips : d # "mixer" => (m'.ready[d] <=> m.ready[d]) /\ m'.handle[d] = m.handle[d]
      BY <1>1, <1>2, <1>4, <1>5, <3>1, <3>2, AddingBehind
    <3>4. Mounted(m', "modem", n)
      BY <1>4, <3>2, <3>3 DEF Mounted, Chips
    <3>5. Whole(m', "full")
      BY <1>3, <3>3, <3>4 DEF Whole, HasMixer, WithMixer
    <3>6. m'.count \in Nat /\ m'.count <= 4
      BY <3>2, <3>3 DEF Boards
    <3>7. m.ready["prog"] => m.handle["prog"] = 1
      BY <1>1 DEF Consistent, Steady
    <3>8. m'.ready["prog"] => m'.handle["prog"] = 1
      BY <3>3, <3>7 DEF Chips
    <3> QED
      BY <1>3, <2>1, <3>3, <3>5, <3>6, <3>8
  <2>2. CASE call.product # "full"
    <3>1. m' = m
      BY <2>2 DEF MixerInit, Product
    <3>2. Whole(m, call.product)
      BY <1>3, <1>4, <2>2 DEF Whole, HasMixer, WithMixer
    <3>3. m.count = n + 1
      BY <1>4 DEF Boards
    <3> QED
      BY <1>1, <1>2, <1>3, <2>2, <3>1, <3>2, <3>3 DEF Consistent, Steady, Others
  <2> QED
    BY <2>1, <2>2
<1>7. pc' \in Control /\ pc'.main = "selftest"
  BY <1>2, Going DEF MixerInit, Stages, SetUpStages
<1>8. m'.count <= MaxChips
  BY <1>6, FirstSlots
<1>9. Consistent("selftest", m', fpga, call, past)
  <2>1. Device("selftest", m', past) /\ History(past)
    BY <1>1, <1>6 DEF Consistent, Device, SmiInUse, Others
  <2>2. Half(m')
    BY <1>4, <1>6 DEF Half, Others
  <2> QED
    BY <1>4, <1>6, <2>1, <2>2 DEF Consistent, SetUpTable, ReleaseTable, Ready, Steady
<1> QED
  BY <1>2, <1>6, <1>7, <1>8, <1>9, Arriving DEF MixerInit

(* The self test passes, or fails and what was set up is released. *)
LEMMA SelfTestOk == IInv /\ SelfTest => IInv'
<1> SUFFICES ASSUME IInv, SelfTest PROVE IInv'
  OBVIOUS
<1>1. /\ TypeOK /\ OpenFiles(m) /\ pc.handler = "none"
      /\ Consistent("selftest", m, fpga, call, past)
  BY AtStage DEF SelfTest, Stages, SetUpStages
<1>2. /\ m \in Memories /\ pc \in Control /\ call \in Calls /\ past \in Pasts
      /\ m.count <= MaxChips /\ fpga \in {"blank", "configured"}
  BY <1>1, Typed
<1>3. /\ Half(m) /\ Ready(m, fpga, call) /\ (m.ready["prog"] => m.handle["prog"] = 1)
      /\ call.product # "full" => ~m.ready["mixer"]
      /\ History(past) /\ m.smi = "open"
  BY <1>1 DEF Consistent, SetUpTable, Steady, Device, SmiInUse
<1>4. CASE Main("succeed") /\ m' = [m EXCEPT !.status = "full_init"] /\ UNCHANGED past
  <2>1. m' \in Memories /\ Full(m') /\ m'.smi = "open" /\ m'.users = m.users /\ Alike(m, m')
    BY <1>2, <1>3, <1>4 DEF Memories, Alike, Full
  <2>2. pc' \in Control /\ pc'.main = "succeed"
    BY <1>2, <1>4, Going DEF Stages, SetUpStages
  <2>3. OpenFiles(m') /\ Ready(m', fpga, call)
    BY <1>1, <1>3, <2>1, AlikeHold DEF Ready
  <2>4. Consistent("succeed", m', fpga, call, past)
    BY <1>3, <2>1, <2>3
       DEF Consistent, SetUpTable, ReleaseTable, Device, SmiInUse, Steady, Alike
  <2> QED
    BY <1>2, <1>4, <2>1, <2>2, <2>3, <2>4, Arriving DEF SelfTest, Alike
<1>5. CASE AfterFailure(m, [past EXCEPT !.faults = @ + 1, !.failed = TRUE])
  <2>1. PICK p : p = [past EXCEPT !.faults = @ + 1, !.failed = TRUE]
    OBVIOUS
  <2>2. p \in Pasts /\ p.failed /\ p.twice = past.twice
    <3>1. past.faults + 1 \in Nat
      BY <1>2 DEF Pasts
    <3> QED
      BY <1>2, <2>1, <3>1 DEF Pasts
  <2>3. PICK y : y = ReleaseIo(CloseFpga(m))
    OBVIOUS
  <2>4. PICK q : q = IoReleased(p, CloseFpga(m))
    OBVIOUS
  <2>5. Failed(y) /\ past' = q
    BY <1>5, <2>1, <2>3, <2>4 DEF AfterFailure
  <2>6. m.spi
    BY <1>3 DEF Ready, Whole, Boards, Based
  <2>7. m.ready["prog"] => m.handle["prog"] = 1
    BY <1>3
  <2>8. /\ y \in Memories /\ OpenFiles(y) /\ Rested(y) /\ y.status = m.status /\ y.smi = m.smi
        /\ y.ready["prog"] => y.handle["prog"] = 1
        /\ ~m.ready["mixer"] => ~y.ready["mixer"]
        /\ q \in Pasts /\ q.failed = p.failed /\ ("smi" \in q.twice => "smi" \in p.twice)
    <3>1. m \in Memories /\ OpenFiles(m) /\ p \in Pasts /\ (m.spi \/ NoChips(m))
      BY <1>1, <1>2, <2>2, <2>6
    <3> QED
      BY <2>3, <2>4, <2>7, <3>1, GivenBack
  <2>9. ~Full(y) /\ History(q) /\ q.failed
    BY <1>3, <2>2, <2>8 DEF Full, Half, History
  <2> QED
    BY <1>1, <1>2, <1>3, <2>5, <2>8, <2>9, FailedOk DEF SelfTest
<1> QED
  BY <1>4, <1>5 DEF SelfTest

-----------------------------------------------------------------------------
(* So does a release, by the call or by the handler of a signal. *)

(* What the invariant says at a stage of the release, whoever runs it. *)
LEMMA AtRelease ==
  ASSUME IInv, NEW w \in Actors, NEW s \in ReleaseStages, Runs(w, s)
  PROVE  /\ TypeOK /\ OpenFiles(m) /\ pc[w] = s
         /\ w = "main" => Consistent(s, m, fpga, call, past)
         /\ w = "main" <=> pc.handler = "none"
BY DEF IInv, Runs, Calm, Actors, ReleaseStages

(* The release moves on, in the main program or in the handler. *)
LEMMA Moving ==
  ASSUME TypeOK, NEW w \in Actors, NEW s \in ReleaseStages, To(w, s)
  PROVE  /\ pc' \in Control
         /\ w = "main" => pc'.main = s
         /\ w = "handler" => ~Calm'
BY Typed DEF To, Control, Calm, Actors, ReleaseStages, Stages

(* The release returns, to an idle library or out of the process. *)
LEMMA Returning ==
  ASSUME TypeOK, NEW w \in Actors, Released(w)
  PROVE  /\ pc' \in Control
         /\ pc'.main \in {"idle", "dead"}
         /\ w = "handler" => ~Calm'
BY Typed DEF Released, Control, Calm, Alive, Actors, ReleaseStages, Stages

(* The invariant holds after a step of the release; a handler's release is
   the end, so the stages need not fit any more. *)
LEMMA Continuing ==
  ASSUME m' \in Memories, m'.count <= MaxChips, OpenFiles(m)', fpga' \in {"blank", "configured"},
         pc' \in Control, call' \in Calls, past' \in Pasts,
         Calm' => Consistent(pc'.main, m', fpga', call', past')
  PROVE  IInv'
BY DEF IInv, TypeOK, Control, Stages

(* The last close of the driver releases it, earlier ones only count down. *)
LEMMA CloseDriverOk == IInv /\ CloseDriver => IInv'
<1> SUFFICES ASSUME IInv, CloseDriver PROVE IInv'
  OBVIOUS
<1>1. /\ TypeOK /\ OpenFiles(m) /\ pc.main = "idle"
      /\ Consistent("idle", m, fpga, call, past)
  BY AtStage DEF CloseDriver, Stages
<1>2. /\ m \in Memories /\ pc \in Control /\ call \in Calls /\ past \in Pasts /\ m.count <= MaxChips
      /\ fpga \in {"blank", "configured"} /\ m.users \in Nat
  BY <1>1, Typed
<1>3. /\ m' \in Memories /\ m'.status = m.status /\ m'.smi = m.smi /\ Alike(m, m')
      /\ m'.users = m.users - 1
  <2>1. m.users - 1 \in Nat
    BY <1>2 DEF CloseDriver
  <2> QED
    BY <1>2, <2>1 DEF CloseDriver, Memories, Alike
<1>4. /\ pc' \in Control
      /\ pc'.main = "release" \/ (pc'.main = "idle" /\ m'.users # 0)
  <2>1. CASE m.users = 1
    BY <1>2, <2>1, Going DEF CloseDriver, Stages, ReleaseStages
  <2>2. CASE m.users # 1
    BY <1>1, <1>2, <1>3, <2>2 DEF CloseDriver
  <2> QED
    BY <2>1, <2>2
<1>5. Rested(m) => Rested(m')
  BY <1>3, AlikeHold DEF Rested, Alike, Half
<1>6. Ready(m, fpga, call) => Ready(m', fpga, call)
  BY <1>3, AlikeHold DEF Ready
<1>7. Consistent(pc'.main, m', fpga, call, past)
  BY <1>1, <1>3, <1>4, <1>5, <1>6
     DEF Consistent, SetUpTable, ReleaseTable, Device, SmiInUse, Steady, Full, Half, Alike
<1> QED
  BY <1>1, <1>2, <1>3, <1>4, <1>7, AlikeHold, Arriving DEF CloseDriver, Alike

(* The release begins. *)
LEMMA ReleaseOk ==
  ASSUME IInv, NEW w \in Actors, Release(w)
  PROVE  IInv'
<1>1. /\ TypeOK /\ OpenFiles(m) /\ (w = "main" => Consistent("release", m, fpga, call, past))
      /\ w = "main" \/ w = "handler"
  BY AtRelease DEF Release, ReleaseStages, Actors
<1>2. /\ m \in Memories /\ pc \in Control /\ call \in Calls /\ past \in Pasts /\ m.count <= MaxChips
      /\ fpga \in {"blank", "configured"}
  BY <1>1, Typed
<1>3. UNCHANGED <<m, fpga, call, past>>
  BY DEF Release
<1>4. CASE m.status = "unintialized"
  <2>1. pc' \in Control /\ pc'.main \in {"idle", "dead"} /\ (w = "handler" => ~Calm')
    BY <1>1, <1>4, Returning DEF Release
  <2>2. w = "main" => Consistent(pc'.main, m, fpga, call, past)
    BY <1>1, <1>4, <2>1
       DEF Consistent, SetUpTable, ReleaseTable, Device, SmiInUse, Steady, Full, Half
  <2> QED
    BY <1>1, <1>2, <1>3, <2>1, <2>2, Continuing
<1>5. CASE m.status = "minimal_init"
  <2>1. pc' \in Control /\ (w = "main" => pc'.main = "close_fpga") /\ (w = "handler" => ~Calm')
    BY <1>1, <1>5, Moving DEF Release, ReleaseStages
  <2>2. w = "main" => Consistent("close_fpga", m, fpga, call, past)
    BY <1>1, <1>5
       DEF Consistent, SetUpTable, ReleaseTable, Device, SmiInUse, Steady, Full, Half
  <2> QED
    BY <1>1, <1>2, <1>3, <2>1, <2>2, Continuing
<1>6. CASE m.status = "full_init"
  <2>1. pc' \in Control /\ (w = "main" => pc'.main = "dispose") /\ (w = "handler" => ~Calm')
    BY <1>1, <1>6, Moving DEF Release, ReleaseStages
  <2>2. w = "main" => Consistent("dispose", m, fpga, call, past)
    BY <1>1, <1>6
       DEF Consistent, SetUpTable, ReleaseTable, Device, SmiInUse, Steady, Full, Half, Ready
  <2> QED
    BY <1>1, <1>2, <1>3, <2>1, <2>2, Continuing
<1> QED
  BY <1>2, <1>4, <1>5, <1>6 DEF Memories

(* The radios are disposed of. *)
LEMMA DisposeOk ==
  ASSUME IInv, NEW w \in Actors, Dispose(w)
  PROVE  IInv'
<1>1. /\ TypeOK /\ OpenFiles(m) /\ (w = "main" => Consistent("dispose", m, fpga, call, past))
      /\ w = "main" \/ w = "handler"
  BY AtRelease DEF Dispose, ReleaseStages, Actors
<1>2. /\ m \in Memories /\ pc \in Control /\ call \in Calls /\ past \in Pasts /\ m.count <= MaxChips
      /\ fpga \in {"blank", "configured"}
  BY <1>1, Typed
<1>3. pc' \in Control /\ (w = "main" => pc'.main = "close_smi") /\ (w = "handler" => ~Calm')
  BY <1>1, Moving DEF Dispose, ReleaseStages
<1>4. w = "main" => Consistent("close_smi", m, fpga, call, past)
  BY <1>1 DEF Consistent, SetUpTable, ReleaseTable, Device, SmiInUse, Steady
<1> QED
  BY <1>1, <1>2, <1>3, <1>4, Continuing DEF Dispose

(* The SMI is closed. *)
LEMMA CloseSmiOk ==
  ASSUME IInv, NEW w \in Actors, CloseSmi(w)
  PROVE  IInv'
<1>1. /\ TypeOK /\ OpenFiles(m) /\ (w = "main" => Consistent("close_smi", m, fpga, call, past))
      /\ w = "main" \/ w = "handler"
  BY AtRelease DEF CloseSmi, ReleaseStages, Actors
<1>2. /\ m \in Memories /\ pc \in Control /\ call \in Calls /\ past \in Pasts /\ m.count <= MaxChips
      /\ fpga \in {"blank", "configured"}
  BY <1>1, Typed
<1>3. pc' \in Control /\ (w = "main" => pc'.main = "close_modem") /\ (w = "handler" => ~Calm')
  BY <1>1, Moving DEF CloseSmi, ReleaseStages
<1>4. /\ m' \in Memories /\ m'.smi = "closed" /\ m'.status = m.status /\ m'.users = m.users
      /\ Alike(m, m')
  BY <1>2 DEF CloseSmi, Memories, Alike
<1>5. OpenFiles(m') /\ (Whole(m, call.product) => Whole(m', call.product))
  BY <1>1, <1>4, AlikeHold
<1>6. /\ past' \in Pasts
      /\ w = "main" => past'.twice = past.twice /\ past'.lost = past.lost /\ past'.failed = past.failed
  <2>1. past.twice \cup {"smi"} \in SUBSET {"smi", "spidev"}
    BY <1>2 DEF Pasts
  <2>2. w = "main" => m.smi = "open"
    BY <1>1 DEF Consistent, Device, SmiInUse
  <2> QED
    BY <1>2, <2>1, <2>2 DEF CloseSmi, Pasts
<1>7. w = "main" => Consistent("close_modem", m', fpga, call, past')
  BY <1>1, <1>4, <1>5, <1>6
     DEF Consistent, SetUpTable, ReleaseTable, Device, SmiInUse, Steady, History, Alike, Full
<1> QED
  BY <1>1, <1>2, <1>3, <1>4, <1>5, <1>6, <1>7, Continuing DEF CloseSmi, Alike

(* Closing the modem and the mixer leaves the FPGA and its programmer in their     *)
(* slots, and the loop over the slots ends behind them.                         *)
LEMMA ClosingModem ==
  ASSUME NEW x \in Memories, NEW p, Whole(x, p), NEW y, y = Close(x, "modem")
  PROVE  Stripped(y, p)
<1>1. PICK n \in {1, 2} : n = Next1(x)
  BY DEF Next1
<1>2. /\ 0 \in Slots /\ 1 \in Slots /\ n \in Slots /\ n + 1 \in Slots /\ n + 1 # n /\ Slots \subseteq Int
      /\ "fpga" \in Chips /\ "prog" \in Chips /\ "modem" \in Chips /\ "mixer" \in Chips
  BY FirstSlots DEF Chips, Slots
<1>3. /\ Based(x) /\ x.count = WithMixer(n + 1, p) /\ x.ready["modem"] /\ x.handle["modem"] = n
      /\ x.slots[n] = SlotOf("modem") /\ (p = "full" => Mounted(x, "mixer", n + 1))
      /\ \A i \in Slots : i >= WithMixer(n + 1, p) => x.slots[i] = EmptySlot
  BY <1>1 DEF Whole, Boards, Mounted, HasMixer
<1>4. Removed(x, y, "modem") /\ x.count # 0 /\ x.slots[n].chip # "none"
  BY <1>2, <1>3, Removing DEF Close, WithMixer, SlotOf
<1>5. /\ Others(x, y) /\ y.handle = x.handle
      /\ \A d \in Chips : d # "modem" => (y.ready[d] <=> x.ready[d])
      /\ \A i \in Slots : i # n => y.slots[i] = x.slots[i]
  BY <1>3, <1>4 DEF Removed
<1>6. /\ y.count = x.count - 1
      /\ y.slots[n] = [chip |-> "none", hard |-> x.slots[n].hard, open |-> FALSE]
  BY <1>3, <1>4 DEF Removed
<1>7. (HasProgrammer(y) <=> HasProgrammer(x)) /\ Next1(y) = n
  <2>1. CASE n = 1
    BY <1>1, <1>6, <2>1 DEF HasProgrammer, Next1
  <2>2. CASE n = 2
    BY <1>1, <1>2, <1>5, <2>2 DEF HasProgrammer, Next1
  <2> QED
    BY <2>1, <2>2
<1>8. Based(y)
  <2>1. Mounted(y, "fpga", 0)
    BY <1>2, <1>3, <1>5 DEF Based, Mounted
  <2>2. HasProgrammer(y) => Mounted(y, "prog", 1)
    <3>1. HasProgrammer(y) => n # 1
      BY <1>1, <1>7 DEF Next1
    <3> QED
      BY <1>2, <1>3, <1>5, <1>7, <3>1 DEF Based, Mounted
  <2> QED
    BY <1>3, <1>5, <2>1, <2>2 DEF Based, Others
<1>9. HasMixer(y, p)
  BY <1>2, <1>3, <1>5, <1>7 DEF HasMixer, Mounted
<1>10. y.count = WithMixer(n, p)
  BY <1>3, <1>6 DEF WithMixer
<1>11. \A i \in Slots : i >= n => ~y.slots[i].open
  <2>1. SUFFICES ASSUME NEW i \in Slots, i >= n PROVE ~y.slots[i].open
    OBVIOUS
  <2>2. CASE i = n
    BY <1>6, <2>2
  <2>3. CASE i = n + 1 /\ p = "full"
    <3>1. y.slots[i] = SlotOf("mixer")
      BY <1>2, <1>3, <1>5, <2>3 DEF Mounted
    <3>2. HasFile("mixer") = FALSE
      BY DEF HasFile
    <3> QED
      BY <3>1, <3>2 DEF SlotOf
  <2>4. CASE i # n /\ ~(i = n + 1 /\ p = "full")
    <3>1. i >= WithMixer(n + 1, p)
      BY <1>2, <2>1, <2>4 DEF WithMixer
    <3> QED
      BY <1>3, <1>5, <2>4, <3>1 DEF EmptySlot
  <2> QED
    BY <2>2, <2>3, <2>4
<1> QED
  BY <1>2, <1>7, <1>8, <1>9, <1>10, <1>11 DEF Stripped

(* When the mixer is closed, what the loop of io_utils_spi_close will close is open. *)
LEMMA ClosingMixer ==
  ASSUME NEW x \in Memories, NEW p, Stripped(x, p), p # "full" => ~x.ready["mixer"],
         NEW y, y = Close(x, "mixer")
  PROVE  ClosesRight(y)
<1>1. PICK n \in {1, 2} : n = Next1(x)
  BY DEF Next1
<1>2. /\ 0 \in Slots /\ 1 \in Slots /\ n \in Slots /\ n + 1 \in Slots
      /\ "mixer" \in Chips
  BY FirstSlots DEF Chips
<1>3. /\ x.spi /\ x.slots[0] = SlotOf("fpga") /\ (n = 2 => x.slots[1] = SlotOf("prog"))
      /\ x.count = WithMixer(n, p) /\ \A i \in Slots : i >= n => ~x.slots[i].open
  BY <1>1 DEF Stripped, Based, Mounted, Next1
<1>4. /\ y.spi /\ y.count = n /\ (\A i \in Slots : i < n => y.slots[i] = x.slots[i])
      /\ \A i \in Slots : i >= n => ~y.slots[i].open
  <2>1. CASE p = "full"
    <3>1. x.ready["mixer"] /\ x.handle["mixer"] = n + 1 /\ x.slots[n + 1] = SlotOf("mixer")
      BY <1>1, <2>1 DEF Stripped, HasMixer, Mounted
    <3>2. Removed(x, y, "mixer")
      BY <1>2, <3>1, Removing DEF Close
    <3>3. x.count = n + 1
      BY <1>3, <2>1 DEF WithMixer
    <3>4. /\ Others(x, y) /\ y.count = x.count - 1 /\ y.slots[n + 1].open = FALSE
          /\ \A i \in Slots : i # n + 1 => y.slots[i] = x.slots[i]
      BY <3>1, <3>2, <3>3 DEF Removed, SlotOf
    <3>5. \A i \in Slots : i < n => i # n + 1
      BY DEF Slots
    <3>6. \A i \in Slots : i >= n => ~y.slots[i].open
      BY <1>3, <3>4
    <3>7. y.spi
      BY <1>3, <3>4 DEF Others
    <3>8. y.count = n
      BY <1>1, <3>3, <3>4
    <3> QED
      BY <3>4, <3>5, <3>6, <3>7, <3>8
  <2>2. CASE p # "full"
    BY <1>3, <2>2 DEF Close, WithMixer
  <2> QED
    BY <2>1, <2>2
<1>5. \A i \in Slots : i < n => (y.slots[i].open <=> y.slots[i].hard)
  <2>1. \A i \in Slots : i < n => i = 0 \/ (i = 1 /\ n = 2)
    BY DEF Slots
  <2> QED
    BY <1>3, <1>4, <2>1 DEF SlotOf
<1> QED
  BY <1>4, <1>5 DEF ClosesRight, ClosedSlots, Slots

(* The modem is closed. *)
LEMMA CloseModemOk ==
  ASSUME IInv, NEW w \in Actors, CloseModem(w)
  PROVE  IInv'
<1>1. /\ TypeOK /\ OpenFiles(m) /\ (w = "main" => Consistent("close_modem", m, fpga, call, past))
      /\ w = "main" \/ w = "handler"
  BY AtRelease DEF CloseModem, ReleaseStages, Actors
<1>2. /\ m \in Memories /\ pc \in Control /\ call \in Calls /\ past \in Pasts
      /\ m.count <= MaxChips /\ fpga \in {"blank", "configured"} /\ m.count \in Nat
  BY <1>1, Typed
<1>3. pc' \in Control /\ (w = "main" => pc'.main = "close_mixer") /\ (w = "handler" => ~Calm')
  BY <1>1, Moving DEF CloseModem, ReleaseStages
<1>4. /\ m' \in Memories /\ OpenFiles(m') /\ Others(m, m') /\ m'.count <= m.count
      /\ m'.handle = m.handle
      /\ \A d \in Chips : d # "modem" => (m'.ready[d] <=> m.ready[d])
  <2>1. m' = Close(m, "modem") /\ "modem" \in Chips
    BY DEF CloseModem, Chips
  <2> QED
    BY <1>1, <1>2, <2>1, Closing
<1>5. w = "main" => Stripped(m', call.product)
  BY <1>1, <1>2, ClosingModem DEF CloseModem, Consistent, ReleaseTable
<1>6. w = "main" => Consistent("close_mixer", m', fpga, call, past)
  BY <1>1, <1>4, <1>5
     DEF Consistent, SetUpTable, ReleaseTable, Device, SmiInUse, Steady, Others, Chips
<1>7. m'.count <= MaxChips
  BY <1>2, <1>4, FirstSlots DEF Memories
<1> QED
  BY <1>1, <1>2, <1>3, <1>4, <1>6, <1>7, Continuing DEF CloseModem

(* The mixer is closed. *)
LEMMA CloseMixerOk ==
  ASSUME IInv, NEW w \in Actors, CloseMixer(w)
  PROVE  IInv'
<1>1. /\ TypeOK /\ OpenFiles(m) /\ (w = "main" => Consistent("close_mixer", m, fpga, call, past))
      /\ w = "main" \/ w = "handler"
  BY AtRelease DEF CloseMixer, ReleaseStages, Actors
<1>2. /\ m \in Memories /\ pc \in Control /\ call \in Calls /\ past \in Pasts
      /\ m.count <= MaxChips /\ fpga \in {"blank", "configured"} /\ m.count \in Nat
  BY <1>1, Typed
<1>3. pc' \in Control /\ (w = "main" => pc'.main = "close_io") /\ (w = "handler" => ~Calm')
  BY <1>1, Moving DEF CloseMixer, ReleaseStages
<1>4. /\ m' \in Memories /\ OpenFiles(m') /\ Others(m, m') /\ m'.count <= m.count
      /\ m'.handle = m.handle /\ ~m'.ready["mixer"]
      /\ \A d \in Chips : d # "mixer" => (m'.ready[d] <=> m.ready[d])
  <2>1. m' = Close(m, "mixer") /\ "mixer" \in Chips
    BY DEF CloseMixer, Chips
  <2> QED
    BY <1>1, <1>2, <2>1, Closing
<1>5. w = "main" => ClosesRight(m')
  BY <1>1, <1>2, ClosingMixer DEF CloseMixer, Consistent, ReleaseTable, Steady
<1>6. w = "main" => Consistent("close_io", m', fpga, call, past)
  BY <1>1, <1>4, <1>5
     DEF Consistent, SetUpTable, ReleaseTable, Device, SmiInUse, Steady, Others, Chips
<1>7. m'.count <= MaxChips
  BY <1>2, <1>4, FirstSlots DEF Memories
<1> QED
  BY <1>1, <1>2, <1>3, <1>4, <1>6, <1>7, Continuing DEF CloseMixer

(* The FPGA is closed. *)
LEMMA CloseFpgaStageOk ==
  ASSUME IInv, NEW w \in Actors, CloseFpgaStage(w)
  PROVE  IInv'
<1>1. /\ TypeOK /\ OpenFiles(m) /\ (w = "main" => Consistent("close_fpga", m, fpga, call, past))
      /\ w = "main" \/ w = "handler"
  BY AtRelease DEF CloseFpgaStage, ReleaseStages, Actors
<1>2. /\ m \in Memories /\ pc \in Control /\ call \in Calls /\ past \in Pasts
      /\ m.count <= MaxChips /\ fpga \in {"blank", "configured"} /\ m.count \in Nat
  BY <1>1, Typed
<1>3. pc' \in Control /\ (w = "main" => pc'.main = "close_io") /\ (w = "handler" => ~Calm')
  BY <1>1, Moving DEF CloseFpgaStage, ReleaseStages
<1>4. m' \in Memories /\ OpenFiles(m') /\ m'.count <= m.count
  <2>1. m' = CloseFpga(m)
    BY DEF CloseFpgaStage
  <2> QED
    BY <1>1, <1>2, <2>1, ClosingFpga
<1>5. w = "main" => m' = m /\ ClosesRight(m)
  <2>1. w = "main" => NoChips(m) /\ ~m.ready["fpga"]
    BY <1>1 DEF Consistent, ReleaseTable, Rested, Nothing
  <2>2. NoChips(m) => ClosesRight(m)
    BY DEF NoChips, ClosesRight, ClosedSlots, EmptySlot, Slots
  <2> QED
    BY <2>1, <2>2 DEF CloseFpgaStage, CloseFpga
<1>6. w = "main" => Consistent("close_io", m', fpga, call, past)
  BY <1>1, <1>5 DEF Consistent, SetUpTable, ReleaseTable, Device, SmiInUse, Steady
<1>7. m'.count <= MaxChips
  BY <1>2, <1>4, FirstSlots DEF Memories
<1> QED
  BY <1>1, <1>2, <1>3, <1>4, <1>6, <1>7, Continuing DEF CloseFpgaStage

(* The I/O is released. *)
LEMMA CloseIoOk ==
  ASSUME IInv, NEW w \in Actors, CloseIo(w)
  PROVE  IInv'
<1>1. /\ TypeOK /\ OpenFiles(m) /\ (w = "main" => Consistent("close_io", m, fpga, call, past))
      /\ w = "main" \/ w = "handler"
  BY AtRelease DEF CloseIo, ReleaseStages, Actors
<1>2. /\ m \in Memories /\ pc \in Control /\ call \in Calls /\ past \in Pasts
      /\ fpga \in {"blank", "configured"}
  BY <1>1, Typed
<1>3. pc' \in Control /\ (w = "main" => pc'.main = "reset") /\ (w = "handler" => ~Calm')
  BY <1>1, Moving DEF CloseIo, ReleaseStages
<1>4. m' = ReleaseIo(m)
  BY DEF CloseIo
<1>5. /\ m' \in Memories /\ ~m'.spi /\ ~m'.mapped /\ m'.count = 0
      /\ m'.status = m.status /\ m'.smi = m.smi /\ m'.users = m.users
      /\ m'.ready = m.ready /\ m'.handle = m.handle
      /\ OpenFiles(m') /\ (m.spi \/ NoChips(m) => NoChips(m'))
  BY <1>1, <1>2, <1>4, Releasing
<1>6. /\ past' \in Pasts /\ past'.failed = past.failed
      /\ ClosesRight(m) => past'.lost = past.lost /\ past'.twice = past.twice
  BY <1>1, <1>2, IoHistory DEF CloseIo
<1>7. w = "main" => Consistent("reset", m', fpga, call, past')
  <2> SUFFICES ASSUME w = "main" PROVE Consistent("reset", m', fpga, call, past')
    OBVIOUS
  <2>1. ClosesRight(m) /\ Steady("close_io", m, call) /\ (m.smi = "open" => past.failed) /\ History(past)
    BY <1>1 DEF Consistent, ReleaseTable, Device, SmiInUse
  <2>2. Nothing(m')
    BY <1>5, <2>1 DEF ClosesRight, Nothing
  <2>3. Steady("reset", m', call)
    BY <1>5, <2>1 DEF Steady
  <2>4. Device("reset", m', past') /\ History(past')
    BY <1>5, <1>6, <2>1 DEF Device, SmiInUse, History
  <2> QED
    BY <2>2, <2>3, <2>4 DEF Consistent, SetUpTable, ReleaseTable
<1> QED
  BY <1>1, <1>2, <1>3, <1>5, <1>6, <1>7, FirstSlots, Continuing DEF CloseIo

(* The status is reset last. *)
LEMMA ResetStatusOk ==
  ASSUME IInv, NEW w \in Actors, ResetStatus(w)
  PROVE  IInv'
<1>1. /\ TypeOK /\ OpenFiles(m) /\ (w = "main" => Consistent("reset", m, fpga, call, past))
      /\ w = "main" \/ w = "handler"
  BY AtRelease DEF ResetStatus, ReleaseStages, Actors
<1>2. /\ m \in Memories /\ pc \in Control /\ call \in Calls /\ past \in Pasts /\ m.count <= MaxChips
      /\ fpga \in {"blank", "configured"}
  BY <1>1, Typed
<1>3. pc' \in Control /\ pc'.main \in {"idle", "dead"} /\ (w = "handler" => ~Calm')
  BY <1>1, Returning DEF ResetStatus
<1>4. m' \in Memories /\ Unset(m') /\ m'.smi = m.smi /\ m'.users = m.users /\ Alike(m, m')
  BY <1>2 DEF ResetStatus, Memories, Unset, Alike
<1>5. OpenFiles(m') /\ (NoChips(m) => NoChips(m'))
  BY <1>1, <1>4, AlikeHold
<1>6. w = "main" => Consistent(pc'.main, m', fpga, call, past)
  <2> SUFFICES ASSUME w = "main" PROVE Consistent(pc'.main, m', fpga, call, past)
    OBVIOUS
  <2>1. Nothing(m) /\ Steady("reset", m, call) /\ (m.smi = "open" => past.failed) /\ History(past)
    BY <1>1 DEF Consistent, ReleaseTable, Device, SmiInUse
  <2>2. Rested(m') /\ ~Full(m')
    BY <1>4, <1>5, <2>1 DEF Rested, Half, Unset, Full, Nothing, Alike
  <2>3. Steady(pc'.main, m', call)
    BY <1>4, <2>1, <2>2 DEF Steady, Alike
  <2>4. Device(pc'.main, m', past)
    BY <1>3, <1>4, <2>1, <2>2 DEF Device, SmiInUse
  <2> QED
    BY <1>3, <2>1, <2>2, <2>3, <2>4 DEF Consistent, SetUpTable, ReleaseTable
<1> QED
  BY <1>1, <1>2, <1>3, <1>4, <1>5, <1>6, Continuing DEF ResetStatus, Alike

-----------------------------------------------------------------------------
(* Signals and the end of the process. *)

(* A signal interrupts the main program at any stage. *)
LEMMA SignalOk == IInv /\ Signal => IInv'
<1> SUFFICES ASSUME IInv, Signal PROVE IInv'
  OBVIOUS
<1>1. /\ TypeOK /\ OpenFiles(m)
  BY DEF IInv
<1>2. /\ m \in Memories /\ pc \in Control /\ call \in Calls /\ past \in Pasts /\ m.count <= MaxChips
      /\ fpga \in {"blank", "configured"}
  BY <1>1, Typed
<1>3. PICK h \in {"stuck", "release"} : pc' = [pc EXCEPT !.handler = h]
  BY DEF Signal
<1>4. pc' \in Control /\ ~Calm'
  BY <1>2, <1>3 DEF Control, Calm, ReleaseStages
<1>5. call' \in Calls
  BY <1>2 DEF Signal, Calls
<1> QED
  BY <1>1, <1>2, <1>4, <1>5, Continuing DEF Signal

(* The process is killed at any stage. *)
LEMMA KillOk == IInv /\ Kill => IInv'
<1> SUFFICES ASSUME IInv, Kill PROVE IInv'
  OBVIOUS
<1>1. /\ TypeOK /\ OpenFiles(m)
  BY DEF IInv
<1>2. /\ m \in Memories /\ call \in Calls /\ past \in Pasts /\ m.count <= MaxChips
      /\ fpga \in {"blank", "configured"}
  BY <1>1, Typed
<1>3. pc' \in Control /\ ~Calm'
  BY DEF Kill, Control, Calm, Alive, Stages
<1> QED
  BY <1>1, <1>2, <1>3, Continuing DEF Kill

(* A new process begins with the FPGA as the last one left it. *)
LEMMA RestartOk == IInv /\ Restart => IInv'
<1> SUFFICES ASSUME IInv, Restart PROVE IInv'
  OBVIOUS
<1>1. call \in Calls /\ past \in Pasts /\ fpga \in {"blank", "configured"}
  BY Typed DEF IInv
<1>2. /\ m' = NewMemory /\ pc' = [main |-> "idle", handler |-> "none"] /\ fpga' = fpga
      /\ call' = [call EXCEPT !.force = FALSE, !.left = 3, !.locked = FALSE]
      /\ past' = [past EXCEPT !.lost = {}, !.twice = {}, !.failed = FALSE, !.calls = 0,
                              !.runs = past.runs + 1]
  BY DEF Restart
<1>3. call' \in Calls
  <2>1. 3 \in 0..3 /\ FALSE \in BOOLEAN
    OBVIOUS
  <2>2. PICK k : k = 3
    OBVIOUS
  <2>3. call' = [call EXCEPT !.force = FALSE, !.left = k, !.locked = FALSE] /\ k \in 0..3
    BY <1>2, <2>1, <2>2
  <2>4. call' = [client |-> call.client, product |-> call.product, force |-> FALSE,
                 left |-> k, locked |-> FALSE]
    BY <1>1, <2>3 DEF Calls
  <2> QED
    BY <1>1, <2>3, <2>4 DEF Calls
<1>4. past' \in Pasts /\ past'.lost = {} /\ past'.twice = {}
  <2>1. past.runs + 1 \in Nat
    BY <1>1 DEF Pasts
  <2> QED
    BY <1>1, <1>2, <2>1 DEF Pasts
<1>5. /\ m' \in Memories /\ m'.count = 0 /\ m'.status = "unintialized" /\ m'.smi = "none"
      /\ ~m'.ready["prog"] /\ ~m'.ready["mixer"] /\ OpenFiles(m') /\ Nothing(m')
  <2>1. PICK t \in Table : t = [i \in Slots |-> EmptySlot]
    BY DEF Table, EmptySlot
  <2>2. PICK r \in [Chips -> BOOLEAN] : r = [c \in Chips |-> FALSE]
    OBVIOUS
  <2>3. PICK h \in [Chips -> Slots] : h = [c \in Chips |-> 0]
    BY FirstSlots
  <2>4. m' \in Memories
    BY <1>2, <2>1, <2>2, <2>3 DEF NewMemory, Memories, Table
  <2>5. m'.count = 0 /\ m'.status = "unintialized" /\ m'.smi = "none" /\ ~m'.spi /\ ~m'.mapped
    BY <1>2 DEF NewMemory
  <2>6. m'.slots = t /\ m'.ready = r
    BY <1>2, <2>1, <2>2 DEF NewMemory
  <2>7. /\ \A i \in Slots : m'.slots[i] = EmptySlot
        /\ ~m'.ready["prog"] /\ ~m'.ready["mixer"]
    BY <2>1, <2>2, <2>6 DEF Chips
  <2> QED
    BY <2>4, <2>5, <2>7 DEF OpenFiles, EmptySlot, Nothing, NoChips
<1>6. pc' \in Control /\ pc'.main = "idle"
  BY <1>2 DEF Control, Stages
<1>7. Consistent("idle", m', fpga, call', past')
  <2>1. Rested(m') /\ ~Full(m') /\ m'.smi # "open"
    BY <1>5 DEF Rested, Half, Full
  <2> QED
    BY <1>4, <1>5, <2>1 DEF Consistent, SetUpTable, ReleaseTable, Device, SmiInUse, History, Steady
<1> QED
  BY <1>1, <1>2, <1>3, <1>4, <1>5, <1>6, <1>7, FirstSlots, Arriving

-----------------------------------------------------------------------------
(* The theorems. *)

(* Every step keeps the invariant. *)
LEMMA NextOk == IInv /\ [Next]_vars => IInv'
<1> SUFFICES ASSUME IInv, [Next]_vars PROVE IInv'
  OBVIOUS
<1>1. CASE \E force \in BOOLEAN : SetUp(force)
  BY <1>1, SetUpOk
<1>2. CASE JoinSession \/ CloseDriver
  BY <1>2, JoinSessionOk, CloseDriverOk
<1>3. CASE SetUpStep
  <2>1. CASE Detect \/ SetupIo \/ InitFpga \/ KeepFpga
    BY <2>1, DetectOk, SetupIoOk, InitFpgaOk, KeepFpgaOk
  <2>2. CASE ProgramFails \/ Program \/ ProgramExhausted
    BY <2>2, ProgramFailsOk, ProgramOk, ProgramExhaustedOk
  <2>3. CASE SmiFails \/ SmiInit \/ ModemInit \/ MixerInit
    BY <2>3, SmiFailsOk, SmiInitOk, ModemInitOk, MixerInitOk
  <2>4. CASE SelfTest \/ Succeed
    BY <2>4, SelfTestOk, SucceedOk
  <2> QED
    BY <1>3, <2>1, <2>2, <2>3, <2>4 DEF SetUpStep
<1>4. ASSUME NEW w \in Actors, ReleaseStep(w) PROVE IInv'
  <2>1. CASE Release(w) \/ Dispose(w) \/ CloseSmi(w)
    BY <2>1, ReleaseOk, DisposeOk, CloseSmiOk
  <2>2. CASE CloseModem(w) \/ CloseMixer(w)
    BY <2>2, CloseModemOk, CloseMixerOk
  <2>3. CASE CloseFpgaStage(w) \/ CloseIo(w) \/ ResetStatus(w)
    BY <2>3, CloseFpgaStageOk, CloseIoOk, ResetStatusOk
  <2> QED
    BY <1>4, <2>1, <2>2, <2>3 DEF ReleaseStep
<1>5. CASE Signal \/ Kill \/ Restart
  BY <1>5, SignalOk, KillOk, RestartOk
<1>6. CASE UNCHANGED vars
  BY <1>6 DEF vars, IInv, TypeOK, Calm, Alive
<1> QED
  BY <1>1, <1>2, <1>3, <1>4, <1>5, <1>6 DEF Next

(* At every stage of every set-up and release that no signal interrupts, memory   *)
(* holds what the table of the invariant says.                                 *)
THEOREM Invariance == Spec => []IInv
BY InitOk, NextOk, PTL DEF Spec

(* The table of chips never overflows, and the state keeps its types.           *)
THEOREM TypeCorrect == Spec => []TypeOK
<1>1. IInv => TypeOK
  BY DEF IInv
<1> QED
  BY <1>1, Invariance, PTL

(* A driver that says it is fully initialised, between calls, has the mapping, the *)
(* SPI with a slot of its own for every chip, the sample device, and an FPGA that *)
(* is configured unless three attempts failed: status full_init of             *)
(* cariboulite_init_driver.                                                   *)
THEOREM ReadyIsWholeHolds == Spec => []ReadyIsWhole
<1>1. ASSUME IInv PROVE ReadyIsWhole
  <2> SUFFICES ASSUME Full(m), pc.main \in {"idle", "succeed"}, pc.handler = "none"
               PROVE  /\ m.mapped /\ m.spi /\ m.smi = "open"
                      /\ Uses("fpga") /\ Uses("modem")
                      /\ Product = "full" => Uses("mixer")
                      /\ m.slots[m.handle["fpga"]].open /\ m.slots[m.handle["modem"]].open
                      /\ fpga = "configured" \/ call.left = 0
    BY DEF ReadyIsWhole, Full
  <2>1. Consistent(pc.main, m, fpga, call, past)
    BY <1>1 DEF IInv, Calm, Alive
  <2>2. Ready(m, fpga, call) /\ m.smi = "open"
    BY <2>1 DEF Consistent, SetUpTable, ReleaseTable, Device, SmiInUse
  <2>3. Based(m) /\ Mounted(m, "modem", Next1(m)) /\ HasMixer(m, call.product)
    BY <2>2 DEF Ready, Whole, Boards
  <2>4. Uses("fpga") /\ m.slots[m.handle["fpga"]].open
    <3>1. m.ready["fpga"] /\ m.slots[m.handle["fpga"]] = SlotOf("fpga")
      BY <2>3 DEF Based, Mounted
    <3>2. SlotOf("fpga").chip = "fpga" /\ SlotOf("fpga").open
      BY DEF SlotOf, HasFile
    <3> QED
      BY <3>1, <3>2 DEF Uses
  <2>5. Uses("modem") /\ m.slots[m.handle["modem"]].open
    <3>1. m.ready["modem"] /\ m.slots[m.handle["modem"]] = SlotOf("modem")
      BY <2>3 DEF Mounted
    <3>2. SlotOf("modem").chip = "modem" /\ SlotOf("modem").open
      BY DEF SlotOf, HasFile
    <3> QED
      BY <3>1, <3>2 DEF Uses
  <2>6. Product = "full" => Uses("mixer")
    BY <2>3 DEF HasMixer, Mounted, SlotOf, Uses, Product
  <2> QED
    BY <2>2, <2>3, <2>4, <2>5, <2>6 DEF Based, Ready, Configured
<1> QED
  BY <1>1, Invariance, PTL

(* Between calls a driver that is not ready holds neither the I/O nor files,       *)
(* whichever stage of cariboulite_init_driver failed, unless a self-test did.     *)
THEOREM NothingLeftBehindHolds == Spec => []NothingLeftBehind
<1>1. ASSUME IInv PROVE NothingLeftBehind
  <2> SUFFICES ASSUME ~Full(m), pc.main = "idle", pc.handler = "none"
               PROVE  /\ ~m.spi /\ ~m.mapped
                      /\ past.lost # {} \/ m.smi = "open" => past.failed
    BY DEF NothingLeftBehind, Full
  <2>1. Consistent("idle", m, fpga, call, past)
    BY <1>1 DEF IInv, Calm, Alive
  <2> QED
    BY <2>1 DEF Consistent, ReleaseTable, Rested, Nothing, Device, SmiInUse, History
<1> QED
  BY <1>1, Invariance, PTL

(* In a process that lives on, and that no signal has interrupted, no file is      *)
(* closed twice, but that of the FPGA after a self-test that failed:            *)
(* io_utils_spi_close and caribou_smi_close.                                   *)
THEOREM ClosedOnceHolds == Spec => []ClosedOnce
<1>1. IInv => ClosedOnce
  BY DEF IInv, Calm, Consistent, History, ClosedOnce
<1> QED
  BY <1>1, Invariance, PTL
==============================================================================
