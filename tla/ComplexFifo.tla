---------------------------- MODULE ComplexFifo ----------------------------
(***************************************************************************)
(* firmware/complex_fifo.v: a fifo between two clock domains.  Each side     *)
(* keeps its own address and sees the other's through two registers of its  *)
(* own clock, as a Gray code.  The flags full_o and empty_o are registers    *)
(* too: each is computed from what its side saw two edges ago.              *)
(*                                                                          *)
(* The module is a set of functions of the registers, f.  wr_addr_gray and   *)
(* rd_addr_gray always hold the code of the address beside them and are left *)
(* out.  One slot stays free: 2^AddrWidth - 1 words fit.                    *)
(***************************************************************************)
EXTENDS Integers

CONSTANT AddrWidth

ASSUME ComplexFifoAssumption == AddrWidth \in Nat \ {0, 1}

(* A function that the provers can unfold, as they cannot unfold 2^k. *)
PowerOf2[k \in Nat] == IF k = 0 THEN 1 ELSE 2 * PowerOf2[k - 1]

Size == PowerOf2[AddrWidth]
Addresses == 0..(Size - 1)

Codes == [0..(AddrWidth - 1) -> {0, 1}]

Bit(n, k) == (n \div PowerOf2[k]) % 2

(* gray_conv: bit k of the code is the sum of the bits k and k + 1.           *)
gray_conv == [n \in Addresses |-> [k \in 0..(AddrWidth - 1) |-> (Bit(n, k) + Bit(n, k + 1)) % 2]]

(* What a register may catch that is clocked while its input changes from the  *)
(* code of a to that of b: of every bit the old or the new value.              *)
Caught ==
  [a \in Addresses |-> [b \in Addresses |->
     {c \in Codes : \A k \in DOMAIN c : c[k] \in {gray_conv[a][k], gray_conv[b][k]}}]]

(* wrSeen, wrSeen2 are wr_addr_gray_rd, wr_addr_gray_rd_r; rdSeen and          *)
(* rdSeen2 their counterparts in the write domain.                          *)
Fifos(Words) ==
  [wr_addr : Addresses, rd_addr : Addresses, rdSeen : Codes, rdSeen2 : Codes,
   wrSeen : Codes, wrSeen2 : Codes, full : BOOLEAN, empty : BOOLEAN,
   mem : [Addresses -> Words], rd_data : Words]

EmptyFifo(w) ==
  LET zero == gray_conv[0] IN
  [wr_addr |-> 0, rd_addr |-> 0, rdSeen |-> zero, rdSeen2 |-> zero,
   wrSeen |-> zero, wrSeen2 |-> zero, full |-> FALSE, empty |-> TRUE,
   mem |-> [a \in Addresses |-> w], rd_data |-> w]

(* Addresses have AddrWidth bits. *)
Plus(a, n) == (a + n) % Size

(* Variant of FullNext: the flag is raised when the write address has reached  *)
(* the read address, a word too late.                                       *)
FullNextLate(f, en) ==
  IF en THEN gray_conv[Plus(f.wr_addr, 1)] = f.rdSeen2
        ELSE f.full /\ gray_conv[f.wr_addr] = f.rdSeen2

FullNext(f, en) ==
  IF en THEN gray_conv[Plus(f.wr_addr, 2)] = f.rdSeen2
        ELSE f.full /\ gray_conv[Plus(f.wr_addr, 1)] = f.rdSeen2

(* Variant of EmptyNext: without a read the flag stays as it is. *)
EmptyNextKept(f, en) ==
  IF en THEN gray_conv[Plus(f.rd_addr, 1)] = f.wrSeen2 ELSE f.empty

EmptyNext(f, en) ==
  IF en THEN gray_conv[Plus(f.rd_addr, 1)] = f.wrSeen2
        ELSE f.empty /\ gray_conv[f.rd_addr] = f.wrSeen2

(* An edge of wr_clk_i, with wr_en_i, wr_data_i and what rd_addr_gray_wr       *)
(* catches of the read address.                                             *)
WriteEdge(f, en, w, seen) ==
  [f EXCEPT !.wr_addr = IF en THEN Plus(@, 1) ELSE @,
            !.mem = IF en THEN [@ EXCEPT ![f.wr_addr] = w] ELSE @,
            !.full = FullNext(f, en),
            !.rdSeen = seen, !.rdSeen2 = f.rdSeen]

(* An edge of rd_clk_i. *)
ReadEdge(f, en, seen) ==
  [f EXCEPT !.rd_addr = IF en THEN Plus(@, 1) ELSE @,
            !.rd_data = IF en THEN f.mem[f.rd_addr] ELSE @,
            !.empty = EmptyNext(f, en),
            !.wrSeen = seen, !.wrSeen2 = f.wrSeen]

WriteOnly(f, en, w) == {WriteEdge(f, en, w, gray_conv[f.rd_addr])}

ReadOnly(f, en) == {ReadEdge(f, en, gray_conv[f.wr_addr])}

(* Both clocks tick at once: each side may catch the other's address changing. *)
Together(f, wen, w, ren) ==
  LET step(a, en) == IF en THEN Plus(a, 1) ELSE a IN
  { ReadEdge(WriteEdge(f, wen, w, rs), ren, ws) :
      rs \in Caught[f.rd_addr][step(f.rd_addr, ren)],
      ws \in Caught[f.wr_addr][step(f.wr_addr, wen)] }

(* The words in the fifo, oldest first. *)
Contents(f) ==
  [i \in 1..((f.wr_addr - f.rd_addr) % Size) |-> f.mem[Plus(f.rd_addr, i - 1)]]
=============================================================================
