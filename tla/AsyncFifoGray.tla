---------------------------- MODULE AsyncFifoGray ----------------------------
(***************************************************************************)
(* rtl/async_fifo.sv register by register.  The pointers cross between the  *)
(* clocks in Gray code, and the register that catches one at an edge may    *)
(* take each of its bits as it was before or after the source clock's last *)
(* edge, bit by bit.  That this never yields anything but the old or the    *)
(* new pointer is what lets AsyncFifo treat the pointers as numbers: this   *)
(* module implements that one (AsyncFifoGrayProofs).                       *)
(***************************************************************************)
EXTENDS Naturals, Sequences

CONSTANTS
  AddrWidth,   \* ADDR_WIDTH, 11 in final_top.sv
  Data, Blank

(* With fewer bits, `full` would have none below the two it inverts.        *)
ASSUME WidthAssumption == AddrWidth \in Nat /\ AddrWidth >= 2

VARIABLES
  mem,
  wr_bin, wr_gray, rd_gray_wr1, rd_gray_wr2,
  rd_bin, rd_gray, wr_gray_rd1, wr_gray_rd2,
  wr_before, rd_before   \* the Gray pointers before the last edge of their clock,
                         \* while the other clock may still catch them changing

vars == <<mem, wr_bin, wr_gray, rd_gray_wr1, rd_gray_wr2,
          rd_bin, rd_gray, wr_gray_rd1, wr_gray_rd2, wr_before, rd_before>>

Depth    == 2 ^ AddrWidth
Pointers == 0 .. 2 * Depth - 1
Bits     == 0 .. AddrWidth            \* PTR_WIDTH of them
Codes    == [Bits -> {0, 1}]          \* what a Gray register can hold

Bit(n, i) == (n \div 2 ^ i) % 2
Xor(x, y) == (x + y) % 2

(* A definition whose name starts with Bug_ is a wrong form of the one after *)
(* it, with which a property must fail; it is no part of the specification. *)
Bug_bin_crosses(bin) == [i \in Bits |-> Bit(bin, i)]

bin_to_gray(bin) == [i \in Bits |-> Xor(Bit(bin, i + 1), Bit(bin, i))]

(* The number whose bits are what the loop assigns, from the top one down.  *)
gray_to_bin(gray) ==
  CHOOSE bin \in Pointers :
    \A i \in Bits : Bit(bin, i) = IF i = AddrWidth THEN gray[i]
                                  ELSE Xor(Bit(bin, i + 1), gray[i])

Plus1(bin) == (bin + 1) % (2 * Depth)

(* A code with its two top bits inverted.                                   *)
TopInverted(gray) == [i \in Bits |-> IF i >= AddrWidth - 1 THEN 1 - gray[i] ELSE gray[i]]

Bug_full_late == wr_gray = TopInverted(rd_gray_wr2)

full  == bin_to_gray(Plus1(wr_bin)) = TopInverted(rd_gray_wr2)
empty == rd_gray = wr_gray_rd2

(* Every word whose bits are each taken from one of two words.              *)
Mixes(old, new) == {gray \in Codes : \A i \in Bits : gray[i] \in {old[i], new[i]}}

Zero == [i \in Bits |-> 0]

Init ==
  /\ mem = [s \in 0 .. Depth - 1 |-> Blank]
  /\ wr_bin = 0 /\ wr_gray = Zero /\ rd_gray_wr1 = Zero /\ rd_gray_wr2 = Zero
  /\ rd_bin = 0 /\ rd_gray = Zero /\ wr_gray_rd1 = Zero /\ wr_gray_rd2 = Zero
  /\ wr_before = Zero /\ rd_before = Zero

WriteEdge(valid, data) ==
  /\ rd_gray_wr1' \in Mixes(rd_before, rd_gray)
  /\ rd_gray_wr2' = rd_gray_wr1
  /\ IF valid /\ ~full
     THEN /\ mem' = [mem EXCEPT ![wr_bin % Depth] = data]
          /\ wr_bin' = Plus1(wr_bin)
          /\ wr_gray' = bin_to_gray(Plus1(wr_bin))
     ELSE UNCHANGED <<mem, wr_bin, wr_gray>>
  /\ wr_before' = wr_gray
  /\ rd_before' = rd_gray
  /\ UNCHANGED <<rd_bin, rd_gray, wr_gray_rd1, wr_gray_rd2>>

ReadEdge(ready) ==
  /\ wr_gray_rd1' \in Mixes(wr_before, wr_gray)
  /\ wr_gray_rd2' = wr_gray_rd1
  /\ IF ~empty /\ ready
     THEN rd_bin' = Plus1(rd_bin) /\ rd_gray' = bin_to_gray(Plus1(rd_bin))
     ELSE UNCHANGED <<rd_bin, rd_gray>>
  /\ rd_before' = rd_gray
  /\ wr_before' = wr_gray
  /\ UNCHANGED <<mem, wr_bin, wr_gray, rd_gray_wr1, rd_gray_wr2>>

Next ==
  \/ \E valid \in BOOLEAN, data \in Data : WriteEdge(valid, data)
  \/ \E ready \in BOOLEAN : ReadEdge(ready)

Spec == Init /\ [][Next]_vars
-----------------------------------------------------------------------------
(* wr_level and rd_level, the fill counts each side reports.                *)
wr_level == (wr_bin + 2 * Depth - gray_to_bin(rd_gray_wr2)) % (2 * Depth)
rd_level == (gray_to_bin(wr_gray_rd2) + 2 * Depth - rd_bin) % (2 * Depth)

(* The level each side reports errs only towards its own limit: the write    *)
(* side never reports fewer words than there are, the read side never more. *)
LevelsAreSafe ==
  LET words == (wr_bin + 2 * Depth - rd_bin) % (2 * Depth)
  IN  rd_level <= words /\ words <= wr_level /\ wr_level <= Depth - 1

(* With every Gray code read as the number it stands for, the registers      *)
(* behave as AsyncFifo says.                                               *)
Numbers == INSTANCE AsyncFifo WITH
  rd_wr1 <- gray_to_bin(rd_gray_wr1), rd_wr2 <- gray_to_bin(rd_gray_wr2),
  wr_rd1 <- gray_to_bin(wr_gray_rd1), wr_rd2 <- gray_to_bin(wr_gray_rd2)
ImplementsAsyncFifo == Numbers!FifoSpec
=============================================================================
