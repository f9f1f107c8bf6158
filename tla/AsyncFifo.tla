------------------------------ MODULE AsyncFifo ------------------------------
(***************************************************************************)
(* rtl/async_fifo.sv with its pointers as numbers: two clocks that tick     *)
(* independently, each side comparing its own pointer with an image of the *)
(* other one that passed two registers.  The first register may catch a    *)
(* pointer that is just changing as it was or as it will be: because the   *)
(* pointers travel in Gray code, which AsyncFifoGray models bit by bit, it *)
(* can catch nothing else.                                                 *)
(*                                                                         *)
(* Pointers count modulo 2 * Depth, so that a full buffer and an empty one  *)
(* differ; `full` is raised one word early, when the pointer after the next *)
(* write would be opposite the read pointer.                               *)
(***************************************************************************)
EXTENDS Naturals, Sequences

CONSTANTS
  Depth,    \* words of memory, 2 ^ ADDR_WIDTH, 2048 in final_top.sv
  Data,     \* the words
  Blank     \* the word block memory holds at power-up

ASSUME DepthAssumption == Depth \in Nat /\ Depth >= 2
ASSUME BlankAssumption == Blank \in Data

VARIABLES
  mem,                       \* the memory, by slot
  wr_bin, rd_bin,            \* write and read pointers
  rd_wr1, rd_wr2,            \* the read pointer as the write side sees it
  wr_rd1, wr_rd2             \* the write pointer as the read side sees it

writeVars == <<mem, wr_bin, rd_wr1, rd_wr2>>
readVars  == <<rd_bin, wr_rd1, wr_rd2>>
fifoVars  == <<writeVars, readVars>>

Slots    == 0 .. Depth - 1
Pointers == 0 .. 2 * Depth - 1

Inc(p)      == IF p = 2 * Depth - 1 THEN 0 ELSE p + 1
Opposite(p) == IF p < Depth THEN p + Depth ELSE p - Depth
SlotOf(p)   == IF p < Depth THEN p ELSE p - Depth

(* Words written after a read pointer p and before a write pointer q.       *)
Gap(p, q)   == IF q >= p THEN q - p ELSE q + 2 * Depth - p

(* What a register that last held `last` may catch of a pointer now at `now`:  *)
(* its value or, if it has moved since, its value before the last move.     *)
Caught(last, now) == {now} \cup {p \in Pointers : Inc(p) = now /\ last # now}

(* A definition whose name starts with Bug_ is a wrong form of the one after *)
(* it, with which a property must fail; it is no part of the specification. *)
Bug_FullLate   == wr_bin = Opposite(rd_wr2)
Bug_NeverEmpty == FALSE

Full  == Inc(wr_bin) = Opposite(rd_wr2)
Empty == rd_bin = wr_rd2
RdData == mem[SlotOf(rd_bin)]

FifoInit ==
  /\ mem = [s \in Slots |-> Blank]
  /\ wr_bin = 0 /\ rd_wr1 = 0 /\ rd_wr2 = 0
  /\ rd_bin = 0 /\ wr_rd1 = 0 /\ wr_rd2 = 0

(* A rising edge of wr_clk with the inputs wr_valid and wr_data.            *)
WriteEdge(valid, data) ==
  /\ rd_wr1' \in Caught(rd_wr1, rd_bin)
  /\ rd_wr2' = rd_wr1
  /\ IF valid /\ ~Full
     THEN /\ mem' = [mem EXCEPT ![SlotOf(wr_bin)] = data]
          /\ wr_bin' = Inc(wr_bin)
     ELSE UNCHANGED <<mem, wr_bin>>
  /\ UNCHANGED readVars

(* A rising edge of rd_clk with the input rd_ready.                         *)
ReadEdge(ready) ==
  /\ wr_rd1' \in Caught(wr_rd1, wr_bin)
  /\ wr_rd2' = wr_rd1
  /\ rd_bin' = IF ~Empty /\ ready THEN Inc(rd_bin) ELSE rd_bin
  /\ UNCHANGED writeVars

FifoNext ==
  \/ \E valid \in BOOLEAN, data \in Data : WriteEdge(valid, data)
  \/ \E ready \in BOOLEAN : ReadEdge(ready)

FifoSpec == FifoInit /\ [][FifoNext]_fifoVars
-----------------------------------------------------------------------------
FifoTypeOK ==
  /\ mem \in [Slots -> Data]
  /\ {wr_bin, rd_wr1, rd_wr2, rd_bin, wr_rd1, wr_rd2} \subseteq Pointers

(* Going round the pointers from the oldest image of the read pointer to    *)
(* the write pointer, each image lies between the value it copies and the  *)
(* one before it, and the way round never exceeds Depth - 1 words: neither *)
(* side ever sees the other one ahead of where it is, so that the flags    *)
(* err only towards full and towards empty.                                *)
PointersInOrder ==
  Gap(rd_wr2, rd_wr1) + Gap(rd_wr1, rd_bin) + Gap(rd_bin, wr_rd2)
    + Gap(wr_rd2, wr_rd1) + Gap(wr_rd1, wr_bin) <= Depth - 1

(* A write the buffer accepts never lands on a word not yet read, and a read *)
(* it offers is of a word that was written.                                *)
NoOverrun  == ~Full => Gap(rd_bin, wr_bin) < Depth - 1
NoUnderrun == ~Empty => rd_bin # wr_bin

(* The words between the pointers, oldest first.                            *)
Ahead(p, n) == IF p + n >= 2 * Depth THEN p + n - 2 * Depth ELSE p + n
Contents == [i \in 1 .. Gap(rd_bin, wr_bin) |-> mem[SlotOf(Ahead(rd_bin, i - 1))]]

(* Seen from outside it is a first-in first-out buffer of Depth - 1 words.   *)
Queue == INSTANCE FifoQueue WITH queue <- Contents, Capacity <- Depth - 1
IsQueue == Queue!Spec
=============================================================================
