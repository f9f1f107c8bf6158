------------------------------ MODULE LineReader ------------------------------
(***************************************************************************)
(* The display side of the frame stores, clock by clock: the scan position *)
(* of VGA_controller, vga_framebuffer_reader with its two line buffers,    *)
(* and sram_arbiter, which lets one reader and one writer use the SRAM.    *)
(* A picture line is read twice, for two display lines, and the reader     *)
(* fetches it while the beam is already running: a step is one edge of     *)
(* vga_clk, and what matters is which of the two is ahead.                 *)
(*                                                                         *)
(* The word of store f, line y, column x is represented by its address     *)
(* <<f, y, x>>, so that a buffer shows where each of its words came from.  *)
(***************************************************************************)
EXTENDS Integers

CONSTANTS LineWords,  \* 320, the words of a picture line; a display line shows each twice
          HTotal,     \* 800, clocks per display line
          Lines,      \* 240, the lines of a picture
          VTotal      \* 525, display lines per scan

ASSUME TimingAssumption ==
    /\ LineWords \in Nat \ {0} /\ Lines \in Nat \ {0}
    /\ HTotal \in Nat /\ HTotal > 2 * LineWords
    /\ VTotal \in Nat /\ VTotal > 2 * Lines

(* A display line lasts at least 12/5 of a picture line's words and at most  *)
(* 8/3 of them (800 clocks, 320 words: 5/2), so that the fetches of the race *)
(* at the top of a scan, back to back, fall where they do in the real       *)
(* geometry; and the last lines of a picture are not those of the race.      *)
ASSUME RaceAssumption ==
    /\ 5 * HTotal >= 12 * LineWords + 40
    /\ 3 * HTotal <= 8 * LineWords + 7
    /\ Lines >= 5

Frames == 0 .. 2
Buffers == 0 .. 1
LastWord == LineWords - 1
Address == Frames \X (0 .. Lines - 1) \X (0 .. LastWord)
NoWord == <<>>                  \* a word of a buffer not written since power-up

VARIABLES draw_x, draw_y, draw_x_d,                   \* the beam
          pending_frame, pending_valid,               \* offered by the writer
          have_sram_frame,
          read_frame, pending_consumed,               \* the reader
          line_buf, buf_y, buf_valid,
          current_buf, current_valid,
          fill_active, fill_buf, fill_y, fill_x, fill_addr,
          rd_x_hold, rd_y_hold, rd_buf_hold, line_done_pending,
          mem_rd_req, mem_rd_addr,
          state, SRAM_ADDR, rd_valid, rd_data,        \* the arbiter
          starved,            \* history: edges since a write could last start
          scans               \* history: scans started with the display enabled, up to 2

beam == <<draw_x, draw_y, draw_x_d>>
offer == <<pending_frame, pending_valid, have_sram_frame>>
buffers == <<line_buf, buf_y, buf_valid, current_buf, current_valid>>
fill == <<fill_active, fill_buf, fill_y, fill_x, fill_addr, line_done_pending>>
reads == <<rd_x_hold, rd_y_hold, rd_buf_hold, mem_rd_req, mem_rd_addr>>
arbiter == <<state, SRAM_ADDR, rd_valid, rd_data>>
vars == <<beam, offer, read_frame, pending_consumed, buffers, fill, reads, arbiter, starved, scans>>

Init ==
    /\ draw_x = 0 /\ draw_y = 0 /\ draw_x_d = 0
    /\ pending_frame = 0 /\ pending_valid = FALSE /\ have_sram_frame = FALSE
    /\ read_frame = 0 /\ pending_consumed = FALSE
    /\ line_buf = [b \in Buffers |-> [x \in 0 .. LastWord |-> NoWord]]
    /\ buf_y = [b \in Buffers |-> 0] /\ buf_valid = [b \in Buffers |-> FALSE]
    /\ current_buf = 0 /\ current_valid = FALSE
    /\ fill_active = FALSE /\ fill_buf = 0 /\ fill_y = 0 /\ fill_x = 0
    /\ fill_addr = <<0, 0, 0>> /\ line_done_pending = FALSE
    /\ rd_x_hold = 0 /\ rd_y_hold = 0 /\ rd_buf_hold = 0
    /\ mem_rd_req = FALSE /\ mem_rd_addr = <<0, 0, 0>>
    /\ state = "IDLE" /\ SRAM_ADDR = <<0, 0, 0>> /\ rd_valid = FALSE /\ rd_data = NoWord
    /\ starved = 0 /\ scans = 0

-----------------------------------------------------------------------------
(* The beam and what it needs                                              *)

MoveBeam ==
    /\ draw_x_d' = draw_x
    /\ draw_x' = IF draw_x + 1 = HTotal THEN 0 ELSE draw_x + 1
    /\ draw_y' = IF draw_x + 1 # HTotal THEN draw_y
                 ELSE IF draw_y + 1 = VTotal THEN 0 ELSE draw_y + 1

new_line == draw_x = 0 /\ draw_x_d # 0
new_frame == new_line /\ draw_y = 0
Swap == new_frame /\ pending_valid

PictureLine == draw_y \div 2
source_x == IF draw_x < 2 * LineWords THEN draw_x \div 2 ELSE 0
InPicture == draw_x < 2 * LineWords /\ draw_y < 2 * Lines

Holds(b, y) == buf_valid[b] /\ buf_y[b] = y
buffer_has_y(y) == \E b \in Buffers : Holds(b, y)

\* The buffer the beam reads in this clock, and whether it is good: looked up
\* at the start of a line, kept for the rest of it.
pixel_buf_sel ==
    IF new_line /\ ~Swap /\ buffer_has_y(PictureLine)
    THEN IF Holds(0, PictureLine) THEN 0 ELSE 1
    ELSE current_buf
pixel_line_valid ==
    IF new_line THEN ~Swap /\ buffer_has_y(PictureLine) ELSE current_valid

-----------------------------------------------------------------------------
(* The reader.  Where the code assigns a register more than once in an     *)
(* edge the last assignment counts: first in the IF here.                  *)

\* A definition whose name starts with Bug_ is a wrong form of the one after
\* it, with which a property must fail; it is no part of the specification.
Bug_WantedNow == PictureLine
Bug_ShownBuffer == current_buf

\* The buffer not on display.
FreeBuffer == 1 - current_buf

\* The line to fetch: the one being shown, else the next one.
Wanted == IF buffer_has_y(PictureLine) THEN PictureLine + 1 ELSE PictureLine

StartFill ==
    /\ ~new_line /\ ~fill_active /\ ~mem_rd_req
    /\ draw_y < 2 * Lines
    /\ Wanted < Lines
    /\ ~buffer_has_y(Wanted)

\* The arbiter is hidden from the reader until there has been a frame.
rd_accepted == have_sram_frame /\ mem_rd_req /\ state = "IDLE"
WordArrives == have_sram_frame /\ rd_valid
LineArrives == WordArrives /\ rd_x_hold = LastWord

TakePending ==
    /\ read_frame' = IF Swap THEN pending_frame ELSE read_frame
    /\ pending_consumed' = Swap

SelectBuffer ==
    /\ current_buf' = pixel_buf_sel
    /\ current_valid' = pixel_line_valid

\* fill_addr counts up with fill_x from the first word of the line.
Fill ==
    /\ fill_active' = (~LineArrives /\ ~Swap /\ (StartFill \/ fill_active))
    /\ fill_buf' = IF StartFill THEN FreeBuffer ELSE fill_buf
    /\ fill_y' = IF StartFill THEN Wanted ELSE fill_y
    /\ fill_x' = IF rd_accepted /\ fill_x # LastWord THEN fill_x + 1
                 ELSE IF StartFill THEN 0 ELSE fill_x
    /\ fill_addr' = IF rd_accepted /\ fill_x # LastWord
                    THEN <<fill_addr[1], fill_addr[2], fill_addr[3] + 1>>
                    ELSE IF StartFill THEN <<read_frame, Wanted, 0>> ELSE fill_addr
    /\ line_done_pending' = (/\ ~LineArrives
                             /\ \/ rd_accepted /\ fill_x = LastWord
                                \/ line_done_pending /\ ~Swap /\ ~StartFill)

Bug_RequestPastLine == ~rd_accepted /\ fill_active /\ ~mem_rd_req

RequestNext == ~rd_accepted /\ fill_active /\ ~line_done_pending /\ ~mem_rd_req

Request ==
    /\ mem_rd_req' = (RequestNext \/ (mem_rd_req /\ ~rd_accepted /\ ~Swap))
    /\ mem_rd_addr' = IF RequestNext THEN fill_addr ELSE mem_rd_addr
    /\ rd_x_hold' = IF rd_accepted THEN fill_x ELSE rd_x_hold
    /\ rd_y_hold' = IF rd_accepted THEN fill_y ELSE rd_y_hold
    /\ rd_buf_hold' = IF rd_accepted THEN fill_buf ELSE rd_buf_hold

\* An arriving word names the line its buffer holds from now on; the last one
\* makes the buffer good, and nothing but a swap makes it bad.
Store ==
    /\ line_buf' = IF WordArrives
                   THEN [line_buf EXCEPT ![rd_buf_hold][rd_x_hold] = rd_data] ELSE line_buf
    /\ buf_y' = IF WordArrives THEN [buf_y EXCEPT ![rd_buf_hold] = rd_y_hold] ELSE buf_y
    /\ buf_valid' = [b \in Buffers |-> \/ LineArrives /\ b = rd_buf_hold
                                       \/ buf_valid[b] /\ ~Swap]

-----------------------------------------------------------------------------
(* The arbiter: a read goes first, an access takes two clocks              *)

rd_req == have_sram_frame /\ mem_rd_req
wr_ready == state = "IDLE" /\ ~rd_req

Arbitrate(wr_valid) ==
    /\ state' = IF state # "IDLE" THEN "IDLE"
                ELSE IF rd_req THEN "READ" ELSE IF wr_valid THEN "WRITE" ELSE "IDLE"
    /\ SRAM_ADDR' = IF state = "IDLE" /\ rd_req THEN mem_rd_addr ELSE SRAM_ADDR
    /\ rd_valid' = (state = "READ")
    /\ rd_data' = IF state = "READ" THEN SRAM_ADDR ELSE rd_data
    /\ starved' = IF wr_ready THEN 0 ELSE starved + 1

\* The writer offers a frame in another store, and withdraws a consumed offer; the
\* next one is complete, at the earliest, on the edge on which it does.
Offer(complete) ==
    /\ complete => ~pending_valid \/ pending_consumed
    /\ pending_valid' = (complete \/ (pending_valid /\ ~pending_consumed))
    /\ pending_frame' = IF complete THEN (read_frame + 1) % 3 ELSE pending_frame
    /\ have_sram_frame' = (have_sram_frame \/ pending_valid \/ pending_consumed)

-----------------------------------------------------------------------------
Next ==
    \E wr_valid, complete \in BOOLEAN :
        /\ MoveBeam
        /\ TakePending /\ SelectBuffer /\ Fill /\ Request /\ Store
        /\ Arbitrate(wr_valid)
        /\ Offer(complete)
        /\ scans' = IF new_frame /\ have_sram_frame /\ scans < 2 THEN scans + 1 ELSE scans

Spec == Init /\ [][Next]_vars

-----------------------------------------------------------------------------
(* Properties                                                              *)

\* A pixel declared good is the right one: the word of the displayed frame, at
\* the beam's line and column, though its buffer may still be filling, and no
\* write to that very word is under way.
GoodPixelIsRight ==
    InPicture /\ pixel_line_valid =>
        /\ line_buf[pixel_buf_sel][source_x] = <<read_frame, PictureLine, source_x>>
        /\ ~(WordArrives /\ rd_buf_hold = pixel_buf_sel /\ rd_x_hold = source_x)

\* In every scan that starts with the display enabled the good pixels are
\* right, swaps, late words and a busy writer notwithstanding.
ScansAreRight == scans > 0 => GoodPixelIsRight

\* The buffers lose the race with the beam only at the top of a scan: from the
\* sixth display line on every pixel of the picture is good.  (In the scan that
\* follows the enabling of the display a fetch left over from before may delay
\* the race.)
MissesOnlyAtTop ==
    scans = 2 /\ InPicture /\ draw_y >= 5 => pixel_line_valid

\* A waiting write is held up by no more than the fetch of one line.
WriterWaitsOneLine == starved <= 2 * LineWords + 1
=============================================================================
