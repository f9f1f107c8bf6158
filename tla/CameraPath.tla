----------------------------- MODULE CameraPath -----------------------------
(***************************************************************************)
(* rtl/ov2640_capture.sv feeding rtl/async_fifo.sv: the camera's byte stream *)
(* becomes words of one pixel, and a frame that meets a full buffer is cut  *)
(* there.  Capture and the write side of the buffer share the clock PCLK,   *)
(* so one camera clock edge moves both; the read side is ReadEdge.          *)
(*                                                                         *)
(* The camera is the environment: lines of whole pixels, two bytes each,    *)
(* separated by gaps of HREF and, between frames, of VSYNC.  It is already  *)
(* running when the capture leaves reset, at any byte of any pixel.  A      *)
(* pixel is named by its place in the frame; a word of the buffer carries   *)
(* the names of the pixels its two bytes came from.                         *)
(***************************************************************************)
EXTENDS AsyncFifo

CONSTANT FramePixels     \* pixels of a frame, 320 * 240 in the code

ASSUME FrameAssumption == FramePixels \in Nat \ {0}

VARIABLES
  cam_pixel, cam_byte,   \* the camera: next pixel of the frame, next byte of it
  first_byte, have_first_byte,
  seen_frame_gap, frame_active, drop_frame,
  fifo_wr_valid, fifo_wr_data,
  last_word              \* history: the last word read from the buffer

camVars     == <<cam_pixel, cam_byte>>
captureVars == <<first_byte, have_first_byte, seen_frame_gap, frame_active, drop_frame,
                 fifo_wr_valid, fifo_wr_data>>
vars == <<fifoVars, camVars, captureVars, last_word>>

Pixels == 0 .. FramePixels - 1
Words  == [sof : BOOLEAN, hi : Pixels, lo : Pixels]
ASSUME WordAssumption == Words \subseteq Data
NoWord == [sof |-> FALSE, hi |-> 0, lo |-> 0]
-----------------------------------------------------------------------------
Init ==
  /\ FifoInit
  /\ cam_pixel \in Pixels /\ cam_byte \in {0, 1}
  /\ first_byte = 0 /\ have_first_byte = FALSE
  /\ seen_frame_gap = FALSE /\ frame_active = FALSE /\ drop_frame = FALSE
  /\ fifo_wr_valid = FALSE /\ fifo_wr_data = NoWord
  /\ last_word = [NoWord EXCEPT !.hi = FramePixels - 1]    \* nothing may follow it

(* A definition whose name starts with Bug_ is a wrong form of the one after *)
(* it, with which a property must fail; it is no part of the specification. *)
Bug_FrameGapKeepsByte ==
  /\ cam_byte = 0
  /\ cam_pixel' = 0 /\ UNCHANGED cam_byte
  /\ seen_frame_gap' = TRUE /\ frame_active' = FALSE /\ drop_frame' = FALSE
  /\ fifo_wr_valid' = FALSE
  /\ UNCHANGED <<first_byte, have_first_byte, fifo_wr_data>>

(* cam_vsync low: the gap between two frames.                               *)
FrameGap ==
  /\ cam_byte = 0
  /\ cam_pixel' = 0 /\ UNCHANGED cam_byte
  /\ have_first_byte' = FALSE
  /\ seen_frame_gap' = TRUE /\ frame_active' = FALSE /\ drop_frame' = FALSE
  /\ fifo_wr_valid' = FALSE
  /\ UNCHANGED <<first_byte, fifo_wr_data>>

(* cam_vsync high, cam_href low: the gap between two lines.                 *)
LineGap ==
  /\ cam_byte = 0
  /\ UNCHANGED camVars
  /\ have_first_byte' = FALSE
  /\ fifo_wr_valid' = FALSE
  /\ UNCHANGED <<first_byte, seen_frame_gap, frame_active, drop_frame, fifo_wr_data>>

(* cam_href high: the camera puts its next byte on cam_d.                   *)
NextByte ==
  /\ cam_pixel \in Pixels
  /\ cam_byte' = 1 - cam_byte
  /\ cam_pixel' = cam_pixel + cam_byte

DroppedByte ==
  /\ NextByte /\ drop_frame
  /\ have_first_byte' = FALSE
  /\ fifo_wr_valid' = FALSE
  /\ UNCHANGED <<first_byte, seen_frame_gap, frame_active, drop_frame, fifo_wr_data>>

FirstByte ==
  /\ NextByte /\ ~drop_frame /\ ~have_first_byte
  /\ first_byte' = cam_pixel
  /\ have_first_byte' = TRUE
  /\ fifo_wr_valid' = FALSE
  /\ UNCHANGED <<seen_frame_gap, frame_active, drop_frame, fifo_wr_data>>

Bug_AlwaysReady   == TRUE
Bug_DropPixelOnly == UNCHANGED drop_frame

fifo_wr_ready   == ~Full
DropRestOfFrame == drop_frame' = TRUE

(* The second byte makes a word, unless no frame has begun since reset or    *)
(* the buffer is full, which drops the rest of the frame.                  *)
SecondByte ==
  /\ NextByte /\ ~drop_frame /\ have_first_byte
  /\ have_first_byte' = FALSE
  /\ UNCHANGED first_byte
  /\ IF ~seen_frame_gap /\ ~frame_active
     THEN /\ fifo_wr_valid' = FALSE
          /\ UNCHANGED <<seen_frame_gap, frame_active, drop_frame, fifo_wr_data>>
     ELSE IF fifo_wr_ready
     THEN /\ fifo_wr_valid' = TRUE
          /\ fifo_wr_data' = [sof |-> seen_frame_gap, hi |-> cam_pixel, lo |-> first_byte]
          /\ seen_frame_gap' = FALSE
          /\ frame_active' = TRUE
          /\ UNCHANGED drop_frame
     ELSE /\ fifo_wr_valid' = FALSE
          /\ DropRestOfFrame
          /\ UNCHANGED <<seen_frame_gap, frame_active, fifo_wr_data>>

(* One edge of PCLK; the buffer takes the word registered at the last one.   *)
CameraEdge ==
  /\ FrameGap \/ LineGap \/ DroppedByte \/ FirstByte \/ SecondByte
  /\ WriteEdge(fifo_wr_valid, fifo_wr_data)
  /\ UNCHANGED last_word

(* One edge of the read clock, whose side may or may not be ready.          *)
ReaderEdge ==
  /\ \E ready \in BOOLEAN :
       /\ ReadEdge(ready)
       /\ last_word' = IF ready /\ ~Empty THEN RdData ELSE last_word
  /\ UNCHANGED <<camVars, captureVars>>

Next == CameraEdge \/ ReaderEdge

Spec == Init /\ [][Next]_vars
-----------------------------------------------------------------------------
(* A word the capture offers is always taken: it was registered while the   *)
(* buffer had room, one clock before it is written, and pixels are two      *)
(* clocks apart.  The tracker counts offered words without looking at       *)
(* wr_ready (final_top.sv, tracker_camera_accept) and relies on it.         *)
OfferedIsTaken == fifo_wr_valid => ~Full

(* Every word made of camera data joins the two bytes of one pixel, however  *)
(* the capture fell into the byte stream when it left reset.               *)
WholePixels ==
  /\ fifo_wr_valid => fifo_wr_data.hi = fifo_wr_data.lo
  /\ \A i \in DOMAIN Contents : Contents[i].hi = Contents[i].lo

(* What leaves the buffer is a sequence of frames, each starting with the    *)
(* start-of-frame mark on its first pixel and going on pixel by pixel: an   *)
(* overflow may cut a frame short but never leaves a hole in it.           *)
FramesArePrefixes ==
  [][rd_bin' # rd_bin =>
       IF RdData.sof THEN RdData.hi = 0 ELSE RdData.hi = last_word.hi + 1]_vars
=============================================================================
