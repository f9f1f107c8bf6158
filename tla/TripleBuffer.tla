---------------------------- MODULE TripleBuffer ----------------------------
(***************************************************************************)
(* The hand-over of camera frames to the display: sram_frame_writer fills  *)
(* one of three frame stores of the external SRAM and offers each complete *)
(* frame as "pending"; vga_framebuffer_reader takes the pending frame at   *)
(* the start of a scan; final_top lets the SRAM picture through once there *)
(* has been a frame.  All three run on vga_clk, so a step of this module   *)
(* is one rising edge: every register gets its next value from the values  *)
(* before the edge.                                                        *)
(***************************************************************************)
EXTENDS Integers

CONSTANTS FrameWords,   \* FRAME_WORDS, the pixels of a frame
          MaxFrames,    \* bounds the starts of frame (SOF) the source sends
          SlowSource    \* TRUE: a scan starts between two completed frames

ASSUME FrameWordsAssumption == FrameWords \in Nat /\ FrameWords > 1
ASSUME MaxFramesAssumption == MaxFrames \in Nat
ASSUME SlowSourceAssumption == SlowSource \in BOOLEAN

Frames == 0 .. 2

VARIABLES write_frame, pixel_count, frame_active,        \* sram_frame_writer
          pending_frame, pending_valid,
          completed_frame_count, dropped_frame_count,
          read_frame, pending_consumed,                  \* the reader
          new_frame_d,      \* draw_x_d = 0: a scan started one edge ago
          have_sram_frame,                               \* final_top
          whole,            \* history: the stores that hold one whole frame
          started,          \* history: starts of frame accepted
          scanned           \* history: a scan started since the last completion

registers == <<write_frame, pixel_count, frame_active, pending_frame, pending_valid,
               completed_frame_count, dropped_frame_count>>
display == <<read_frame, pending_consumed, have_sram_frame>>
vars == <<registers, display, new_frame_d, whole, started, scanned>>

Init ==
    /\ write_frame = 0 /\ pixel_count = 0 /\ frame_active = FALSE
    /\ pending_frame = 0 /\ pending_valid = FALSE
    /\ completed_frame_count = 0 /\ dropped_frame_count = 0
    /\ read_frame = 0 /\ pending_consumed = FALSE /\ new_frame_d = FALSE
    /\ have_sram_frame = FALSE
    /\ whole = {} /\ started = 0 /\ scanned = TRUE

-----------------------------------------------------------------------------
(* The reader and the display enable                                       *)

\* A definition whose name starts with Bug_ is a wrong form of the one after
\* it, with which a property must fail; it is no part of the specification.
Bug_pick_displayed(current_read, hold_frame) == IF hold_frame # 0 THEN 0 ELSE 1
Bug_pick_held(current_read, hold_frame) == IF current_read # 0 THEN 0 ELSE 1

\* The first frame neither on display nor just written.
pick_next_frame(current_read, hold_frame) ==
    IF 0 \notin {current_read, hold_frame} THEN 0
    ELSE IF 1 \notin {current_read, hold_frame} THEN 1
    ELSE 2

\* draw_x = 0 for the first time at draw_y = 0; not on two edges running,
\* because draw_x_d holds the 0 of the first.
ScanMayStart == ~new_frame_d

TakePending(new_frame) ==
    IF new_frame /\ pending_valid
    THEN read_frame' = pending_frame /\ pending_consumed' = TRUE
    ELSE read_frame' = read_frame /\ pending_consumed' = FALSE

EnableDisplay ==
    have_sram_frame' = (have_sram_frame \/ pending_valid \/ pending_consumed)

-----------------------------------------------------------------------------
(* The writer.  A pixel reaches it with the SRAM ready for it, or does not *)
(* count: fifo_ready holds the queue back until then.                      *)

Bug_WithdrawAtOnce ==
    /\ pending_valid' = FALSE
    /\ UNCHANGED <<pending_frame, completed_frame_count, write_frame>>

\* The consumed pending frame is withdrawn, unless this edge offers another.
WithdrawPending ==
    /\ pending_valid' = (pending_valid /\ ~pending_consumed)
    /\ UNCHANGED <<pending_frame, completed_frame_count, write_frame>>

NoPixel ==
    /\ WithdrawPending
    /\ UNCHANGED <<pixel_count, frame_active, dropped_frame_count, whole, started>>

\* A pixel outside a frame is accepted and not written.
SkipPixel ==
    /\ ~frame_active
    /\ WithdrawPending
    /\ UNCHANGED <<pixel_count, frame_active, dropped_frame_count, whole, started>>

Bug_DropAlways == dropped_frame_count' = dropped_frame_count + 1

DropPartial ==
    dropped_frame_count' =
      IF frame_active /\ pixel_count # 0 THEN dropped_frame_count + 1 ELSE dropped_frame_count

\* A start of frame is written at offset 0, whatever was there.
FirstPixel ==
    /\ started < MaxFrames
    /\ started' = started + 1
    /\ WithdrawPending
    /\ DropPartial
    /\ pixel_count' = 1
    /\ frame_active' = TRUE
    /\ whole' = whole \ {write_frame}

Bug_NextPixelUnchecked ==
    /\ frame_active
    /\ WithdrawPending
    /\ pixel_count' = pixel_count + 1
    /\ whole' = whole \ {write_frame}
    /\ UNCHANGED <<frame_active, dropped_frame_count, started>>

NextPixel ==
    /\ frame_active
    /\ pixel_count < FrameWords - 1
    /\ WithdrawPending
    /\ pixel_count' = pixel_count + 1
    /\ whole' = whole \ {write_frame}
    /\ UNCHANGED <<frame_active, dropped_frame_count, started>>

\* The last pixel offers the frame and moves on to a free one.
LastPixel ==
    /\ frame_active
    /\ pixel_count = FrameWords - 1
    /\ pending_frame' = write_frame
    /\ pending_valid' = TRUE
    /\ completed_frame_count' = completed_frame_count + 1
    /\ write_frame' = pick_next_frame(read_frame, write_frame)
    /\ pixel_count' = 0
    /\ frame_active' = FALSE
    /\ whole' = whole \cup {write_frame}
    /\ UNCHANGED <<dropped_frame_count, started>>

-----------------------------------------------------------------------------
(* One edge of vga_clk                                                     *)

Edge(new_frame) ==
    /\ new_frame => ScanMayStart
    /\ new_frame_d' = new_frame
    /\ TakePending(new_frame)
    /\ EnableDisplay

\* An edge on which no frame completes.
Filling ==
    \E new_frame \in BOOLEAN :
        /\ NoPixel \/ SkipPixel \/ FirstPixel \/ NextPixel
        /\ Edge(new_frame)
        /\ scanned' = (scanned \/ new_frame)

\* An edge on which one does.  A camera slower than the display leaves a scan
\* start strictly between two of them.
Completing ==
    \E new_frame \in BOOLEAN :
        /\ SlowSource => scanned
        /\ LastPixel
        /\ Edge(new_frame)
        /\ scanned' = FALSE

Next == Filling \/ Completing

Spec == Init /\ [][Next]_vars

-----------------------------------------------------------------------------
(* Properties                                                              *)

FlagsOK ==
    /\ frame_active \in BOOLEAN /\ pending_valid \in BOOLEAN /\ pending_consumed \in BOOLEAN
    /\ new_frame_d \in BOOLEAN /\ have_sram_frame \in BOOLEAN /\ scanned \in BOOLEAN

StoresOK ==
    /\ write_frame \in Frames /\ read_frame \in Frames /\ pending_frame \in Frames
    /\ whole \subseteq Frames

CountsOK ==
    /\ pixel_count \in 0 .. FrameWords - 1
    /\ completed_frame_count \in Nat /\ dropped_frame_count \in Nat /\ started \in Nat

\* Every register holds a value of its type; pixel_count never reaches
\* FRAME_WORDS, so no address leaves the store being written.
TypeOK == FlagsOK /\ StoresOK /\ CountsOK

\* Nothing is shown torn: once the SRAM picture is let through, the frame on
\* display holds one whole camera frame and is not the one being written.
NoTear ==
    have_sram_frame => /\ read_frame \in whole
                       /\ read_frame # write_frame

\* The frame on offer is whole, and the writer has left it.
PendingIsWhole ==
    pending_valid => /\ pending_frame \in whole
                     /\ pending_frame # write_frame

\* Every start of frame is accounted for: it led to a completed frame, to a
\* dropped one, or to the one in progress.
FramesAccounted ==
    started = completed_frame_count + dropped_frame_count + (IF frame_active THEN 1 ELSE 0)

\* A completed frame is never lost: it stays on offer until the reader has it,
\* whether the writer withdraws it or replaces it.
NoFrameLost ==
    [][pending_valid /\ (~pending_valid' \/ pending_frame' # pending_frame)
         => read_frame = pending_frame]_vars
=============================================================================
