-------------------------- MODULE TripleBufferProofs --------------------------
(***************************************************************************)
(* For every frame size and every number of frames: a source slower than   *)
(* the display never tears the picture and never loses a completed frame,  *)
(* and the frame counters account for every start of frame, whatever the   *)
(* speed of the source.                                                    *)
(***************************************************************************)
EXTENDS TripleBuffer, TLAPS

\* A frame is in progress exactly when pixels of it were counted.
FillInv == frame_active <=> pixel_count # 0

\* Before the first frame is let through, store 0 is displayed (blank) and is
\* the one to be filled first.
FirstFrame ==
    ~have_sram_frame => /\ read_frame = 0
                        /\ ~pending_consumed
                        /\ pending_valid => pending_frame = 0
                        /\ ~pending_valid => write_frame = 0

\* A scan that starts with a frame on offer takes it at once, and the offer is
\* withdrawn on the next edge.
HandOver ==
    /\ pending_consumed => /\ pending_valid
                           /\ new_frame_d
                           /\ read_frame = pending_frame
    /\ pending_valid /\ scanned => pending_consumed

SafeInv == TypeOK /\ FillInv /\ FirstFrame /\ HandOver /\ PendingIsWhole /\ NoTear

\* pick_next_frame returns a store that is neither displayed nor just written.
LEMMA PickIsFree ==
    ASSUME NEW r \in Frames, NEW w \in Frames
    PROVE  /\ pick_next_frame(r, w) \in Frames
           /\ pick_next_frame(r, w) # r
           /\ pick_next_frame(r, w) # w
BY DEF pick_next_frame, Frames

\* The registers start with values of their types.
LEMMA InitTypes ==
    ASSUME Init PROVE TypeOK /\ FillInv
<1>1. FlagsOK
    BY DEF Init, FlagsOK
<1>2. StoresOK
    BY DEF Init, StoresOK, Frames
<1>3. CountsOK
    BY FrameWordsAssumption DEF Init, CountsOK
<1>4. FillInv
    BY DEF Init, FillInv
<1>5. QED BY <1>1, <1>2, <1>3, <1>4 DEF TypeOK

\* The writer's steps that complete no frame keep the offer or withdraw it.
LEMMA FillingSteps ==
    ASSUME TypeOK, FillInv, NoPixel \/ SkipPixel \/ FirstPixel \/ NextPixel
    PROVE  /\ pixel_count' \in 0 .. FrameWords - 1
           /\ frame_active' \in BOOLEAN
           /\ FillInv'
           /\ dropped_frame_count' \in Nat
           /\ started' \in Nat
           /\ whole' \subseteq Frames
           /\ whole \ {write_frame} \subseteq whole'
           /\ WithdrawPending
<1>1. CASE NoPixel
    BY <1>1 DEF TypeOK, FlagsOK, StoresOK, CountsOK, FillInv, NoPixel
<1>2. CASE SkipPixel
    BY <1>2 DEF TypeOK, FlagsOK, StoresOK, CountsOK, FillInv, SkipPixel
<1>3. CASE FirstPixel
    BY <1>3, FrameWordsAssumption DEF TypeOK, FlagsOK, StoresOK, CountsOK, FillInv, FirstPixel, DropPartial
<1>4. CASE NextPixel
    BY <1>4, FrameWordsAssumption DEF TypeOK, FlagsOK, StoresOK, CountsOK, FillInv, NextPixel
<1>5. QED BY <1>1, <1>2, <1>3, <1>4

\* An edge on which no frame completes preserves the invariant.
LEMMA FillingIsSafe ==
    ASSUME SafeInv, Filling
    PROVE  SafeInv'
<1>1. PICK new_frame \in BOOLEAN : /\ NoPixel \/ SkipPixel \/ FirstPixel \/ NextPixel
                                   /\ Edge(new_frame)
                                   /\ scanned' = (scanned \/ new_frame)
    BY DEF Filling
<1>2. TypeOK /\ FillInv /\ FirstFrame /\ HandOver /\ PendingIsWhole /\ NoTear
    BY DEF SafeInv
<1>3. /\ pixel_count' \in 0 .. FrameWords - 1
      /\ frame_active' \in BOOLEAN
      /\ FillInv'
      /\ dropped_frame_count' \in Nat
      /\ started' \in Nat
      /\ whole' \subseteq Frames
      /\ whole \ {write_frame} \subseteq whole'
      /\ WithdrawPending
    BY <1>1, <1>2, FillingSteps
<1>4. /\ new_frame_d' = new_frame
      /\ new_frame => ~new_frame_d
      /\ TakePending(new_frame)
      /\ EnableDisplay
    BY <1>1 DEF Edge, ScanMayStart
<1>5. TypeOK'
    <2>1. FlagsOK'
        BY <1>1, <1>2, <1>3, <1>4 DEF TypeOK, FlagsOK, WithdrawPending, TakePending, EnableDisplay
    <2>2. StoresOK'
        BY <1>2, <1>3, <1>4 DEF TypeOK, StoresOK, WithdrawPending, TakePending
    <2>3. CountsOK'
        BY <1>2, <1>3 DEF TypeOK, CountsOK, WithdrawPending
    <2>4. QED BY <2>1, <2>2, <2>3 DEF TypeOK
<1>6. FirstFrame'
    BY <1>2, <1>3, <1>4 DEF FirstFrame, WithdrawPending, TakePending, EnableDisplay
<1>7. HandOver'
    BY <1>1, <1>2, <1>3, <1>4 DEF HandOver, WithdrawPending, TakePending
<1>8. PendingIsWhole'
    BY <1>2, <1>3 DEF PendingIsWhole, WithdrawPending
<1>9. NoTear'
    BY <1>2, <1>3, <1>4
    DEF NoTear, FirstFrame, PendingIsWhole, HandOver, WithdrawPending, TakePending, EnableDisplay
<1>10. QED BY <1>3, <1>5, <1>6, <1>7, <1>8, <1>9 DEF SafeInv

\* An edge on which a frame completes preserves it when the source is slow.
LEMMA CompletingIsSafe ==
    ASSUME SlowSource, SafeInv, Completing
    PROVE  SafeInv'
<1>1. PICK new_frame \in BOOLEAN : scanned /\ LastPixel /\ Edge(new_frame) /\ scanned' = FALSE
    BY DEF Completing
<1>2. TypeOK /\ FillInv /\ FirstFrame /\ HandOver /\ PendingIsWhole /\ NoTear
    BY DEF SafeInv
<1>3. /\ new_frame_d' = new_frame
      /\ new_frame => ~new_frame_d
      /\ TakePending(new_frame)
      /\ EnableDisplay
    BY <1>1 DEF Edge, ScanMayStart
<1>4. /\ write_frame' \in Frames
      /\ write_frame' # read_frame
      /\ write_frame' # write_frame
    BY <1>1, <1>2, PickIsFree DEF LastPixel, TypeOK, StoresOK
<1>5. /\ pending_frame' = write_frame /\ pending_valid' = TRUE
      /\ whole' = whole \cup {write_frame}
      /\ pixel_count' = 0 /\ frame_active' = FALSE
      /\ completed_frame_count' = completed_frame_count + 1
      /\ UNCHANGED <<dropped_frame_count, started>>
    BY <1>1 DEF LastPixel
<1>6. /\ read_frame' = read_frame /\ pending_consumed' = FALSE
    BY <1>1, <1>2, <1>3 DEF TakePending, HandOver
<1>7. TypeOK'
    <2>1. FlagsOK'
        BY <1>1, <1>2, <1>3, <1>5, <1>6 DEF TypeOK, FlagsOK, EnableDisplay
    <2>2. StoresOK'
        BY <1>2, <1>4, <1>5, <1>6 DEF TypeOK, StoresOK
    <2>3. CountsOK'
        BY <1>2, <1>5, FrameWordsAssumption DEF TypeOK, CountsOK
    <2>4. QED BY <2>1, <2>2, <2>3 DEF TypeOK
<1>8. FillInv'
    BY <1>5 DEF FillInv
<1>9. FirstFrame'
    BY <1>2, <1>3, <1>5, <1>6 DEF FirstFrame, EnableDisplay
<1>10. HandOver'
    BY <1>1, <1>5, <1>6 DEF HandOver
<1>11. PendingIsWhole'
    BY <1>4, <1>5 DEF PendingIsWhole
<1>12. NoTear'
    BY <1>1, <1>2, <1>3, <1>4, <1>5, <1>6
    DEF NoTear, FirstFrame, PendingIsWhole, HandOver, EnableDisplay
<1>13. QED BY <1>7, <1>8, <1>9, <1>10, <1>11, <1>12 DEF SafeInv

\* The inductive invariant holds of every behaviour with a slow source.
THEOREM HandOverInvariance ==
    ASSUME SlowSource PROVE Spec => []SafeInv
<1>1. Init => SafeInv
    <2>1. SUFFICES ASSUME Init PROVE SafeInv
        OBVIOUS
    <2>2. TypeOK /\ FillInv
        BY <2>1, InitTypes
    <2>3. FirstFrame /\ HandOver /\ PendingIsWhole /\ NoTear
        BY <2>1 DEF Init, FirstFrame, HandOver, PendingIsWhole, NoTear
    <2>4. QED BY <2>2, <2>3 DEF SafeInv
<1>2. SafeInv /\ [Next]_vars => SafeInv'
    <2>1. SUFFICES ASSUME SafeInv, [Next]_vars PROVE SafeInv'
        OBVIOUS
    <2>2. CASE Filling
        BY <2>1, <2>2, FillingIsSafe
    <2>3. CASE Completing
        BY <2>1, <2>3, CompletingIsSafe
    <2>4. CASE UNCHANGED vars
        BY <2>1, <2>4
        DEF vars, registers, display, SafeInv, TypeOK, FlagsOK, StoresOK, CountsOK, FillInv, FirstFrame, HandOver,
            PendingIsWhole, NoTear
    <2>5. QED BY <2>1, <2>2, <2>3, <2>4 DEF Next
<1>3. QED BY <1>1, <1>2, PTL DEF Spec

\* The picture is never torn: the frame on display is whole and not the one
\* being written (pick_next_frame and the swap at a new display frame).
THEOREM PictureTheorem ==
    ASSUME SlowSource PROVE Spec => []NoTear
<1>1. SafeInv => NoTear
    BY DEF SafeInv
<1>2. QED BY <1>1, HandOverInvariance, PTL

\* Nor is the frame on offer, which the display may switch to at any edge.
THEOREM OfferTheorem ==
    ASSUME SlowSource PROVE Spec => []PendingIsWhole
<1>1. SafeInv => PendingIsWhole
    BY DEF SafeInv
<1>2. QED BY <1>1, HandOverInvariance, PTL

\* A completed frame stays on offer until the reader has taken it.
THEOREM NoFrameLostTheorem ==
    ASSUME SlowSource PROVE Spec => NoFrameLost
<1>1. SafeInv /\ [Next]_vars
        => [pending_valid /\ (~pending_valid' \/ pending_frame' # pending_frame)
              => read_frame = pending_frame]_vars
    <2>1. SUFFICES ASSUME SafeInv, Next, pending_valid,
                          ~pending_valid' \/ pending_frame' # pending_frame
                   PROVE  read_frame = pending_frame
        OBVIOUS
    <2>2. CASE Filling
        BY <2>1, <2>2, FillingSteps DEF SafeInv, Filling, WithdrawPending, HandOver
    <2>3. CASE Completing
        BY <2>1, <2>3 DEF SafeInv, Completing, HandOver
    <2>4. QED BY <2>1, <2>2, <2>3 DEF Next
<1>2. QED BY <1>1, HandOverInvariance, PTL DEF Spec, NoFrameLost

-----------------------------------------------------------------------------
(* The counters, for a source of any speed                                 *)

CountInv == TypeOK /\ FillInv /\ FramesAccounted

\* The types of all registers and the sum of the counters are kept.
LEMMA CountInvariance == Spec => []CountInv
<1>1. Init => CountInv
    <2>1. SUFFICES ASSUME Init PROVE CountInv
        OBVIOUS
    <2>2. TypeOK /\ FillInv
        BY <2>1, InitTypes
    <2>3. started = 0 /\ completed_frame_count = 0 /\ dropped_frame_count = 0 /\ ~frame_active
        BY <2>1 DEF Init
    <2>4. QED BY <2>2, <2>3 DEF CountInv, FramesAccounted
<1>2. CountInv /\ [Next]_vars => CountInv'
    <2>1. SUFFICES ASSUME CountInv, [Next]_vars PROVE CountInv'
        OBVIOUS
    <2>2. TypeOK /\ FillInv /\ FramesAccounted
        BY <2>1 DEF CountInv
    <2>3. CASE Filling
        <3>1. PICK new_frame \in BOOLEAN : /\ NoPixel \/ SkipPixel \/ FirstPixel \/ NextPixel
                                           /\ Edge(new_frame)
                                           /\ scanned' = (scanned \/ new_frame)
            BY <2>3 DEF Filling
        <3>2. /\ pixel_count' \in 0 .. FrameWords - 1
              /\ frame_active' \in BOOLEAN
              /\ FillInv'
              /\ dropped_frame_count' \in Nat
              /\ started' \in Nat
              /\ whole' \subseteq Frames
              /\ WithdrawPending
            BY <2>2, <3>1, FillingSteps
        <3>3. TypeOK'
            <4>1. FlagsOK'
                BY <2>2, <3>1, <3>2
                DEF TypeOK, FlagsOK, WithdrawPending, Edge, TakePending, EnableDisplay
            <4>2. StoresOK'
                BY <2>2, <3>1, <3>2 DEF TypeOK, StoresOK, WithdrawPending, Edge, TakePending
            <4>3. CountsOK'
                BY <2>2, <3>2 DEF TypeOK, CountsOK, WithdrawPending
            <4>4. QED BY <4>1, <4>2, <4>3 DEF TypeOK
        <3>4. FramesAccounted'
            <4>1. CASE NoPixel \/ SkipPixel
                BY <2>2, <4>1 DEF FramesAccounted, NoPixel, SkipPixel, WithdrawPending
            <4>2. CASE FirstPixel
                BY <2>2, <4>2 DEF FramesAccounted, FirstPixel, DropPartial, WithdrawPending, FillInv, TypeOK, CountsOK
            <4>3. CASE NextPixel
                BY <2>2, <4>3 DEF FramesAccounted, NextPixel, WithdrawPending
            <4>4. QED BY <3>1, <4>1, <4>2, <4>3
        <3>5. QED BY <3>2, <3>3, <3>4 DEF CountInv
    <2>4. CASE Completing
        <3>1. PICK new_frame \in BOOLEAN : LastPixel /\ Edge(new_frame) /\ scanned' = FALSE
            BY <2>4 DEF Completing
        <3>2. write_frame' \in Frames
            BY <2>2, <3>1, PickIsFree DEF LastPixel, TypeOK, StoresOK
        <3>3. TypeOK'
            <4>1. FlagsOK'
                BY <2>2, <3>1
                DEF TypeOK, FlagsOK, LastPixel, Edge, TakePending, EnableDisplay
            <4>2. StoresOK'
                BY <2>2, <3>1, <3>2 DEF TypeOK, StoresOK, LastPixel, Edge, TakePending
            <4>3. CountsOK'
                BY <2>2, <3>1, FrameWordsAssumption DEF TypeOK, CountsOK, LastPixel
            <4>4. QED BY <4>1, <4>2, <4>3 DEF TypeOK
        <3>4. FillInv'
            BY <3>1 DEF FillInv, LastPixel
        <3>5. FramesAccounted'
            BY <2>2, <3>1 DEF FramesAccounted, LastPixel, TypeOK, CountsOK
        <3>6. QED BY <3>3, <3>4, <3>5 DEF CountInv
    <2>5. CASE UNCHANGED vars
        BY <2>2, <2>5 DEF vars, registers, display, CountInv, TypeOK, FlagsOK, StoresOK, CountsOK, FillInv, FramesAccounted
    <2>6. QED BY <2>1, <2>3, <2>4, <2>5 DEF Next
<1>3. QED BY <1>1, <1>2, PTL DEF Spec

\* Every register keeps its type, the frame numbers and the pixel index among
\* them, for a source of any speed.
THEOREM TypesTheorem == Spec => []TypeOK
<1>1. CountInv => TypeOK
    BY DEF CountInv
<1>2. QED BY <1>1, CountInvariance, PTL

\* Every start of frame is in one of the two counters or in progress, for a
\* source of any speed.
THEOREM CountersTheorem == Spec => []FramesAccounted
<1>1. CountInv => FramesAccounted
    BY DEF CountInv
<1>2. QED BY <1>1, CountInvariance, PTL
=============================================================================
