----------------------------- MODULE OverlayLatch -----------------------------
(***************************************************************************)
(* The vga_clk side of the game words: ar_game_overlay latches the control *)
(* word and the descriptors when the commit bit has flipped, and starts a  *)
(* popup and the slice animation of a slot when the effect bit has; both   *)
(* animations count scans of the display and end by themselves.            *)
(* A step is one edge of vga_clk; the scan is shortened to ScanEdges.      *)
(***************************************************************************)
EXTENDS GameWords

CONSTANTS
  ScanEdges,      \* edges of vga_clk per scan, 800 * 525
  PopupLast,      \* POPUP_AGE_LAST, 47
  EffectLast      \* last age of slice_effect_state, 28

ASSUME OverlayAssumption ==
  /\ ScanEdges \in Nat
  /\ PopupLast \in Nat /\ EffectLast \in Nat

VARIABLES
  beam,                     \* edges since the start of the scan
  commit_sync, effect_sync, \* three registers each
  shown,                    \* control word as latched: enable, state, number
  shown_desc,               \* descriptors as latched
  popup_age,                \* Idle while popup_active is 0
  effect_age                \* per slot, Idle while effect_active is 0

overlayVars == <<beam, commit_sync, effect_sync, shown, shown_desc, popup_age, effect_age>>

Idle == -1
VGA == "vga"

OverlayInit ==
  /\ beam = 0
  /\ commit_sync = [i \in 0 .. 2 |-> FALSE] /\ effect_sync = [i \in 0 .. 2 |-> FALSE]
  /\ shown = [enable |-> FALSE, state |-> START, pub |-> 0]
  /\ shown_desc = [s \in Slots |-> 0]
  /\ popup_age = Idle
  /\ effect_age = [s \in Slots |-> Idle]

(* The first register takes the bit as it is or, if it is changing, as it    *)
(* was, which is what the register holds.                                  *)
Shifted(sync, bit) ==
  {[i \in 0 .. 2 |-> IF i = 0 THEN caught ELSE sync[i - 1]] :
     caught \in {bit} \cup (IF Changing(VGA) THEN {sync[0]} ELSE {})}

(* A definition whose name starts with Bug_ is a wrong form of the one after *)
(* it, with which a property must fail; it is no part of the specification. *)
Bug_commit_rising == commit_sync[1] /\ ~commit_sync[2]

commit_pulse == commit_sync[2] # commit_sync[1]
start_pulse  == effect_sync[2] # effect_sync[1]     \* effect_pulse
frame_tick   == beam = 0

Bug_DescUnlatched ==
  /\ shown_desc' = desc
  /\ IF commit_pulse
     THEN shown' = [enable |-> ctrl_word.enable, state |-> ctrl_word.state,
                    pub |-> ctrl_word.pub]
     ELSE UNCHANGED shown

Latch ==
  IF commit_pulse
  THEN /\ shown' = [enable |-> ctrl_word.enable, state |-> ctrl_word.state,
                    pub |-> ctrl_word.pub]
       /\ shown_desc' = desc
  ELSE UNCHANGED <<shown, shown_desc>>

Older(age, last) == IF age = last THEN Idle ELSE age + 1

Bug_PopupNotRestarted ==
  popup_age' = IF ~shown.enable \/ shown.state # PLAYING THEN Idle
               ELSE IF start_pulse /\ popup_age = Idle THEN 0
               ELSE IF frame_tick /\ popup_age # Idle THEN Older(popup_age, PopupLast)
               ELSE popup_age

Popup ==
  popup_age' = IF ~shown.enable \/ shown.state # PLAYING THEN Idle
               ELSE IF start_pulse THEN 0
               ELSE IF frame_tick /\ popup_age # Idle THEN Older(popup_age, PopupLast)
               ELSE popup_age

SliceEffects ==
  effect_age' = [s \in Slots |->
                  IF ~shown.enable THEN Idle
                  ELSE IF start_pulse /\ effect_word.slot = s THEN 0
                  ELSE IF frame_tick /\ effect_age[s] # Idle
                       THEN Older(effect_age[s], EffectLast)
                  ELSE effect_age[s]]

(* One edge of vga_clk.  A new scan reaches the program as a new frame.      *)
VgaEdge ==
  /\ beam' = IF beam = ScanEdges - 1 THEN 0 ELSE beam + 1
  /\ commit_sync' \in Shifted(commit_sync, ctrl_word.toggle)
  /\ effect_sync' \in Shifted(effect_sync, effect_word.toggle)
  /\ Latch /\ Popup /\ SliceEffects
  /\ frame_due' = (frame_due \/ frame_tick)
  /\ Tick(VGA, start_pulse /\ \E s \in Slots : effect_age'[s] = 0)
-----------------------------------------------------------------------------
(* What is drawn never mixes two publications: the descriptors latched, and  *)
(* the control word with them, were written by one publish_game_state,     *)
(* though they are separate writes and cross without registers.            *)
NoMixture == \A s \in Slots : shown_desc[s] = shown.pub

(* No publication is passed over: the next is never begun before the one     *)
(* announced has been latched.                                             *)
EveryPublicationShown ==
  quiet[VGA] = Pace[VGA] => shown.pub = ctrl_word.pub

(* The popup on screen is that of the latest cut, in whatever slot: no        *)
(* animation running is younger than it, and for as long as an animation   *)
(* lasts one of them has its age.                                          *)
PopupIsLatestCut ==
  popup_age # Idle =>
    /\ \A s \in Slots : effect_age[s] # Idle => effect_age[s] >= popup_age
    /\ popup_age <= EffectLast => \E s \in Slots : effect_age[s] = popup_age
=============================================================================
