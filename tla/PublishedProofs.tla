--------------------------- MODULE PublishedProofs ---------------------------
(***************************************************************************)
(* The game words and their two readers, for any number of slots, any       *)
(* effect types, any length of a scan and any pace of the program that      *)
(* leaves each reader the edges it needs.                                  *)
(***************************************************************************)
EXTENDS Published, TLAPS

(* What three registers in a row, x the first, hold of a bit b that last      *)
(* flipped q edges ago: the new value moves in from the first to the last,   *)
(* and what one register has caught the next will have.                    *)
Passing(x, y, z, b, q) ==
  /\ q >= 2 => x = b
  /\ q >= 3 => y = b
  /\ q >= 4 => z = b
  /\ z = b => y = b
  /\ y = b => x = b

WordsOK ==
  /\ pc \in {"wait", "fruits", "desc", "ctrl"}
  /\ slot \in Slots
  /\ effect_word.toggle \in BOOLEAN /\ effect_word.slot \in Slots
  /\ effect_word.type \subseteq 26 .. 28
  /\ ctrl_word.toggle \in BOOLEAN /\ ctrl_word.enable \in BOOLEAN
  /\ desc \in [Slots -> Int] /\ pass \in Int
  /\ quiet \in [Receivers -> Nat] /\ owed \in [Receivers -> Int]
  /\ \A r \in Receivers : quiet[r] <= Pace[r]

(* The descriptors of the publication being written, or of the one written.   *)
DescInv ==
  /\ pc = "wait" => \A s \in Slots : desc[s] = ctrl_word.pub
  /\ pc = "desc" => \A s \in Slots : s < slot => desc[s] = pass
  /\ pc = "ctrl" => \A s \in Slots : desc[s] = pass

GameInv == WordsOK /\ DescInv /\ (pc \in {"wait", "fruits"} => ctrl_word.enable)

CommitPassing ==
  Passing(commit_sync[0], commit_sync[1], commit_sync[2], ctrl_word.toggle, quiet[VGA])
EffectPassing ==
  Passing(effect_sync[0], effect_sync[1], effect_sync[2], effect_word.toggle, quiet[VGA])

(* The words in the display's clock: one of the two at most is on its way.    *)
LatchInv ==
  /\ commit_sync \in [0 .. 2 -> BOOLEAN] /\ effect_sync \in [0 .. 2 -> BOOLEAN]
  /\ CommitPassing /\ EffectPassing
  /\ pc = "wait" => effect_sync[2] = effect_word.toggle
  /\ pc # "wait" => commit_sync[2] = ctrl_word.toggle
  /\ effect_sync[2] # effect_word.toggle => ctrl_word.enable

ShownInv ==
  /\ commit_sync[2] = ctrl_word.toggle =>
       shown = [enable |-> ctrl_word.enable, state |-> ctrl_word.state, pub |-> ctrl_word.pub]
  /\ NoMixture

Ages == {Idle} \cup Nat

AnimationInv ==
  /\ popup_age \in Ages /\ effect_age \in [Slots -> Ages]
  /\ PopupIsLatestCut

SoundPassing ==
  Passing(31 \in meta.effect, 31 \in sync.effect, effect_toggle_d, effect_word.toggle, quiet[BCLK])

SoundInv ==
  /\ effect_toggle_d \in BOOLEAN
  /\ SoundPassing
  /\ pc = "wait" => effect_toggle_d = effect_word.toggle

(* The screen on its way to the mixer: what was caught of it may be any       *)
(* mixture, which is in one register only.                                 *)
ScreenPassing(q) ==
  /\ q = 0 => meta.game = ctrl_word.from
  /\ q <= 1 => sync.game = ctrl_word.from
  /\ q <= 2 => audio_state = ctrl_word.from
  /\ q <= 3 => prev_game_state = ctrl_word.from
  /\ q >= 2 => meta.game = ctrl_word.state
  /\ q >= 3 => sync.game = ctrl_word.state
  /\ q >= 4 => audio_state = ctrl_word.state
  /\ q >= 5 => prev_game_state = ctrl_word.state

(* The triggers made for it so far.                                         *)
Fanfares(q) ==
  /\ q \in 1 .. 3 => fanfares = 0
  /\ q = 4 => fanfares = IF ctrl_word.from # PLAYING /\ prev_game_state = PLAYING THEN 1 ELSE 0
  /\ q >= 5 /\ ctrl_word.from # PLAYING /\ ctrl_word.state = PLAYING => fanfares = 1

MusicInv ==
  /\ pc = "wait" => ScreenPassing(quiet[BCLK]) /\ Fanfares(quiet[BCLK])
  /\ pc # "wait" => /\ meta.game = ctrl_word.state /\ sync.game = ctrl_word.state
                    /\ audio_state = ctrl_word.state /\ prev_game_state = ctrl_word.state
  /\ quiet[BCLK] >= 1 => background_playing = (prev_game_state = START)

OwedInv ==
  /\ owed[VGA] = IF effect_sync[2] = effect_word.toggle THEN 0 ELSE 1
  /\ owed[BCLK] = IF effect_toggle_d = effect_word.toggle THEN 0 ELSE 1

PubInv ==
  /\ GameInv /\ LatchInv /\ ShownInv /\ AnimationInv
  /\ SoundInv /\ MusicInv /\ OwedInv
-----------------------------------------------------------------------------
(* The registers.                                                           *)

(* One edge moves the bit on by a register, and the flip leaves the second    *)
(* register behind in the last one once.                                   *)
LEMMA PassingEdge ==
  ASSUME NEW x \in BOOLEAN, NEW y \in BOOLEAN, NEW z \in BOOLEAN, NEW b \in BOOLEAN,
         NEW c \in BOOLEAN, NEW q \in Nat, NEW r \in Nat,
         Passing(x, y, z, b, q), r <= q + 1, c = b \/ (q = 0 /\ c = x)
  PROVE  /\ Passing(c, x, y, b, r)
         /\ y # z => y = b /\ z # b
         /\ y = z => (y = b <=> z = b)
  BY DEF Passing

(* After four edges all three agree, and the next flip finds them so.         *)
LEMMA PassingDone ==
  ASSUME NEW x \in BOOLEAN, NEW y \in BOOLEAN, NEW z \in BOOLEAN, NEW b \in BOOLEAN,
         NEW q \in Nat, Passing(x, y, z, b, q), q >= 4 \/ z = b
  PROVE  /\ Passing(x, y, z, ~b, 0)
         /\ \A r \in Nat : Passing(x, y, z, b, r)
  BY DEF Passing

LEMMA ReceiverFacts ==
  ASSUME WordsOK
  PROVE  /\ VGA \in Receivers /\ BCLK \in Receivers /\ VGA # BCLK
         /\ quiet[VGA] \in Nat /\ quiet[BCLK] \in Nat
         /\ Pace[VGA] \in Nat /\ Pace[BCLK] \in Nat
         /\ quiet[VGA] <= Pace[VGA] /\ quiet[BCLK] <= Pace[BCLK]
         /\ NumFruits \in Nat /\ NumFruits >= 1
  <1>1. VGA \in Receivers /\ BCLK \in Receivers
    BY PublishedAssumption
  <1>2. VGA # BCLK
    BY DEF VGA, BCLK
  <1> QED BY <1>1, <1>2, WordsAssumption DEF WordsOK

(* When the program may announce again, every reader has taken in both words. *)
LEMMA WhenPaced ==
  ASSUME PubInv, Paced
  PROVE  /\ quiet[VGA] >= 4 /\ quiet[BCLK] >= 5
         /\ commit_sync[2] = ctrl_word.toggle
         /\ effect_sync[2] = effect_word.toggle
         /\ effect_toggle_d = effect_word.toggle
  <1>1. quiet[VGA] >= 4 /\ quiet[BCLK] >= 5
    BY PublishedAssumption DEF Paced
  <1>2. quiet[BCLK] >= 4
    BY <1>1, ReceiverFacts DEF PubInv, GameInv
  <1> QED BY <1>1, <1>2 DEF PubInv, LatchInv, CommitPassing, EffectPassing, SoundInv,
                            SoundPassing, Passing
-----------------------------------------------------------------------------
LEMMA PubInit == Init => PubInv
  <1> SUFFICES ASSUME Init PROVE PubInv
    OBVIOUS
  <1>1. GameInit /\ OverlayInit /\ AudioInit
    BY DEF Init
  <1>2. /\ NumFruits \in Nat /\ NumFruits >= 1 /\ 0 \in Slots
        /\ Pace \in [Receivers -> Nat]
    BY WordsAssumption DEF Slots
  <1>3. /\ pc = "desc" /\ slot = 0 /\ pass = 1
        /\ effect_word.toggle = FALSE /\ effect_word.slot = 0 /\ effect_word.type = {}
        /\ desc = [s \in Slots |-> 0]
        /\ ctrl_word.toggle = FALSE /\ ctrl_word.enable = FALSE
        /\ ctrl_word.state = START /\ ctrl_word.pub = 0
        /\ quiet = [r \in Receivers |-> 0] /\ owed = [r \in Receivers |-> 0]
    BY <1>1 DEF GameInit
  <1>4. WordsOK
    <2>1. effect_word.toggle \in BOOLEAN /\ ctrl_word.toggle \in BOOLEAN /\ ctrl_word.enable \in BOOLEAN
      BY <1>3
    <2>2. quiet \in [Receivers -> Nat] /\ owed \in [Receivers -> Int]
          /\ \A r \in Receivers : quiet[r] <= Pace[r]
      BY <1>2, <1>3
    <2>3. effect_word.slot \in Slots /\ effect_word.type \subseteq 26 .. 28
          /\ desc \in [Slots -> Int] /\ pass \in Int /\ slot \in Slots
      BY <1>2, <1>3
    <2> QED BY <1>3, <2>1, <2>2, <2>3 DEF WordsOK
  <1>5. VGA \in Receivers /\ BCLK \in Receivers
    BY PublishedAssumption
  <1>6. quiet[VGA] = 0 /\ quiet[BCLK] = 0 /\ owed[VGA] = 0 /\ owed[BCLK] = 0
    BY <1>3, <1>5
  <1>7. GameInv
    BY <1>2, <1>3, <1>4 DEF GameInv, DescInv, Slots
  <1>8. /\ commit_sync \in [0 .. 2 -> BOOLEAN] /\ effect_sync \in [0 .. 2 -> BOOLEAN]
        /\ commit_sync[0] = FALSE /\ commit_sync[1] = FALSE /\ commit_sync[2] = FALSE
        /\ effect_sync[0] = FALSE /\ effect_sync[1] = FALSE /\ effect_sync[2] = FALSE
    BY <1>1 DEF OverlayInit
  <1>9. LatchInv
    BY <1>3, <1>6, <1>8 DEF LatchInv, CommitPassing, EffectPassing, Passing
  <1>10. ShownInv
    BY <1>1, <1>3 DEF OverlayInit, ShownInv, NoMixture
  <1>11. AnimationInv
    BY <1>1 DEF OverlayInit, AnimationInv, PopupIsLatestCut, Ages, Idle
  <1>12. SoundInv
    <2>1. 31 \notin meta.effect /\ 31 \notin sync.effect /\ effect_toggle_d = FALSE
      BY <1>1 DEF AudioInit
    <2>2. (31 \in meta.effect) = FALSE /\ (31 \in sync.effect) = FALSE
      BY <2>1
    <2>3. Passing(FALSE, FALSE, FALSE, FALSE, 0)
      BY DEF Passing
    <2>4. SoundPassing
      BY <1>3, <1>6, <2>1, <2>2, <2>3 DEF SoundPassing
    <2> QED BY <1>3, <2>1, <2>4 DEF SoundInv
  <1>13. MusicInv
    BY <1>1, <1>3, <1>6 DEF AudioInit, MusicInv, START
  <1>14. OwedInv
    BY <1>1, <1>3, <1>6, <1>8 DEF AudioInit, OwedInv
  <1> QED BY <1>7, <1>9, <1>10, <1>11, <1>12, <1>13, <1>14 DEF PubInv
-----------------------------------------------------------------------------
(* The program.                                                             *)

LEMMA GameStep ==
  ASSUME PubInv, CpuStep
  PROVE  GameInv'
  <1>1. /\ WordsOK /\ DescInv
        /\ (pc \in {"wait", "fruits"} => ctrl_word.enable)
        /\ NumFruits \in Nat /\ NumFruits >= 1
        /\ Pace \in [Receivers -> Nat]
    BY ReceiverFacts, WordsAssumption DEF PubInv, GameInv
  <1>2. 0 \in Slots /\ (slot # NumFruits - 1 => slot + 1 \in Slots)
    BY <1>1 DEF WordsOK, Slots
  <1>3. ASSUME Announced PROVE quiet' \in [Receivers -> Nat] /\ \A r \in Receivers : quiet'[r] <= Pace[r]
    BY <1>1, <1>3 DEF Announced
  <1>4. CASE BeginPass
    BY <1>1, <1>2, <1>4 DEF BeginPass, words, WordsOK, DescInv, GameInv, Slots
  <1>5. CASE FruitTurn
    <2>1. slot' \in Slots /\ pc' \in {"fruits", "desc"} /\ (pc' = "desc" => slot' = 0)
      BY <1>1, <1>2, <1>5 DEF FruitTurn, NextSlot, WordsOK
    <2>2. /\ quiet' \in [Receivers -> Nat] /\ \A r \in Receivers : quiet'[r] <= Pace[r]
          /\ owed' \in [Receivers -> Int]
          /\ effect_word'.toggle \in BOOLEAN /\ effect_word'.slot \in Slots
          /\ effect_word'.type \subseteq 26 .. 28
      <3>1. CASE UNCHANGED <<effect_word, quiet, owed>>
        BY <1>1, <3>1 DEF WordsOK
      <3>2. ASSUME NEW type \in Types, EmitSliceEffect(type)
            PROVE  /\ quiet' \in [Receivers -> Nat] /\ \A r \in Receivers : quiet'[r] <= Pace[r]
                   /\ owed' \in [Receivers -> Int]
                   /\ effect_word'.toggle \in BOOLEAN /\ effect_word'.slot \in Slots
                   /\ effect_word'.type \subseteq 26 .. 28
        <4>1. effect_word'.toggle = ~effect_word.toggle /\ effect_word'.slot = slot
              /\ effect_word'.type = type
              /\ owed' = [r \in Receivers |-> owed[r] + 1] /\ Announced
          BY <3>2 DEF EmitSliceEffect
        <4>2. type \subseteq 26 .. 28
          BY PublishedAssumption
        <4>3. owed' \in [Receivers -> Int]
          BY <1>1, <4>1 DEF WordsOK
        <4> QED BY <1>1, <1>3, <4>1, <4>2, <4>3 DEF WordsOK
      <3> QED BY <1>5, <3>1, <3>2 DEF FruitTurn
    <2>3. /\ desc' = desc /\ ctrl_word' = ctrl_word /\ pass' = pass /\ pc = "fruits"
      BY <1>5 DEF FruitTurn
    <2>4. WordsOK'
      BY <1>1, <2>1, <2>2, <2>3 DEF WordsOK
    <2>5. DescInv'
      BY <1>1, <2>1 DEF DescInv, Slots
    <2> QED BY <1>1, <2>3, <2>4, <2>5 DEF GameInv
  <1>6. CASE WriteDesc
    <2>1. slot' \in Slots /\ pc' \in {"desc", "ctrl"}
      BY <1>1, <1>2, <1>6 DEF WriteDesc, NextSlot, WordsOK
    <2>2. desc' \in [Slots -> Int] /\ desc' = [desc EXCEPT ![slot] = pass] /\ pc = "desc"
      BY <1>1, <1>6 DEF WriteDesc, WordsOK
    <2>3. WordsOK'
      BY <1>1, <1>6, <2>1, <2>2 DEF WriteDesc, WordsOK
    <2>4. \A s \in Slots : s <= slot => desc'[s] = pass
      BY <1>1, <2>2 DEF DescInv, WordsOK, Slots
    <2>5. DescInv'
      BY <1>1, <1>6, <2>1, <2>4 DEF WriteDesc, NextSlot, DescInv, WordsOK, Slots
    <2> QED BY <2>1, <2>3, <2>5 DEF GameInv
  <1>7. CASE WriteCtrl
    <2>1. /\ ctrl_word'.toggle = ~ctrl_word.toggle /\ ctrl_word'.enable = TRUE
          /\ ctrl_word'.pub = pass /\ pc = "ctrl" /\ pc' = "wait"
      BY <1>7 DEF WriteCtrl
    <2>2. WordsOK'
      BY <1>1, <1>3, <1>7, <2>1 DEF WriteCtrl, WordsOK
    <2>3. DescInv'
      BY <1>1, <1>7, <2>1 DEF WriteCtrl, DescInv
    <2> QED BY <2>1, <2>2, <2>3 DEF GameInv
  <1> QED BY <1>4, <1>5, <1>6, <1>7 DEF CpuStep

(* A step that announces nothing leaves what the readers compare alone; it    *)
(* begins a pass only when nothing is on its way any more.                 *)
LEMMA QuietStep ==
  ASSUME PubInv, UNCHANGED <<effect_word, ctrl_word, quiet, owed, overlayVars, audioVars>>,
         \/ BeginPass
         \/ pc # "wait" /\ pc' # "wait"
  PROVE  LatchInv' /\ ShownInv' /\ AnimationInv' /\ SoundInv' /\ MusicInv' /\ OwedInv'
  <1> USE DEF overlayVars, audioVars
  <1>1. /\ LatchInv /\ ShownInv /\ AnimationInv /\ SoundInv /\ MusicInv /\ OwedInv
    BY DEF PubInv
  <1>2. pc' # "wait"
    BY DEF BeginPass
  <1>3. /\ commit_sync[2] = ctrl_word.toggle
        /\ meta.game = ctrl_word.state /\ sync.game = ctrl_word.state
        /\ audio_state = ctrl_word.state /\ prev_game_state = ctrl_word.state
    <2>1. CASE BeginPass
      <3>1. Paced /\ pc = "wait"
        BY <2>1 DEF BeginPass
      <3>2. ScreenPassing(quiet[BCLK]) /\ quiet[BCLK] \in Nat
        BY <1>1, <3>1, ReceiverFacts DEF MusicInv, PubInv, GameInv
      <3> QED BY <3>1, <3>2, WhenPaced DEF ScreenPassing
    <2>2. CASE pc # "wait"
      BY <1>1, <2>2 DEF LatchInv, MusicInv
    <2> QED BY <2>1, <2>2
  <1>4. LatchInv'
    BY <1>1, <1>2, <1>3 DEF LatchInv, CommitPassing, EffectPassing
  <1>5. ShownInv' /\ AnimationInv'
    BY <1>1 DEF ShownInv, NoMixture, AnimationInv, PopupIsLatestCut
  <1>6. SoundInv' /\ OwedInv'
    BY <1>1, <1>2 DEF SoundInv, SoundPassing, OwedInv
  <1>7. MusicInv'
    BY <1>1, <1>2, <1>3 DEF MusicInv
  <1> QED BY <1>4, <1>5, <1>6, <1>7

(* emit_slice_effect: the bit flips when all registers hold what it was.      *)
LEMMA EmitStep ==
  ASSUME PubInv, FruitTurn, NEW type \in Types, EmitSliceEffect(type),
         UNCHANGED <<overlayVars, audioVars>>
  PROVE  LatchInv' /\ ShownInv' /\ AnimationInv' /\ SoundInv' /\ MusicInv' /\ OwedInv'
  <1> USE DEF overlayVars, audioVars
  <1>1. /\ LatchInv /\ ShownInv /\ AnimationInv /\ SoundInv /\ MusicInv /\ OwedInv /\ WordsOK
        /\ ctrl_word.enable
    BY DEF PubInv, GameInv, FruitTurn
  <1>2. /\ pc = "fruits" /\ pc' # "wait" /\ Paced
        /\ ctrl_word' = ctrl_word /\ effect_word'.toggle = ~effect_word.toggle
        /\ quiet' = [r \in Receivers |-> 0]
        /\ owed' = [r \in Receivers |-> owed[r] + 1]
    BY DEF FruitTurn, NextSlot, EmitSliceEffect, Announced
  <1>3. /\ quiet'[VGA] = 0 /\ quiet'[BCLK] = 0
        /\ owed'[VGA] = owed[VGA] + 1 /\ owed'[BCLK] = owed[BCLK] + 1
    BY <1>1, <1>2, ReceiverFacts
  <1>4. /\ quiet[VGA] >= 4 /\ quiet[BCLK] >= 5 /\ quiet[VGA] \in Nat /\ quiet[BCLK] \in Nat
        /\ effect_sync[2] = effect_word.toggle /\ effect_toggle_d = effect_word.toggle
        /\ effect_word.toggle \in BOOLEAN /\ ctrl_word.toggle \in BOOLEAN
        /\ effect_toggle_d \in BOOLEAN
    BY <1>1, <1>2, WhenPaced, ReceiverFacts DEF WordsOK, SoundInv
  <1>5. /\ commit_sync[0] \in BOOLEAN /\ commit_sync[1] \in BOOLEAN /\ commit_sync[2] \in BOOLEAN
        /\ effect_sync[0] \in BOOLEAN /\ effect_sync[1] \in BOOLEAN /\ effect_sync[2] \in BOOLEAN
    BY <1>1 DEF LatchInv
  <1>6. Passing(effect_sync[0], effect_sync[1], effect_sync[2], effect_word'.toggle, 0)
    <2>1. Passing(effect_sync[0], effect_sync[1], effect_sync[2], effect_word.toggle, quiet[VGA])
      BY <1>1 DEF LatchInv, EffectPassing
    <2>2. Passing(effect_sync[0], effect_sync[1], effect_sync[2], ~effect_word.toggle, 0)
      BY <1>4, <1>5, <2>1, PassingDone
    <2> QED BY <1>2, <2>2
  <1>7. Passing(commit_sync[0], commit_sync[1], commit_sync[2], ctrl_word.toggle, 0)
    BY <1>1, <1>4, <1>5, PassingDone DEF LatchInv, CommitPassing
  <1>8. LatchInv'
    BY <1>1, <1>2, <1>3, <1>6, <1>7 DEF LatchInv, CommitPassing, EffectPassing
  <1>9. ShownInv' /\ AnimationInv'
    BY <1>1, <1>2 DEF ShownInv, NoMixture, AnimationInv, PopupIsLatestCut
  <1>10. SoundInv'
    <2>1. Passing(31 \in meta.effect, 31 \in sync.effect, effect_toggle_d, effect_word'.toggle, 0)
      <3> DEFINE m == 31 \in meta.effect
                 n == 31 \in sync.effect
      <3>1. m \in BOOLEAN /\ n \in BOOLEAN
        OBVIOUS
      <3>2. Passing(m, n, effect_toggle_d, effect_word.toggle, quiet[BCLK])
        BY <1>1 DEF SoundInv, SoundPassing
      <3> HIDE DEF m, n
      <3>3. Passing(m, n, effect_toggle_d, ~effect_word.toggle, 0)
        BY <1>4, <3>1, <3>2, PassingDone
      <3> QED BY <1>2, <3>3 DEF m, n
    <2> QED BY <1>1, <1>2, <1>3, <2>1 DEF SoundInv, SoundPassing
  <1>11. MusicInv'
    BY <1>1, <1>2, <1>3 DEF MusicInv
  <1>12. OwedInv'
    BY <1>1, <1>2, <1>3, <1>4 DEF OwedInv
  <1> QED BY <1>8, <1>9, <1>10, <1>11, <1>12

(* The control word is written when both readers are done with the last one.  *)
LEMMA CtrlStep ==
  ASSUME PubInv, WriteCtrl, UNCHANGED <<overlayVars, audioVars>>
  PROVE  LatchInv' /\ ShownInv' /\ AnimationInv' /\ SoundInv' /\ MusicInv' /\ OwedInv'
  <1> USE DEF overlayVars, audioVars
  <1>1. /\ LatchInv /\ ShownInv /\ AnimationInv /\ SoundInv /\ MusicInv /\ OwedInv /\ WordsOK
    BY DEF PubInv, GameInv
  <1>2. /\ pc = "ctrl" /\ pc' = "wait" /\ Paced
        /\ effect_word' = effect_word /\ owed' = owed
        /\ ctrl_word'.toggle = ~ctrl_word.toggle /\ ctrl_word'.enable = TRUE
        /\ ctrl_word'.from = ctrl_word.state
        /\ quiet' = [r \in Receivers |-> 0]
    BY DEF WriteCtrl, Announced
  <1>3. quiet'[VGA] = 0 /\ quiet'[BCLK] = 0
    BY <1>1, <1>2, ReceiverFacts
  <1>4. /\ quiet[VGA] >= 4 /\ quiet[BCLK] >= 5 /\ quiet[VGA] \in Nat /\ quiet[BCLK] \in Nat
        /\ commit_sync[2] = ctrl_word.toggle
        /\ effect_sync[2] = effect_word.toggle /\ effect_toggle_d = effect_word.toggle
        /\ effect_word.toggle \in BOOLEAN /\ ctrl_word.toggle \in BOOLEAN
        /\ effect_toggle_d \in BOOLEAN
    BY <1>1, <1>2, WhenPaced, ReceiverFacts DEF WordsOK, SoundInv
  <1>5. /\ commit_sync[0] \in BOOLEAN /\ commit_sync[1] \in BOOLEAN /\ commit_sync[2] \in BOOLEAN
        /\ effect_sync[0] \in BOOLEAN /\ effect_sync[1] \in BOOLEAN /\ effect_sync[2] \in BOOLEAN
    BY <1>1 DEF LatchInv
  <1>6. Passing(effect_sync[0], effect_sync[1], effect_sync[2], effect_word.toggle, 0)
    BY <1>1, <1>4, <1>5, PassingDone DEF LatchInv, EffectPassing
  <1>7. Passing(commit_sync[0], commit_sync[1], commit_sync[2], ctrl_word'.toggle, 0)
    <2>1. Passing(commit_sync[0], commit_sync[1], commit_sync[2], ctrl_word.toggle, quiet[VGA])
      BY <1>1 DEF LatchInv, CommitPassing
    <2>2. Passing(commit_sync[0], commit_sync[1], commit_sync[2], ~ctrl_word.toggle, 0)
      BY <1>4, <1>5, <2>1, PassingDone
    <2> QED BY <1>2, <2>2
  <1>8. LatchInv'
    BY <1>1, <1>2, <1>3, <1>4, <1>6, <1>7 DEF LatchInv, CommitPassing, EffectPassing
  <1>9. ShownInv' /\ AnimationInv'
    BY <1>1, <1>2, <1>4 DEF ShownInv, NoMixture, AnimationInv, PopupIsLatestCut
  <1>10. SoundInv'
    <2>1. Passing(31 \in meta.effect, 31 \in sync.effect, effect_toggle_d, effect_word.toggle, 0)
      <3> DEFINE m == 31 \in meta.effect
                 n == 31 \in sync.effect
      <3>1. m \in BOOLEAN /\ n \in BOOLEAN
        OBVIOUS
      <3>2. Passing(m, n, effect_toggle_d, effect_word.toggle, quiet[BCLK])
        BY <1>1 DEF SoundInv, SoundPassing
      <3> HIDE DEF m, n
      <3>3. Passing(m, n, effect_toggle_d, effect_word.toggle, 0)
        BY <1>4, <3>1, <3>2, PassingDone
      <3> QED BY <3>3 DEF m, n
    <2> QED BY <1>1, <1>2, <1>3, <1>4, <2>1 DEF SoundInv, SoundPassing
  <1>11. MusicInv'
    BY <1>1, <1>2, <1>3 DEF MusicInv, ScreenPassing, Fanfares
  <1>12. OwedInv'
    BY <1>1, <1>2 DEF OwedInv
  <1> QED BY <1>8, <1>9, <1>10, <1>11, <1>12

LEMMA CpuStepInv ==
  ASSUME PubInv, CpuStep, UNCHANGED <<overlayVars, audioVars>>
  PROVE  PubInv'
  <1>1. GameInv'
    BY GameStep
  <1>2. LatchInv' /\ ShownInv' /\ AnimationInv' /\ SoundInv' /\ MusicInv' /\ OwedInv'
    <2>1. CASE BeginPass
      BY <2>1, QuietStep DEF BeginPass, words
    <2>2. CASE FruitTurn
      <3>1. CASE UNCHANGED <<effect_word, quiet, owed>>
        BY <2>2, <3>1, QuietStep DEF FruitTurn, NextSlot
      <3>2. CASE \E type \in Types : EmitSliceEffect(type)
        BY <2>2, <3>2, EmitStep
      <3> QED BY <2>2, <3>1, <3>2 DEF FruitTurn
    <2>3. CASE WriteDesc
      BY <2>3, QuietStep DEF WriteDesc, NextSlot
    <2>4. CASE WriteCtrl
      BY <2>4, CtrlStep
    <2> QED BY <2>1, <2>2, <2>3, <2>4 DEF CpuStep
  <1> QED BY <1>1, <1>2 DEF PubInv
-----------------------------------------------------------------------------
(* The display.                                                             *)

(* What an edge of the display's clock does to one of its synchronisers.      *)
LEMMA VgaRegisters ==
  ASSUME NEW regs \in [0 .. 2 -> BOOLEAN], NEW next, NEW bit \in BOOLEAN,
         next \in Shifted(regs, bit), quiet[VGA] \in Nat, NEW r \in Nat, r <= quiet[VGA] + 1,
         Passing(regs[0], regs[1], regs[2], bit, quiet[VGA])
  PROVE  /\ next \in [0 .. 2 -> BOOLEAN] /\ next[2] = regs[1]
         /\ Passing(next[0], next[1], next[2], bit, r)
         /\ regs[2] = bit => Passing(next[0], next[1], next[2], bit, r) /\ next[2] = bit
         /\ regs[2] # regs[1] => regs[2] # bit /\ next[2] = bit
         /\ regs[2] = regs[1] => (next[2] = bit <=> regs[2] = bit)
  <1>1. PICK caught \in {bit} \cup (IF Changing(VGA) THEN {regs[0]} ELSE {}) :
          next = [i \in 0 .. 2 |-> IF i = 0 THEN caught ELSE regs[i - 1]]
    BY DEF Shifted
  <1>2. caught = bit \/ (quiet[VGA] = 0 /\ caught = regs[0])
    BY <1>1 DEF Changing
  <1>3. /\ regs[0] \in BOOLEAN /\ regs[1] \in BOOLEAN /\ regs[2] \in BOOLEAN
        /\ caught \in BOOLEAN
    BY <1>2
  <1>4. next[0] = caught /\ next[1] = regs[0] /\ next[2] = regs[1]
    BY <1>1
  <1>5. next \in [0 .. 2 -> BOOLEAN]
    BY <1>1, <1>3
  <1>6. /\ Passing(caught, regs[0], regs[1], bit, r)
        /\ regs[1] # regs[2] => regs[1] = bit /\ regs[2] # bit
        /\ regs[1] = regs[2] => (regs[1] = bit <=> regs[2] = bit)
    BY <1>2, <1>3, PassingEdge
  <1>7. regs[2] = bit => regs[1] = bit
    BY DEF Passing
  <1> QED BY <1>4, <1>5, <1>6, <1>7

LEMMA VgaEdgeInv ==
  ASSUME PubInv, VgaEdge, UNCHANGED audioVars
  PROVE  PubInv'
  <1>1. /\ GameInv /\ WordsOK /\ LatchInv /\ ShownInv /\ AnimationInv /\ SoundInv
        /\ MusicInv /\ OwedInv
    BY DEF PubInv, GameInv
  <1> DEFINE begins == start_pulse /\ \E s \in Slots : effect_age'[s] = 0
  <1>2. /\ UNCHANGED cpuVars
        /\ quiet' = [quiet EXCEPT ![VGA] = IF @ < Pace[VGA] THEN @ + 1 ELSE @]
        /\ owed' = [owed EXCEPT ![VGA] = IF begins THEN @ - 1 ELSE @]
        /\ commit_sync' \in Shifted(commit_sync, ctrl_word.toggle)
        /\ effect_sync' \in Shifted(effect_sync, effect_word.toggle)
        /\ Latch /\ Popup /\ SliceEffects
    BY DEF VgaEdge, Tick
  <1>3. /\ pc' = pc /\ slot' = slot /\ pass' = pass /\ effect_word' = effect_word
        /\ desc' = desc /\ ctrl_word' = ctrl_word
    BY <1>2 DEF cpuVars, words
  <1>4. /\ quiet' \in [Receivers -> Nat]
        /\ \A r \in Receivers : quiet'[r] <= Pace[r]
        /\ quiet'[VGA] \in Nat /\ quiet'[VGA] <= quiet[VGA] + 1 /\ quiet'[BCLK] = quiet[BCLK]
        /\ owed'[BCLK] = owed[BCLK]
        /\ owed'[VGA] = IF begins THEN owed[VGA] - 1 ELSE owed[VGA]
        /\ owed' \in [Receivers -> Int]
    <2>1. Pace \in [Receivers -> Nat]
      BY WordsAssumption
    <2> HIDE DEF begins
    <2> QED BY <1>1, <1>2, <2>1, ReceiverFacts DEF WordsOK
  <1> HIDE DEF begins
  <1>5. GameInv'
    <2>1. WordsOK'
      BY <1>1, <1>3, <1>4 DEF WordsOK
    <2>2. DescInv'
      BY <1>1, <1>3 DEF GameInv, DescInv
    <2> QED BY <1>1, <1>3, <2>1, <2>2 DEF GameInv
  <1>6. /\ effect_sync' \in [0 .. 2 -> BOOLEAN] /\ EffectPassing'
        /\ effect_sync[2] = effect_word.toggle => effect_sync'[2] = effect_word.toggle
        /\ start_pulse => /\ effect_sync[2] # effect_word.toggle
                          /\ effect_sync'[2] = effect_word.toggle
        /\ ~start_pulse => (effect_sync'[2] = effect_word.toggle
                              <=> effect_sync[2] = effect_word.toggle)
    <2>1. Passing(effect_sync[0], effect_sync[1], effect_sync[2], effect_word.toggle, quiet[VGA])
      BY <1>1 DEF LatchInv, EffectPassing
    <2>2. /\ effect_sync \in [0 .. 2 -> BOOLEAN] /\ effect_word.toggle \in BOOLEAN
          /\ quiet[VGA] \in Nat
      BY <1>1, ReceiverFacts DEF LatchInv, WordsOK
    <2>3. Passing(effect_sync'[0], effect_sync'[1], effect_sync'[2], effect_word.toggle, quiet'[VGA])
      BY <1>2, <1>4, <2>1, <2>2, VgaRegisters
    <2>4. EffectPassing'
      BY <1>3, <2>3 DEF EffectPassing
    <2> QED BY <1>2, <1>4, <2>1, <2>2, <2>4, VgaRegisters DEF start_pulse
  <1>7. /\ commit_sync' \in [0 .. 2 -> BOOLEAN] /\ CommitPassing'
        /\ commit_sync[2] = ctrl_word.toggle => commit_sync'[2] = ctrl_word.toggle
        /\ commit_pulse => /\ commit_sync[2] # ctrl_word.toggle
                           /\ commit_sync'[2] = ctrl_word.toggle
        /\ ~commit_pulse => (commit_sync'[2] = ctrl_word.toggle
                              <=> commit_sync[2] = ctrl_word.toggle)
    <2>1. Passing(commit_sync[0], commit_sync[1], commit_sync[2], ctrl_word.toggle, quiet[VGA])
      BY <1>1 DEF LatchInv, CommitPassing
    <2>2. /\ commit_sync \in [0 .. 2 -> BOOLEAN] /\ ctrl_word.toggle \in BOOLEAN
          /\ quiet[VGA] \in Nat
      BY <1>1, ReceiverFacts DEF LatchInv, WordsOK
    <2>3. Passing(commit_sync'[0], commit_sync'[1], commit_sync'[2], ctrl_word.toggle, quiet'[VGA])
      BY <1>2, <1>4, <2>1, <2>2, VgaRegisters
    <2>4. CommitPassing'
      BY <1>3, <2>3 DEF CommitPassing
    <2> QED BY <1>2, <1>4, <2>1, <2>2, <2>4, VgaRegisters DEF commit_pulse
  <1>8. LatchInv'
    BY <1>1, <1>3, <1>6, <1>7 DEF LatchInv
  <1>9. ShownInv'
    <2>1. CASE commit_pulse
      <3>1. pc = "wait"
        BY <1>1, <1>7, <2>1 DEF LatchInv
      <3>2. \A s \in Slots : desc[s] = ctrl_word.pub
        BY <1>1, <3>1 DEF GameInv, DescInv
      <3>3. /\ shown' = [enable |-> ctrl_word.enable, state |-> ctrl_word.state,
                         pub |-> ctrl_word.pub]
            /\ shown_desc' = desc
        BY <1>2, <2>1 DEF Latch
      <3> QED BY <1>3, <3>2, <3>3 DEF ShownInv, NoMixture
    <2>2. CASE ~commit_pulse
      <3>1. shown' = shown /\ shown_desc' = shown_desc
        BY <1>2, <2>2 DEF Latch
      <3> QED BY <1>1, <1>3, <1>7, <2>2, <3>1 DEF ShownInv, NoMixture
    <2> QED BY <2>1, <2>2
  <1>10. AnimationInv' /\ (start_pulse => begins)
    <2>1. start_pulse => shown.enable
      <3>1. start_pulse => ctrl_word.enable /\ pc # "wait"
        BY <1>1, <1>6 DEF LatchInv
      <3> QED BY <1>1, <3>1 DEF LatchInv, ShownInv
    <2>2. effect_word.slot \in Slots
      BY <1>1 DEF WordsOK
    <2>3. start_pulse => effect_age'[effect_word.slot] = 0
      BY <1>2, <2>1, <2>2 DEF SliceEffects
    <2>4. PopupLast \in Nat /\ EffectLast \in Nat
      BY OverlayAssumption
    <2>5. \A a \in Ages : /\ a # Idle /\ a # PopupLast => Older(a, PopupLast) = a + 1
                          /\ Older(a, PopupLast) \in Ages /\ Older(a, EffectLast) \in Ages
                          /\ a # Idle /\ a # EffectLast => Older(a, EffectLast) = a + 1
                          /\ Older(PopupLast, PopupLast) = Idle
      BY <2>4 DEF Older, Ages, Idle
    <2>6. popup_age' \in Ages /\ effect_age' \in [Slots -> Ages]
      <3>1. popup_age \in Ages /\ effect_age \in [Slots -> Ages] /\ 0 \in Ages /\ Idle \in Ages
        BY <1>1 DEF AnimationInv, Ages
      <3>2. popup_age' \in Ages
        BY <1>2, <2>5, <3>1 DEF Popup
      <3>3. effect_age' \in [Slots -> Ages]
        BY <1>2, <2>5, <3>1 DEF SliceEffects
      <3> QED BY <3>2, <3>3
    <2>7. PopupIsLatestCut'
      <3> SUFFICES ASSUME popup_age' # Idle
                   PROVE  /\ \A s \in Slots : effect_age'[s] # Idle =>
                                              effect_age'[s] >= popup_age'
                          /\ popup_age' <= EffectLast =>
                               \E s \in Slots : effect_age'[s] = popup_age'
        BY DEF PopupIsLatestCut
      <3>1. /\ shown.enable
            /\ popup_age' \in Nat /\ popup_age \in Ages
            /\ \A s \in Slots : effect_age[s] \in Ages /\ effect_age'[s] \in Ages
        BY <1>1, <1>2, <2>6 DEF Popup, AnimationInv, Ages, Idle
      <3>2. CASE start_pulse
        <4>1. popup_age' = 0
          BY <1>2, <3>2 DEF Popup
        <4>2. \A s \in Slots : effect_age'[s] # Idle => effect_age'[s] >= 0
          BY <3>1 DEF Ages, Idle
        <4> QED BY <2>2, <2>3, <3>2, <4>1, <4>2
      <3>3. CASE ~start_pulse /\ frame_tick /\ popup_age # Idle
        <4>1. popup_age' = Older(popup_age, PopupLast)
          BY <1>2, <3>3 DEF Popup
        <4>2. popup_age' = popup_age + 1 /\ popup_age \in Nat
          BY <2>4, <2>5, <3>1, <3>3, <4>1 DEF Ages, Idle
        <4>3. \A s \in Slots :
                 effect_age'[s] = IF effect_age[s] # Idle THEN Older(effect_age[s], EffectLast)
                                  ELSE effect_age[s]
          BY <1>2, <3>1, <3>3 DEF SliceEffects
        <4>4. \A s \in Slots : effect_age[s] # Idle => effect_age[s] >= popup_age
          BY <1>1, <3>3 DEF AnimationInv, PopupIsLatestCut
        <4>5. ASSUME NEW s \in Slots, effect_age'[s] # Idle
              PROVE  effect_age'[s] >= popup_age'
          <5>1. effect_age[s] # Idle /\ effect_age'[s] = Older(effect_age[s], EffectLast)
            BY <4>3, <4>5
          <5>2. effect_age'[s] = effect_age[s] + 1 /\ effect_age[s] \in Nat
            BY <3>1, <4>5, <5>1 DEF Older, Ages, Idle
          <5> QED BY <4>2, <4>4, <5>1, <5>2
        <4>6. ASSUME popup_age' <= EffectLast
              PROVE  \E s \in Slots : effect_age'[s] = popup_age'
          <5>1. popup_age # EffectLast /\ popup_age <= EffectLast
            BY <2>4, <4>2, <4>6
          <5>2. PICK s \in Slots : effect_age[s] = popup_age
            BY <1>1, <3>3, <5>1 DEF AnimationInv, PopupIsLatestCut
          <5> QED BY <2>5, <3>1, <3>3, <4>2, <4>3, <5>1, <5>2
        <4> QED BY <4>5, <4>6
      <3>4. CASE ~start_pulse /\ ~(frame_tick /\ popup_age # Idle)
        <4>1. popup_age' = popup_age
          BY <1>2, <3>4 DEF Popup
        <4>2. frame_tick => popup_age = Idle
          BY <3>4
        <4>3. ~frame_tick
          BY <4>1, <4>2
        <4>4. \A s \in Slots : effect_age'[s] = effect_age[s]
          BY <1>2, <3>1, <3>4, <4>3 DEF SliceEffects
        <4> QED BY <1>1, <4>1, <4>4 DEF AnimationInv, PopupIsLatestCut
      <3> QED BY <3>2, <3>3, <3>4
    <2> QED BY <2>2, <2>3, <2>6, <2>7 DEF AnimationInv, begins
  <1>11. SoundInv' /\ MusicInv'
    BY <1>1, <1>3, <1>4 DEF audioVars, SoundInv, SoundPassing, MusicInv, ScreenPassing, Fanfares
  <1>12. OwedInv'
    <2>1. begins <=> start_pulse
      BY <1>10 DEF begins
    <2>2. owed'[BCLK] = IF effect_toggle_d' = effect_word'.toggle THEN 0 ELSE 1
      BY <1>1, <1>3, <1>4 DEF OwedInv, audioVars
    <2>3. owed'[VGA] = IF effect_sync'[2] = effect_word'.toggle THEN 0 ELSE 1
      BY <1>1, <1>3, <1>4, <1>6, <2>1 DEF OwedInv
    <2> QED BY <2>2, <2>3 DEF OwedInv
  <1> QED BY <1>5, <1>8, <1>9, <1>10, <1>11, <1>12 DEF PubInv
-----------------------------------------------------------------------------
(* The sound.                                                               *)

(* What is caught of a word at rest is the word.  What is caught of a bit of  *)
(* it is what the bit is or, at the edge of a change, what it was.           *)
LEMMA CaughtFacts ==
  ASSUME NEW held, NEW word, NEW got \in Caught(held, word), quiet[BCLK] \in Nat
  PROVE  /\ quiet[BCLK] >= 1 \/ held = word => got = word
         /\ \A b : (b \in got <=> b \in word)
                     \/ (quiet[BCLK] = 0 /\ (b \in got <=> b \in held))
  <1>1. CASE Changing(BCLK)
    <2>1. got \in SUBSET (held \cup word) /\ held \cap word \subseteq got
      BY <1>1 DEF Caught
    <2>2. held = word => got = word
      BY <2>1
    <2> QED BY <1>1, <2>1, <2>2 DEF Changing
  <1>2. CASE ~Changing(BCLK)
    BY <1>2 DEF Caught, Changing
  <1> QED BY <1>1, <1>2

LEMMA MusicStep ==
  ASSUME MusicInv, Music, NEW g \in Caught(meta.game, ctrl_word.state),
         meta'.game = g, sync'.game = meta.game, audio_state' = sync.game,
         pc' = pc, ctrl_word' = ctrl_word,
         quiet[BCLK] \in Nat, quiet'[BCLK] \in Nat,
         quiet[BCLK] <= 4 => quiet'[BCLK] = quiet[BCLK] + 1,
         quiet[BCLK] >= 5 => quiet'[BCLK] >= 5
  PROVE  MusicInv'
  <1> DEFINE q == quiet[BCLK]
             r == quiet'[BCLK]
  <1>1. /\ q \in Nat /\ r \in Nat
        /\ q <= 4 => r = q + 1
        /\ q >= 5 => r >= 5
    OBVIOUS
  <1>2. /\ q >= 1 => g = ctrl_word.state
        /\ meta.game = ctrl_word.state => g = ctrl_word.state
    BY CaughtFacts
  <1>3. /\ prev_game_state' = audio_state
        /\ background_playing' = (audio_state = START)
        /\ fanfares' = (IF q = 0 THEN 0 ELSE fanfares) + (IF start_trigger THEN 1 ELSE 0)
    BY DEF Music, Changing
  <1>4. /\ pc = "wait" => ScreenPassing(q) /\ Fanfares(q)
        /\ pc # "wait" => /\ meta.game = ctrl_word.state /\ sync.game = ctrl_word.state
                          /\ audio_state = ctrl_word.state /\ prev_game_state = ctrl_word.state
    BY DEF MusicInv
  <1> HIDE DEF q, r
  <1>5. background_playing' = (prev_game_state' = START)
    BY <1>3
  <1>6. ASSUME pc # "wait"
        PROVE  /\ meta'.game = ctrl_word.state /\ sync'.game = ctrl_word.state
               /\ audio_state' = ctrl_word.state /\ prev_game_state' = ctrl_word.state
    BY <1>2, <1>3, <1>4, <1>6
  <1>7. ASSUME pc = "wait"
        PROVE  /\ r = 0 => meta'.game = ctrl_word.from
               /\ r <= 1 => sync'.game = ctrl_word.from
               /\ r <= 2 => audio_state' = ctrl_word.from
               /\ r <= 3 => prev_game_state' = ctrl_word.from
               /\ r >= 2 => meta'.game = ctrl_word.state
               /\ r >= 3 => sync'.game = ctrl_word.state
               /\ r >= 4 => audio_state' = ctrl_word.state
               /\ r >= 5 => prev_game_state' = ctrl_word.state
    BY <1>1, <1>2, <1>3, <1>4, <1>7 DEF ScreenPassing
  <1>8. ASSUME pc = "wait"
        PROVE  /\ r \in 1 .. 3 => fanfares' = 0
               /\ r = 4 => fanfares' = IF ctrl_word.from # PLAYING /\ prev_game_state' = PLAYING
                                       THEN 1 ELSE 0
               /\ r >= 5 /\ ctrl_word.from # PLAYING /\ ctrl_word.state = PLAYING => fanfares' = 1
    <2>1. ScreenPassing(q) /\ Fanfares(q)
      BY <1>4, <1>8
    <2>2. CASE q = 0
      BY <1>1, <1>3, <2>1, <2>2 DEF ScreenPassing, start_trigger
    <2>3. CASE q \in 1 .. 2
      <3>1. audio_state = prev_game_state /\ fanfares = 0
        BY <2>1, <2>3 DEF ScreenPassing, Fanfares
      <3>2. fanfares' = 0
        BY <1>3, <2>3, <3>1 DEF start_trigger
      <3> QED BY <1>1, <2>3, <3>2
    <2>4. CASE q = 3
      BY <1>1, <1>3, <2>1, <2>4 DEF ScreenPassing, Fanfares, start_trigger
    <2>5. CASE q = 4
      BY <1>1, <1>3, <2>1, <2>5 DEF ScreenPassing, Fanfares, start_trigger
    <2>6. CASE q >= 5
      <3>1. prev_game_state = audio_state /\ ~start_trigger
        BY <2>1, <2>6, <1>1 DEF ScreenPassing, start_trigger
      <3>2. ctrl_word.from # PLAYING /\ ctrl_word.state = PLAYING => fanfares = 1
        BY <2>1, <2>6 DEF Fanfares
      <3> QED BY <1>1, <1>3, <2>6, <3>1, <3>2
    <2>7. q = 0 \/ q \in 1 .. 2 \/ q = 3 \/ q = 4 \/ q >= 5
      BY <1>1
    <2> QED BY <2>2, <2>3, <2>4, <2>5, <2>6, <2>7
  <1>9. /\ pc' = "wait" => ScreenPassing(quiet[BCLK])' /\ Fanfares(quiet[BCLK])'
        /\ pc' # "wait" => /\ meta'.game = ctrl_word'.state /\ sync'.game = ctrl_word'.state
                           /\ audio_state' = ctrl_word'.state
                           /\ prev_game_state' = ctrl_word'.state
    BY <1>6, <1>7, <1>8 DEF ScreenPassing, Fanfares, r
  <1> QED BY <1>5, <1>9 DEF MusicInv

LEMMA BclkEdgeInv ==
  ASSUME PubInv, BclkEdge, UNCHANGED overlayVars
  PROVE  PubInv'
  <1>1. /\ GameInv /\ WordsOK /\ LatchInv /\ ShownInv /\ AnimationInv /\ SoundInv
        /\ MusicInv /\ OwedInv
    BY DEF PubInv, GameInv
  <1>2. PICK e \in Caught(meta.effect, EffectBits), g \in Caught(meta.game, ctrl_word.state) :
          meta' = [effect |-> e, game |-> g]
    BY DEF BclkEdge, Synchronize
  <1> DEFINE begins == effect_pulse'
  <1>3. /\ sync' = meta
        /\ effect_pulse' = ((31 \in sync.effect) # effect_toggle_d)
        /\ effect_toggle_d' = (31 \in sync.effect)
        /\ audio_state' = sync.game
        /\ Music
        /\ UNCHANGED cpuVars
        /\ quiet' = [quiet EXCEPT ![BCLK] = IF @ < Pace[BCLK] THEN @ + 1 ELSE @]
        /\ owed' = [owed EXCEPT ![BCLK] = IF begins THEN @ - 1 ELSE @]
    BY DEF BclkEdge, Synchronize, Tick
  <1>4. /\ pc' = pc /\ slot' = slot /\ pass' = pass /\ effect_word' = effect_word
        /\ desc' = desc /\ ctrl_word' = ctrl_word
    BY <1>3 DEF cpuVars, words
  <1>5. /\ quiet' \in [Receivers -> Nat]
        /\ \A r \in Receivers : quiet'[r] <= Pace[r]
        /\ quiet'[BCLK] = IF quiet[BCLK] < Pace[BCLK] THEN quiet[BCLK] + 1 ELSE quiet[BCLK]
        /\ quiet'[VGA] = quiet[VGA]
        /\ owed'[VGA] = owed[VGA]
        /\ owed'[BCLK] = IF begins THEN owed[BCLK] - 1 ELSE owed[BCLK]
        /\ owed' \in [Receivers -> Int]
    <2>1. Pace \in [Receivers -> Nat]
      BY WordsAssumption
    <2> HIDE DEF begins
    <2> QED BY <1>1, <1>3, <2>1, ReceiverFacts DEF WordsOK
  <1>6. /\ quiet[BCLK] \in Nat /\ quiet'[BCLK] \in Nat /\ quiet'[BCLK] <= quiet[BCLK] + 1
        /\ quiet[BCLK] <= 4 => quiet'[BCLK] = quiet[BCLK] + 1
        /\ quiet[BCLK] >= 5 => quiet'[BCLK] >= 5
    BY <1>1, <1>5, ReceiverFacts, PublishedAssumption
  <1>7. GameInv'
    <2>1. WordsOK'
      BY <1>1, <1>4, <1>5 DEF WordsOK
    <2>2. DescInv'
      BY <1>1, <1>4 DEF GameInv, DescInv
    <2> QED BY <1>1, <1>4, <2>1, <2>2 DEF GameInv
  <1>8. LatchInv' /\ ShownInv' /\ AnimationInv'
    BY <1>1, <1>4, <1>5 DEF overlayVars, LatchInv, CommitPassing, EffectPassing, ShownInv,
                            NoMixture, AnimationInv, PopupIsLatestCut
  <1>9. MusicInv'
    BY <1>1, <1>2, <1>3, <1>4, <1>6, MusicStep
  <1>10. /\ SoundPassing' /\ effect_toggle_d' \in BOOLEAN
         /\ begins <=> effect_toggle_d # effect_toggle_d'
         /\ begins => effect_toggle_d # effect_word.toggle /\ effect_toggle_d' = effect_word.toggle
         /\ ~begins => (effect_toggle_d' = effect_word.toggle
                          <=> effect_toggle_d = effect_word.toggle)
    <2> DEFINE c == 31 \in e
               m == 31 \in meta.effect
               n == 31 \in sync.effect
               b == effect_word.toggle
               d == effect_toggle_d
    <2>1. c \in BOOLEAN /\ m \in BOOLEAN /\ n \in BOOLEAN
      OBVIOUS
    <2>2. b \in BOOLEAN /\ d \in BOOLEAN
      BY <1>1 DEF WordsOK, SoundInv
    <2>3. Passing(m, n, d, b, quiet[BCLK])
      BY <1>1 DEF SoundInv, SoundPassing
    <2>4. 31 \in EffectBits <=> b
      <3>1. 31 \notin effect_word.type
        BY <1>1 DEF WordsOK
      <3> QED BY <3>1 DEF EffectBits
    <2>5. (c <=> b) \/ (quiet[BCLK] = 0 /\ (c <=> m))
      BY <1>6, <2>4, CaughtFacts
    <2>6. effect_toggle_d' = n /\ (begins <=> (n # d))
      BY <1>3
    <2>7. (31 \in meta'.effect) = c /\ (31 \in sync'.effect) = m
      BY <1>2, <1>3
    <2> HIDE DEF c, m, n, b, d, begins
    <2>8. c = b \/ (quiet[BCLK] = 0 /\ c = m)
      BY <2>1, <2>2, <2>5
    <2>9. /\ Passing(c, m, n, b, quiet'[BCLK])
          /\ n # d => n = b /\ d # b
          /\ n = d => (n = b <=> d = b)
      <3> DEFINE q == quiet[BCLK]
                 r == quiet'[BCLK]
      <3>1. q \in Nat /\ r \in Nat /\ r <= q + 1 /\ (c = b \/ (q = 0 /\ c = m))
            /\ Passing(m, n, d, b, q)
        BY <1>6, <2>3, <2>8
      <3> HIDE DEF q, r
      <3>2. /\ Passing(c, m, n, b, r)
            /\ n # d => n = b /\ d # b
            /\ n = d => (n = b <=> d = b)
        BY <2>1, <2>2, <3>1, PassingEdge
      <3> QED BY <3>2 DEF r
    <2>10. SoundPassing'
      BY <1>4, <2>6, <2>7, <2>9 DEF SoundPassing, b
    <2> QED BY <2>1, <2>2, <2>6, <2>9, <2>10 DEF b, d
  <1> HIDE DEF begins
  <1>11. SoundInv'
    BY <1>1, <1>4, <1>10 DEF SoundInv
  <1>12. OwedInv'
    <2>1. owed'[VGA] = IF effect_sync'[2] = effect_word'.toggle THEN 0 ELSE 1
      BY <1>1, <1>4, <1>5 DEF OwedInv, overlayVars
    <2>2. owed'[BCLK] = IF effect_toggle_d' = effect_word'.toggle THEN 0 ELSE 1
      BY <1>1, <1>4, <1>5, <1>10 DEF OwedInv
    <2> QED BY <2>1, <2>2 DEF OwedInv
  <1> QED BY <1>7, <1>8, <1>9, <1>11, <1>12 DEF PubInv
-----------------------------------------------------------------------------
LEMMA PubStutter == PubInv /\ UNCHANGED vars => PubInv'
  <1> SUFFICES ASSUME PubInv, UNCHANGED vars PROVE PubInv'
    OBVIOUS
  <1> USE DEF vars, gameVars, cpuVars, words, overlayVars, audioVars
  <1>1. GameInv'
    BY DEF PubInv, GameInv, WordsOK, DescInv
  <1>2. LatchInv' /\ ShownInv' /\ AnimationInv'
    BY DEF PubInv, LatchInv, CommitPassing, EffectPassing, ShownInv, NoMixture, AnimationInv,
           PopupIsLatestCut
  <1>3. SoundInv' /\ MusicInv' /\ OwedInv'
    BY DEF PubInv, SoundInv, SoundPassing, MusicInv, ScreenPassing, Fanfares, OwedInv
  <1> QED BY <1>1, <1>2, <1>3 DEF PubInv

(* The words in the program, on their way through the registers of the two    *)
(* clocks, and as each reader has taken them in, stay in step.               *)
THEOREM PublishedInvariance == Spec => []PubInv
  <1>1. Init => PubInv
    BY PubInit
  <1>2. PubInv /\ [Next]_vars => PubInv'
    <2>1. ASSUME PubInv, Next PROVE PubInv'
      BY <2>1, CpuStepInv, VgaEdgeInv, BclkEdgeInv DEF Next
    <2> QED BY <2>1, PubStutter
  <1> QED BY <1>1, <1>2, PTL DEF Spec

(* The descriptors drawn were written by the publish_game_state whose control *)
(* word is drawn, for any number of slots.                                 *)
THEOREM MixtureTheorem == Spec => []NoMixture
  <1>1. PubInv => NoMixture
    BY DEF PubInv, ShownInv
  <1> QED BY <1>1, PublishedInvariance, PTL

(* No control word is passed over by the display: it is latched before the    *)
(* program may write the next.                                             *)
THEOREM ShownTheorem == Spec => []EveryPublicationShown
  <1>1. PubInv => EveryPublicationShown
    <2> SUFFICES ASSUME PubInv, quiet[VGA] = Pace[VGA] PROVE shown.pub = ctrl_word.pub
      BY DEF EveryPublicationShown
    <2>1. quiet[VGA] >= 4 /\ quiet[VGA] \in Nat
      BY PublishedAssumption, ReceiverFacts DEF PubInv, GameInv
    <2>2. commit_sync[2] = ctrl_word.toggle
      BY <2>1 DEF PubInv, LatchInv, CommitPassing, Passing
    <2> QED BY <2>2 DEF PubInv, ShownInv
  <1> QED BY <1>1, PublishedInvariance, PTL

(* The popup on screen is that of the latest cut: every running animation is  *)
(* at least as old and, until animations of its age end, one is of its age, *)
(* for any number of slots, any lengths and any order of the cuts.          *)
THEOREM PopupTheorem == Spec => []PopupIsLatestCut
  <1>1. PubInv => PopupIsLatestCut
    BY DEF PubInv, AnimationInv
  <1> QED BY <1>1, PublishedInvariance, PTL

LEMMA SoundSettled ==
  ASSUME PubInv, quiet[BCLK] = Pace[BCLK]
  PROVE  /\ quiet[BCLK] >= 5 /\ quiet[BCLK] \in Nat
         /\ audio_state = ctrl_word.state /\ prev_game_state = ctrl_word.state
  <1>1. quiet[BCLK] >= 5 /\ quiet[BCLK] \in Nat
    BY PublishedAssumption, ReceiverFacts DEF PubInv, GameInv
  <1> QED BY <1>1 DEF PubInv, MusicInv, ScreenPassing

(* The background music is that of the screen by the time the screen may      *)
(* change again, whatever mixture of two screens was caught.                 *)
THEOREM MusicTheorem == Spec => []MusicFollowsScreen
  <1>1. PubInv => MusicFollowsScreen
    <2> SUFFICES ASSUME PubInv, quiet[BCLK] = Pace[BCLK]
                 PROVE  /\ audio_state = ctrl_word.state
                        /\ background_playing = (ctrl_word.state = START)
      BY DEF MusicFollowsScreen
    <2>1. /\ quiet[BCLK] >= 1
          /\ audio_state = ctrl_word.state /\ prev_game_state = ctrl_word.state
      BY SoundSettled
    <2> QED BY <2>1 DEF PubInv, MusicInv
  <1> QED BY <1>1, PublishedInvariance, PTL

(* One trigger is made for the start of a game: a mixture that looks like it  *)
(* takes the trigger's place, and never adds one.                           *)
THEOREM StartTheorem == Spec => []GameStartHeard
  <1>1. PubInv => GameStartHeard
    <2> SUFFICES ASSUME PubInv, pc = "wait", quiet[BCLK] = Pace[BCLK],
                        ctrl_word.state = PLAYING, ctrl_word.from # PLAYING
                 PROVE  fanfares = 1
      BY DEF GameStartHeard
    <2> QED BY SoundSettled DEF PubInv, MusicInv, Fanfares
  <1> QED BY <1>1, PublishedInvariance, PTL

(* Each cut announced is begun once by each of the two readers, before the    *)
(* program may announce the next.                                          *)
THEOREM CutTheorem == Spec => []EveryCutBegun
  <1>1. PubInv => EveryCutBegun
    <2> SUFFICES ASSUME PubInv PROVE EveryCutBegun
      OBVIOUS
    <2>1. /\ owed[VGA] = IF effect_sync[2] = effect_word.toggle THEN 0 ELSE 1
          /\ owed[BCLK] = IF effect_toggle_d = effect_word.toggle THEN 0 ELSE 1
      BY DEF PubInv, OwedInv
    <2>2. quiet[VGA] = Pace[VGA] => effect_sync[2] = effect_word.toggle
      BY PublishedAssumption, ReceiverFacts DEF PubInv, GameInv, LatchInv, EffectPassing, Passing
    <2>3. quiet[BCLK] = Pace[BCLK] => effect_toggle_d = effect_word.toggle
      <3>1. quiet[BCLK] = Pace[BCLK] => quiet[BCLK] >= 4
        BY SoundSettled
      <3> QED BY <3>1 DEF PubInv, SoundInv, SoundPassing, Passing
    <2> QED BY <2>1, <2>2, <2>3, PublishedAssumption DEF EveryCutBegun
  <1> QED BY <1>1, PublishedInvariance, PTL
=============================================================================
