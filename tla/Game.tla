-------------------------------- MODULE Game --------------------------------
(***************************************************************************)
(* The Nios II game program, software/ninja/main.c: one pass of the main   *)
(* loop per VGA frame reads the keys and the blade tracker, runs game_step *)
(* and publishes the result to the FPGA.                                   *)
(*                                                                         *)
(* The pass is split where the program loops or branches: ReadInputs, then *)
(* one Step action per screen; while playing, Tick, one action per fruit   *)
(* slot, the multi-slice bonus and the verdict on the frame.  Positions,   *)
(* velocities and the random generator are abstracted: whether the blade   *)
(* meets a fruit, whether a fruit leaves the screen, what is spawned and   *)
(* how long the next spawn waits are chosen freely, so every order of      *)
(* events a trajectory allows is a behaviour here.  What publish writes is *)
(* the state at pc = "wait"; how it reaches the FPGA is another module.    *)
(***************************************************************************)
EXTENDS Integers, FiniteSets, Sequences

CONSTANTS
  NumFruits,        \* MAX_FRUITS, 4 in the code
  NumTop,           \* length of the high score table, 5
  MaxScore,         \* ceiling of the score, 9999
  MaxBombs,         \* bombs that end a game, 3
  ComboMax,         \* COMBO_MAX_COUNT, 4
  Radix,            \* base of the two timer digits, 10
  StartTens,        \* time_tens at the start of a game, 6
  FramesPerSecond,  \* 60
  FirstDelay,       \* next_spawn_delay at the start of a game, 45
  SpawnDelays,      \* delays spawn_fruit can choose, 24 .. 87
  TimerCap,         \* where auto_spawn_timer stops, 127
  MaxGames          \* bound on the games of a behaviour: none in the code

ASSUME GameAssumption ==
  /\ NumFruits \in Nat \ {0}
  /\ NumTop \in Nat \ {0}
  /\ MaxScore \in Nat
  /\ MaxBombs \in Nat \ {0}
  /\ ComboMax \in Nat \ {0}
  /\ Radix \in Nat \ {0}
  /\ StartTens \in 1 .. Radix
  /\ FramesPerSecond \in Nat \ {0}
  /\ TimerCap \in Nat
  /\ FirstDelay \in 0 .. TimerCap
  /\ SpawnDelays \subseteq 0 .. TimerCap
  /\ SpawnDelays # {}
  /\ MaxGames \in Nat

VARIABLES
  pc,                  \* where the main loop is in the frame
  prev_keys,           \* keys held down at the last frame
  pressed,             \* key1_pressed, key2_pressed, key3_pressed of this frame
  cut,                 \* blade_cut_valid of this frame
  prev_blade_valid,
  game_state,
  high_scores_return_state,
  fruits,              \* per slot: "none" (inactive), "fruit" or "bomb"
  score_value,
  bomb_hits,
  time_tens, time_ones,
  second_frame_count,
  auto_spawn_timer, next_spawn_delay,
  combo_count,
  top_scores,
  slot,                \* update_fruits: the loop index i
  sliced_fruits, sliced_bomb,   \* ... and its two counters
  effects,             \* effect words written so far this frame
  finals,              \* history: the final score of every finished game
  elapsed,             \* history: frames the current game has been playing
  turns,               \* history: what was cut or missed this frame, in slot order
  streak,              \* history: fruits cut in a row before this frame
  origin               \* history: the last screen other than HIGHSCORES

loopVars  == <<slot, sliced_fruits, sliced_bomb>>
inputVars == <<prev_keys, pressed, cut>>
clockVars == <<time_tens, time_ones, second_frame_count>>
spawnVars == <<auto_spawn_timer, next_spawn_delay>>
menuVars  == <<game_state, high_scores_return_state, origin>>
scoreVars == <<score_value, combo_count, bomb_hits>>
bookVars  == <<top_scores, finals>>
vars == <<pc, inputVars, prev_blade_valid, menuVars, fruits, scoreVars, clockVars,
          spawnVars, bookVars, loopVars, effects, elapsed, turns, streak>>

Slots   == 0 .. NumFruits - 1
Keys    == {1, 2, 3}
Screens == {"START", "PLAYING", "OVER", "HIGHSCORES"}
Ranks   == 1 .. NumTop
Turns   == {"cut", "bomb", "miss"}
NoFruits == [s \in Slots |-> "none"]

Time == Radix * time_tens + time_ones
StartTime == Radix * StartTens

(* The type invariant, by the part of the program that owns the variables.  *)
FlagsOK ==
  cut \in BOOLEAN /\ prev_blade_valid \in BOOLEAN /\ sliced_bomb \in BOOLEAN

MenuOK ==
  /\ pc \in {"wait", "step", "fruits", "bonus", "verdict"}
  /\ prev_keys \subseteq Keys /\ pressed \subseteq Keys
  /\ game_state \in Screens
  /\ high_scores_return_state \in {"START", "OVER"}
  /\ origin \in {"START", "PLAYING", "OVER"}

PlayOK ==
  /\ fruits \in [Slots -> {"none", "fruit", "bomb"}]
  /\ score_value \in 0 .. MaxScore
  /\ bomb_hits \in 0 .. MaxBombs
  /\ combo_count \in 0 .. ComboMax
  /\ auto_spawn_timer \in 0 .. TimerCap
  /\ next_spawn_delay \in 0 .. TimerCap
  /\ slot \in 0 .. NumFruits
  /\ sliced_fruits \in 0 .. NumFruits
  /\ effects \in 0 .. NumFruits

ClockOK ==
  /\ time_tens \in 0 .. StartTens
  /\ time_ones \in 0 .. Radix - 1
  /\ second_frame_count \in 0 .. FramesPerSecond - 1
  /\ elapsed \in Nat

BookOK ==
  /\ top_scores \in [Ranks -> 0 .. MaxScore]
  /\ finals \in Seq(0 .. MaxScore)

TurnsOK ==
  /\ turns \in Seq(Turns)
  /\ streak \in 0 .. ComboMax

TypeOK == FlagsOK /\ MenuOK /\ PlayOK /\ ClockOK /\ BookOK /\ TurnsOK
-----------------------------------------------------------------------------
(* Arithmetic of the score.                                                *)

(* A definition whose name starts with Bug_ is a wrong form of the one after *)
(* it, no part of the specification: with it in place of that one, a        *)
(* property must fail, which shows that the property depends on the code.  *)
Bug_ClampBelowOnly(x) == IF x < 0 THEN 0 ELSE x

Clamp(x) == IF x < 0 THEN 0 ELSE IF x > MaxScore THEN MaxScore ELSE x

ApplyScoreDelta(delta) == score_value' = Clamp(score_value + delta)

SlicePoints(combo) ==
  LET points == IF combo > 1 THEN 10 + 5 * (combo - 1) ELSE 10
  IN  IF points > 25 THEN 25 ELSE points

MultiSliceBonus(n) == IF n = 2 THEN 10 ELSE IF n \in {3, 4} THEN 25 ELSE 0

Bug_RecordedOverEntry(score) ==
  LET Beaten(k) == \E i \in 1 .. k : score > top_scores[i]
  IN  [k \in Ranks |-> IF Beaten(k) /\ ~Beaten(k - 1) THEN score ELSE top_scores[k]]

(* The table after `score` is inserted before the first smaller entry, the  *)
(* entries from there on moving down by one.                               *)
Recorded(score) ==
  LET Beaten(k) == \E i \in 1 .. k : score > top_scores[i]
  IN  [k \in Ranks |-> IF ~Beaten(k) THEN top_scores[k]
                       ELSE IF ~Beaten(k - 1) THEN score ELSE top_scores[k - 1]]
-----------------------------------------------------------------------------
(* The history of a frame: a sequence of turns.                            *)

(* How many of the turns are of one of these kinds.                        *)
Count(t, kinds) == Cardinality({i \in DOMAIN t : t[i] \in kinds})

(* The fruits cut in a row, ComboMax at most, at the end of a frame with    *)
(* these turns, if there were `before` of them when it began.              *)
InRow(before, t) ==
  LET last == {i \in DOMAIN t : \A j \in i .. Len(t) : t[j] = "cut"}
      cuts == Cardinality(last) + (IF last = DOMAIN t THEN before ELSE 0)
  IN  IF cuts > ComboMax THEN ComboMax ELSE cuts
-----------------------------------------------------------------------------
Init ==
  /\ pc = "wait"
  /\ prev_keys = {} /\ pressed = {}
  /\ cut = FALSE /\ prev_blade_valid = FALSE
  /\ game_state = "START" /\ high_scores_return_state = "START" /\ origin = "START"
  /\ fruits = NoFruits
  /\ score_value = 0 /\ bomb_hits = 0 /\ combo_count = 0
  /\ time_tens = StartTens /\ time_ones = 0 /\ second_frame_count = 0
  /\ auto_spawn_timer = 0 /\ next_spawn_delay = FirstDelay
  /\ top_scores = [i \in Ranks |-> 0]
  /\ slot = 0 /\ sliced_fruits = 0 /\ sliced_bomb = FALSE
  /\ effects = 0
  /\ finals = <<>> /\ elapsed = 0 /\ turns = <<>> /\ streak = 0

(* KEY1 and KEY2 count on the frame they go down; on the game over screen   *)
(* KEY3 counts for as long as it is held.                                  *)
PressedKeys(keys) ==
  (keys \ prev_keys) \cup (IF game_state = "OVER" THEN keys \cap {3} ELSE {})

(* blade_cut_active: a cut needs a blade on two consecutive frames, far     *)
(* enough apart; the previous blade is replaced or dropped on every frame. *)
BladeCutActive(valid, far) ==
  /\ cut' = (valid /\ prev_blade_valid /\ far)
  /\ prev_blade_valid' = valid

(* A new frame: after MaxGames games the player presses no further key.    *)
ReadInputs ==
  /\ pc = "wait"
  /\ \E keys \in SUBSET Keys :
       /\ Len(finals) >= MaxGames => keys \subseteq prev_keys
       /\ prev_keys' = keys
       /\ pressed' = PressedKeys(keys)
  /\ \E valid, far \in BOOLEAN : BladeCutActive(valid, far)
  /\ pc' = "step"
  /\ UNCHANGED <<menuVars, fruits, scoreVars, clockVars, spawnVars, bookVars,
                 loopVars, effects, elapsed, turns, streak>>

(* The frame is over: its local variables and inputs are gone.             *)
EndFrame ==
  /\ pc' = "wait"
  /\ pressed' = {} /\ cut' = FALSE /\ effects' = 0
  /\ slot' = 0 /\ sliced_fruits' = 0 /\ sliced_bomb' = FALSE
  /\ turns' = <<>>
  /\ UNCHANGED prev_keys

Bug_KeepFruits == UNCHANGED fruits

ClearFruits == fruits' = NoFruits

Bug_ComboKept == UNCHANGED combo_count

ResetCombo == combo_count' = 0

StartGame ==
  /\ ClearFruits
  /\ score_value' = 0 /\ bomb_hits' = 0 /\ ResetCombo
  /\ time_tens' = StartTens /\ time_ones' = 0 /\ second_frame_count' = 0
  /\ auto_spawn_timer' = 0 /\ next_spawn_delay' = FirstDelay
  /\ prev_blade_valid' = FALSE
  /\ game_state' = "PLAYING" /\ origin' = "PLAYING"
  /\ elapsed' = 0 /\ streak' = 0
  /\ UNCHANGED <<high_scores_return_state, bookVars>>

Bug_LeaveAndReset(screen, return) ==
  /\ ClearFruits
  /\ game_state' = screen
  /\ high_scores_return_state' = return
  /\ origin' = IF screen = "HIGHSCORES" THEN origin ELSE screen
  /\ score_value' = 0 /\ combo_count' = 0 /\ bomb_hits' = 0
  /\ UNCHANGED <<clockVars, spawnVars, bookVars, prev_blade_valid, elapsed, streak>>

(* Any other move between screens leaves the last game's figures alone.    *)
Leave(screen, return) ==
  /\ ClearFruits
  /\ game_state' = screen
  /\ high_scores_return_state' = return
  /\ origin' = IF screen = "HIGHSCORES" THEN origin ELSE screen
  /\ UNCHANGED <<scoreVars, clockVars, spawnVars, bookVars, prev_blade_valid, elapsed,
                 streak>>

Bug_OpenFromStart == Leave("HIGHSCORES", "START")

OpenHighScores == Leave("HIGHSCORES", game_state)
GoTo(screen)   == Leave(screen, high_scores_return_state)

StepStart ==
  /\ pc = "step" /\ game_state = "START"
  /\ IF 1 \in pressed THEN StartGame
     ELSE IF 2 \in pressed THEN OpenHighScores
     ELSE GoTo("START")
  /\ EndFrame

StepOver ==
  /\ pc = "step" /\ game_state = "OVER"
  /\ IF 2 \in pressed THEN StartGame
     ELSE IF 1 \in pressed THEN GoTo("START")
     ELSE IF 3 \in pressed THEN OpenHighScores
     ELSE GoTo("OVER")
  /\ EndFrame

StepHighScores ==
  /\ pc = "step" /\ game_state = "HIGHSCORES"
  /\ IF 1 \in pressed THEN GoTo(high_scores_return_state)
     ELSE IF 2 \in pressed THEN StartGame
     ELSE GoTo("HIGHSCORES")
  /\ EndFrame
-----------------------------------------------------------------------------
(* The playing screen.                                                     *)

Bug_UpdateTimerLate ==
  IF time_tens = 0 /\ time_ones = 0 THEN UNCHANGED clockVars
  ELSE IF second_frame_count = FramesPerSecond
  THEN /\ second_frame_count' = 0
       /\ IF time_ones # 0
          THEN time_ones' = time_ones - 1 /\ UNCHANGED time_tens
          ELSE time_ones' = Radix - 1 /\ time_tens' = time_tens - 1
  ELSE second_frame_count' = second_frame_count + 1 /\ UNCHANGED <<time_tens, time_ones>>

UpdateTimer ==
  IF time_tens = 0 /\ time_ones = 0 THEN UNCHANGED clockVars
  ELSE IF second_frame_count = FramesPerSecond - 1
  THEN /\ second_frame_count' = 0
       /\ IF time_ones # 0
          THEN time_ones' = time_ones - 1 /\ UNCHANGED time_tens
          ELSE time_ones' = Radix - 1 /\ time_tens' = time_tens - 1
  ELSE second_frame_count' = second_frame_count + 1 /\ UNCHANGED <<time_tens, time_ones>>

StepPlaying ==
  /\ pc = "step" /\ game_state = "PLAYING"
  /\ UpdateTimer
  /\ elapsed' = elapsed + 1
  /\ pc' = "fruits"
  /\ UNCHANGED <<inputVars, prev_blade_valid, menuVars, fruits, scoreVars, spawnVars,
                 bookVars, loopVars, effects, turns, streak>>

Bug_SlotNotAdvanced ==
  /\ pc' = IF slot = NumFruits THEN "bonus" ELSE "fruits"
  /\ UNCHANGED <<inputVars, prev_blade_valid, menuVars, clockVars, spawnVars, bookVars,
                 elapsed, streak, slot>>

(* What the turn of one slot in update_fruits leaves alone.                *)
SlotDone ==
  /\ slot' = slot + 1
  /\ pc' = IF slot' = NumFruits THEN "bonus" ELSE "fruits"
  /\ UNCHANGED <<inputVars, prev_blade_valid, menuVars, clockVars, spawnVars, bookVars,
                 elapsed, streak>>

SkipSlot ==
  /\ pc = "fruits" /\ fruits[slot] = "none"
  /\ SlotDone
  /\ UNCHANGED <<fruits, scoreVars, sliced_fruits, sliced_bomb, effects, turns>>

Deactivate == fruits' = [fruits EXCEPT ![slot] = "none"]

EmitSliceEffect == effects' = effects + 1

CutBomb ==
  /\ pc = "fruits" /\ cut /\ fruits[slot] = "bomb"
  /\ turns' = Append(turns, "bomb")
  /\ EmitSliceEffect
  /\ ResetCombo
  /\ sliced_bomb' = TRUE
  /\ ApplyScoreDelta(-30)
  /\ bomb_hits' = IF bomb_hits < MaxBombs THEN bomb_hits + 1 ELSE bomb_hits
  /\ Deactivate
  /\ SlotDone
  /\ UNCHANGED sliced_fruits

CutFruit ==
  /\ pc = "fruits" /\ cut /\ fruits[slot] = "fruit"
  /\ turns' = Append(turns, "cut")
  /\ combo_count' = IF combo_count < ComboMax THEN combo_count + 1 ELSE combo_count
  /\ ApplyScoreDelta(SlicePoints(combo_count'))
  /\ EmitSliceEffect
  /\ sliced_fruits' = sliced_fruits + 1
  /\ Deactivate
  /\ SlotDone
  /\ UNCHANGED <<bomb_hits, sliced_bomb>>

StayInFlight ==
  /\ pc = "fruits" /\ fruits[slot] # "none"
  /\ SlotDone
  /\ UNCHANGED <<fruits, scoreVars, sliced_fruits, sliced_bomb, effects, turns>>

LeaveScreen ==
  /\ pc = "fruits" /\ fruits[slot] # "none"
  /\ IF fruits[slot] = "fruit"
     THEN ResetCombo /\ ApplyScoreDelta(-5) /\ turns' = Append(turns, "miss")
     ELSE UNCHANGED <<combo_count, score_value, turns>>
  /\ Deactivate
  /\ SlotDone
  /\ UNCHANGED <<bomb_hits, sliced_fruits, sliced_bomb, effects>>

Bonus ==
  /\ pc = "bonus"
  /\ IF sliced_fruits > 1 /\ ~sliced_bomb
     THEN ApplyScoreDelta(MultiSliceBonus(sliced_fruits))
     ELSE UNCHANGED score_value
  /\ pc' = "verdict"
  /\ UNCHANGED <<inputVars, prev_blade_valid, menuVars, fruits, combo_count, bomb_hits,
                 clockVars, spawnVars, bookVars, loopVars, effects, elapsed, turns,
                 streak>>

Bug_FinishedByTime == time_tens = 0 /\ time_ones = 0

Finished == (time_tens = 0 /\ time_ones = 0) \/ bomb_hits >= MaxBombs

FinishGame ==
  /\ pc = "verdict" /\ Finished
  /\ ClearFruits
  /\ top_scores' = Recorded(score_value)
  /\ game_state' = "OVER" /\ origin' = "OVER"
  /\ finals' = Append(finals, score_value)
  /\ EndFrame /\ streak' = InRow(streak, turns)
  /\ UNCHANGED <<prev_blade_valid, high_scores_return_state, scoreVars, clockVars,
                 spawnVars, elapsed>>

FreeSlots == {s \in Slots : fruits[s] = "none"}
FirstFree == CHOOSE s \in FreeSlots : \A t \in FreeSlots : s <= t
SpawnDue  == auto_spawn_timer >= next_spawn_delay \/ 2 \in pressed

SpawnFruit ==
  /\ pc = "verdict" /\ ~Finished /\ FreeSlots # {} /\ SpawnDue
  /\ \E kind \in {"fruit", "bomb"} : fruits' = [fruits EXCEPT ![FirstFree] = kind]
  /\ auto_spawn_timer' = 0
  /\ next_spawn_delay' \in SpawnDelays
  /\ EndFrame /\ streak' = InRow(streak, turns)
  /\ UNCHANGED <<prev_blade_valid, menuVars, scoreVars, clockVars, bookVars, elapsed>>

NoSpawn ==
  /\ pc = "verdict" /\ ~Finished /\ (FreeSlots = {} \/ ~SpawnDue)
  /\ auto_spawn_timer' = IF FreeSlots # {} /\ auto_spawn_timer < TimerCap
                         THEN auto_spawn_timer + 1 ELSE auto_spawn_timer
  /\ EndFrame /\ streak' = InRow(streak, turns)
  /\ UNCHANGED <<prev_blade_valid, menuVars, fruits, scoreVars, clockVars,
                 next_spawn_delay, bookVars, elapsed>>
-----------------------------------------------------------------------------
Next ==
  \/ ReadInputs
  \/ StepStart \/ StepOver \/ StepHighScores \/ StepPlaying
  \/ SkipSlot \/ CutBomb \/ CutFruit \/ StayInFlight \/ LeaveScreen
  \/ Bonus
  \/ FinishGame \/ SpawnFruit \/ NoSpawn

Spec == Init /\ [][Next]_vars

(* The main loop never blocks and the frame counter keeps ticking.         *)
FairSpec == Spec /\ WF_vars(Next)
-----------------------------------------------------------------------------
(* What the program promises.                                              *)

(* The frame handed to the FPGA never shows a game in progress whose clock  *)
(* is at 00 or whose bombs are used up: game_step ends the game in the same *)
(* frame, whatever was cut, missed or spawned in it and in whatever slot   *)
(* order.                                                                  *)
PlayingIsAlive ==
  pc \in {"wait", "step"} /\ game_state = "PLAYING" => Time > 0 /\ bomb_hits < MaxBombs

(* A fruit is in flight on the playing screen only: no path through the     *)
(* menus or the end of a game leaves a descriptor active behind it.        *)
NoFruitOffScreen == game_state # "PLAYING" => fruits = NoFruits

(* The two timer digits and the frame divider together count exactly the   *)
(* frames played, through every borrow and up to the end of the game.      *)
ClockExact ==
  (StartTime - Time) * FramesPerSecond + second_frame_count = elapsed

(* Once a game is over, and while its figures stay on screen, it ended for  *)
(* a reason the screen shows, and the score shown is the one recorded.     *)
OverIsJustified ==
  origin = "OVER" =>
    /\ Finished
    /\ finals # <<>>
    /\ score_value = finals[Len(finals)]

(* The table holds the NumTop best finals of all games played, best first:  *)
(* record_score drops no better score, keeps ties and records no game      *)
(* twice, however the player moves between the screens.                    *)
TopScoresAreBest ==
  LET AtLeast(f, v) == Cardinality({i \in DOMAIN f : f[i] >= v})
      Least(a, b) == IF a < b THEN a ELSE b
  IN  /\ \A i, j \in Ranks : i < j => top_scores[i] >= top_scores[j]
      /\ \A v \in 1 .. MaxScore :
           AtLeast(top_scores, v) = Least(NumTop, AtLeast(finals, v))

(* The high score screen goes back to the screen it was opened from.       *)
ReturnPath == game_state = "HIGHSCORES" => high_scores_return_state = origin

(* What the turn that comes last is worth: a cut the more, the more fruits   *)
(* were cut in a row up to it, in this frame or in those before.           *)
Worth(before, t) ==
  CASE t[Len(t)] = "cut"  -> SlicePoints(InRow(before, t))
    [] t[Len(t)] = "bomb" -> -30
    [] t[Len(t)] = "miss" -> -5

(* Every turn moves the score by its worth, whatever was cut or missed in   *)
(* which slot before it: a fruit missed or a bomb cut between two cuts      *)
(* starts the row again.  The bonus counts all fruits cut in the frame and *)
(* is cancelled by a bomb in any slot, and by then each cut has sent its   *)
(* effect word: no points without something cut on screen.                 *)
CutsAreScored ==
  [][/\ pc = "fruits" =>
          score_value' = IF turns' = turns THEN score_value
                         ELSE Clamp(score_value + Worth(streak, turns'))
     /\ pc = "bonus" =>
          /\ score_value' = Clamp(score_value +
                               IF Count(turns, {"bomb"}) > 0 THEN 0
                               ELSE MultiSliceBonus(Count(turns, {"cut"})))
          /\ effects = Count(turns, {"cut", "bomb"})]_vars

(* The score moves only while a game is being played, or back to zero as   *)
(* the next one starts: the menus never alter the figures they show.       *)
ScoreSettled ==
  [][score_value' # score_value =>
       game_state = "PLAYING" \/ (game_state' = "PLAYING" /\ score_value' = 0)]_vars

(* Every game ends, whatever the player does or leaves undone.             *)
GameEnds == game_state = "PLAYING" ~> game_state = "OVER"
=============================================================================
