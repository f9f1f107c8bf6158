----------------------------- MODULE GameProofs -----------------------------
(***************************************************************************)
(* Proofs about the game program: its invariants hold for any number of    *)
(* slots, bombs and table entries, any score ceiling and any clock.        *)
(***************************************************************************)
EXTENDS Game, FiniteSetTheorems, SequenceTheorems, TLAPS

(* Where the loop of update_fruits stands: the index is in range while the  *)
(* loop runs and the counters never exceed the slots already visited.      *)
LoopInv ==
  /\ pc \in {"wait", "step"} => slot = 0
  /\ pc = "fruits" => slot < NumFruits
  /\ sliced_fruits <= slot
  /\ effects <= slot

(* The screen fixes what the other menu variables hold.                     *)
ScreenInv ==
  /\ game_state # "HIGHSCORES" => origin = game_state
  /\ game_state = "HIGHSCORES" => origin = high_scores_return_state
  /\ pc \in {"fruits", "bonus", "verdict"} => game_state = "PLAYING"

IInv ==
  /\ TypeOK
  /\ LoopInv
  /\ ScreenInv
  /\ NoFruitOffScreen
  /\ ClockExact
  /\ PlayingIsAlive
  /\ OverIsJustified

-----------------------------------------------------------------------------
(* The clamp of apply_score_delta keeps the score in its range.             *)
LEMMA ClampRange == \A x \in Int : Clamp(x) \in 0 .. MaxScore
  BY GameAssumption DEF Clamp

(* What a slice pays is a whole number of points, whatever the combo.       *)
LEMMA SlicePointsInt == \A c \in Nat : SlicePoints(c) \in Int
  BY DEF SlicePoints

(* Recording a score leaves a table of the same shape.                      *)
LEMMA RecordedType ==
  ASSUME top_scores \in [Ranks -> 0 .. MaxScore], NEW score \in 0 .. MaxScore
  PROVE  Recorded(score) \in [Ranks -> 0 .. MaxScore]
  <1> DEFINE Beaten(k) == \E i \in 1 .. k : score > top_scores[i]
  <1>1. SUFFICES ASSUME NEW k \in Ranks, Beaten(k), Beaten(k - 1)
                 PROVE  top_scores[k - 1] \in 0 .. MaxScore
    BY DEF Recorded
  <1>2. k - 1 \in Ranks
    BY <1>1, GameAssumption DEF Ranks
  <1> QED BY <1>2

LEMMA InitIInv == Init => IInv
  <1> SUFFICES ASSUME Init PROVE IInv
    OBVIOUS
  <1> USE GameAssumption DEF Init
  <1>1. TypeOK
    <2>1. FlagsOK
      BY DEF FlagsOK
    <2>2. MenuOK
      BY DEF MenuOK, Screens
    <2>3. PlayOK
      BY DEF PlayOK, NoFruits
    <2>4. ClockOK
      BY DEF ClockOK
    <2>5. BookOK
      BY DEF BookOK
    <2>6. TurnsOK
      BY DEF TurnsOK
    <2> QED BY <2>1, <2>2, <2>3, <2>4, <2>5, <2>6 DEF TypeOK
  <1>2. LoopInv /\ ScreenInv /\ NoFruitOffScreen /\ PlayingIsAlive /\ OverIsJustified
    BY DEF LoopInv, ScreenInv, NoFruitOffScreen, PlayingIsAlive, OverIsJustified
  <1>3. ClockExact
    <2>1. StartTime \in Int /\ Time = StartTime
      BY DEF StartTime, Time
    <2>2. (StartTime - Time) * FramesPerSecond = 0
      BY <2>1
    <2> QED BY <2>2 DEF ClockExact
  <1> QED BY <1>1, <1>2, <1>3 DEF IInv
-----------------------------------------------------------------------------
(* One lemma per part of the invariant; in each, the actions that touch the *)
(* part in the same way are taken together.                                *)

(* The two inputs and the flag of update_fruits stay Boolean.               *)
LEMMA FlagsStep == FlagsOK /\ Next => FlagsOK'
  <1> SUFFICES ASSUME FlagsOK, Next PROVE FlagsOK'
    OBVIOUS
  <1> USE DEF FlagsOK, inputVars, loopVars, EndFrame, SlotDone
  <1>1. CASE ReadInputs
    BY <1>1 DEF ReadInputs, BladeCutActive
  <1>2. CASE StepStart \/ StepOver \/ StepHighScores
    BY <1>2 DEF StepStart, StepOver, StepHighScores, StartGame, OpenHighScores, GoTo, Leave
  <1>3. CASE StepPlaying \/ Bonus
    BY <1>3 DEF StepPlaying, Bonus
  <1>4. CASE SkipSlot \/ CutBomb \/ CutFruit \/ StayInFlight \/ LeaveScreen
    BY <1>4 DEF SkipSlot, CutBomb, CutFruit, StayInFlight, LeaveScreen
  <1>5. CASE FinishGame \/ SpawnFruit \/ NoSpawn
    BY <1>5 DEF FinishGame, SpawnFruit, NoSpawn
  <1> QED BY <1>1, <1>2, <1>3, <1>4, <1>5 DEF Next

(* The keys are keys and the screens are screens; the high score screen can *)
(* only return to the two screens it is opened from.                       *)
LEMMA MenuStep == MenuOK /\ Next => MenuOK'
  <1> SUFFICES ASSUME MenuOK, Next PROVE MenuOK'
    OBVIOUS
  <1> USE DEF MenuOK, inputVars, menuVars, Screens, EndFrame, SlotDone
  <1>1. CASE ReadInputs
    BY <1>1 DEF ReadInputs, PressedKeys, Keys
  <1>2. CASE StepStart \/ StepOver \/ StepHighScores
    BY <1>2 DEF StepStart, StepOver, StepHighScores, StartGame, OpenHighScores, GoTo, Leave
  <1>3. CASE StepPlaying \/ Bonus
    BY <1>3 DEF StepPlaying, Bonus
  <1>4. CASE SkipSlot \/ CutBomb \/ CutFruit \/ StayInFlight \/ LeaveScreen
    BY <1>4 DEF SkipSlot, CutBomb, CutFruit, StayInFlight, LeaveScreen
  <1>5. CASE FinishGame \/ SpawnFruit \/ NoSpawn
    BY <1>5 DEF FinishGame, SpawnFruit, NoSpawn
  <1> QED BY <1>1, <1>2, <1>3, <1>4, <1>5 DEF Next

(* A slot of the fruit table can be set to anything a slot can hold.         *)
LEMMA SetSlot ==
  ASSUME PlayOK, NEW kind \in {"none", "fruit", "bomb"}, NEW s
  PROVE  [fruits EXCEPT ![s] = kind] \in [Slots -> {"none", "fruit", "bomb"}]
  BY DEF PlayOK

(* Slots, score, bombs, combo and spawn timers keep their ranges.           *)
LEMMA PlayStep == PlayOK /\ LoopInv /\ Next => PlayOK' /\ LoopInv'
  <1> SUFFICES ASSUME PlayOK, LoopInv, Next PROVE PlayOK' /\ LoopInv'
    OBVIOUS
  <1> USE GameAssumption
      DEF PlayOK, LoopInv, loopVars, scoreVars, spawnVars, EndFrame, SlotDone, ClearFruits,
          ResetCombo
  <1>0. NoFruits \in [Slots -> {"none", "fruit", "bomb"}]
    BY DEF NoFruits
  <1>1. CASE ReadInputs
    BY <1>1 DEF ReadInputs
  <1>2. CASE StepStart \/ StepOver \/ StepHighScores
    BY <1>0, <1>2
    DEF StepStart, StepOver, StepHighScores, StartGame, OpenHighScores, GoTo, Leave
  <1>3. CASE StepPlaying
    BY <1>3 DEF StepPlaying
  <1>4. CASE SkipSlot \/ StayInFlight
    BY <1>4 DEF SkipSlot, StayInFlight
  <1>5. CASE CutBomb
    <2>1. score_value' \in 0 .. MaxScore
      BY <1>5, ClampRange DEF CutBomb, ApplyScoreDelta
    <2>2. fruits' \in [Slots -> {"none", "fruit", "bomb"}]
      BY <1>5, SetSlot DEF CutBomb, Deactivate
    <2> QED BY <1>5, <2>1, <2>2 DEF CutBomb, EmitSliceEffect
  <1>6. CASE CutFruit
    <2>1. /\ combo_count' = IF combo_count < ComboMax THEN combo_count + 1 ELSE combo_count
          /\ score_value' = Clamp(score_value + SlicePoints(combo_count'))
          /\ effects' = effects + 1 /\ sliced_fruits' = sliced_fruits + 1
          /\ pc = "fruits" /\ SlotDone /\ UNCHANGED bomb_hits
      BY <1>6 DEF CutFruit, ApplyScoreDelta, EmitSliceEffect
    <2>2. combo_count' \in 0 .. ComboMax
      BY <2>1
    <2>3. score_value' \in 0 .. MaxScore
      BY <2>1, <2>2, ClampRange, SlicePointsInt
    <2>4. fruits' \in [Slots -> {"none", "fruit", "bomb"}]
      BY <1>6, SetSlot DEF CutFruit, Deactivate
    <2> QED BY <2>1, <2>2, <2>3, <2>4
  <1>7. CASE LeaveScreen
    <2>1. /\ \/ combo_count' = 0 /\ score_value' = Clamp(score_value + -5)
             \/ UNCHANGED <<combo_count, score_value>>
          /\ pc = "fruits" /\ SlotDone /\ UNCHANGED <<bomb_hits, sliced_fruits, effects>>
      BY <1>7 DEF LeaveScreen, ApplyScoreDelta
    <2>2. score_value' \in 0 .. MaxScore
      BY <2>1, ClampRange
    <2>3. fruits' \in [Slots -> {"none", "fruit", "bomb"}]
      BY <1>7, SetSlot DEF LeaveScreen, Deactivate
    <2> QED BY <2>1, <2>2, <2>3
  <1>8. CASE Bonus
    <2>1. MultiSliceBonus(sliced_fruits) \in Int
      BY DEF MultiSliceBonus
    <2>2. score_value' \in 0 .. MaxScore
      BY <1>8, <2>1, ClampRange DEF Bonus, ApplyScoreDelta
    <2> QED BY <1>8, <2>2 DEF Bonus
  <1>9. CASE FinishGame
    BY <1>0, <1>9 DEF FinishGame
  <1>10. CASE SpawnFruit
    <2>1. fruits' \in [Slots -> {"none", "fruit", "bomb"}]
      BY <1>10, SetSlot DEF SpawnFruit
    <2> QED BY <1>10, <2>1 DEF SpawnFruit
  <1>11. CASE NoSpawn
    BY <1>11 DEF NoSpawn
  <1> QED BY <1>1, <1>2, <1>3, <1>4, <1>5, <1>6, <1>7, <1>8, <1>9, <1>10, <1>11 DEF Next
(* The high score table and the record of finals keep their shape.          *)
LEMMA BookStep == BookOK /\ PlayOK /\ Next => BookOK'
  <1> SUFFICES ASSUME BookOK, PlayOK, Next PROVE BookOK'
    OBVIOUS
  <1> USE DEF BookOK, bookVars
  <1>1. CASE FinishGame
    <2>1. score_value \in 0 .. MaxScore
      BY DEF PlayOK
    <2>2. top_scores' \in [Ranks -> 0 .. MaxScore]
      BY <1>1, <2>1, RecordedType DEF FinishGame
    <2>3. finals' \in Seq(0 .. MaxScore)
      BY <1>1, <2>1 DEF FinishGame
    <2> QED BY <2>2, <2>3
  <1>2. CASE UNCHANGED bookVars
    BY <1>2
  <1>3. FinishGame \/ UNCHANGED bookVars
    BY DEF Next, ReadInputs, StepStart, StepOver, StepHighScores, StepPlaying, StartGame,
           OpenHighScores, GoTo, Leave, SkipSlot, CutBomb, CutFruit, StayInFlight,
           LeaveScreen, SlotDone, Bonus, SpawnFruit, NoSpawn
  <1> QED BY <1>1, <1>2, <1>3

-----------------------------------------------------------------------------
(* The turns of a frame.                                                   *)

(* The turns at the end of t that are cuts, which InRow counts.              *)
LastCuts(t) == {i \in DOMAIN t : \A j \in i .. Len(t) : t[j] = "cut"}

(* What a sequence holds after one turn more.                               *)
LEMMA AppendedTurn ==
  ASSUME NEW t \in Seq(Turns), NEW k \in Turns
  PROVE  /\ Len(t) \in Nat /\ DOMAIN t = 1 .. Len(t)
         /\ Append(t, k) \in Seq(Turns) /\ Append(t, k) # t
         /\ Len(Append(t, k)) = Len(t) + 1 /\ DOMAIN Append(t, k) = 1 .. Len(t) + 1
         /\ \A i \in 1 .. Len(t) : Append(t, k)[i] = t[i]
         /\ Append(t, k)[Len(t) + 1] = k
  BY AppendProperties, LenProperties

(* Places of a sequence of turns make a finite set, without the place after. *)
LEMMA Places ==
  ASSUME NEW t \in Seq(Turns), NEW A \in SUBSET DOMAIN t
  PROVE  /\ IsFiniteSet(A) /\ Cardinality(A) \in Nat
         /\ Cardinality(A \cup {Len(t) + 1}) = Cardinality(A) + 1
  <1>1. Len(t) \in Nat /\ DOMAIN t = 1 .. Len(t)
    BY LenProperties
  <1>2. IsFiniteSet(1 .. Len(t))
    BY <1>1, FS_Interval
  <1>3. IsFiniteSet(A)
    BY <1>1, <1>2, FS_Subset
  <1>4. Len(t) + 1 \notin A
    BY <1>1
  <1> QED BY <1>3, <1>4, FS_CardinalityType, FS_AddElement

(* One turn more counts one more if it is of the kinds counted.              *)
LEMMA CountAppend ==
  ASSUME NEW t \in Seq(Turns), NEW k \in Turns, NEW kinds
  PROVE  /\ Count(t, kinds) \in Nat
         /\ Count(Append(t, k), kinds) = Count(t, kinds) + (IF k \in kinds THEN 1 ELSE 0)
  <1> DEFINE A == {i \in DOMAIN t : t[i] \in kinds}
             u == Append(t, k)
             B == {i \in DOMAIN u : u[i] \in kinds}
  <1>1. A \in SUBSET DOMAIN t
    OBVIOUS
  <1>2. B = IF k \in kinds THEN A \cup {Len(t) + 1} ELSE A
    <2> HIDE DEF u
    <2>1. \A i : i \in DOMAIN u <=> i \in DOMAIN t \/ i = Len(t) + 1
      BY AppendedTurn DEF u
    <2>2. (\A i \in DOMAIN t : u[i] = t[i]) /\ u[Len(t) + 1] = k /\ Len(t) + 1 \notin DOMAIN t
      BY AppendedTurn DEF u
    <2> QED BY <2>1, <2>2
  <1>3. Count(t, kinds) = Cardinality(A) /\ Count(u, kinds) = Cardinality(B)
    BY DEF Count
  <1>4. Cardinality(A) \in Nat /\ Cardinality(A \cup {Len(t) + 1}) = Cardinality(A) + 1
    BY <1>1, Places
  <1> HIDE DEF A, B, u
  <1>5. /\ Count(t, kinds) \in Nat
        /\ Count(u, kinds) = Count(t, kinds) + (IF k \in kinds THEN 1 ELSE 0)
    BY <1>2, <1>3, <1>4
  <1> QED BY <1>5 DEF u

(* A row grows by a cut, up to the most there can be, and is broken by       *)
(* anything else.                                                          *)
LEMMA InRowAppend ==
  ASSUME NEW t \in Seq(Turns), NEW k \in Turns, NEW before \in 0 .. ComboMax
  PROVE  /\ InRow(before, t) \in 0 .. ComboMax
         /\ InRow(before, Append(t, k))
              = IF k # "cut" THEN 0
                ELSE IF InRow(before, t) < ComboMax THEN InRow(before, t) + 1
                ELSE InRow(before, t)
  <1> DEFINE A == LastCuts(t)
             u == Append(t, k)
             B == LastCuts(u)
  <1>0. ComboMax \in Nat \ {0}
    BY GameAssumption
  <1>1. A \in SUBSET DOMAIN t
    BY DEF LastCuts
  <1>2. /\ Len(t) \in Nat /\ DOMAIN t = 1 .. Len(t)
        /\ DOMAIN u = 1 .. Len(t) + 1 /\ Len(u) = Len(t) + 1
        /\ \A i \in 1 .. Len(t) : u[i] = t[i]
        /\ u[Len(t) + 1] = k
    BY AppendedTurn
  <1> HIDE DEF u
  <1>3. IF k = "cut" THEN B = A \cup {Len(t) + 1} ELSE B = {}
    <2>1. \A i \in DOMAIN u :
             (\A j \in i .. Len(u) : u[j] = "cut") <=> /\ \A j \in i .. Len(t) : t[j] = "cut"
                                                    /\ k = "cut"
      <3> SUFFICES ASSUME NEW i \in DOMAIN u
                   PROVE  (\A j \in i .. Len(u) : u[j] = "cut")
                            <=> (\A j \in i .. Len(t) : t[j] = "cut") /\ k = "cut"
        OBVIOUS
      <3>1. \A j : j \in i .. Len(u) <=> j \in i .. Len(t) \/ j = Len(t) + 1
        BY <1>2
      <3>2. \A j \in i .. Len(t) : u[j] = t[j]
        BY <1>2
      <3> QED BY <1>2, <3>1, <3>2
    <2>2. \A i : i \in DOMAIN u <=> i \in DOMAIN t \/ i = Len(t) + 1
      BY <1>2
    <2>3. \A j \in (Len(t) + 1) .. Len(t) : t[j] = "cut"
      BY <1>2
    <2> QED BY <2>1, <2>2, <2>3 DEF LastCuts
  <1>4. k = "cut" => (B = DOMAIN u <=> A = DOMAIN t)
    <2>1. DOMAIN u = DOMAIN t \cup {Len(t) + 1} /\ Len(t) + 1 \notin DOMAIN t
      BY <1>2
    <2> QED BY <1>1, <1>3, <2>1
  <1>5. k # "cut" => B # DOMAIN u
    <2>1. Len(t) + 1 \in DOMAIN u
      BY <1>2
    <2> QED BY <1>3, <2>1
  <1>6. Cardinality(A) \in Nat /\ Cardinality(A \cup {Len(t) + 1}) = Cardinality(A) + 1
    BY <1>1, Places
  <1>7. /\ InRow(before, t) = LET cuts == Cardinality(A) + (IF A = DOMAIN t THEN before ELSE 0)
                             IN  IF cuts > ComboMax THEN ComboMax ELSE cuts
        /\ InRow(before, u) = LET cuts == Cardinality(B) + (IF B = DOMAIN u THEN before ELSE 0)
                             IN  IF cuts > ComboMax THEN ComboMax ELSE cuts
    BY DEF InRow, LastCuts
  <1>8. Cardinality({}) = 0
    BY FS_EmptySet
  <1> HIDE DEF A, B
  <1>9. InRow(before, t) \in 0 .. ComboMax
    BY <1>0, <1>6, <1>7
  <1>10. InRow(before, u) = IF k # "cut" THEN 0
                            ELSE IF InRow(before, t) < ComboMax THEN InRow(before, t) + 1
                            ELSE InRow(before, t)
    <2>1. CASE k = "cut"
      <3>1. Cardinality(B) = Cardinality(A) + 1
        BY <1>3, <1>6, <2>1
      <3> QED BY <1>0, <1>4, <1>6, <1>7, <2>1, <3>1
    <2>2. CASE k # "cut"
      <3>1. Cardinality(B) = 0 /\ B # DOMAIN u
        BY <1>3, <1>5, <1>8, <2>2
      <3>2. InRow(before, u) = 0
        BY <1>0, <1>7, <3>1
      <3> QED BY <2>2, <3>2
    <2> QED BY <2>1, <2>2
  <1> QED BY <1>9, <1>10 DEF u

(* Before the first turn of a frame nothing is counted and the row is that   *)
(* of the frames before.                                                   *)
LEMMA NoTurns ==
  /\ \A kinds : Count(<<>>, kinds) = 0
  /\ \A before \in 0 .. ComboMax : InRow(before, <<>>) = before
  <1>1. \A kinds : Count(<<>>, kinds) = 0
    <2>1. \A kinds : {i \in DOMAIN <<>> : <<>>[i] \in kinds} = {}
      OBVIOUS
    <2> QED BY <2>1, FS_EmptySet DEF Count
  <1>2. \A before \in 0 .. ComboMax : InRow(before, <<>>) = before
    <2>1. {i \in DOMAIN <<>> : \A j \in i .. Len(<<>>) : <<>>[j] = "cut"} = {} /\ DOMAIN <<>> = {}
      OBVIOUS
    <2> QED BY <2>1, FS_EmptySet, GameAssumption DEF InRow
  <1> QED BY <1>1, <1>2

(* The history of the frame is a sequence of turns and a row of at most      *)
(* ComboMax.                                                               *)
LEMMA TurnsStep == TurnsOK /\ Next => TurnsOK'
  <1> SUFFICES ASSUME TurnsOK, Next PROVE TurnsOK'
    OBVIOUS
  <1> USE DEF TurnsOK, EndFrame, SlotDone
  <1>1. CASE ReadInputs \/ StepPlaying \/ Bonus
    BY <1>1 DEF ReadInputs, StepPlaying, Bonus
  <1>2. CASE StepStart \/ StepOver \/ StepHighScores
    <2>1. turns' = <<>> /\ (streak' = 0 \/ streak' = streak)
      BY <1>2 DEF StepStart, StepOver, StepHighScores, StartGame, OpenHighScores, GoTo, Leave
    <2>2. 0 \in 0 .. ComboMax
      BY GameAssumption
    <2> QED BY <2>1, <2>2
  <1>3. CASE SkipSlot \/ StayInFlight
    BY <1>3 DEF SkipSlot, StayInFlight
  <1>4. CASE CutBomb \/ CutFruit \/ LeaveScreen
    BY <1>4, AppendedTurn DEF CutBomb, CutFruit, LeaveScreen, Turns
  <1>5. CASE FinishGame \/ SpawnFruit \/ NoSpawn
    <2>1. streak' = InRow(streak, turns) /\ turns' = <<>>
      BY <1>5 DEF FinishGame, SpawnFruit, NoSpawn
    <2> QED BY <2>1, InRowAppend DEF Turns
  <1> QED BY <1>1, <1>2, <1>3, <1>4, <1>5 DEF Next

-----------------------------------------------------------------------------
(* Which screen is shown, which one it returns to and where in the frame     *)
(* the program stands always agree, and only play puts a fruit on screen.  *)
LEMMA ScreenStep ==
  MenuOK /\ ScreenInv /\ NoFruitOffScreen /\ Next => ScreenInv' /\ NoFruitOffScreen'
  <1> SUFFICES ASSUME MenuOK, ScreenInv, NoFruitOffScreen, Next
               PROVE  ScreenInv' /\ NoFruitOffScreen'
    OBVIOUS
  <1> USE DEF ScreenInv, NoFruitOffScreen, menuVars, EndFrame, SlotDone, ClearFruits
  <1>1. CASE ReadInputs
    BY <1>1 DEF ReadInputs
  <1>2. CASE StepStart \/ StepOver \/ StepHighScores
    BY <1>2
    DEF StepStart, StepOver, StepHighScores, StartGame, OpenHighScores, GoTo, Leave, MenuOK,
        NoFruits
  <1>3. CASE StepPlaying \/ Bonus
    BY <1>3 DEF StepPlaying, Bonus
  <1>4. CASE SkipSlot \/ CutBomb \/ CutFruit \/ StayInFlight \/ LeaveScreen
    BY <1>4 DEF SkipSlot, CutBomb, CutFruit, StayInFlight, LeaveScreen
  <1>5. CASE FinishGame
    BY <1>5 DEF FinishGame, NoFruits
  <1>6. CASE SpawnFruit \/ NoSpawn
    BY <1>6 DEF SpawnFruit, NoSpawn
  <1> QED BY <1>1, <1>2, <1>3, <1>4, <1>5, <1>6 DEF Next

-----------------------------------------------------------------------------
(* The clock.                                                              *)

(* Two digits read zero exactly when the time they stand for is zero.       *)
LEMMA TimeZero ==
  ClockOK => Time \in Nat /\ (Time = 0 <=> time_tens = 0 /\ time_ones = 0)
  <1> SUFFICES ASSUME ClockOK
               PROVE  Time \in Nat /\ (Time = 0 <=> time_tens = 0 /\ time_ones = 0)
    OBVIOUS
  <1>1. time_tens \in Nat /\ time_ones \in Nat /\ Radix \in Nat \ {0}
    BY GameAssumption DEF ClockOK
  <1>2. \A r \in Nat \ {0}, t \in Nat : r * t \in Nat /\ (r * t = 0 <=> t = 0)
    OBVIOUS
  <1>3. Radix * time_tens \in Nat /\ (Radix * time_tens = 0 <=> time_tens = 0)
    BY <1>1, <1>2
  <1> QED BY <1>1, <1>3 DEF Time

(* A new game starts with time on the clock.                                *)
LEMMA StartTimePositive == StartTime \in Nat /\ StartTime > 0
  <1>1. \A r, t \in Nat \ {0} : r * t \in Nat /\ r * t > 0
    OBVIOUS
  <1>2. Radix \in Nat \ {0} /\ StartTens \in Nat \ {0}
    BY GameAssumption
  <1> QED BY <1>1, <1>2 DEF StartTime

(* Every second takes exactly one off the clock, with or without a borrow,  *)
(* so that no frame played is lost or counted twice.                       *)
LEMMA ClockStep ==
  ClockOK /\ ScreenInv /\ PlayingIsAlive /\ ClockExact /\ Next => ClockOK' /\ ClockExact'
  <1> SUFFICES ASSUME ClockOK, ScreenInv, PlayingIsAlive, ClockExact, Next
               PROVE  ClockOK' /\ ClockExact'
    OBVIOUS
  <1>1. CASE UNCHANGED <<clockVars, elapsed>>
    BY <1>1 DEF ClockOK, ClockExact, Time, clockVars
  <1>2. CASE StartGame
    <2>1. ClockOK'
      BY <1>2, GameAssumption DEF StartGame, ClockOK
    <2>2. Time' = StartTime
      BY <1>2, StartTimePositive DEF StartGame, Time, StartTime
    <2>3. (StartTime - Time') * FramesPerSecond = 0
      BY <2>2, StartTimePositive, GameAssumption
    <2> QED BY <1>2, <2>1, <2>3 DEF ClockExact, StartGame
  <1>3. CASE StepPlaying
    <2>1. Time \in Nat /\ ~(time_tens = 0 /\ time_ones = 0)
      BY <1>3, TimeZero DEF PlayingIsAlive, StepPlaying
    <2>2. elapsed' = elapsed + 1
      BY <1>3 DEF StepPlaying
    <2>3. CASE second_frame_count = FramesPerSecond - 1
      <3>1. ClockOK'
        BY <1>3, <2>1, <2>3, GameAssumption DEF StepPlaying, UpdateTimer, ClockOK
      <3>2. \A r, t \in Int : r * (t - 1) = r * t - r
        OBVIOUS
      <3>3. Radix * (time_tens - 1) = Radix * time_tens - Radix
        BY <3>2, GameAssumption DEF ClockOK
      <3>4. Radix * time_tens \in Int /\ Radix \in Int
        BY GameAssumption DEF ClockOK
      <3>5. Time' = Time - 1
        BY <1>3, <2>1, <2>3, <3>3, <3>4
        DEF StepPlaying, UpdateTimer, Time, ClockOK
      <3>6. \A s, t, f \in Int : (s - (t - 1)) * f = (s - t) * f + f
        OBVIOUS
      <3>7. (StartTime - Time') * FramesPerSecond
              = (StartTime - Time) * FramesPerSecond + FramesPerSecond
        BY <2>1, <3>5, <3>6, StartTimePositive, GameAssumption
      <3>8. second_frame_count' = 0
        BY <1>3, <2>1, <2>3 DEF StepPlaying, UpdateTimer
      <3>9. (StartTime - Time) * FramesPerSecond \in Int /\ FramesPerSecond \in Int
        BY <2>1, StartTimePositive, GameAssumption
      <3> QED BY <2>2, <2>3, <3>1, <3>7, <3>8, <3>9 DEF ClockExact, ClockOK
    <2>4. CASE second_frame_count # FramesPerSecond - 1
      <3>1. /\ second_frame_count' = second_frame_count + 1
            /\ UNCHANGED <<time_tens, time_ones>>
        BY <1>3, <2>1, <2>4 DEF StepPlaying, UpdateTimer
      <3>2. ClockOK'
        BY <2>2, <2>4, <3>1, GameAssumption DEF ClockOK
      <3>3. Time' = Time
        BY <3>1 DEF Time
      <3>4. (StartTime - Time) * FramesPerSecond \in Int
        BY <2>1, StartTimePositive, GameAssumption
      <3> QED BY <2>2, <3>1, <3>2, <3>3, <3>4 DEF ClockExact, ClockOK
    <2> QED BY <2>3, <2>4
  <1>4. StepPlaying \/ StartGame \/ UNCHANGED <<clockVars, elapsed>>
    BY DEF Next, ReadInputs, StepStart, StepOver, StepHighScores, OpenHighScores, GoTo, Leave,
           SkipSlot, CutBomb, CutFruit, StayInFlight, LeaveScreen, SlotDone, Bonus,
           FinishGame, SpawnFruit, NoSpawn
  <1> QED BY <1>1, <1>2, <1>3, <1>4
-----------------------------------------------------------------------------
(* A frame that leaves the program on the playing screen has passed the      *)
(* verdict, or has just started a game.                                    *)
LEMMA AliveStep == TypeOK /\ ScreenInv /\ PlayingIsAlive /\ Next => PlayingIsAlive'
  <1> SUFFICES ASSUME TypeOK, ScreenInv, PlayingIsAlive, Next PROVE PlayingIsAlive'
    OBVIOUS
  <1> USE DEF PlayingIsAlive, EndFrame
  <1>1. CASE ReadInputs
    BY <1>1 DEF ReadInputs, menuVars, clockVars, scoreVars, Time
  <1>2. CASE StartGame
    <2>1. Time' = StartTime
      BY <1>2, StartTimePositive DEF StartGame, Time, StartTime
    <2> QED BY <1>2, <2>1, StartTimePositive, GameAssumption DEF StartGame
  <1>3. CASE pc' \notin {"wait", "step"} \/ game_state' # "PLAYING"
    BY <1>3
  <1>4. CASE SpawnFruit \/ NoSpawn
    <2>1. Time \in Nat /\ Time # 0 /\ ~(bomb_hits >= MaxBombs)
      BY <1>4, TimeZero DEF SpawnFruit, NoSpawn, Finished, TypeOK
    <2>2. UNCHANGED <<time_tens, time_ones, bomb_hits>>
      BY <1>4 DEF SpawnFruit, NoSpawn, clockVars, scoreVars
    <2>3. bomb_hits \in Int /\ MaxBombs \in Int
      BY GameAssumption DEF TypeOK, PlayOK
    <2> QED BY <2>1, <2>2, <2>3 DEF Time
  <1>5. \/ ReadInputs \/ StartGame \/ SpawnFruit \/ NoSpawn
        \/ pc' \notin {"wait", "step"} \/ game_state' # "PLAYING"
    BY DEF Next, StepStart, StepOver, StepHighScores, StepPlaying, OpenHighScores, GoTo,
           Leave, SkipSlot, CutBomb, CutFruit, StayInFlight, LeaveScreen, SlotDone, Bonus,
           FinishGame, TypeOK, MenuOK
  <1> QED BY <1>1, <1>2, <1>3, <1>4, <1>5

(* Between the end of a game and the start of the next one no step changes  *)
(* the figures on screen or the record of finals.                          *)
LEMMA OverStep ==
  TypeOK /\ ScreenInv /\ OverIsJustified /\ Next => OverIsJustified'
  <1> SUFFICES ASSUME TypeOK, ScreenInv, OverIsJustified, Next PROVE OverIsJustified'
    OBVIOUS
  <1>1. CASE FinishGame
    <2>1. finals' = Append(finals, score_value) /\ finals \in Seq(0 .. MaxScore)
      BY <1>1 DEF FinishGame, TypeOK, BookOK
    <2>2. finals' # <<>> /\ finals'[Len(finals')] = score_value
      BY <2>1
    <2>3. Finished' /\ score_value' = score_value
      BY <1>1 DEF FinishGame, Finished, clockVars, scoreVars
    <2> QED BY <2>2, <2>3 DEF OverIsJustified
  <1>2. CASE origin' # "OVER"
    BY <1>2 DEF OverIsJustified
  <1>3. CASE origin = "OVER" /\ UNCHANGED <<scoreVars, clockVars, bookVars>>
    BY <1>3 DEF OverIsJustified, Finished, scoreVars, clockVars, bookVars
  <1>4. CASE game_state = "PLAYING" /\ UNCHANGED menuVars
    BY <1>4 DEF OverIsJustified, ScreenInv, menuVars
  <1>5. CASE ReadInputs
    BY <1>5
    DEF ReadInputs, OverIsJustified, Finished, menuVars, scoreVars, clockVars, bookVars
  <1>6. CASE StepStart \/ StepOver \/ StepHighScores
    BY <1>2, <1>3, <1>6
    DEF StepStart, StepOver, StepHighScores, StartGame, OpenHighScores, GoTo, Leave,
        ScreenInv
  <1>7. CASE StepPlaying
    BY <1>4, <1>7 DEF StepPlaying
  <1>8. CASE SkipSlot \/ CutBomb \/ CutFruit \/ StayInFlight \/ LeaveScreen
    BY <1>4, <1>8
    DEF SkipSlot, CutBomb, CutFruit, StayInFlight, LeaveScreen, SlotDone, ScreenInv
  <1>9. CASE Bonus \/ SpawnFruit \/ NoSpawn
    BY <1>4, <1>9 DEF Bonus, SpawnFruit, NoSpawn, ScreenInv
  <1> QED BY <1>1, <1>5, <1>6, <1>7, <1>8, <1>9 DEF Next

-----------------------------------------------------------------------------
(* The invariant holds in every reachable state, for every value of the      *)
(* constants.                                                              *)
THEOREM Invariance == Spec => []IInv
  <1>1. IInv /\ Next => IInv'
    BY FlagsStep, MenuStep, PlayStep, ClockStep, BookStep, TurnsStep, ScreenStep, AliveStep,
       OverStep
    DEF IInv, TypeOK
  <1>2. IInv /\ UNCHANGED vars => IInv'
    <2> SUFFICES ASSUME IInv, UNCHANGED vars PROVE IInv'
      OBVIOUS
    <2> USE DEF vars, inputVars, loopVars, clockVars, spawnVars, menuVars, scoreVars, bookVars
    <2>1. FlagsOK' /\ MenuOK'
      BY DEF IInv, TypeOK, FlagsOK, MenuOK
    <2>2. PlayOK' /\ LoopInv'
      BY DEF IInv, TypeOK, PlayOK, LoopInv
    <2>3. ClockOK' /\ BookOK' /\ TurnsOK'
      BY DEF IInv, TypeOK, ClockOK, BookOK, TurnsOK
    <2>4. ScreenInv' /\ NoFruitOffScreen' /\ ClockExact' /\ PlayingIsAlive'
      BY DEF IInv, ScreenInv, NoFruitOffScreen, ClockExact, PlayingIsAlive, Time
    <2>5. OverIsJustified'
      BY DEF IInv, OverIsJustified, Finished
    <2> QED BY <2>1, <2>2, <2>3, <2>4, <2>5 DEF IInv, TypeOK
  <1> QED BY InitIInv, <1>1, <1>2, PTL DEF Spec

(* Every variable of the program keeps its type: the score fits its clamp,   *)
(* the bombs their two bits, the slot index the fruit table.               *)
THEOREM TypeCorrectness == Spec => []TypeOK
  <1>1. IInv => TypeOK
    BY DEF IInv
  <1> QED BY Invariance, <1>1, PTL

(* No published frame shows a game in progress that is already decided.     *)
THEOREM AliveTheorem == Spec => []PlayingIsAlive
  <1>1. IInv => PlayingIsAlive
    BY DEF IInv
  <1> QED BY Invariance, <1>1, PTL

(* The clock counts exactly the frames played.                              *)
THEOREM ClockTheorem == Spec => []ClockExact
  <1>1. IInv => ClockExact
    BY DEF IInv
  <1> QED BY Invariance, <1>1, PTL

(* Fruits are in flight on the playing screen only.                         *)
THEOREM FruitTheorem == Spec => []NoFruitOffScreen
  <1>1. IInv => NoFruitOffScreen
    BY DEF IInv
  <1> QED BY Invariance, <1>1, PTL

(* A finished game shows why it ended and the score that was recorded.       *)
THEOREM OverTheorem == Spec => []OverIsJustified
  <1>1. IInv => OverIsJustified
    BY DEF IInv
  <1> QED BY Invariance, <1>1, PTL

(* The high score screen returns to the screen it was opened from.            *)
THEOREM ReturnTheorem == Spec => []ReturnPath
  <1>1. IInv => ReturnPath
    BY DEF IInv, ScreenInv, ReturnPath
  <1> QED BY Invariance, <1>1, PTL

-----------------------------------------------------------------------------
(* The score.                                                               *)

(* The program's counters are what the turns of the frame say.                *)
TurnsInv ==
  /\ pc \in {"wait", "step"} => turns = <<>>
  /\ combo_count = InRow(streak, turns)
  /\ sliced_fruits = Count(turns, {"cut"})
  /\ sliced_bomb <=> Count(turns, {"bomb"}) > 0
  /\ effects = Count(turns, {"cut", "bomb"})

(* A turn of one slot adds at most one turn to the sequence, and a fruit that *)
(* is cut pays for the row that it ends.                                    *)
LEMMA TurnAdded ==
  ASSUME TypeOK, TurnsInv, Next, pc = "fruits"
  PROVE  /\ TurnsInv'
         /\ score_value' = IF turns' = turns THEN score_value
                           ELSE Clamp(score_value + Worth(streak, turns'))
  <1> USE DEF SlotDone, ResetCombo, EmitSliceEffect
  <1>1. turns \in Seq(Turns) /\ streak \in 0 .. ComboMax
    BY DEF TypeOK, TurnsOK
  <1>2. UNCHANGED streak /\ pc' \in {"fruits", "bonus"}
    BY DEF Next, ReadInputs, StepStart, StepOver, StepHighScores, StepPlaying, SkipSlot, CutBomb,
           CutFruit, StayInFlight, LeaveScreen, Bonus, FinishGame, SpawnFruit, NoSpawn
  <1>3. ASSUME NEW k \in Turns, turns' = Append(turns, k)
        PROVE  /\ InRow(streak, turns') = IF k # "cut" THEN 0
                                          ELSE IF combo_count < ComboMax THEN combo_count + 1
                                          ELSE combo_count
               /\ \A kinds : /\ Count(turns, kinds) \in Nat
                             /\ Count(turns', kinds)
                                  = Count(turns, kinds) + (IF k \in kinds THEN 1 ELSE 0)
               /\ turns' # turns /\ turns'[Len(turns')] = k
    BY <1>1, <1>3, AppendedTurn, CountAppend, InRowAppend DEF TurnsInv
  <1>4. CASE CutBomb
    <2>1. turns' = Append(turns, "bomb") /\ "bomb" \in Turns
      BY <1>4 DEF CutBomb, Turns
    <2>2. /\ combo_count' = 0 /\ sliced_bomb' = TRUE /\ sliced_fruits' = sliced_fruits
          /\ effects' = effects + 1 /\ score_value' = Clamp(score_value + -30)
      BY <1>4 DEF CutBomb, ApplyScoreDelta
    <2>3. Worth(streak, turns') = -30
      BY <1>3, <2>1 DEF Worth
    <2> QED BY <1>2, <1>3, <2>1, <2>2, <2>3 DEF TurnsInv
  <1>5. CASE CutFruit
    <2>1. turns' = Append(turns, "cut") /\ "cut" \in Turns
      BY <1>5 DEF CutFruit, Turns
    <2>2. /\ combo_count' = IF combo_count < ComboMax THEN combo_count + 1 ELSE combo_count
          /\ sliced_bomb' = sliced_bomb /\ sliced_fruits' = sliced_fruits + 1
          /\ effects' = effects + 1 /\ score_value' = Clamp(score_value + SlicePoints(combo_count'))
      BY <1>5 DEF CutFruit, ApplyScoreDelta
    <2>3. Worth(streak, turns') = SlicePoints(combo_count')
      BY <1>3, <2>1, <2>2 DEF Worth
    <2> QED BY <1>2, <1>3, <2>1, <2>2, <2>3 DEF TurnsInv
  <1>6. CASE LeaveScreen /\ fruits[slot] = "fruit"
    <2>1. turns' = Append(turns, "miss") /\ "miss" \in Turns
      BY <1>6 DEF LeaveScreen, Turns
    <2>2. /\ combo_count' = 0 /\ sliced_bomb' = sliced_bomb /\ sliced_fruits' = sliced_fruits
          /\ effects' = effects /\ score_value' = Clamp(score_value + -5)
      BY <1>6 DEF LeaveScreen, ApplyScoreDelta
    <2>3. Worth(streak, turns') = -5
      BY <1>3, <2>1 DEF Worth
    <2> QED BY <1>2, <1>3, <2>1, <2>2, <2>3 DEF TurnsInv
  <1>7. CASE SkipSlot \/ StayInFlight \/ (LeaveScreen /\ fruits[slot] # "fruit")
    <2>1. UNCHANGED <<turns, combo_count, sliced_bomb, sliced_fruits, effects, score_value>>
      BY <1>7 DEF SkipSlot, StayInFlight, LeaveScreen, scoreVars
    <2> QED BY <1>2, <2>1 DEF TurnsInv
  <1>8. SkipSlot \/ StayInFlight \/ CutBomb \/ CutFruit \/ LeaveScreen
    BY DEF Next, ReadInputs, StepStart, StepOver, StepHighScores, StepPlaying, Bonus,
           FinishGame, SpawnFruit, NoSpawn
  <1> QED BY <1>4, <1>5, <1>6, <1>7, <1>8

(* Between the loops of two frames the counters are cleared and the combo    *)
(* carries the row over.                                                   *)
LEMMA TurnsKept ==
  ASSUME TypeOK, TurnsInv, Next, pc # "fruits"
  PROVE  TurnsInv'
  <1>1. turns \in Seq(Turns) /\ streak \in 0 .. ComboMax
    BY DEF TypeOK, TurnsOK
  <1>2. /\ \A kinds : Count(<<>>, kinds) = 0
        /\ InRow(streak, <<>>) = streak /\ InRow(0, <<>>) = 0
        /\ InRow(InRow(streak, turns), <<>>) = InRow(streak, turns)
    <2>1. InRow(streak, turns) \in 0 .. ComboMax
      BY <1>1, InRowAppend DEF Turns
    <2>2. 0 \in 0 .. ComboMax
      BY GameAssumption
    <2> QED BY <1>1, <2>1, <2>2, NoTurns
  <1>3. CASE ReadInputs \/ StepPlaying \/ Bonus
    <2>1. UNCHANGED <<turns, streak, combo_count, sliced_bomb, sliced_fruits, effects>>
      BY <1>3 DEF ReadInputs, StepPlaying, Bonus, scoreVars, loopVars
    <2>2. pc' \in {"wait", "step"} => pc = "wait"
      BY <1>3 DEF ReadInputs, StepPlaying, Bonus
    <2> QED BY <2>1, <2>2 DEF TurnsInv
  <1>4. CASE StepStart \/ StepOver \/ StepHighScores
    <2>1. pc = "step" /\ turns' = <<>> /\ effects' = 0 /\ sliced_fruits' = 0 /\ sliced_bomb' = FALSE
      BY <1>4 DEF StepStart, StepOver, StepHighScores, EndFrame
    <2>2. \/ combo_count' = 0 /\ streak' = 0
          \/ UNCHANGED <<combo_count, streak>>
      BY <1>4 DEF StepStart, StepOver, StepHighScores, StartGame, OpenHighScores, GoTo, Leave,
                  ResetCombo, scoreVars
    <2> QED BY <1>2, <2>1, <2>2 DEF TurnsInv
  <1>5. CASE FinishGame \/ SpawnFruit \/ NoSpawn
    <2>1. /\ turns' = <<>> /\ effects' = 0 /\ sliced_fruits' = 0 /\ sliced_bomb' = FALSE
          /\ combo_count' = combo_count /\ streak' = InRow(streak, turns)
      BY <1>5 DEF FinishGame, SpawnFruit, NoSpawn, EndFrame, scoreVars
    <2> QED BY <1>2, <2>1 DEF TurnsInv
  <1>6. ~(SkipSlot \/ StayInFlight \/ CutBomb \/ CutFruit \/ LeaveScreen)
    BY DEF SkipSlot, StayInFlight, CutBomb, CutFruit, LeaveScreen
  <1> QED BY <1>3, <1>4, <1>5, <1>6 DEF Next

(* The counters agree with the turns in every reachable state.               *)
LEMMA TurnsInvariance == Spec => [](TypeOK /\ TurnsInv)
  <1>1. Init => TurnsInv
    <2>1. 0 \in 0 .. ComboMax
      BY GameAssumption
    <2> QED BY <2>1, NoTurns DEF Init, TurnsInv
  <1>2. TypeOK /\ TurnsInv /\ [Next]_vars => TurnsInv'
    <2>1. TurnsInv /\ UNCHANGED vars => TurnsInv'
      BY DEF vars, loopVars, scoreVars, TurnsInv
    <2> QED BY <2>1, TurnAdded, TurnsKept
  <1> QED BY <1>1, <1>2, TypeCorrectness, PTL DEF Spec

(* The bonus is that of the fruits cut in the frame, none if a bomb was cut.  *)
LEMMA BonusPaid ==
  ASSUME TypeOK, TurnsInv, Next, pc = "bonus"
  PROVE  score_value' = Clamp(score_value +
                          IF Count(turns, {"bomb"}) > 0 THEN 0
                          ELSE MultiSliceBonus(Count(turns, {"cut"})))
  <1>1. Bonus
    BY DEF Next, ReadInputs, StepStart, StepOver, StepHighScores, StepPlaying, SkipSlot, CutBomb,
           CutFruit, StayInFlight, LeaveScreen, FinishGame, SpawnFruit, NoSpawn
  <1>2. /\ score_value \in 0 .. MaxScore /\ MaxScore \in Nat
        /\ sliced_fruits \in Nat /\ sliced_bomb \in BOOLEAN
    BY GameAssumption DEF TypeOK, PlayOK, FlagsOK
  <1>3. Clamp(score_value + 0) = score_value
    BY <1>2 DEF Clamp
  <1>4. ~(sliced_fruits > 1) => MultiSliceBonus(sliced_fruits) = 0
    BY <1>2 DEF MultiSliceBonus
  <1>5. score_value' = IF sliced_fruits > 1 /\ ~sliced_bomb
                       THEN Clamp(score_value + MultiSliceBonus(sliced_fruits)) ELSE score_value
    BY <1>1 DEF Bonus, ApplyScoreDelta
  <1>6. CASE sliced_bomb
    BY <1>3, <1>5, <1>6 DEF TurnsInv
  <1>7. CASE ~sliced_bomb
    BY <1>3, <1>4, <1>5, <1>7 DEF TurnsInv
  <1> QED BY <1>6, <1>7

(* Every cut and miss moves the score by what the turns before it make it     *)
(* worth, in whatever slots they were, and the bonus by the fruits cut unless *)
(* a bomb was: update_fruits, for any number of fruits and any combo.       *)
THEOREM PointsTheorem == Spec => CutsAreScored
  <1> DEFINE Scored ==
        /\ pc = "fruits" =>
             score_value' = IF turns' = turns THEN score_value
                            ELSE Clamp(score_value + Worth(streak, turns'))
        /\ pc = "bonus" =>
             /\ score_value' = Clamp(score_value +
                                  IF Count(turns, {"bomb"}) > 0 THEN 0
                                  ELSE MultiSliceBonus(Count(turns, {"cut"})))
             /\ effects = Count(turns, {"cut", "bomb"})
  <1>1. TypeOK /\ TurnsInv /\ Next => Scored
    BY TurnAdded, BonusPaid DEF TurnsInv
  <1>2. TypeOK /\ TurnsInv /\ [Next]_vars => [Scored]_vars
    BY <1>1
  <1> QED BY <1>2, TurnsInvariance, PTL DEF Spec, CutsAreScored

(* A step of the menus leaves the score alone or starts a game from zero.     *)
LEMMA ScoreMoves ==
  ASSUME TypeOK, ScreenInv, Next, score_value' # score_value
  PROVE  game_state = "PLAYING" \/ (game_state' = "PLAYING" /\ score_value' = 0)
  <1>1. CASE StepStart \/ StepOver \/ StepHighScores
    BY <1>1 DEF StepStart, StepOver, StepHighScores, StartGame, OpenHighScores, GoTo, Leave,
                scoreVars
  <1>2. CASE pc \in {"fruits", "bonus", "verdict"}
    BY <1>2 DEF ScreenInv
  <1>3. StepStart \/ StepOver \/ StepHighScores \/ pc \in {"fruits", "bonus", "verdict"}
    BY DEF Next, ReadInputs, StepPlaying, SkipSlot, CutBomb, CutFruit, StayInFlight,
           LeaveScreen, Bonus, FinishGame, SpawnFruit, NoSpawn, scoreVars
  <1> QED BY <1>1, <1>2, <1>3

(* The menus never alter the figures of the last game they show.              *)
THEOREM SettledTheorem == Spec => ScoreSettled
  <1>1. TypeOK /\ ScreenInv /\ [Next]_vars
          => [score_value' # score_value =>
                game_state = "PLAYING" \/ (game_state' = "PLAYING" /\ score_value' = 0)]_vars
    BY ScoreMoves
  <1>2. IInv => TypeOK /\ ScreenInv
    BY DEF IInv
  <1> QED BY <1>1, <1>2, Invariance, PTL DEF Spec, ScoreSettled

-----------------------------------------------------------------------------
(* The high score table.                                                    *)

(* The entries of f, a table or a sequence of scores, that are v or better.   *)
Reaching(f, v) == {i \in DOMAIN f : f[i] >= v}

Sorted(t) == \A i, j \in Ranks : i < j => t[i] >= t[j]
Lesser(a, b) == IF a < b THEN a ELSE b

(* The entries of a sorted table that reach v are its first ones.             *)
LEMMA FirstOnes ==
  ASSUME NEW t \in [Ranks -> 0 .. MaxScore], Sorted(t), NEW v \in 1 .. MaxScore
  PROVE  /\ Cardinality(Reaching(t, v)) \in 0 .. NumTop
         /\ Reaching(t, v) = 1 .. Cardinality(Reaching(t, v))
  <1> DEFINE A == Reaching(t, v)
             k == Cardinality(A)
  <1>1. NumTop \in Nat /\ MaxScore \in Nat
    BY GameAssumption
  <1>2. IsFiniteSet(Ranks) /\ Cardinality(Ranks) = NumTop
    BY <1>1, FS_Interval DEF Ranks
  <1>3. A \in SUBSET Ranks
    BY DEF Reaching
  <1>4. k \in 0 .. NumTop /\ IsFiniteSet(A)
    BY <1>1, <1>2, <1>3, FS_Subset, FS_CardinalityType
  <1>5. ASSUME NEW i \in A PROVE i <= k
    <2>1. i \in Ranks /\ t[i] >= v
      BY <1>3 DEF Reaching
    <2>2. ASSUME NEW j \in 1 .. i PROVE j \in A
      <3>1. j \in Ranks
        BY <1>1, <2>1 DEF Ranks
      <3>2. t[j] >= t[i] \/ j = i
        BY <2>1, <3>1 DEF Sorted, Ranks
      <3>3. t[j] \in Int /\ t[i] \in Int /\ v \in Int
        BY <2>1, <3>1
      <3> QED BY <2>1, <3>1, <3>2, <3>3 DEF Reaching
    <2>3. (1 .. i) \in SUBSET A
      BY <2>2
    <2>4. Cardinality(1 .. i) <= k
      BY <1>4, <2>3, FS_Subset
    <2>5. Cardinality(1 .. i) = i
      BY <1>1, <2>1, FS_Interval DEF Ranks
    <2> QED BY <2>4, <2>5
  <1>6. ASSUME NEW i \in Ranks, i \notin A PROVE i > k
    <2>1. i \in Int /\ i >= 1 /\ ~(t[i] >= v)
      BY <1>1, <1>6 DEF Ranks, Reaching
    <2>2. ASSUME NEW j \in A PROVE j \in 1 .. i - 1
      <3>1. j \in Ranks /\ t[j] >= v
        BY <1>3 DEF Reaching
      <3>2. t[j] \in Int /\ t[i] \in Int /\ v \in Int
        BY <3>1
      <3>3. ~(i < j)
        BY <2>1, <3>1, <3>2 DEF Sorted
      <3> QED BY <1>1, <1>6, <2>1, <3>1, <3>3 DEF Ranks
    <2>3. A \in SUBSET (1 .. i - 1)
      BY <2>2
    <2>4. IsFiniteSet(1 .. i - 1) /\ Cardinality(1 .. i - 1) = i - 1
      <3>1. i - 1 \in Int /\ 1 \in Int
        BY <2>1
      <3> HIDE DEF k
      <3>2. Cardinality(1 .. i - 1) = IF 1 > i - 1 THEN 0 ELSE (i - 1) - 1 + 1
        BY <3>1, FS_Interval
      <3> QED BY <2>1, <3>1, <3>2, FS_Interval
    <2>5. k <= i - 1
      BY <2>3, <2>4, FS_Subset
    <2> QED BY <1>4, <2>1, <2>5
  <1>7. \A i : i \in A <=> i \in 1 .. k
    <2>1. ASSUME NEW i \in A PROVE i \in 1 .. k
      BY <1>1, <1>3, <1>4, <1>5 DEF Ranks
    <2>2. ASSUME NEW i \in 1 .. k PROVE i \in A
      BY <1>1, <1>4, <1>6 DEF Ranks
    <2> QED BY <2>1, <2>2
  <1>8. A = 1 .. k
    BY <1>7
  <1> QED BY <1>4, <1>8

(* Inserting a score keeps the table sorted and adds one entry to those that  *)
(* reach v, as far as there is room, when the score reaches it.            *)
LEMMA RecordedCount ==
  ASSUME top_scores \in [Ranks -> 0 .. MaxScore], Sorted(top_scores),
         NEW s \in 0 .. MaxScore, NEW v \in 1 .. MaxScore
  PROVE  /\ Sorted(Recorded(s))
         /\ Cardinality(Reaching(Recorded(s), v))
              = IF s >= v THEN Lesser(NumTop, Cardinality(Reaching(top_scores, v)) + 1)
                ELSE Cardinality(Reaching(top_scores, v))
  <1> DEFINE t == top_scores
             u == Recorded(s)
             k == Cardinality(Reaching(t, v))
             m == IF s >= v THEN Lesser(NumTop, k + 1) ELSE k
  <1>1. NumTop \in Nat /\ NumTop >= 1 /\ MaxScore \in Nat /\ v \in Int /\ s \in Int
    BY GameAssumption
  <1>2. \A i \in Ranks : t[i] \in Int
    OBVIOUS
  <1>3. ASSUME NEW r \in Ranks
        PROVE  /\ s <= t[r] => u[r] = t[r]
               /\ s > t[r] /\ (r = 1 \/ s <= t[r - 1]) => u[r] = s
               /\ s > t[r] /\ r # 1 /\ s > t[r - 1] => u[r] = t[r - 1]
               /\ r # 1 => r - 1 \in Ranks /\ t[r - 1] >= t[r]
    <2> DEFINE Beaten(q) == \E i \in 1 .. q : s > t[i]
    <2>1. u[r] = IF ~Beaten(r) THEN t[r] ELSE IF ~Beaten(r - 1) THEN s ELSE t[r - 1]
      BY DEF Recorded
    <2>2. \A q \in Ranks : Beaten(q) <=> s > t[q]
      <3>1. ASSUME NEW q \in Ranks, NEW i \in 1 .. q, s > t[i] PROVE s > t[q]
        <4>1. i \in Ranks /\ (i < q \/ i = q)
          BY <1>1 DEF Ranks
        <4>2. t[i] >= t[q]
          BY <1>2, <4>1 DEF Sorted
        <4> QED BY <1>1, <1>2, <3>1, <4>1, <4>2
      <3>2. \A q \in Ranks : q \in 1 .. q
        BY <1>1 DEF Ranks
      <3> QED BY <3>1, <3>2
    <2>3. r # 1 => r - 1 \in Ranks /\ t[r - 1] >= t[r]
      <3>1. r # 1 => r - 1 \in Ranks /\ r - 1 < r
        BY <1>1 DEF Ranks
      <3> QED BY <3>1 DEF Sorted
    <2>4. r = 1 => ~Beaten(r - 1)
      OBVIOUS
    <2>5. /\ s <= t[r] => ~Beaten(r)
          /\ s > t[r] => Beaten(r)
          /\ r # 1 /\ s <= t[r - 1] => ~Beaten(r - 1)
          /\ r # 1 /\ s > t[r - 1] => Beaten(r - 1)
      BY <1>1, <1>2, <2>2, <2>3
    <2> HIDE DEF Beaten, u, t
    <2> QED BY <2>1, <2>3, <2>4, <2>5
  <1>4. u \in [Ranks -> 0 .. MaxScore]
    BY RecordedType
  <1> HIDE DEF u, t
  <1>5. Sorted(u)
    <2> SUFFICES ASSUME NEW i \in Ranks, NEW j \in Ranks, i < j PROVE u[i] >= u[j]
      BY DEF Sorted
    <2>1. /\ j # 1 /\ j - 1 \in Ranks /\ (i < j - 1 \/ i = j - 1)
          /\ t[i] \in Int /\ t[j] \in Int /\ t[j - 1] \in Int
      BY <1>1, <1>2 DEF Ranks
    <2>2. t[i] >= t[j] /\ t[i] >= t[j - 1]
      BY <2>1 DEF Sorted, t
    <2>3. i # 1 => t[i - 1] \in Int /\ t[i - 1] >= t[i]
      BY <1>2, <1>3
    <2> QED BY <1>1, <1>3, <2>1, <2>2, <2>3
  <1>6. Reaching(t, v) = 1 .. k /\ k \in 0 .. NumTop
    BY FirstOnes DEF t
  <1>7. ASSUME NEW r \in Ranks
        PROVE  u[r] >= v <=> r \in 1 .. m
    <2>1. r \in Int /\ 1 <= r /\ r <= NumTop
      BY <1>1 DEF Ranks
    <2>2. \A q \in Ranks : t[q] >= v <=> q \in 1 .. k
      BY <1>6 DEF Reaching, t
    <2>3. t[r] \in Int /\ (r # 1 => t[r - 1] \in Int)
      BY <1>2, <1>3
    <2>4. CASE s >= v
      <3>1. u[r] >= v <=> r = 1 \/ r - 1 \in 1 .. k
        <4>1. CASE s <= t[r]
          BY <1>1, <1>3, <2>2, <2>3, <2>4, <4>1
        <4>2. CASE s > t[r] /\ (r = 1 \/ s <= t[r - 1])
          BY <1>1, <1>3, <2>2, <2>3, <2>4, <4>2
        <4>3. CASE s > t[r] /\ r # 1 /\ s > t[r - 1]
          BY <1>1, <1>3, <2>2, <2>3, <2>4, <4>3
        <4> QED BY <1>1, <2>3, <4>1, <4>2, <4>3
      <3> QED BY <1>1, <1>6, <2>1, <2>4, <3>1 DEF Lesser
    <2>5. CASE ~(s >= v)
      <3>1. u[r] >= v <=> r \in 1 .. k
        <4>1. CASE s <= t[r]
          BY <1>1, <1>3, <2>2, <2>3, <2>5, <4>1
        <4>2. CASE s > t[r] /\ (r = 1 \/ s <= t[r - 1])
          BY <1>1, <1>3, <2>2, <2>3, <2>5, <4>2
        <4>3. CASE s > t[r] /\ r # 1 /\ s > t[r - 1]
          BY <1>1, <1>3, <2>2, <2>3, <2>5, <4>3
        <4> QED BY <1>1, <2>3, <4>1, <4>2, <4>3
      <3> QED BY <2>5, <3>1
    <2> QED BY <2>4, <2>5
  <1>8. m \in 0 .. NumTop
    BY <1>1, <1>6 DEF Lesser
  <1>9. Reaching(u, v) = 1 .. m
    <2>1. DOMAIN u = Ranks
      BY <1>4
    <2>2. Reaching(u, v) = {r \in Ranks : r \in 1 .. m}
      BY <1>7, <2>1 DEF Reaching
    <2>3. 1 .. m \subseteq Ranks
      BY <1>1, <1>8 DEF Ranks
    <2> HIDE DEF m
    <2> QED BY <2>2, <2>3
  <1>10. Cardinality(1 .. m) = m
    BY <1>8, FS_Interval
  <1> QED BY <1>5, <1>9, <1>10 DEF u, t

(* One more final score, in the record of all of them.                       *)
LEMMA AppendedCount ==
  ASSUME NEW f \in Seq(0 .. MaxScore), NEW s \in 0 .. MaxScore, NEW v \in 1 .. MaxScore
  PROVE  /\ Cardinality(Reaching(f, v)) \in Nat
         /\ Cardinality(Reaching(Append(f, s), v))
              = Cardinality(Reaching(f, v)) + (IF s >= v THEN 1 ELSE 0)
  <1> DEFINE A == Reaching(f, v)
             B == Reaching(Append(f, s), v)
             n == Len(f)
  <1>1. /\ n \in Nat /\ DOMAIN f = 1 .. n
        /\ Append(f, s) \in Seq(0 .. MaxScore) /\ Len(Append(f, s)) = n + 1
        /\ \A i \in 1 .. n : Append(f, s)[i] = f[i]
        /\ Append(f, s)[n + 1] = s
    BY AppendProperties, LenProperties
  <1>2. DOMAIN Append(f, s) = 1 .. n + 1
    BY <1>1, LenProperties
  <1>3. A \in SUBSET (1 .. n)
    BY <1>1 DEF Reaching
  <1>4. IsFiniteSet(A) /\ Cardinality(A) \in Nat /\ n + 1 \notin A
    <2> HIDE DEF A, n
    <2>1. IsFiniteSet(1 .. n)
      BY <1>1, FS_Interval
    <2>2. IsFiniteSet(A)
      BY <1>3, <2>1, FS_Subset
    <2>3. n + 1 \notin 1 .. n
      BY <1>1
    <2> QED BY <1>3, <2>2, <2>3, FS_CardinalityType
  <1>5. B = IF s >= v THEN A \cup {n + 1} ELSE A
    <2>1. \A i : i \in B <=> i \in A \/ (i = n + 1 /\ s >= v)
      <3> HIDE DEF n
      <3>1. \A i : i \in B <=> i \in 1 .. n + 1 /\ Append(f, s)[i] >= v
        BY <1>2 DEF Reaching
      <3>2. \A i : i \in A <=> i \in 1 .. n /\ f[i] >= v
        BY <1>1 DEF Reaching
      <3>3. \A i : i \in 1 .. n + 1 <=> i \in 1 .. n \/ i = n + 1
        BY <1>1
      <3> HIDE DEF A, B
      <3> QED BY <1>1, <3>1, <3>2, <3>3
    <2> HIDE DEF A, B
    <2> QED BY <2>1
  <1> HIDE DEF A, B, n
  <1>6. Cardinality(A \cup {n + 1}) = Cardinality(A) + 1
    BY <1>4, FS_AddElement
  <1>7. Cardinality(B) = Cardinality(A) + (IF s >= v THEN 1 ELSE 0)
    BY <1>4, <1>5, <1>6
  <1> QED BY <1>4, <1>7 DEF A, B

TableInv ==
  /\ Sorted(top_scores)
  /\ \A v \in 1 .. MaxScore :
       Cardinality(Reaching(top_scores, v)) = Lesser(NumTop, Cardinality(Reaching(finals, v)))

LEMMA TableStep ==
  ASSUME TypeOK, TableInv, Next
  PROVE  TableInv'
  <1>1. /\ top_scores \in [Ranks -> 0 .. MaxScore] /\ finals \in Seq(0 .. MaxScore)
        /\ score_value \in 0 .. MaxScore /\ NumTop \in Nat
    BY GameAssumption DEF TypeOK, BookOK, PlayOK
  <1>2. CASE FinishGame
    <2>1. top_scores' = Recorded(score_value) /\ finals' = Append(finals, score_value)
      BY <1>2 DEF FinishGame
    <2>2. ASSUME MaxScore >= 1 PROVE Sorted(top_scores')
      <3>1. 1 \in 1 .. MaxScore
        BY <2>2, GameAssumption
      <3> QED BY <1>1, <2>1, <3>1, RecordedCount DEF TableInv
    <2>3. ASSUME ~(MaxScore >= 1) PROVE Sorted(top_scores')
      <3>1. \A x \in 0 .. MaxScore : x = 0
        BY <2>3, GameAssumption
      <3>2. Recorded(score_value) \in [Ranks -> 0 .. MaxScore]
        BY <1>1, RecordedType
      <3>3. \A i \in Ranks : top_scores'[i] = 0
        BY <2>1, <3>1, <3>2
      <3> QED BY <3>3 DEF Sorted
    <2>4. ASSUME NEW v \in 1 .. MaxScore
          PROVE  Cardinality(Reaching(top_scores', v))
                   = Lesser(NumTop, Cardinality(Reaching(finals', v)))
      <3>1. Cardinality(Reaching(top_scores', v))
              = IF score_value >= v
                THEN Lesser(NumTop, Cardinality(Reaching(top_scores, v)) + 1)
                ELSE Cardinality(Reaching(top_scores, v))
        BY <1>1, <2>1, RecordedCount DEF TableInv
      <3>2. /\ Cardinality(Reaching(finals, v)) \in Nat
            /\ Cardinality(Reaching(finals', v))
                 = Cardinality(Reaching(finals, v)) + (IF score_value >= v THEN 1 ELSE 0)
        BY <1>1, <2>1, AppendedCount
      <3>3. Cardinality(Reaching(top_scores, v))
              = Lesser(NumTop, Cardinality(Reaching(finals, v)))
        BY DEF TableInv
      <3> QED BY <1>1, <3>1, <3>2, <3>3 DEF Lesser
    <2> QED BY <2>2, <2>3, <2>4 DEF TableInv, Sorted, Reaching
  <1>3. CASE UNCHANGED bookVars
    BY <1>3 DEF bookVars, TableInv, Sorted, Reaching
  <1>4. FinishGame \/ UNCHANGED bookVars
    BY DEF Next, ReadInputs, StepStart, StepOver, StepHighScores, StepPlaying, StartGame,
           OpenHighScores, GoTo, Leave, SkipSlot, CutBomb, CutFruit, StayInFlight,
           LeaveScreen, SlotDone, Bonus, SpawnFruit, NoSpawn, bookVars
  <1> QED BY <1>2, <1>3, <1>4

(* The table holds the best final scores of all the games played, best first, *)
(* ties included, for a table of any length: record_score loses no score that *)
(* belongs in it and enters none twice.                                    *)
THEOREM TableTheorem == Spec => []TopScoresAreBest
  <1>1. Init => TableInv
    <2> SUFFICES ASSUME Init PROVE TableInv
      OBVIOUS
    <2>1. top_scores = [i \in Ranks |-> 0] /\ finals = <<>> /\ NumTop \in Nat
      BY GameAssumption DEF Init
    <2>2. ASSUME NEW v \in 1 .. MaxScore
          PROVE  Reaching(top_scores, v) = {} /\ Reaching(finals, v) = {}
      BY <2>1 DEF Reaching
    <2>3. Sorted(top_scores)
      BY <2>1 DEF Sorted
    <2>4. Lesser(NumTop, 0) = 0
      BY <2>1 DEF Lesser
    <2>5. \A v \in 1 .. MaxScore : /\ Cardinality(Reaching(top_scores, v)) = 0
                                 /\ Cardinality(Reaching(finals, v)) = 0
      BY <2>2, FS_EmptySet
    <2> QED BY <2>3, <2>4, <2>5 DEF TableInv
  <1>2. TypeOK /\ TableInv /\ [Next]_vars => TableInv'
    <2>1. TableInv /\ UNCHANGED vars => TableInv'
      BY DEF vars, bookVars, TableInv, Sorted, Reaching
    <2> QED BY <2>1, TableStep
  <1>3. TableInv => TopScoresAreBest
    BY DEF TableInv, TopScoresAreBest, Sorted, Reaching, Lesser
  <1> QED BY <1>1, <1>2, <1>3, TypeCorrectness, PTL DEF Spec
=============================================================================
