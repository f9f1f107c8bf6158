------------------------------ MODULE GameWords ------------------------------
(***************************************************************************)
(* The words software/ninja/main.c writes for the hardware in one pass of   *)
(* its main loop: an effect word per fruit cut, then a descriptor word per  *)
(* slot, and last the control word.  The effect word and the control word   *)
(* announce themselves by a bit that flips; a receiver in another clock    *)
(* watches that bit and reads the words some edges later.                  *)
(*                                                                         *)
(* What the words say is abstracted to what tells a mixture from a whole:   *)
(* the number of the publication they belong to, the screen, and the slot  *)
(* and type of an effect.                                                  *)
(***************************************************************************)
EXTENDS Integers

CONSTANTS
  NumFruits,   \* MAX_FRUITS, 4
  Types,       \* fruit types, as sets of the bits 28..26 of the effect word
  MaxPubs,     \* bound on the publications of a behaviour: none in the code
  Receivers,   \* the clocks the words are read in
  Pace         \* edges of a receiver between two announcements, at least

Slots == 0 .. NumFruits - 1

ASSUME WordsAssumption ==
  /\ NumFruits \in Nat \ {0} /\ MaxPubs \in Nat
  /\ Pace \in [Receivers -> Nat]

VARIABLES
  pc,           \* "wait", "fruits", "desc", "ctrl"
  slot,         \* the loop index of update_fruits, and of the four writes
  game_state,
  pass,         \* history: the number of the publication being prepared
  frame_due,    \* frame_counter_pio has moved since last_frame was read
  effect_word,  \* effect_event_pio
  desc,         \* fruit0_desc_pio .. fruit3_desc_pio
  ctrl_word,    \* game_ctrl_pio; its pub and from (the last screen) are history
  quiet,        \* edges of each receiver since an announcement, up to Pace
  owed          \* history: effects announced and not yet begun, per receiver

words  == <<effect_word, desc, ctrl_word>>
cpuVars == <<pc, slot, game_state, pass, words>>
gameVars == <<cpuVars, frame_due, quiet, owed>>

(* GAME_START .. GAME_HIGHSCORES, as sets of the bits 29..28.               *)
START == {}
PLAYING == {28}
OVER == {29}
HIGHSCORES == {28, 29}

(* The screens game_step can be on after a pass that began on one.          *)
NextScreens(s) ==
  CASE s = START      -> {START, PLAYING, HIGHSCORES}
    [] s = PLAYING    -> {PLAYING, OVER}
    [] s = OVER       -> {OVER, START, PLAYING, HIGHSCORES}
    [] s = HIGHSCORES -> {HIGHSCORES, START, PLAYING, OVER}

(* The announcements of main.c are at least a turn of a loop or four writes  *)
(* apart, tens of instructions of six clocks and more; Pace is what the     *)
(* receivers need of that.                                                 *)
Paced == \A r \in Receivers : quiet[r] = Pace[r]

GameInit ==
  /\ pc = "desc" /\ slot = 0 /\ game_state = START /\ pass = 1
  /\ frame_due = FALSE
  /\ effect_word = [toggle |-> FALSE, slot |-> 0, type |-> {}]
  /\ desc = [s \in Slots |-> 0]
  /\ ctrl_word = [toggle |-> FALSE, enable |-> FALSE, state |-> START,
                  pub |-> 0, from |-> START]
  /\ quiet = [r \in Receivers |-> 0]
  /\ owed = [r \in Receivers |-> 0]

(* The main loop sees a new frame.  On the playing screen it goes through   *)
(* the slots, on any other it may change the screen.                       *)
BeginPass ==
  /\ pc = "wait" /\ frame_due /\ Paced /\ pass < MaxPubs
  /\ frame_due' = FALSE
  /\ pass' = pass + 1
  /\ slot' = 0
  /\ IF game_state = PLAYING
     THEN pc' = "fruits" /\ UNCHANGED game_state
     ELSE pc' = "desc" /\ game_state' \in NextScreens(game_state)
  /\ UNCHANGED <<words, quiet, owed>>

Announced == quiet' = [r \in Receivers |-> 0]

(* emit_slice_effect, for the slot whose turn it is.                        *)
EmitSliceEffect(type) ==
  /\ Paced
  /\ effect_word' = [toggle |-> ~effect_word.toggle, slot |-> slot, type |-> type]
  /\ Announced
  /\ owed' = [r \in Receivers |-> owed[r] + 1]

NextSlot(last, then) ==
  IF slot = NumFruits - 1 THEN pc' = then /\ slot' = 0
  ELSE pc' = last /\ slot' = slot + 1

(* update_fruits: a slot whose fruit is cut, or is not.                      *)
FruitTurn ==
  /\ pc = "fruits"
  /\ NextSlot("fruits", "desc")
  /\ IF slot = NumFruits - 1 THEN game_state' \in NextScreens(game_state)
     ELSE UNCHANGED game_state
  /\ \/ \E type \in Types : EmitSliceEffect(type)
     \/ UNCHANGED <<effect_word, quiet, owed>>
  /\ UNCHANGED <<pass, frame_due, desc, ctrl_word>>

(* publish_game_state: the descriptors in order, then the control word.      *)
WriteDesc ==
  /\ pc = "desc"
  /\ desc' = [desc EXCEPT ![slot] = pass]
  /\ NextSlot("desc", "ctrl")
  /\ UNCHANGED <<game_state, pass, frame_due, effect_word, ctrl_word, quiet, owed>>

WriteCtrl ==
  /\ pc = "ctrl" /\ Paced
  /\ ctrl_word' = [toggle |-> ~ctrl_word.toggle, enable |-> TRUE,
                   state |-> game_state, pub |-> pass, from |-> ctrl_word.state]
  /\ Announced
  /\ pc' = "wait"
  /\ UNCHANGED <<slot, game_state, pass, frame_due, effect_word, desc, owed>>

CpuStep == BeginPass \/ FruitTurn \/ WriteDesc \/ WriteCtrl

(* An edge of receiver r passes, at which it begins an effect or does not.   *)
Tick(r, begins) ==
  /\ quiet' = [quiet EXCEPT ![r] = IF @ < Pace[r] THEN @ + 1 ELSE @]
  /\ owed' = [owed EXCEPT ![r] = IF begins THEN @ - 1 ELSE @]
  /\ UNCHANGED cpuVars

(* An announcement since the last edge of r: what r catches now of the word  *)
(* announced may still be what it was.                                     *)
Changing(r) == quiet[r] = 0
=============================================================================
