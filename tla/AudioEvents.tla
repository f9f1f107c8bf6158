------------------------------ MODULE AudioEvents ------------------------------
(***************************************************************************)
(* The audio side of the game words, on the codec's bit clock: both words  *)
(* cross whole, through two registers each (audio_event_sync), and the     *)
(* mixer makes triggers of what comes out (audio_mixer).  The bits of a    *)
(* word that is changing arrive in any mixture of old and new.             *)
(* Words are sets of bit numbers; bit 31 of the effect word is its toggle.  *)
(***************************************************************************)
EXTENDS GameWords

VARIABLES
  meta, sync,        \* effect_meta / game_meta and effect_sync / game_sync
  effect_toggle_d,
  effect_pulse, effect_type, audio_state,    \* audio_event_sync's outputs
  prev_game_state, background_playing,       \* audio_mixer, its background player
  fanfares           \* history: start_triggers since the last announcement

audioVars == <<meta, sync, effect_toggle_d, effect_pulse, effect_type, audio_state,
               prev_game_state, background_playing, fanfares>>

BCLK == "bclk"

AudioInit ==
  /\ meta = [effect |-> {}, game |-> {}] /\ sync = [effect |-> {}, game |-> {}]
  /\ effect_toggle_d = FALSE
  /\ effect_pulse = FALSE /\ effect_type = {} /\ audio_state = START
  /\ prev_game_state = START
  /\ background_playing = FALSE /\ fanfares = 0

EffectBits == effect_word.type \cup (IF effect_word.toggle THEN {31} ELSE {})

(* What the first register may hold of a word: the word or, while it is      *)
(* changing, any mixture of its bits with those the register held.          *)
Caught(held, word) ==
  IF Changing(BCLK) THEN {m \in SUBSET (held \cup word) : held \cap word \subseteq m}
  ELSE {word}

(* A definition whose name starts with Bug_ is a wrong form of the one after *)
(* it, with which a property must fail; it is no part of the specification. *)
Bug_SynchronizeByLevel ==
  /\ \E e \in Caught(meta.effect, EffectBits), g \in Caught(meta.game, ctrl_word.state) :
       meta' = [effect |-> e, game |-> g]
  /\ sync' = meta
  /\ effect_pulse' = (31 \in sync.effect)
  /\ effect_toggle_d' = (31 \in sync.effect)
  /\ effect_type' = sync.effect \ {31}
  /\ audio_state' = sync.game

(* audio_event_sync                                                         *)
Synchronize ==
  /\ \E e \in Caught(meta.effect, EffectBits), g \in Caught(meta.game, ctrl_word.state) :
       meta' = [effect |-> e, game |-> g]
  /\ sync' = meta
  /\ effect_pulse' = ((31 \in sync.effect) # effect_toggle_d)
  /\ effect_toggle_d' = (31 \in sync.effect)
  /\ effect_type' = sync.effect \ {31}
  /\ audio_state' = sync.game

Bug_start_trigger_level == audio_state = PLAYING

start_trigger == prev_game_state # PLAYING /\ audio_state = PLAYING

Bug_MusicNotStopped ==
  /\ prev_game_state' = audio_state
  /\ background_playing' = (background_playing \/ audio_state = START)
  /\ fanfares' = (IF Changing(BCLK) THEN 0 ELSE fanfares) + (IF start_trigger THEN 1 ELSE 0)

(* audio_mixer: the background player runs while it is enabled, the start    *)
(* player is asked for the start music by a trigger.                       *)
Music ==
  /\ prev_game_state' = audio_state
  /\ background_playing' = (audio_state = START)
  /\ fanfares' = (IF Changing(BCLK) THEN 0 ELSE fanfares) + (IF start_trigger THEN 1 ELSE 0)

BclkEdge ==
  /\ Synchronize /\ Music
  /\ Tick(BCLK, effect_pulse')
  /\ UNCHANGED frame_due
-----------------------------------------------------------------------------
(* The background music follows the screen: within Pace edges of a control   *)
(* word it plays on the start screen and nowhere else, whatever mixture of  *)
(* two screens was seen on the way.                                        *)
MusicFollowsScreen ==
  quiet[BCLK] = Pace[BCLK] =>
    audio_state = ctrl_word.state /\ background_playing = (ctrl_word.state = START)

(* The start of a game is heard once: whatever the screen before it, and     *)
(* whatever mixture of the two is seen on the way, one trigger is made.      *)
GameStartHeard ==
  pc = "wait" /\ quiet[BCLK] = Pace[BCLK] /\ ctrl_word.state = PLAYING
    /\ ctrl_word.from # PLAYING => fanfares = 1

(* The pulse that starts a sound comes with the type of the effect that was  *)
(* announced: tb_audio_event_sync asserts "effect toggle should produce one *)
(* pulse with synchronized type".                                          *)
SynchronizedType ==
  [][effect_pulse' /\ ~effect_pulse => effect_type' = effect_word.type]_<<audioVars, effect_word>>
=============================================================================
