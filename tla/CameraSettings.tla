--------------------------- MODULE CameraSettings ---------------------------
(***************************************************************************)
(* What the library of the camera promises to its caller.  The camera has  *)
(* named settings.  A call that sets one changes no other one, and when it *)
(* reports success the setting has the wanted value; when it reports a     *)
(* failure, each bit of the value is the old or the wanted one.  A call    *)
(* that gets one changes nothing and answers the value.  An effect may     *)
(* change only the settings it is said to touch.  A call whose value is    *)
(* out of range does nothing at all.                                       *)
(***************************************************************************)
CONSTANTS
  Names,          \* the settings
  Accepts(_, _),  \* Accepts(n, v): the value v is in the range of the setting n
  Touches(_)      \* the settings that an effect may change

VARIABLES
  settings,  \* the value of every setting in the camera
  call,      \* the last call: an operation, the setting or effect, and a value
  result,    \* what it reported: "ok", "failed", "refused"; "none" until it returns
  answer     \* what a get has put together, the value once it reports success

vars == <<settings, call, result, answer>>

Init ==
  /\ call = [op |-> "effect", name |-> "none", value |-> {}]
  /\ result = "ok"
  /\ answer = {}

\* The setting n alone changes, and its bits only towards the value v.
Towards(n, v) ==
  /\ \A m \in Names \ {n} : settings'[m] = settings[m]
  /\ settings[n] \cap v \subseteq settings'[n]
  /\ settings'[n] \subseteq settings[n] \cup v

Begin ==
  /\ result # "none"
  /\ result' = IF call'.op = "set" /\ ~ Accepts(call'.name, call'.value)
                 THEN "refused" ELSE "none"
  /\ answer' = {}
  /\ settings' = settings

Set ==
  /\ call.op = "set" /\ result = "none"
  /\ Towards(call.name, call.value)
  /\ result' \in {"none", "failed", "ok"}
  /\ result' = "ok" => settings'[call.name] = call.value
  /\ UNCHANGED <<call, answer>>

Get ==
  /\ call.op = "get" /\ result = "none"
  /\ result' \in {"none", "failed", "ok"}
  /\ result' = "ok" => answer' = settings[call.name]
  /\ UNCHANGED <<settings, call>>

Effect ==
  /\ call.op = "effect" /\ result = "none"
  /\ \A m \in Names \ Touches(call.name) : settings'[m] = settings[m]
  /\ result' \in {"none", "failed", "ok"}
  /\ UNCHANGED <<call, answer>>

Next == Begin \/ Set \/ Get \/ Effect

Spec == Init /\ [][Next]_vars
=============================================================================
