----------------------------- MODULE MCGamePlay -----------------------------
(* One game in detail: slots, combo, bombs, timer borrow, spawn delays.     *)
EXTENDS Game
=============================================================================
