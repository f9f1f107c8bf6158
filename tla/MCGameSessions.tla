--------------------------- MODULE MCGameSessions ---------------------------
(* Several short games and every walk through the menus between them.      *)
EXTENDS Game
=============================================================================
