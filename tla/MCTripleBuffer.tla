---------------------------- MODULE MCTripleBuffer ----------------------------
(* Frames of three pixels, enough starts of frame to go round the three      *)
(* stores, drop some and reuse each.                                         *)
EXTENDS TripleBuffer
===============================================================================
