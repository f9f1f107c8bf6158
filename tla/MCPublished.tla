----------------------------- MODULE MCPublished -----------------------------
(***************************************************************************)
(* Two slots, four publications (one of each screen fits, and a return to   *)
(* the screen before) and a scan of five edges, so that a scan is shorter   *)
(* than the time between two announcements and the popup outlives an        *)
(* animation.  Pace is the least each receiver needs: three registers and    *)
(* the edge that may catch the old bit, and one more for the mixer.         *)
(* Types: a fruit that differs from a bomb in two bits, the bomb, type 0.   *)
(***************************************************************************)
EXTENDS Published

MCReceivers == {"vga", "bclk"}
MCPace == [r \in MCReceivers |-> IF r = "vga" THEN 4 ELSE 5]
MCTypes == {{}, {26, 27}, {28, 26}}
=============================================================================
