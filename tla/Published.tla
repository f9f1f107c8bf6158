------------------------------- MODULE Published -------------------------------
(***************************************************************************)
(* The program's words with both their readers: GameWords, the display's   *)
(* OverlayLatch and the sound's AudioEvents, each at the pace of its clock. *)
(***************************************************************************)
EXTENDS OverlayLatch, AudioEvents

(* The program leaves each receiver the edges it needs to take in a word:    *)
(* three registers and the edge that may catch the old bit, and one more    *)
(* for the mixer.  The type is in bits the toggle, bit 31, is not one of.    *)
ASSUME PublishedAssumption ==
  /\ Receivers = {VGA, BCLK}
  /\ Pace[VGA] >= 4 /\ Pace[BCLK] >= 5
  /\ Types \subseteq SUBSET (26 .. 28)

vars == <<gameVars, overlayVars, audioVars>>

Init == GameInit /\ OverlayInit /\ AudioInit

Next ==
  \/ CpuStep /\ UNCHANGED <<overlayVars, audioVars>>
  \/ VgaEdge /\ UNCHANGED audioVars
  \/ BclkEdge /\ UNCHANGED overlayVars

Spec == Init /\ [][Next]_vars
-----------------------------------------------------------------------------
(* Every fruit cut is animated once and sounds once: by the time the program *)
(* makes its next announcement each reader has begun the effect of the last *)
(* one, and no reader ever begins one that was not announced, although the  *)
(* two read the same word at their own pace.                               *)
EveryCutBegun ==
  \A r \in Receivers : /\ owed[r] \in {0, 1}
                       /\ quiet[r] = Pace[r] => owed[r] = 0
=============================================================================
