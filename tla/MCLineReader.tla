----------------------------- MODULE MCLineReader -----------------------------
(* Display lines of an eighth of the real length, about in the ratio of the    *)
(* real ones: the fetch of a picture line (2 * LineWords clocks and three)      *)
(* takes four fifths of a display line.  Five picture lines keep the last ones *)
(* apart from those of the race at the top of a scan, which the sixth display  *)
(* line ends.                                                                *)
EXTENDS LineReader
===============================================================================
