---------------------------- MODULE MCOv2640Driver ----------------------------
(***************************************************************************)
(* The library on its own table.  Every setting is set and then got, with  *)
(* each of its enumerators, or with no bit, every bit, every other bit and *)
(* one bit too many; every effect is applied and followed by nothing.  The *)
(* registers start with every other bit, so that both a bit that is lost   *)
(* and one that is added show.                                             *)
(***************************************************************************)
EXTENDS Ov2640Driver

R == INSTANCE Ov2640Registers

MCTable == R!Settings

MCPrograms == R!Effects

Even == {b \in 0 .. 31 : b % 2 = 0}

\* The values of types of 8, 16 or 32 bits have no bit too many.
Values(n) ==
  LET all  == Table[n].range
      over == IF all \in {0 .. 7, 0 .. 15, 0 .. 31} THEN {}
              ELSE {{b + 1} : b \in {b \in all : b + 1 \notin all}}
  IN  IF Table[n].codes # {} THEN Table[n].codes
      ELSE {{}, all, all \cap Even, all \ Even} \cup over

MCScripts ==
  {<<[op |-> "set", name |-> n, value |-> v], [op |-> "get", name |-> n, value |-> {}]>> :
     <<n, v>> \in UNION {{n} \X Values(n) : n \in DOMAIN Table}}
  \cup {<<[op |-> "effect", name |-> e, value |-> {}]>> : e \in DOMAIN Programs}

Registers ==
  {Table[n].parts[i].reg : <<n, i>> \in UNION {{n} \X DOMAIN Table[n].parts : n \in DOMAIN Table}}
  \cup {Programs[e][i].reg : <<e, i>> \in UNION {{e} \X DOMAIN Programs[e] : e \in DOMAIN Programs}}

\* In the other bank every address is a register too: what a wrong bank would hit.
MCBackgrounds ==
  {[r \in {"dsp", "sensor"} \X {q[2] : q \in Registers} |-> byte] :
     byte \in {Byte \cap Even, Byte \ Even}}
=============================================================================
