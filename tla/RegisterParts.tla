---------------------------- MODULE RegisterParts ----------------------------
(***************************************************************************)
(* The parts of a setting in the registers of the camera.  A byte or a     *)
(* value is the set of its bits that are 1; a part is a register and the   *)
(* function that gives, for each bit it uses there, the bit of the value.  *)
(***************************************************************************)
EXTENDS Integers

Byte == 0 .. 7

\* A definition whose name starts with Bug_ is a wrong form of the one after it, with
\* which a property must fail; it is no part of the specification.
Bug_MergedAlone(p, v, old) == {b \in DOMAIN p.takes : p.takes[b] \in v}

\* The byte to write: the value's bits where the part takes them, else the old ones.
Merged(p, v, old) ==
  {b \in Byte : IF b \in DOMAIN p.takes THEN p.takes[b] \in v ELSE b \in old}

\* The bits of the value that a part finds in a byte.
Taken(p, byte) == {p.takes[b] : b \in DOMAIN p.takes \cap byte}

\* A part that uses a whole register is written without reading it.
Whole(p) == DOMAIN p.takes = Byte

\* The value of a setting that the registers r hold.
Held(setting, r) ==
  UNION {Taken(setting.parts[i], r[setting.parts[i].reg]) : i \in DOMAIN setting.parts}
=============================================================================
