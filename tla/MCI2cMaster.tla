----------------------------- MODULE MCI2cMaster -----------------------------
(***************************************************************************)
(* Two registers of one bit, so that a byte that goes to, or comes from,   *)
(* the wrong register shows; two tries and two rounds, so that a try       *)
(* follows one that was refused at every byte; two calls in a row.         *)
(***************************************************************************)
EXTENDS I2cMaster

CONSTANTS r1, r2

MCBytes == {{}, {0}}
=============================================================================
