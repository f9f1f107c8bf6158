---------------------------- MODULE MCCameraPath ----------------------------
(* A buffer of four words and frames of four pixels: every frame can overrun *)
(* the buffer at every pixel.                                              *)
EXTENDS CameraPath

MCWords == [sof : BOOLEAN, hi : 0 .. 3, lo : 0 .. 3]
MCBlank == [sof |-> FALSE, hi |-> 0, lo |-> 0]
=============================================================================
