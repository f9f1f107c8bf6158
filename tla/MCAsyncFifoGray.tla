--------------------------- MODULE MCAsyncFifoGray ---------------------------
(* Pointers of three bits and words of two kinds.                          *)
EXTENDS AsyncFifoGray
=============================================================================
