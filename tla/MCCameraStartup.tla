--------------------------- MODULE MCCameraStartup ---------------------------
EXTENDS CameraStartup

\* Every address that the start-up or a setting names, in both banks.
Addresses ==
  {r[2] : r \in Range(Dsp) \cup Range(Sensor)} \cup {w[1] : w \in ToSet(InitTable \o Rgb565Table)}

\* After a reset every other bit of the registers is 1, the even or the odd ones.
MCBackgrounds ==
  {[r \in {"dsp", "sensor"} \X Addresses |-> byte] : byte \in {{0, 2, 4, 6}, {1, 3, 5, 7}}}
=============================================================================
