--------------------------- MODULE MCAccelerometer ---------------------------
(***************************************************************************)
(* Accelerometer for TLC: the threshold of config_default.h and another.    *)
(***************************************************************************)
EXTENDS Accelerometer

MCThresholds == {3, 63}
=============================================================================
