------------------------------ MODULE MCSerialRx ------------------------------
(***************************************************************************)
(* SerialRx for TLC: a ring of five places, that is room for three bytes.   *)
(***************************************************************************)
EXTENDS SerialRx

const_Byte == {0, 1}
=============================================================================
