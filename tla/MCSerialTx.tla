------------------------------ MODULE MCSerialTx ------------------------------
(***************************************************************************)
(* SerialTx for TLC: a ring of four places, that is room for two bytes.     *)
(***************************************************************************)
EXTENDS SerialTx

const_Byte == {0, 1}
=============================================================================
