---------------------------- MODULE MCModemStart ----------------------------
(***************************************************************************)
(* ModemStart for TLC: the two access points of app.cpp:36.                 *)
(***************************************************************************)
EXTENDS ModemStart

MCNbiot == <<TRUE, FALSE>>
=============================================================================
