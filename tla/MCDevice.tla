------------------------------ MODULE MCDevice ------------------------------
(***************************************************************************)
(* Device for TLC, with a clock that ticks once a minute.                   *)
(***************************************************************************)
EXTENDS Device

\* The server may send a wakeupTime its bit field cuts to 3, one it cuts to 0
\* (as the device's cuts 64), or one that is refused.
const_Configs == {<<7, 5>>, <<4, 5>>, <<0, 2>>}

const_PowerOn == {0, 4}
=============================================================================
