--------------------------- MODULE MCLsm6dslDriver ---------------------------
(***************************************************************************)
(* Lsm6dslDriver with the fields of Lsm6dslFields, for TLC.                 *)
(***************************************************************************)
EXTENDS Lsm6dslDriver, Lsm6dslFields

\* Bytes that tell neighbouring bits apart.
MCContents == {{}, {0, 2, 4, 6}, {1, 3, 5, 7}, 0 .. 7}

\* The registers of one field at a time.
MCFocuses == {RegistersOf({f}) : f \in SettingFields \cup StatusFields}
=============================================================================
