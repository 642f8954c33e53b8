----------------------------- MODULE FieldStore -----------------------------
(***************************************************************************)
(* What the driver of the LSM6DSL promises about the device's settings:     *)
(* they are kept apart.  To set a field is to set its pieces one after the  *)
(* other, nothing else changes, and success is reported only when all are   *)
(* set.  A failure leaves the first pieces set and the others as they were. *)
(***************************************************************************)
EXTENDS Integers, Sequences

CONSTANT Fields     \* sequences of pieces [reg, bits]

Bit == 0 .. 7

Pieces == UNION {{f[m] : m \in DOMAIN f} : f \in Fields}

\* What a field can be set to: bits for each of its pieces.
Values(f) ==
    {v \in [DOMAIN f -> SUBSET Bit] : \A m \in DOMAIN f : v[m] \subseteq f[m].bits}

VARIABLES
    content,    \* what each piece is set to
    reserved,   \* the bits of each register that belong to no field
    field,      \* the field being set, <<>> if none is
    newValue,   \* what it is set to
    done,       \* how many of its pieces are
    result      \* what the last call returned, "none" if it did not

vars == <<content, reserved, field, newValue, done, result>>

Init ==
    /\ content \in [Pieces -> SUBSET Bit]
    /\ field = <<>> /\ newValue = <<>> /\ done = 0 /\ result = "none"

Begin ==
    /\ field = <<>>
    /\ \E f \in Fields : field' = f /\ newValue' \in Values(f)
    /\ result' = "none"
    /\ UNCHANGED <<content, reserved, done>>

SetNext == content' = [content EXCEPT ![field[done + 1]] = newValue[done + 1]]

Put ==
    /\ field # <<>> /\ done < Len(field)
    /\ SetNext
    /\ done' = done + 1
    /\ UNCHANGED <<reserved, field, newValue, result>>

End == field' = <<>> /\ newValue' = <<>> /\ done' = 0

Succeed ==
    /\ field # <<>> /\ done = Len(field)
    /\ End
    /\ result' = "MEMS_SUCCESS"
    /\ UNCHANGED <<content, reserved>>

\* A transfer that failed may have reached the device.  There is no result if
\* the processor was reset.
Fail ==
    /\ field # <<>>
    /\ End
    /\ result' \in {"MEMS_ERROR", "none"}
    /\ UNCHANGED content \/ (done < Len(field) /\ SetNext)
    /\ UNCHANGED reserved

Next == Begin \/ Put \/ Succeed \/ Fail

Spec == Init /\ [][Next]_vars
=============================================================================
