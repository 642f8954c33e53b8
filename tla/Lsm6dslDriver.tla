---------------------------- MODULE Lsm6dslDriver ----------------------------
(***************************************************************************)
(* The functions LSM6DSL_ACC_GYRO_W_<field> and LSM6DSL_ACC_GYRO_R_<field>   *)
(* of LSM6DSL_acc_gyro_driver.c, transfer by transfer.  All of them have    *)
(* one form: to write a field is to read each of its registers, replace the *)
(* bits of the field's mask and write the register back; to read one is to  *)
(* read its registers and keep the bits of the mask.                        *)
(*                                                                          *)
(* A byte is the set of its bits that are 1.  The value handed to a writer  *)
(* lies within the field's mask: the functions that take a number shift and *)
(* mask it, the others take an enumeration whose values do.                 *)
(***************************************************************************)
EXTENDS Integers, Sequences

CONSTANTS
    Fields,     \* the settings, sequences of pieces [reg, bits]
    Statuses,   \* the fields that only the device writes
    Contents,   \* the bytes of registers and arguments
    Focuses,    \* the sets of registers to look at: no call is for others
    MaxChanges  \* changes of a status register during a call

Bit == 0 .. 7

PiecesOf(fields) == UNION {{f[m] : m \in DOMAIN f} : f \in fields}
RegistersOf(fields) == {p.reg : p \in PiecesOf(fields)}

Registers == RegistersOf(Fields \cup Statuses)
Pieces == PiecesOf(Fields)

\* The bits of a register that belong to no setting.
ReservedBits ==
    [r \in RegistersOf(Fields) |-> Bit \ UNION {p.bits : p \in {q \in Pieces : q.reg = r}}]

ASSUME BoundAssumption ==
    /\ Contents \subseteq SUBSET Bit /\ Focuses \subseteq SUBSET Registers
    /\ MaxChanges \in Nat

\* A field is one piece or more; a mask is a part of a byte.
ASSUME PieceAssumption ==
    \A f \in Fields \cup Statuses :
        f \in Seq([reg : Registers, bits : SUBSET Bit]) /\ f # <<>>

\* The masks of the settings do not overlap, and no status is in their
\* registers.
ASSUME MaskAssumption ==
    /\ \A p, q \in Pieces : p.reg = q.reg /\ p.bits \cap q.bits # {} => p = q
    /\ \A f \in Fields : \A m, n \in DOMAIN f : f[m] = f[n] => m = n
    /\ RegistersOf(Fields) \cap RegistersOf(Statuses) = {}

VARIABLES
    mem,        \* the device's registers
    focus,      \* the registers this behaviour is about
    pc,         \* "idle", or the next transfer of the function that is running
    field,      \* which function it is
    newValue,   \* the argument of a writer
    done,       \* how many registers it has written or read
    value,      \* its local byte
    got,        \* the pieces it has read
    result,     \* what the last writer returned
    changes,    \* history: changes of status registers during the call
    seen        \* history: what the field being read has held since the call

call == <<pc, field, newValue, done, value, got, result>>
vars == <<mem, focus, call, changes, seen>>

Values(f) ==
    {v \in [DOMAIN f -> SUBSET Bit] : \A m \in DOMAIN f : v[m] \subseteq f[m].bits}

\* The arguments tried.
Arguments(f) == {[m \in DOMAIN f |-> byte \cap f[m].bits] : byte \in Contents}

\* What a field holds.
Held(f) == [m \in DOMAIN f |-> mem[f[m].reg] \cap f[m].bits]

piece == field[done + 1]

TypeOK ==
    /\ mem \in [Registers -> SUBSET Bit]
    /\ pc \in {"idle", "read", "write", "written", "get", "gotten"}
    /\ pc = "idle" => done = 0 /\ field = <<>>
    /\ pc # "idle" => field # <<>>
    /\ pc \in {"read", "write"} => field \in Fields /\ done \in 0 .. Len(field) - 1
    /\ pc = "written" => field \in Fields /\ done = Len(field)
    /\ pc \in {"get", "gotten"} => field \in Fields \cup Statuses
    /\ pc = "get" => done \in 0 .. Len(field) - 1
    /\ pc \in {"read", "write", "written"} => newValue \in Values(field)
    /\ value \in SUBSET Bit
    /\ result \in {"none", "MEMS_SUCCESS", "MEMS_ERROR"}

Init ==
    /\ focus \in Focuses
    /\ \E bytes \in [focus -> Contents] :
          mem = [r \in Registers |-> IF r \in focus THEN bytes[r] ELSE {}]
    /\ pc = "idle" /\ field = <<>> /\ newValue = <<>> /\ done = 0
    /\ value = {} /\ got = <<>> /\ result = "none"
    /\ changes = 0 /\ seen = {}

\* No function is running.
Idle ==
    pc' = "idle" /\ field' = <<>> /\ newValue' = <<>> /\ done' = 0
    /\ value' = {} /\ got' = <<>> /\ changes' = 0 /\ seen' = {}

------------------------------------------------------------------------------
(* W_<field>                                                                *)

CallW(f) ==
    /\ pc = "idle" /\ RegistersOf({f}) \subseteq focus
    /\ pc' = "read" /\ field' = f
    /\ newValue' \in Arguments(f)
    /\ result' = "none"
    /\ UNCHANGED <<mem, focus, done, value, got, changes, seen>>

ReadByte ==
    /\ pc = "read"
    /\ pc' = "write" /\ value' = mem[piece.reg]
    /\ UNCHANGED <<mem, focus, field, newValue, done, got, result, changes, seen>>

\* Mutant of Masked: the bits of the mask are not cleared.
MaskedNot == value \cup newValue[done + 1]

\* value &= ~MASK; value |= newValue;
Masked == (value \ piece.bits) \cup newValue[done + 1]

\* write_reg, which goes on with the next register of the field if there is one.
WriteByte ==
    /\ pc = "write"
    /\ mem' = [mem EXCEPT ![piece.reg] = Masked]
    /\ done' = done + 1
    /\ pc' = IF done + 1 < Len(field) THEN "read" ELSE "written"
    /\ UNCHANGED <<focus, field, newValue, value, got, result, changes, seen>>

ReturnW ==
    /\ pc = "written"
    /\ Idle /\ result' = "MEMS_SUCCESS"
    /\ UNCHANGED <<mem, focus>>

\* io_read or io_write fails; in the latter case the byte may have arrived.
TransferFails ==
    /\ pc \in {"read", "write"}
    /\ Idle /\ result' = "MEMS_ERROR"
    /\ \/ UNCHANGED mem
       \/ pc = "write" /\ mem' = [mem EXCEPT ![piece.reg] = Masked]
    /\ UNCHANGED focus

------------------------------------------------------------------------------
(* R_<field>                                                                *)

CallR(f) ==
    /\ pc = "idle" /\ RegistersOf({f}) \subseteq focus
    /\ pc' = "get" /\ field' = f
    /\ changes' = 0 /\ seen' = {Held(f)}
    /\ UNCHANGED <<mem, focus, newValue, done, value, got, result>>

\* Mutant of GetPiece: the mask is not applied.
GetPieceUnmasked ==
    /\ pc = "get"
    /\ got' = Append(got, mem[piece.reg])
    /\ done' = done + 1
    /\ pc' = IF done + 1 < Len(field) THEN "get" ELSE "gotten"
    /\ UNCHANGED <<mem, focus, field, newValue, value, result, changes, seen>>

GetPiece ==
    /\ pc = "get"
    /\ got' = Append(got, mem[piece.reg] \cap piece.bits)
    /\ done' = done + 1
    /\ pc' = IF done + 1 < Len(field) THEN "get" ELSE "gotten"
    /\ UNCHANGED <<mem, focus, field, newValue, value, result, changes, seen>>

\* The function returns MEMS_SUCCESS and got, or MEMS_ERROR.
ReturnR ==
    /\ pc \in {"get", "gotten"}
    /\ Idle
    /\ UNCHANGED <<mem, focus, result>>

------------------------------------------------------------------------------

\* The watchdog resets the processor, not the device.
Reset ==
    /\ pc # "idle"
    /\ Idle /\ result' = IF pc \in {"get", "gotten"} THEN result ELSE "none"
    /\ UNCHANGED <<mem, focus>>

\* The device changes a status register while it is being read.
StatusChanges ==
    /\ pc \in {"get", "gotten"} /\ changes < MaxChanges
    /\ \E r \in focus \cap RegistersOf(Statuses) :
        \E byte \in Contents : mem' = [mem EXCEPT ![r] = byte]
    /\ changes' = changes + 1
    /\ UNCHANGED <<focus, call>>
    /\ seen' = seen \cup {Held(field)'}

Next ==
    \/ \E f \in Fields : CallW(f)
    \/ \E f \in Fields \cup Statuses : CallR(f)
    \/ ReadByte \/ WriteByte \/ ReturnW \/ TransferFails
    \/ GetPiece \/ ReturnR \/ Reset \/ StatusChanges

Spec == Init /\ [][Next]_vars

------------------------------------------------------------------------------

(***************************************************************************)
(* Properties                                                               *)
(***************************************************************************)

\* A reader returns what the field held at one moment of the call.  A status
\* that spans two registers is excepted: R_FIFONumOfEntries and
\* R_FIFOPattern put together bytes of two moments.
ReadNotTorn ==
    pc = "gotten" /\ (field \in Fields \/ Len(field) = 1) => got \in seen

\* The settings as FieldStore sees them.
Content == [p \in Pieces |-> mem[p.reg] \cap p.bits]
Reserved == [r \in RegistersOf(Fields) |-> mem[r] \cap ReservedBits[r]]
Writing == pc \in {"read", "write", "written"}

\* The writers keep the fields of a register apart and report success only if
\* all of the field is set, as FieldStore says.
Store == INSTANCE FieldStore WITH
    content <- Content,
    reserved <- Reserved,
    field <- IF Writing THEN field ELSE <<>>,
    newValue <- IF Writing THEN newValue ELSE <<>>,
    done <- IF Writing THEN done ELSE 0

StoreSpec == Store!Spec
=============================================================================
