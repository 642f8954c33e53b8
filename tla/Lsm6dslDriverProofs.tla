------------------------- MODULE Lsm6dslDriverProofs -------------------------
(***************************************************************************)
(* Proofs about Lsm6dslDriver, for every table of fields whose masks do not *)
(* overlap, all contents of the registers and all arguments: the writers    *)
(* implement FieldStore, and the readers return what was there at once.     *)
(***************************************************************************)
EXTENDS Lsm6dslDriver, TLAPS

\* An element of a sequence is one of its set.
LEMMA ElementType ==
  ASSUME NEW S, NEW s \in Seq(S), NEW m \in 1 .. Len(s)
  PROVE  s[m] \in S
  OBVIOUS

\* A field has a first piece, and its pieces are bits of registers.
LEMMA FieldShape ==
  ASSUME NEW f \in Fields \cup Statuses
  PROVE  /\ Len(f) \in Nat \ {0} /\ DOMAIN f = 1 .. Len(f) /\ f # <<>>
         /\ \A m \in 1 .. Len(f) :
               f[m] \in [reg : Registers, bits : SUBSET Bit]
  <1>1. f \in Seq([reg : Registers, bits : SUBSET Bit]) /\ f # <<>>
    BY PieceAssumption
  <1>2. Len(f) \in Nat /\ DOMAIN f = 1 .. Len(f)
    BY <1>1
  <1>3. Len(f) # 0
    BY <1>1
  <1>4. ASSUME NEW m \in 1 .. Len(f)
        PROVE  f[m] \in [reg : Registers, bits : SUBSET Bit]
    BY <1>1, ElementType
  <1>5. Len(f) \in Nat \ {0}
    BY <1>2, <1>3
  <1> QED BY <1>1, <1>2, <1>4, <1>5

\* The pieces of settings are among Pieces, their registers among Registers.
LEMMA PieceOfField ==
  ASSUME NEW f \in Fields, NEW m \in 1 .. Len(f)
  PROVE  f[m] \in Pieces /\ f[m].reg \in RegistersOf(Fields)
  <1>1. m \in DOMAIN f
    BY FieldShape
  <1>2. f[m] \in PiecesOf(Fields)
    BY <1>1 DEF PiecesOf
  <1> QED BY <1>2 DEF Pieces, RegistersOf

\* A piece is a register and bits of it.
LEMMA PieceShape ==
  ASSUME NEW p \in Pieces
  PROVE  p.reg \in Registers /\ p.bits \subseteq Bit /\ p.reg \in RegistersOf(Fields)
  <1>1. PICK f \in Fields : \E m \in DOMAIN f : p = f[m]
    BY DEF Pieces, PiecesOf
  <1>2. PICK m \in DOMAIN f : p = f[m]
    BY <1>1
  <1>3. p \in [reg : Registers, bits : SUBSET Bit]
    BY <1>2, FieldShape
  <1> QED BY <1>3 DEF RegistersOf, Pieces

\* The arguments of a writer are contents of its field.
LEMMA ArgumentsAreValues ==
  ASSUME NEW f \in Fields
  PROVE  Arguments(f) \subseteq Values(f)
  <1> SUFFICES ASSUME NEW byte \in Contents
               PROVE  [m \in DOMAIN f |-> byte \cap f[m].bits] \in Values(f)
    BY DEF Arguments
  <1>1. byte \subseteq Bit
    BY BoundAssumption
  <1> QED BY <1>1 DEF Values

------------------------------------------------------------------------------
(* Types.                                                                   *)

\* The variables are typed at first.
LEMMA InitType == Init => TypeOK
  <1> SUFFICES ASSUME Init
               PROVE  TypeOK
    OBVIOUS
  <1>1. PICK bytes \in [focus -> Contents] :
          mem = [r \in Registers |-> IF r \in focus THEN bytes[r] ELSE {}]
    BY DEF Init
  <1>2. mem \in [Registers -> SUBSET Bit]
    BY <1>1, BoundAssumption
  <1> QED BY <1>2 DEF Init, TypeOK

\* A writer at a register: the byte it will write.
LEMMA MaskedType ==
  ASSUME TypeOK, pc \in {"read", "write"}
  PROVE  /\ done + 1 \in 1 .. Len(field) /\ piece \in Pieces
         /\ newValue[done + 1] \subseteq piece.bits
         /\ Masked \in SUBSET Bit
         /\ piece.reg \in Registers
  <1>1. field \in Fields /\ done + 1 \in 1 .. Len(field)
    BY FieldShape DEF TypeOK
  <1>2. piece \in Pieces /\ piece.bits \subseteq Bit /\ piece.reg \in Registers
    BY <1>1, PieceOfField, PieceShape DEF piece
  <1>3. newValue \in Values(field) /\ done + 1 \in DOMAIN field
    BY <1>1, FieldShape DEF TypeOK
  <1>4. newValue[done + 1] \subseteq piece.bits
    BY <1>3 DEF Values, piece
  <1>5. value \subseteq Bit
    BY DEF TypeOK
  <1> QED BY <1>1, <1>2, <1>4, <1>5 DEF Masked

\* Every step keeps the types.
LEMMA StepType == TypeOK /\ [Next]_vars => TypeOK'
  <1> SUFFICES ASSUME TypeOK, [Next]_vars
               PROVE  TypeOK'
    OBVIOUS
  <1>1. ASSUME NEW f \in Fields, CallW(f)
        PROVE  TypeOK'
    <2>1. newValue' \in Values(f) /\ field' = f /\ done' = done /\ pc' = "read"
      BY <1>1, ArgumentsAreValues DEF CallW
    <2>2. done = 0
      BY <1>1 DEF TypeOK, CallW
    <2>3. 0 \in 0 .. Len(f) - 1 /\ f # <<>>
      BY FieldShape
    <2> QED BY <1>1, <2>1, <2>2, <2>3 DEF CallW, TypeOK, Values
  <1>2. ASSUME NEW f \in Fields \cup Statuses, CallR(f)
        PROVE  TypeOK'
    <2>1. 0 \in 0 .. Len(f) - 1 /\ f # <<>>
      BY FieldShape
    <2> QED BY <1>2, <2>1 DEF CallR, TypeOK
  <1>3. CASE ReadByte
    <2>1. piece.reg \in Registers
      BY <1>3, MaskedType DEF ReadByte
    <2> QED BY <1>3, <2>1 DEF ReadByte, TypeOK, Values
  <1>4. CASE WriteByte
    <2>1. mem' \in [Registers -> SUBSET Bit]
      BY <1>4, MaskedType DEF WriteByte, TypeOK
    <2>2. done + 1 \in 0 .. Len(field) /\ Len(field) \in Nat
      BY <1>4, MaskedType, FieldShape DEF WriteByte, TypeOK
    <2>3. IF done + 1 < Len(field) THEN done + 1 \in 0 .. Len(field) - 1
                                   ELSE done + 1 = Len(field)
      BY <2>2
    <2>4. field # <<>> /\ field \in Fields /\ newValue \in Values(field)
      BY <1>4, FieldShape DEF WriteByte, TypeOK
    <2> QED BY <1>4, <2>1, <2>3, <2>4 DEF WriteByte, TypeOK, Values
  <1>5. CASE ReturnW
    BY <1>5 DEF ReturnW, Idle, TypeOK
  <1>6. CASE TransferFails
    <2>1. mem' \in [Registers -> SUBSET Bit]
      BY <1>6, MaskedType DEF TransferFails, TypeOK
    <2> QED BY <1>6, <2>1 DEF TransferFails, Idle, TypeOK
  <1>7. CASE GetPiece
    <2>1. field \in Fields \cup Statuses /\ done \in 0 .. Len(field) - 1
      BY <1>7 DEF GetPiece, TypeOK
    <2>2. Len(field) \in Nat /\ field # <<>>
      BY <2>1, FieldShape
    <2>3. done + 1 < Len(field) => done + 1 \in 0 .. Len(field) - 1
      BY <2>1, <2>2
    <2> QED BY <1>7, <2>1, <2>2, <2>3 DEF GetPiece, TypeOK
  <1>8. CASE ReturnR
    BY <1>8 DEF ReturnR, Idle, TypeOK
  <1>9. CASE Reset
    BY <1>9 DEF Reset, Idle, TypeOK
  <1>10. CASE StatusChanges
    <2>1. PICK r \in RegistersOf(Statuses), byte \in Contents :
            mem' = [mem EXCEPT ![r] = byte]
      BY <1>10 DEF StatusChanges
    <2>2. byte \in SUBSET Bit
      BY BoundAssumption
    <2>3. mem' \in [Registers -> SUBSET Bit]
      BY <2>1, <2>2 DEF TypeOK
    <2> QED BY <1>10, <2>3 DEF StatusChanges, call, TypeOK
  <1>11. CASE UNCHANGED vars
    BY <1>11 DEF vars, call, TypeOK, Values
  <1> QED
    BY <1>1, <1>2, <1>3, <1>4, <1>5, <1>6, <1>7, <1>8, <1>9, <1>10, <1>11 DEF Next

\* The driver's variables are what they are declared to be.
THEOREM TypeCorrect == Spec => []TypeOK
  BY InitType, StepType, PTL DEF Spec

------------------------------------------------------------------------------
(* Refinement of FieldStore.  Between the two transfers nobody else writes   *)
(* the register, so the local byte is what the register holds.              *)

Fresh == pc = "write" => value = mem[piece.reg]

IInv == TypeOK /\ Fresh

\* No function runs at first.
LEMMA IInvInit == Init => IInv
  BY InitType DEF IInv, Fresh, Init

\* Every step keeps the byte in the hands of a writer true.
LEMMA IInvStep == IInv /\ [Next]_vars => IInv'
  <1> SUFFICES ASSUME IInv, [Next]_vars
               PROVE  Fresh'
    BY StepType DEF IInv
  <1>1. CASE ReadByte
    BY <1>1 DEF ReadByte, Fresh, piece
  <1>2. CASE WriteByte
    BY <1>2 DEF WriteByte, Fresh
  <1>3. CASE StatusChanges
    BY <1>3 DEF StatusChanges, call, Fresh
  <1>4. CASE UNCHANGED vars
    BY <1>4 DEF vars, call, IInv, Fresh, piece
  <1>5. CASE ReturnW \/ TransferFails \/ ReturnR \/ Reset
    BY <1>5 DEF ReturnW, TransferFails, ReturnR, Reset, Idle, Fresh
  <1>6. CASE GetPiece
    BY <1>6 DEF GetPiece, Fresh
  <1>7. ASSUME NEW f \in Fields \cup Statuses, CallW(f) \/ CallR(f)
        PROVE  Fresh'
    BY <1>7 DEF CallW, CallR, Fresh
  <1> QED
    BY <1>1, <1>2, <1>3, <1>4, <1>5, <1>6, <1>7 DEF Next

\* What a writer writes back sets its piece, and neither another piece nor a
\* bit that belongs to none.
LEMMA WrittenBack ==
  ASSUME IInv, pc = "write",
         mem' = [mem EXCEPT ![piece.reg] = Masked]
  PROVE  /\ Content' = [Content EXCEPT ![piece] = newValue[done + 1]]
         /\ Reserved' = Reserved
  <1>1. /\ piece \in Pieces /\ newValue[done + 1] \subseteq piece.bits
        /\ piece.reg \in Registers
    BY MaskedType DEF IInv
  <1>2. value = mem[piece.reg] /\ mem \in [Registers -> SUBSET Bit]
    BY DEF IInv, Fresh, TypeOK
  <1>3. mem'[piece.reg] = (mem[piece.reg] \ piece.bits) \cup newValue[done + 1]
    BY <1>1, <1>2 DEF Masked
  <1>4. ASSUME NEW r \in Registers, r # piece.reg
        PROVE  mem'[r] = mem[r]
    BY <1>4, <1>2
  <1>5. ASSUME NEW p \in Pieces
        PROVE  mem'[p.reg] \cap p.bits
                 = IF p = piece THEN newValue[done + 1] ELSE mem[p.reg] \cap p.bits
    <2>1. CASE p.reg # piece.reg
      BY <2>1, <1>4, PieceShape
    <2>2. CASE p.reg = piece.reg /\ p # piece
      <3>1. p.bits \cap piece.bits = {}
        BY <2>2, <1>1, MaskAssumption
      <3> QED BY <2>2, <3>1, <1>1, <1>3
    <2>3. CASE p = piece
      BY <2>3, <1>1, <1>3
    <2> QED BY <2>1, <2>2, <2>3
  <1>6. Content' = [Content EXCEPT ![piece] = newValue[done + 1]]
    BY <1>1, <1>5 DEF Content
  <1>7. ASSUME NEW r \in RegistersOf(Fields)
        PROVE  mem'[r] \cap ReservedBits[r] = mem[r] \cap ReservedBits[r]
    <2>1. r \in Registers
      BY DEF Registers, RegistersOf, PiecesOf
    <2>2. CASE r = piece.reg
      <3>1. ReservedBits[r] \cap piece.bits = {}
        BY <1>1, <2>2 DEF ReservedBits
      <3> QED BY <3>1, <2>2, <1>1, <1>3
    <2> QED BY <2>1, <2>2, <1>4
  <1>8. Reserved' = Reserved
    BY <1>7 DEF Reserved
  <1> QED BY <1>6, <1>8

\* Steps that leave the settings' registers alone.
LEMMA Untouched ==
  ASSUME \A r \in RegistersOf(Fields) : mem'[r] = mem[r]
  PROVE  Content' = Content /\ Reserved' = Reserved
  BY PieceShape DEF Content, Reserved

\* The first states are first states of the abstract store.
LEMMA StoreInit == Init => Store!Init
  <1> SUFFICES ASSUME Init
               PROVE  Store!Init
    OBVIOUS
  <1>1. TypeOK
    BY InitType
  <1>2. ASSUME NEW p \in Pieces
        PROVE  mem[p.reg] \cap p.bits \in SUBSET Bit
    BY PieceShape
  <1>3. Content \in [Pieces -> SUBSET Bit]
    BY <1>2 DEF Content
  <1>4. Store!Pieces = Pieces /\ Store!Bit = Bit
    BY DEF Store!Pieces, Pieces, PiecesOf, Store!Bit, Bit
  <1> QED BY <1>3, <1>4 DEF Init, Store!Init, Writing

\* Every step is one of the abstract store, or leaves it alone.
LEMMA StoreStep == IInv /\ [Next]_vars => [Store!Next]_(Store!vars)
  <1> SUFFICES ASSUME IInv, [Next]_vars
               PROVE  [Store!Next]_(Store!vars)
    OBVIOUS
  <1> USE DEF Writing
  <1>1. ASSUME NEW f \in Fields, CallW(f)
        PROVE  Store!Begin
    <2>1. newValue' \in Store!Values(f)
      BY <1>1, ArgumentsAreValues DEF CallW, Values, Store!Values, Store!Bit, Bit
    <2>2. Content' = Content /\ Reserved' = Reserved
      BY <1>1, Untouched DEF CallW
    <2>3. done = 0 /\ done' = 0
      BY <1>1 DEF CallW, IInv, TypeOK
    <2> QED BY <1>1, <2>1, <2>2, <2>3 DEF CallW, Store!Begin
  <1>2. CASE ReadByte
    <2>1. Content' = Content /\ Reserved' = Reserved
      BY <1>2, Untouched DEF ReadByte
    <2> QED BY <1>2, <2>1 DEF ReadByte, Store!vars
  <1>3. CASE WriteByte
    <2>1. /\ Content' = [Content EXCEPT ![field[done + 1]] = newValue[done + 1]]
          /\ Reserved' = Reserved
      BY <1>3, WrittenBack DEF WriteByte, piece
    <2>2. field # <<>> /\ done < Len(field)
      BY <1>3, FieldShape DEF WriteByte, IInv, TypeOK
    <2> QED BY <1>3, <2>1, <2>2 DEF WriteByte, Store!Put, Store!SetNext, Store!Next
  <1>4. CASE ReturnW
    <2>1. Content' = Content /\ Reserved' = Reserved
      BY <1>4, Untouched DEF ReturnW
    <2>2. field # <<>> /\ done = Len(field)
      BY <1>4 DEF ReturnW, IInv, TypeOK
    <2> QED BY <1>4, <2>1, <2>2 DEF ReturnW, Idle, Store!Succeed, Store!End, Store!Next
  <1>5. CASE TransferFails
    <2>1. field # <<>> /\ done < Len(field)
      BY <1>5, FieldShape DEF TransferFails, IInv, TypeOK
    <2>2. CASE UNCHANGED mem
      <3>1. Content' = Content /\ Reserved' = Reserved
        BY <2>2, Untouched
      <3> QED BY <1>5, <2>1, <3>1
              DEF TransferFails, Idle, Store!Fail, Store!End, Store!Next
    <2>3. CASE pc = "write" /\ mem' = [mem EXCEPT ![piece.reg] = Masked]
      <3>1. /\ Content' = [Content EXCEPT ![field[done + 1]] = newValue[done + 1]]
            /\ Reserved' = Reserved
        BY <2>3, WrittenBack DEF piece
      <3> QED BY <1>5, <2>1, <3>1
              DEF TransferFails, Idle, Store!Fail, Store!SetNext, Store!End, Store!Next
    <2> QED BY <1>5, <2>2, <2>3 DEF TransferFails
  <1>6. CASE Reset /\ pc \in {"read", "write", "written"}
    <2>1. Content' = Content /\ Reserved' = Reserved
      BY <1>6, Untouched DEF Reset
    <2>2. field # <<>>
      BY <1>6 DEF IInv, TypeOK
    <2> QED BY <1>6, <2>1, <2>2 DEF Reset, Idle, Store!Fail, Store!End, Store!Next
  <1>7. CASE (Reset \/ ReturnR \/ GetPiece) /\ pc \in {"get", "gotten"}
    <2>1. Content' = Content /\ Reserved' = Reserved
      BY <1>7, Untouched DEF Reset, ReturnR, GetPiece
    <2> QED BY <1>7, <2>1 DEF Reset, ReturnR, GetPiece, Idle, Store!vars
  <1>8. ASSUME NEW f \in Fields \cup Statuses, CallR(f)
        PROVE  UNCHANGED Store!vars
    <2>1. Content' = Content /\ Reserved' = Reserved
      BY <1>8, Untouched DEF CallR
    <2> QED BY <1>8, <2>1 DEF CallR, Store!vars
  <1>9. CASE StatusChanges
    <2>1. PICK r \in RegistersOf(Statuses), byte \in Contents :
            mem' = [mem EXCEPT ![r] = byte]
      BY <1>9 DEF StatusChanges
    <2>2. r \notin RegistersOf(Fields)
      BY MaskAssumption
    <2>3. \A q \in RegistersOf(Fields) : mem'[q] = mem[q]
      BY <2>1, <2>2 DEF IInv, TypeOK
    <2> QED BY <1>9, <2>3, Untouched DEF StatusChanges, call, Store!vars
  <1>10. CASE UNCHANGED vars
    <2>1. Content' = Content /\ Reserved' = Reserved
      BY <1>10, Untouched DEF vars
    <2> QED BY <1>10, <2>1 DEF vars, call, Store!vars
  <1>11. Reset => pc # "idle"
    BY DEF Reset
  <1>12. ReturnR \/ GetPiece => pc \in {"get", "gotten"}
    BY DEF ReturnR, GetPiece
  <1> QED
    BY <1>1, <1>2, <1>3, <1>4, <1>5, <1>6, <1>7, <1>8, <1>9, <1>10, <1>11, <1>12
       DEF Next, Store!Next, IInv, TypeOK

\* The writers, register by register and with failing transfers, keep the
\* settings as FieldStore promises.
THEOREM Refinement == Spec => StoreSpec
  BY IInvInit, IInvStep, StoreInit, StoreStep, PTL DEF Spec, StoreSpec, Store!Spec

------------------------------------------------------------------------------
(* Readers.  What has been read of a setting is what it still holds; what    *)
(* has been read of a status of one register is what it held then.          *)

Reading == pc \in {"get", "gotten"}

ReadSoFar ==
  Reading =>
    /\ got \in Seq(SUBSET Bit) /\ Len(got) = done /\ done \in 0 .. Len(field)
    /\ pc = "gotten" => done = Len(field)
    /\ Held(field) \in seen
    /\ field \in Fields => \A m \in 1 .. done : got[m] = Held(field)[m]
    /\ Len(field) = 1 /\ done = 1 => got \in seen

RInv == TypeOK /\ ReadSoFar /\ (~ Reading => got = <<>>)

\* No reader runs at first.
LEMMA RInvInit == Init => RInv
  BY InitType DEF Init, RInv, Reading, ReadSoFar

\* The last piece of a field is the one its length says.
LEMMA LastIndex ==
  ASSUME NEW len \in Nat \ {0}, NEW d \in 0 .. len - 1
  PROVE  ~ (d + 1 < len) => d + 1 = len
  OBVIOUS

\* A piece is added to what has been read.
LEMMA GetStep ==
  ASSUME RInv, GetPiece
  PROVE  RInv'
  <1>1. /\ field \in Fields \cup Statuses /\ pc = "get" /\ done \in 0 .. Len(field) - 1
        /\ got \in Seq(SUBSET Bit) /\ Len(got) = done
        /\ Held(field) \in seen
    BY DEF GetPiece, RInv, TypeOK, ReadSoFar, Reading
  <1>2. /\ Len(field) \in Nat \ {0} /\ DOMAIN field = 1 .. Len(field)
        /\ done + 1 \in DOMAIN field
    BY <1>1, FieldShape
  <1>3. piece.reg \in Registers /\ mem[piece.reg] \in SUBSET Bit
    BY <1>1, <1>2, FieldShape DEF piece, RInv, TypeOK
  <1>4. Held(field)[done + 1] = mem[piece.reg] \cap piece.bits
    BY <1>2 DEF Held, piece
  <1>5. /\ got' = Append(got, Held(field)[done + 1]) /\ got' \in Seq(SUBSET Bit)
        /\ Len(got') = done + 1
    BY <1>1, <1>3, <1>4 DEF GetPiece
  <1>6. done' = done + 1 /\ field' = field /\ seen' = seen /\ mem' = mem
    BY DEF GetPiece
  <1>7. Held(field)' = Held(field)
    BY <1>6 DEF Held
  <1>8. ASSUME field \in Fields, NEW m \in 1 .. done + 1
        PROVE  got'[m] = Held(field)[m]
    <2>1. CASE m = done + 1
      BY <2>1, <1>1, <1>5
    <2>2. CASE m \in 1 .. done
      <3>1. got'[m] = got[m]
        BY <2>2, <1>1, <1>5
      <3> QED BY <2>2, <3>1, <1>1, <1>8 DEF RInv, ReadSoFar, Reading
    <2> QED BY <2>1, <2>2, <1>1
  <1>9. ASSUME Len(field) = 1, done + 1 = 1
        PROVE  got' \in seen
    <2>1. got' = <<Held(field)[1]>>
      BY <1>9, <1>1, <1>5
    <2>2. Held(field) = <<Held(field)[1]>>
      BY <1>9, <1>2 DEF Held
    <2> QED BY <2>1, <2>2, <1>1
  <1>10. pc' = "gotten" => done + 1 = Len(field)
    <2>1. ~ (done + 1 < Len(field)) => done + 1 = Len(field)
      BY <1>1, <1>2, LastIndex
    <2> QED BY <2>1 DEF GetPiece
  <1>11. done + 1 \in 0 .. Len(field) /\ Reading'
    BY <1>1, <1>2 DEF GetPiece, Reading
  <1>12. TypeOK'
    BY StepType DEF RInv, Next
  <1> QED
    BY <1>1, <1>5, <1>6, <1>7, <1>8, <1>9, <1>10, <1>11, <1>12 DEF RInv, ReadSoFar

\* Every step keeps the pieces read those of one moment seen.
LEMMA RInvStep == RInv /\ [Next]_vars => RInv'
  <1> SUFFICES ASSUME RInv, [Next]_vars
               PROVE  RInv'
    OBVIOUS
  <1>0. TypeOK'
    BY StepType DEF RInv
  <1>1. ASSUME NEW f \in Fields \cup Statuses, CallR(f)
        PROVE  RInv'
    <2>1. done = 0 /\ got = <<>> /\ Len(f) \in Nat \ {0}
      BY <1>1, FieldShape DEF CallR, RInv, TypeOK, Reading
    <2>2. Held(f)' = Held(f)
      BY <1>1 DEF CallR, Held
    <2>3. field' = f /\ seen' = {Held(f)} /\ done' = 0 /\ got' = <<>> /\ pc' = "get"
      BY <1>1, <2>1 DEF CallR
    <2>4. Held(field)' = Held(f)
      BY <2>2, <2>3 DEF Held
    <2>5. ReadSoFar'
      BY <2>1, <2>3, <2>4 DEF ReadSoFar
    <2> QED BY <2>3, <2>5, <1>0 DEF RInv, Reading
  <1>2. CASE GetPiece
    BY <1>2, GetStep
  <1>3. CASE StatusChanges
    <2>1. PICK r \in RegistersOf(Statuses), byte \in Contents :
            mem' = [mem EXCEPT ![r] = byte]
      BY <1>3 DEF StatusChanges
    <2>2. r \notin RegistersOf(Fields)
      BY MaskAssumption
    <2>3. /\ pc' = pc /\ field' = field /\ done' = done /\ got' = got /\ Reading /\ Reading'
          /\ seen' = seen \cup {Held(field)'}
      BY <1>3 DEF StatusChanges, call, Reading
    <2>4. ASSUME field \in Fields
          PROVE  Held(field)' = Held(field)
      <3>1. ASSUME NEW m \in DOMAIN field
            PROVE  mem'[field[m].reg] = mem[field[m].reg]
        <4>1. field[m].reg \in RegistersOf(Fields)
          BY <2>4, PieceOfField, FieldShape
        <4>2. field[m].reg \in Registers
          BY <2>4, FieldShape
        <4> QED BY <4>1, <4>2, <2>1, <2>2 DEF RInv, TypeOK
      <3> QED BY <3>1, <2>3 DEF Held
    <2>5. ReadSoFar'
      BY <2>3, <2>4 DEF RInv, ReadSoFar
    <2> QED BY <2>3, <2>5, <1>0 DEF RInv
  <1>4. CASE UNCHANGED vars
    BY <1>4, <1>0 DEF vars, call, RInv, ReadSoFar, Reading, Held
  <1>5. ASSUME NEW f \in Fields, CallW(f)
        PROVE  RInv'
    BY <1>5, <1>0 DEF CallW, RInv, ReadSoFar, Reading
  <1>6. CASE ReadByte \/ WriteByte
    BY <1>6, <1>0 DEF ReadByte, WriteByte, RInv, ReadSoFar, Reading
  <1>7. CASE ReturnW \/ TransferFails \/ ReturnR \/ Reset
    BY <1>7, <1>0
       DEF ReturnW, TransferFails, ReturnR, Reset, Idle, RInv, ReadSoFar, Reading
  <1> QED
    BY <1>1, <1>2, <1>3, <1>4, <1>5, <1>6, <1>7 DEF Next

\* A reader returns what the field held at one moment of the call.
THEOREM ReadsWhole == Spec => []ReadNotTorn
  <1>1. RInv => ReadNotTorn
    <2> SUFFICES ASSUME RInv, pc = "gotten", field \in Fields \/ Len(field) = 1
                 PROVE  got \in seen
      BY DEF ReadNotTorn
    <2>1. field \in Fields \cup Statuses /\ Reading /\ done = Len(field) /\ ReadSoFar
      BY DEF RInv, TypeOK, ReadSoFar, Reading
    <2>2. Len(field) \in Nat /\ DOMAIN field = 1 .. Len(field)
      BY <2>1, FieldShape
    <2>3. CASE field \in Fields
      <3>1. DOMAIN Held(field) = 1 .. done /\ DOMAIN got = 1 .. done
        BY <2>1, <2>2 DEF ReadSoFar, Held
      <3>2. \A m \in 1 .. done : got[m] = Held(field)[m]
        BY <2>1, <2>3 DEF ReadSoFar
      <3>3. got = [m \in 1 .. done |-> got[m]]
        BY <3>1, <2>1 DEF ReadSoFar
      <3>4. Held(field) = [m \in 1 .. done |-> Held(field)[m]]
        BY <3>1 DEF Held
      <3>5. got = Held(field)
        BY <3>2, <3>3, <3>4
      <3> QED BY <3>5, <2>1 DEF ReadSoFar
    <2>4. CASE Len(field) = 1
      BY <2>4, <2>1 DEF ReadSoFar
    <2> QED BY <2>3, <2>4
  <1> QED BY <1>1, RInvInit, RInvStep, PTL DEF Spec
=============================================================================
