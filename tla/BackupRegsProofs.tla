--------------------------- MODULE BackupRegsProofs ---------------------------
(***************************************************************************)
(* Proofs about BackupRegs, for every number of registers and every width.  *)
(*                                                                          *)
(* The argument: FlushProgress says of every hardware register, at each     *)
(* step of the loop of StandBy(), what it holds, and is inductive together  *)
(* with the types; at the end of the loop it follows that nothing is lost,  *)
(* and that is the one fact the refinement needs at the step where standby  *)
(* ends.                                                                    *)
(***************************************************************************)
EXTENDS BackupRegs, TLAPS

USE NumRegAssumption, HalfBitsAssumption

\* The two halves of a word are halves.
LEMMA HalvesType == \A w \in Word : High(w) \in Half /\ Low(w) \in Half
  BY DEF Word, Half, High, Low, Bit, HalfBit

\* Two halves make a word.
LEMMA JoinType == \A hi, lo \in Half : Join(hi, lo) \in Word
  <1>1. SUFFICES ASSUME NEW hi \in Half, NEW lo \in Half,
                        NEW b \in Bit
                 PROVE  (IF b < HalfBits THEN lo[b] ELSE hi[b - HalfBits])
                          \in BOOLEAN
    BY DEF Join, Word
  <1>2. CASE b < HalfBits
    <2>1. b \in HalfBit
      BY <1>2 DEF Bit, HalfBit
    <2> QED BY <1>2, <2>1 DEF Half
  <1>3. CASE ~(b < HalfBits)
    <2>1. b - HalfBits \in HalfBit
      BY <1>3 DEF Bit, HalfBit
    <2> QED BY <1>3, <2>1 DEF Half
  <1> QED BY <1>2, <1>3

\* Splitting a word and joining its halves gives the word back: what
\* StandBy() writes and rtc_read_backup_reg() reads fit together.
LEMMA JoinSplit == \A w \in Word : Join(High(w), Low(w)) = w
  <1>1. SUFFICES ASSUME NEW w \in Word, NEW b \in Bit
                 PROVE  (IF b < HalfBits THEN Low(w)[b]
                                         ELSE High(w)[b - HalfBits]) = w[b]
    BY DEF Join, Word
  <1>2. CASE b < HalfBits
    <2>1. b \in HalfBit
      BY <1>2 DEF Bit, HalfBit
    <2> QED BY <1>2, <2>1 DEF Low
  <1>3. CASE ~(b < HalfBits)
    <2>1. b - HalfBits \in HalfBit
      BY <1>3 DEF Bit, HalfBit
    <2>2. High(w)[b - HalfBits] = w[(b - HalfBits) + HalfBits]
      BY <2>1 DEF High
    <2>3. (b - HalfBits) + HalfBits = b
      BY DEF Bit
    <2> QED BY <1>3, <2>2, <2>3
  <1> QED BY <1>2, <1>3

\* What is read is a word.
LEMMA ReadType ==
  ASSUME TypeOK
  PROVE  \A r \in Reg : Stored(r) \in Word /\ rtc_read_backup_reg(r) \in Word
  <1>1. SUFFICES ASSUME NEW r \in Reg
                 PROVE  Stored(r) \in Word /\ rtc_read_backup_reg(r) \in Word
    OBVIOUS
  <1>2. bkp[2 * r] \in Half /\ bkp[2 * r - 1] \in Half
    BY DEF TypeOK, Reg
  <1>3. Stored(r) \in Word
    BY <1>2, JoinType DEF Stored
  <1> QED BY <1>3 DEF TypeOK, rtc_read_backup_reg

------------------------------------------------------------------------------

\* The inductive invariant.
IInv == TypeOK /\ FlushProgress

\* At first no flush is under way.
LEMMA IInvInit == Init => IInv
  BY DEF Init, IInv, TypeOK, FlushProgress, Half, HalfBit, Reg

\* A flush step leaves what the program would read as it is.
LEMMA FlushKeepsView ==
  ASSUME IInv, FlushHigh \/ FlushLow \/ SkipUnchanged
  PROVE  \A r \in Reg : rtc_read_backup_reg(r)' = rtc_read_backup_reg(r)
  <1>1. SUFFICES ASSUME NEW r \in Reg
                 PROVE  rtc_read_backup_reg(r)' = rtc_read_backup_reg(r)
    OBVIOUS
  <1>2. backup_reg_changed_' = backup_reg_changed_ /\ backup_reg_' = backup_reg_
    BY DEF FlushHigh, FlushLow, SkipUnchanged
  <1>3. CASE backup_reg_changed_[r]
    BY <1>2, <1>3 DEF rtc_read_backup_reg
  <1>4. CASE ~ backup_reg_changed_[r]
    <2>1. r # i + 1 \/ SkipUnchanged
      BY <1>4 DEF IInv, FlushProgress, FlushHigh, FlushLow
    <2>2. r \in Int /\ i \in Int
      BY DEF IInv, TypeOK, Reg
    <2>3. bkp'[2 * r] = bkp[2 * r] /\ bkp'[2 * r - 1] = bkp[2 * r - 1]
      <3>1. CASE SkipUnchanged
        BY <3>1 DEF SkipUnchanged
      <3>2. CASE FlushHigh /\ r # i + 1
        <4>1. i * 2 + 2 # 2 * r /\ i * 2 + 2 # 2 * r - 1
          BY <2>2, <3>2
        <4> QED BY <3>2, <4>1 DEF FlushHigh, IInv, TypeOK
      <3>3. CASE FlushLow /\ r # i + 1
        <4>1. i * 2 + 1 # 2 * r /\ i * 2 + 1 # 2 * r - 1
          BY <2>2, <3>3
        <4> QED BY <3>3, <4>1 DEF FlushLow, IInv, TypeOK
      <3> QED BY <2>1, <3>1, <3>2, <3>3
    <2> QED BY <1>2, <1>4, <2>3 DEF rtc_read_backup_reg, Stored
  <1> QED BY <1>3, <1>4

\* A flush step that writes one hardware register leaves the others alone.
LEMMA OtherHalves ==
  ASSUME TypeOK, NEW h \in Int, NEW w, bkp' = [bkp EXCEPT ![h] = w]
  PROVE  /\ \A k \in 1 .. 2 * NumReg : k # h => bkp'[k] = bkp[k]
         /\ h \in 1 .. 2 * NumReg => bkp'[h] = w
  BY DEF TypeOK

\* Every step keeps the invariant; only those of the loop of StandBy() move it.
LEMMA IInvStep == IInv /\ [Next]_vars => IInv'
  <1> SUFFICES ASSUME IInv, [Next]_vars
               PROVE  IInv'
    OBVIOUS
  <1> USE DEF IInv
  <1>1. ASSUME NEW r \in Reg, NEW w \in Word, rtc_write_backup_reg(r, w)
        PROVE  IInv'
    BY <1>1 DEF rtc_write_backup_reg, TypeOK, FlushProgress
  <1>2. ASSUME NEW r \in Reg, NEW b \in Bit, NEW v \in BOOLEAN,
               rtc_write_backup_reg_bit(r, b, v)
        PROVE  IInv'
    <2>1. [rtc_read_backup_reg(r) EXCEPT ![b] = v] \in Word
      BY ReadType DEF Word
    <2> QED BY <1>1, <1>2, <2>1 DEF rtc_write_backup_reg_bit
  <1>3. CASE StandBy
    <2>1. TypeOK'
      BY <1>3 DEF StandBy, TypeOK
    <2>2. \A r \in Reg : ~(r <= 0)
      BY DEF Reg
    <2> QED BY <1>3, <2>1, <2>2 DEF StandBy, FlushProgress
  <1>4. CASE SkipUnchanged
    <2>1. TypeOK'
      BY <1>4 DEF SkipUnchanged, TypeOK
    <2>2. i \in Nat /\ i' = i + 1 /\ pc' = "high" /\ \A r \in Reg : r \in Int
      BY <1>4 DEF SkipUnchanged, TypeOK, Reg
    <2>3. ASSUME NEW r \in Reg
          PROVE  /\ (backup_reg_changed_[r] /\ r <= i + 1)
                     <=> (backup_reg_changed_[r] /\ r <= i)
      <3>1. r = i + 1 => ~ backup_reg_changed_[r]
        BY <1>4 DEF SkipUnchanged
      <3> QED BY <2>2, <3>1
    <2> QED BY <1>4, <2>1, <2>2, <2>3 DEF SkipUnchanged, FlushProgress
  <1>5. CASE FlushHigh
    <2>1. i + 1 \in Reg /\ i \in Nat /\ i' = i /\ i < NumReg
      BY <1>5 DEF FlushHigh, TypeOK, Reg
    <2>2. High(backup_reg_[i + 1]) \in Half
      BY <2>1, HalvesType DEF TypeOK
    <2>3. TypeOK'
      BY <1>5, <2>2 DEF FlushHigh, TypeOK
    <2>4. i * 2 + 2 \in Int /\ i * 2 + 2 = 2 * (i + 1)
      BY <2>1
    <2>5. ASSUME NEW r \in Reg
          PROVE  /\ bkp'[2 * r] = IF r = i + 1 THEN High(backup_reg_[r])
                                               ELSE bkp[2 * r]
                 /\ bkp'[2 * r - 1] = bkp[2 * r - 1]
      <3>1. /\ r \in Int /\ 2 * r \in 1 .. 2 * NumReg
            /\ 2 * r - 1 \in 1 .. 2 * NumReg
        BY DEF Reg
      <3>2. 2 * r - 1 # i * 2 + 2 /\ (2 * r = i * 2 + 2 <=> r = i + 1)
        BY <2>1, <3>1
      <3> QED BY <1>5, <2>4, <3>1, <3>2, OtherHalves DEF FlushHigh
    <2>6. ASSUME NEW r \in Reg
          PROVE  /\ bkp'[2 * r] = IF /\ backup_reg_changed_[r]
                                     /\ r <= i \/ r = i + 1
                                  THEN High(backup_reg_[r]) ELSE before[2 * r]
                 /\ bkp'[2 * r - 1] = IF backup_reg_changed_[r] /\ r <= i
                                      THEN Low(backup_reg_[r])
                                      ELSE before[2 * r - 1]
      <3>1. /\ bkp[2 * r] = IF backup_reg_changed_[r] /\ r <= i
                            THEN High(backup_reg_[r]) ELSE before[2 * r]
            /\ bkp[2 * r - 1] = IF backup_reg_changed_[r] /\ r <= i
                                THEN Low(backup_reg_[r])
                                ELSE before[2 * r - 1]
        BY <1>5 DEF FlushHigh, FlushProgress
      <3>2. r = i + 1 => backup_reg_changed_[r]
        BY <1>5 DEF FlushHigh
      <3> QED BY <2>5, <3>1, <3>2
    <2> QED BY <1>5, <2>1, <2>3, <2>6 DEF FlushHigh, FlushProgress
  <1>6. CASE FlushLow
    <2>1. i + 1 \in Reg /\ i \in Nat /\ i' = i + 1
      BY <1>6 DEF FlushLow, FlushProgress, TypeOK, Reg
    <2>2. Low(backup_reg_[i + 1]) \in Half
      BY <2>1, HalvesType DEF TypeOK
    <2>3. TypeOK'
      BY <1>6, <2>1, <2>2 DEF FlushLow, TypeOK, Reg
    <2>4. i * 2 + 1 \in Int /\ i * 2 + 1 = 2 * (i + 1) - 1
      BY <2>1
    <2>5. ASSUME NEW r \in Reg
          PROVE  /\ bkp'[2 * r] = bkp[2 * r]
                 /\ bkp'[2 * r - 1] = IF r = i + 1 THEN Low(backup_reg_[r])
                                                   ELSE bkp[2 * r - 1]
      <3>1. /\ r \in Int /\ 2 * r \in 1 .. 2 * NumReg
            /\ 2 * r - 1 \in 1 .. 2 * NumReg
        BY DEF Reg
      <3>2. 2 * r # i * 2 + 1 /\ (2 * r - 1 = i * 2 + 1 <=> r = i + 1)
        BY <2>1, <3>1
      <3> QED BY <1>6, <2>4, <3>1, <3>2, OtherHalves DEF FlushLow
    <2>6. ASSUME NEW r \in Reg
          PROVE  /\ bkp'[2 * r] = IF backup_reg_changed_[r] /\ r <= i + 1
                                  THEN High(backup_reg_[r]) ELSE before[2 * r]
                 /\ bkp'[2 * r - 1] = IF backup_reg_changed_[r] /\ r <= i + 1
                                      THEN Low(backup_reg_[r])
                                      ELSE before[2 * r - 1]
      <3>1. /\ bkp[2 * r] = IF /\ backup_reg_changed_[r]
                               /\ r <= i \/ r = i + 1
                            THEN High(backup_reg_[r]) ELSE before[2 * r]
            /\ bkp[2 * r - 1] = IF backup_reg_changed_[r] /\ r <= i
                                THEN Low(backup_reg_[r])
                                ELSE before[2 * r - 1]
        BY <1>6 DEF FlushLow, FlushProgress
      <3>2. r = i + 1 => backup_reg_changed_[r]
        BY <1>6 DEF FlushLow, FlushProgress
      <3>3. r <= i + 1 <=> (r <= i \/ r = i + 1)
        BY <2>1 DEF Reg
      <3> QED BY <2>5, <3>1, <3>2, <3>3
    <2> QED BY <1>6, <2>1, <2>3, <2>6 DEF FlushLow, FlushProgress
  <1>7. CASE EnterSTANDBYMode
    BY <1>7 DEF EnterSTANDBYMode, TypeOK, FlushProgress
  <1>8. CASE WakeUp \/ SystemReset
    <2>0. Constructor /\ bkp' = bkp /\ before' = before
      BY <1>8 DEF WakeUp, SystemReset
    <2>1. TypeOK'
      <3>1. [r \in Reg |-> FALSE] \in [Reg -> BOOLEAN]
        OBVIOUS
      <3>2. 0 \in 0 .. NumReg
        OBVIOUS
      <3> QED BY <2>0, <3>1, <3>2 DEF Constructor, TypeOK
    <2> QED BY <1>8, <2>1 DEF WakeUp, SystemReset, Constructor, FlushProgress
  <1>9. CASE UNCHANGED vars
    BY <1>9 DEF vars, TypeOK, FlushProgress
  <1> QED BY <1>1, <1>2, <1>3, <1>4, <1>5, <1>6, <1>7, <1>8, <1>9
          DEF Next, WriteAny

\* The registers, the cache, the flags and the loop index keep their types
\* through every write, flush and restart.
THEOREM TypeCorrect == Spec => []TypeOK
  <1>1. IInv => TypeOK
    BY DEF IInv
  <1> QED BY <1>1, IInvInit, IInvStep, PTL DEF Spec

\* At every step of StandBy()'s loop each hardware register holds its half of
\* a register the program wrote and the loop has reached, or what StandBy()
\* found in it: no other subset, order or index.
THEOREM FlushInvariant == Spec => []FlushProgress
  <1>1. IInv => FlushProgress
    BY DEF IInv
  <1> QED BY <1>1, IInvInit, IInvStep, PTL DEF Spec

\* At the end of the loop the invariant says that nothing is lost.
LEMMA IInvNothingLost == IInv => NothingLostOverStandby
  <1> SUFFICES ASSUME IInv, pc = "standby"
               PROVE  StoredView = View
    BY DEF NothingLostOverStandby
  <1>1. ASSUME NEW r \in Reg
        PROVE  Stored(r) = rtc_read_backup_reg(r)
    <2>1. CASE backup_reg_changed_[r]
      <3>1. r <= i /\ backup_reg_[r] \in Word
        BY DEF IInv, TypeOK, FlushProgress, Reg
      <3>2. /\ bkp[2 * r] = High(backup_reg_[r])
            /\ bkp[2 * r - 1] = Low(backup_reg_[r])
        BY <2>1, <3>1 DEF IInv, FlushProgress
      <3> QED BY <2>1, <3>1, <3>2, JoinSplit DEF Stored, rtc_read_backup_reg
    <2>2. CASE ~ backup_reg_changed_[r]
      BY <2>2 DEF rtc_read_backup_reg
    <2> QED BY <2>1, <2>2
  <1> QED BY <1>1 DEF StoredView, View

\* In standby the hardware registers hold exactly what the program last read.
THEOREM NothingLost == Spec => []NothingLostOverStandby
  BY IInvInit, IInvStep, IInvNothingLost, PTL DEF Spec

------------------------------------------------------------------------------
(* Refinement of BackupStore.                                              *)

\* The first states are first states of the abstract store.
LEMMA StoreInit == Init => Store!Init
  <1> SUFFICES ASSUME Init
               PROVE  Store!Init
    OBVIOUS
  <1>1. ASSUME NEW r \in Reg
        PROVE  Stored(r) = Zero /\ rtc_read_backup_reg(r) = Zero
    <2>1. 2 * r \in 1 .. 2 * NumReg /\ 2 * r - 1 \in 1 .. 2 * NumReg
      BY DEF Reg
    <2>2. /\ bkp[2 * r] = [b \in HalfBit |-> FALSE]
          /\ bkp[2 * r - 1] = [b \in HalfBit |-> FALSE]
      BY <2>1 DEF Init
    <2>3. ASSUME NEW b \in Bit
          PROVE  (b < HalfBits => b \in HalfBit)
                 /\ (~(b < HalfBits) => b - HalfBits \in HalfBit)
      BY DEF Bit, HalfBit
    <2>4. Stored(r) = Zero
      BY <2>2, <2>3 DEF Stored, Join, Zero
    <2> QED BY <2>4 DEF Init, rtc_read_backup_reg
  <1>2. StoredView = [r \in Reg |-> Zero] /\ View = [r \in Reg |-> Zero]
    BY <1>1 DEF StoredView, View
  <1> QED BY <1>2 DEF Store!Init, Init

\* A write of the cache is a write of the store's working copy.
LEMMA WriteStep ==
  ASSUME IInv, NEW r \in Reg, NEW w \in Word, rtc_write_backup_reg(r, w)
  PROVE  Store!Write
  <1>1. StoredView' = StoredView
    BY DEF rtc_write_backup_reg, StoredView, Stored
  <1>2. ASSUME NEW q \in Reg
        PROVE  rtc_read_backup_reg(q)' \in Word
    <2>1. backup_reg_changed_'[q] => backup_reg_'[q] \in Word
      BY DEF rtc_write_backup_reg, IInv, TypeOK
    <2>2. Stored(q)' \in Word
      <3>1. Stored(q) \in Word
        BY ReadType DEF IInv
      <3> QED BY <3>1 DEF rtc_write_backup_reg, Stored
    <2> QED BY <2>1, <2>2 DEF rtc_read_backup_reg
  <1>3. View' \in [Reg -> Word]
    BY <1>2 DEF View
  <1> QED BY <1>1, <1>3 DEF Store!Write, rtc_write_backup_reg

\* Every step of the code is a step of the store or leaves it as it is.
LEMMA StoreStep == IInv /\ [Next]_vars => [Store!Next]_(Store!vars)
  <1> SUFFICES ASSUME IInv, [Next]_vars
               PROVE  [Store!Next]_(Store!vars)
    OBVIOUS
  <1>1. ASSUME NEW r \in Reg, NEW w \in Word, rtc_write_backup_reg(r, w)
        PROVE  Store!Write
    BY <1>1, WriteStep
  <1>2. ASSUME NEW r \in Reg, NEW b \in Bit, NEW v \in BOOLEAN,
               rtc_write_backup_reg_bit(r, b, v)
        PROVE  Store!Write
    <2>1. [rtc_read_backup_reg(r) EXCEPT ![b] = v] \in Word
      BY ReadType DEF Word, IInv
    <2> QED BY <1>2, <2>1, WriteStep DEF rtc_write_backup_reg_bit
  <1>3. CASE StandBy
    <2>1. View' = View
      BY <1>3 DEF StandBy, View, rtc_read_backup_reg, Stored
    <2> QED BY <1>3, <2>1 DEF StandBy, Store!Next, Store!Commit
  <1>4. CASE FlushHigh \/ FlushLow \/ SkipUnchanged
    <2>1. View' = View
      BY <1>4, FlushKeepsView DEF View
    <2> QED BY <1>4, <2>1 DEF FlushHigh, FlushLow, SkipUnchanged, Store!vars
  <1>5. CASE EnterSTANDBYMode
    <2>1. View' = View
      BY <1>5 DEF EnterSTANDBYMode, View, rtc_read_backup_reg, Stored
    <2> QED BY <1>5, <2>1 DEF EnterSTANDBYMode, Store!vars
  <1>6. CASE WakeUp \/ SystemReset
    <2>1. StoredView' = StoredView
      BY <1>6 DEF WakeUp, SystemReset, StoredView, Stored
    <2>2. View' = StoredView'
      BY <1>6 DEF WakeUp, SystemReset, Constructor, View, StoredView, rtc_read_backup_reg
    <2>3. pc # "run" => View = StoredView
      BY <1>6, IInvNothingLost DEF WakeUp, SystemReset, NothingLostOverStandby
    <2>4. pc' = "run"
      BY <1>6 DEF WakeUp, SystemReset, Constructor
    <2> QED BY <2>1, <2>2, <2>3, <2>4 DEF Store!Next, Store!Restart
  <1>7. CASE UNCHANGED vars
    BY <1>7 DEF vars, Store!vars, View, StoredView, rtc_read_backup_reg, Stored
  <1> QED BY <1>1, <1>2, <1>3, <1>4, <1>5, <1>6, <1>7
          DEF Next, WriteAny, Store!Next

\* STM32Sleep's cached, split and flushed registers implement the store the
\* application relies on: one commit per standby, nothing else lost.
THEOREM Refinement == Spec => StoreSpec
  BY IInvInit, IInvStep, StoreInit, StoreStep, PTL
     DEF Spec, StoreSpec, Store!Spec
=============================================================================
