------------------------------ MODULE BackupRegs ------------------------------
(***************************************************************************)
(* STM32Sleep (system/dev/stm32_sleep.cpp): five 32-bit registers kept over  *)
(* standby in ten 16-bit hardware backup registers.                         *)
(*                                                                          *)
(* A write only goes to the cache backup_reg_ and sets a changed flag; the  *)
(* flush in StandBy() copies every changed register to its two hardware     *)
(* halves, the upper one first.  Waking up from standby runs the program    *)
(* from its reset vector: the constructor clears the flags, and the cache,  *)
(* which it does not initialise, holds anything.                            *)
(*                                                                          *)
(* A word is a function from bit positions to booleans, so the shifts and   *)
(* masks of the code are selections of bits.                                *)
(***************************************************************************)
EXTENDS Integers

CONSTANTS
    NumReg,     \* number of 32-bit registers (REG1 .. REG5)
    HalfBits    \* width of one hardware register (16)

ASSUME NumRegAssumption == NumReg \in Nat \ {0}
ASSUME HalfBitsAssumption == HalfBits \in Nat \ {0}

Reg == 1 .. NumReg
HalfBit == 0 .. HalfBits - 1
Bit == 0 .. 2 * HalfBits - 1
Half == [HalfBit -> BOOLEAN]
Word == [Bit -> BOOLEAN]

\* data >> 16
High(w) == [b \in HalfBit |-> w[b + HalfBits]]

\* data & 0xffff
Low(w) == [b \in HalfBit |-> w[b]]

\* hi << 16 | lo
Join(hi, lo) ==
    [b \in Bit |-> IF b < HalfBits THEN lo[b] ELSE hi[b - HalfBits]]

Zero == [b \in Bit |-> FALSE]

VARIABLES
    bkp,                    \* the hardware registers BKP_DR1 .. BKP_DR10
    backup_reg_,            \* the cache
    backup_reg_changed_,    \* its flags
    i,                      \* loop index of StandBy()
    pc                      \* "run", "high" and "low" in StandBy()'s loop, "standby"

VARIABLE            \* history, read by FlushProgress only
    before                  \* the hardware registers as StandBy() last found them

vars == <<bkp, backup_reg_, backup_reg_changed_, i, pc, before>>

TypeOK ==
    /\ bkp \in [1 .. 2 * NumReg -> Half]
    /\ before \in [1 .. 2 * NumReg -> Half]
    /\ backup_reg_ \in [Reg -> Word]
    /\ backup_reg_changed_ \in [Reg -> BOOLEAN]
    /\ i \in 0 .. NumReg
    /\ pc \in {"run", "high", "low", "standby"}

------------------------------------------------------------------------------

\* The word the two hardware halves of register r hold.
Stored(r) == Join(bkp[2 * r], bkp[2 * r - 1])

rtc_read_backup_reg(r) ==
    IF backup_reg_changed_[r] THEN backup_reg_[r] ELSE Stored(r)

\* Mutant of Constructor: the flags keep what the memory held before.
ConstructorKeepsFlags ==
    /\ UNCHANGED backup_reg_changed_
    /\ backup_reg_' \in [Reg -> Word]
    /\ i' = 0
    /\ pc' = "run"

\* The constructor of a program that just started; the memory of
\* backup_reg_ is not initialised.
Constructor ==
    /\ backup_reg_changed_' = [r \in Reg |-> FALSE]
    /\ backup_reg_' \in [Reg -> Word]
    /\ i' = 0
    /\ pc' = "run"

rtc_write_backup_reg(r, data) ==
    /\ pc = "run"
    /\ backup_reg_' = [backup_reg_ EXCEPT ![r] = data]
    /\ backup_reg_changed_' = [backup_reg_changed_ EXCEPT ![r] = TRUE]
    /\ UNCHANGED <<bkp, i, pc, before>>

\* Read, set or clear one bit, write back.
rtc_write_backup_reg_bit(r, bit, value) ==
    rtc_write_backup_reg(r, [rtc_read_backup_reg(r) EXCEPT ![bit] = value])

\* StandBy() is entered: backup access is enabled and the loop starts.
StandBy ==
    /\ pc = "run"
    /\ pc' = "high"
    /\ i' = 0
    /\ before' = bkp
    /\ UNCHANGED <<bkp, backup_reg_, backup_reg_changed_>>

\* Mutant of SkipUnchanged: the loop does not advance.
SkipUnchangedStays ==
    /\ pc = "high" /\ i < NumReg
    /\ ~ backup_reg_changed_[i + 1]
    /\ UNCHANGED vars

\* Loop body, a register that was not written in this run is skipped.
SkipUnchanged ==
    /\ pc = "high" /\ i < NumReg
    /\ ~ backup_reg_changed_[i + 1]
    /\ i' = i + 1
    /\ UNCHANGED <<bkp, backup_reg_, backup_reg_changed_, pc, before>>

\* Mutant of FlushHigh: the word is not shifted.
FlushHighUnshifted ==
    /\ pc = "high" /\ i < NumReg
    /\ backup_reg_changed_[i + 1]
    /\ bkp' = [bkp EXCEPT ![i * 2 + 2] = backup_reg_[i + 1]]
    /\ pc' = "low"
    /\ UNCHANGED <<backup_reg_, backup_reg_changed_, i, before>>

\* Loop body, first HAL_RTCEx_BKUPWrite.
FlushHigh ==
    /\ pc = "high" /\ i < NumReg
    /\ backup_reg_changed_[i + 1]
    /\ bkp' = [bkp EXCEPT ![i * 2 + 2] = High(backup_reg_[i + 1])]
    /\ pc' = "low"
    /\ UNCHANGED <<backup_reg_, backup_reg_changed_, i, before>>

\* Mutant of FlushLow: the lower half goes to the next register's.
FlushLowOfNext ==
    /\ pc = "low"
    /\ bkp' = [bkp EXCEPT ![i * 2 + 3] = Low(backup_reg_[i + 1])]
    /\ i' = i + 1
    /\ pc' = "high"
    /\ UNCHANGED <<backup_reg_, backup_reg_changed_, before>>

\* Loop body, second HAL_RTCEx_BKUPWrite.
FlushLow ==
    /\ pc = "low"
    /\ bkp' = [bkp EXCEPT ![i * 2 + 1] = Low(backup_reg_[i + 1])]
    /\ i' = i + 1
    /\ pc' = "high"
    /\ UNCHANGED <<backup_reg_, backup_reg_changed_, before>>

\* Mutant of EnterSTANDBYMode: the loop ends one register early.
EnterSTANDBYModeEarly ==
    /\ pc = "high" /\ i = NumReg - 1
    /\ pc' = "standby"
    /\ UNCHANGED <<bkp, backup_reg_, backup_reg_changed_, i, before>>

\* The wake-up pin is re-armed and the processor enters standby.
EnterSTANDBYMode ==
    /\ pc = "high" /\ i = NumReg
    /\ pc' = "standby"
    /\ UNCHANGED <<bkp, backup_reg_, backup_reg_changed_, i, before>>

\* An alarm or the wake-up pin restarts the program.
WakeUp ==
    /\ pc = "standby"
    /\ Constructor
    /\ UNCHANGED <<bkp, before>>

\* The watchdog of App::Run resets the program.  App::Run switches the
\* watchdog off before it calls StandBy(), so no reset hits the loop.
SystemReset ==
    /\ pc = "run"
    /\ Constructor
    /\ UNCHANGED <<bkp, before>>

------------------------------------------------------------------------------

\* First supply of the backup domain: the hardware registers are zero.
Init ==
    /\ bkp = [h \in 1 .. 2 * NumReg |-> [b \in HalfBit |-> FALSE]]
    /\ backup_reg_ \in [Reg -> Word]
    /\ backup_reg_changed_ = [r \in Reg |-> FALSE]
    /\ i = 0
    /\ pc = "run"
    /\ before = bkp

WriteAny ==
    \E r \in Reg :
        \/ \E w \in Word : rtc_write_backup_reg(r, w)
        \/ \E b \in Bit, v \in BOOLEAN : rtc_write_backup_reg_bit(r, b, v)

Next ==
    \/ WriteAny
    \/ StandBy
    \/ SkipUnchanged
    \/ FlushHigh
    \/ FlushLow
    \/ EnterSTANDBYMode
    \/ WakeUp
    \/ SystemReset

\* StandBy() runs to its end: it has no waiting call and nothing resets it.
Fairness ==
    WF_vars(SkipUnchanged \/ FlushHigh \/ FlushLow \/ EnterSTANDBYMode)

Spec == Init /\ [][Next]_vars

FairSpec == Spec /\ Fairness

------------------------------------------------------------------------------

(***************************************************************************)
(* Properties                                                               *)
(***************************************************************************)

View == [r \in Reg |-> rtc_read_backup_reg(r)]
StoredView == [r \in Reg |-> Stored(r)]

\* At every step of StandBy()'s loop (stm32_sleep.cpp:97-102), and in the
\* standby after it, each hardware register is known: it holds its half of a
\* register the program wrote, if the loop has got that far, and otherwise,
\* for a register still to come or one nobody wrote, what StandBy() found in
\* it.  The indices are computed by hand, and a wrong one shows only for some
\* subsets of written registers.
FlushProgress ==
    pc # "run" =>
        /\ pc = "standby" => i = NumReg
        /\ pc = "low" => i < NumReg /\ backup_reg_changed_[i + 1]
        /\ \A r \in Reg :
              /\ bkp[2 * r] = IF /\ backup_reg_changed_[r]
                                 /\ r <= i \/ (pc = "low" /\ r = i + 1)
                              THEN High(backup_reg_[r]) ELSE before[2 * r]
              /\ bkp[2 * r - 1] = IF backup_reg_changed_[r] /\ r <= i
                                  THEN Low(backup_reg_[r])
                                  ELSE before[2 * r - 1]

\* What the program last read is what the next start will read: in standby
\* the hardware holds the program's view, whichever subset of the registers
\* it wrote and whatever the uninitialised cache held.
NothingLostOverStandby == pc = "standby" => StoredView = View

\* StandBy() always gets to the standby mode.
FlushTerminates == (pc = "high") ~> (pc = "standby")

\* Refinement: the commit is the entry of StandBy(), from which on the
\* stored words are those the program wrote, for nothing can stop the loop.
Store ==
    INSTANCE BackupStore
    WITH Content <- [Reg -> Word], Erased <- [r \in Reg |-> Zero],
         working <- View,
         committed <- IF pc = "run" THEN StoredView ELSE View,
         mode <- IF pc = "run" THEN "awake" ELSE "asleep"

\* The cached, split and flushed registers keep the promise of BackupStore.
StoreSpec == Store!Spec
=============================================================================
