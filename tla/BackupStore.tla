----------------------------- MODULE BackupStore -----------------------------
(***************************************************************************)
(* What the backup registers promise to the application: a store with a    *)
(* committed copy, which survives the standby mode and a reset, and a       *)
(* working copy, which the application reads and writes.  Going to standby  *)
(* replaces the whole committed copy in one step; a restart of the          *)
(* processor loses what was not committed and nothing else.                 *)
(*                                                                          *)
(* The module is the abstract specification of STM32Sleep; BackupRegs       *)
(* shows that the code keeps the promise, Device is written on top of it.   *)
(***************************************************************************)

CONSTANTS
    Content,    \* what the registers may hold, all of them together
    Erased      \* contents after the backup domain lost its supply

VARIABLES
    committed,  \* what the next start of the program will find
    working,    \* what the program reads, or last read before standby
    mode        \* "awake" while the program runs, "asleep" in standby

vars == <<committed, working, mode>>

Init ==
    /\ committed = Erased
    /\ working = Erased
    /\ mode = "awake"

\* The program changes any of its registers; nothing is committed yet.
Write ==
    /\ mode = "awake"
    /\ working' \in Content
    /\ UNCHANGED <<committed, mode>>

\* The program goes to standby with everything it wrote.
Commit ==
    /\ mode = "awake"
    /\ committed' = working
    /\ mode' = "asleep"
    /\ UNCHANGED working

\* The processor restarts, out of standby or reset by the watchdog.
Restart ==
    /\ working' = committed
    /\ mode' = "awake"
    /\ UNCHANGED committed

Next == Write \/ Commit \/ Restart

Spec == Init /\ [][Next]_vars
=============================================================================
