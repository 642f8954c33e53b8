------------------------------- MODULE SerialTx -------------------------------
(***************************************************************************)
(* The sending direction of BufferedSerial: the program puts bytes into the *)
(* ring, the transmitter's interrupt takes them out.                        *)
(*                                                                          *)
(* The interrupt is served between any two accesses of the program to       *)
(* memory, so put is taken apart into them.  _wloc is volatile and _buf is  *)
(* not: the compiler may move the store of the byte behind those of the     *)
(* index.  An interrupt handler is never interrupted by the program, but    *)
(* the transmitter goes on while it runs.                                   *)
(***************************************************************************)
EXTENDS MyBuffer

CONSTANTS
    LateStore,  \* the compiler may store the byte after the index
    Backlog     \* bytes the program leaves in the ring at most

ASSUME TxAssumption == LateStore \in BOOLEAN /\ Backlog \in Nat

VARIABLES
    tx,         \* _txbuf
    pc,         \* where the program is
    at,         \* local to put: the place of the byte
    c,          \* the byte being put
    stored,     \* it is in the ring
    irqOn,      \* the transmitter's interrupt is enabled
    inIrq,      \* it is being served
    full,       \* the data register of the transmitter holds a byte
    reg,        \* the byte written to it last
    preempted   \* history: the interrupt was once served within put

main == <<pc, at, c, stored>>
vars == <<tx, main, irqOn, inIrq, full, reg, preempted>>

InPut == pc \in {"store", "wrap"}

TypeOK ==
    /\ tx \in Ring /\ tx.rloc # Size - 1
    /\ pc \in {"idle", "store", "wrap", "more", "prime", "txIrq", "attach"}
    /\ at \in 0 .. Size - 2 /\ c \in Byte
    /\ stored \in BOOLEAN /\ irqOn \in BOOLEAN /\ inIrq \in BOOLEAN
    /\ full \in BOOLEAN /\ reg \in Byte /\ preempted \in BOOLEAN

Init ==
    /\ tx = clear
    /\ pc = "idle" /\ at = 0 /\ c = Zero /\ stored = TRUE
    /\ irqOn = FALSE /\ inIrq = FALSE
    /\ full = FALSE /\ reg = Zero /\ preempted = FALSE

serial_writable == ~ full

------------------------------------------------------------------------------
(* The program: putc, puts, write and printf put one or more bytes, then    *)
(* call prime.                                                              *)

\* _buf[_wloc++] = data: the index is read.
PutBegin ==
    /\ pc \in {"idle", "more"} /\ ~ inIrq
    /\ Len(Content(tx)) < Backlog
    /\ c' \in Byte
    /\ pc' = "store" /\ at' = tx.wloc /\ stored' = FALSE
    /\ UNCHANGED <<tx, irqOn, inIrq, full, reg, preempted>>

\* The byte is stored.
PutStore ==
    /\ InPut /\ ~ stored /\ ~ inIrq
    /\ tx' = [tx EXCEPT !.buf[at] = c]
    /\ stored' = TRUE
    /\ UNCHANGED <<pc, at, c, irqOn, inIrq, full, reg, preempted>>

\* The index is incremented.
PutIncrement ==
    /\ pc = "store" /\ ~ inIrq
    /\ stored \/ LateStore
    /\ tx' = [tx EXCEPT !.wloc = at + 1]
    /\ pc' = "wrap"
    /\ UNCHANGED <<at, c, stored, irqOn, inIrq, full, reg, preempted>>

\* Mutant of PutWrap: a ring of Size - 2 places for the writer.
PutWrapShort ==
    /\ pc = "wrap" /\ stored /\ ~ inIrq
    /\ tx' = [tx EXCEPT !.wloc = @ % (Size - 2)]
    /\ pc' = "more"
    /\ UNCHANGED <<at, c, stored, irqOn, inIrq, full, reg, preempted>>

\* _wloc %= (_size-1)
PutWrap ==
    /\ pc = "wrap" /\ stored /\ ~ inIrq
    /\ tx' = [tx EXCEPT !.wloc = Wrap(@)]
    /\ pc' = "more"
    /\ UNCHANGED <<at, c, stored, irqOn, inIrq, full, reg, preempted>>

\* prime: a busy transmitter is left to its interrupt.
PrimeBusy ==
    /\ pc = "more" /\ ~ inIrq
    /\ ~ serial_writable
    /\ pc' = "idle"
    /\ UNCHANGED <<tx, at, c, stored, irqOn, inIrq, full, reg, preempted>>

\* prime: an idle transmitter is found.
PrimeWritable ==
    /\ pc = "more" /\ ~ inIrq
    /\ serial_writable
    /\ pc' = "prime"
    /\ UNCHANGED <<tx, at, c, stored, irqOn, inIrq, full, reg, preempted>>

\* Mutant of PrimeDetach: the interrupt stays enabled.
PrimeDetachNot ==
    /\ pc = "prime" /\ ~ inIrq
    /\ pc' = "txIrq"
    /\ UNCHANGED <<tx, at, c, stored, irqOn, inIrq, full, reg, preempted>>

\* attach(NULL, TxIrq)
PrimeDetach ==
    /\ pc = "prime" /\ ~ inIrq
    /\ irqOn' = FALSE
    /\ pc' = "txIrq"
    /\ UNCHANGED <<tx, at, c, stored, inIrq, full, reg, preempted>>

\* Mutant of PrimeAttach: the interrupt is not enabled again.
PrimeAttachNot ==
    /\ pc = "attach" /\ ~ inIrq
    /\ pc' = "idle"
    /\ UNCHANGED <<tx, at, c, stored, irqOn, inIrq, full, reg, preempted>>

\* attach(txIrq, TxIrq)
PrimeAttach ==
    /\ pc = "attach" /\ ~ inIrq
    /\ irqOn' = TRUE
    /\ pc' = "idle"
    /\ UNCHANGED <<tx, at, c, stored, inIrq, full, reg, preempted>>

------------------------------------------------------------------------------
(* txIrq, called by prime and by the interrupt.                            *)

\* Who runs the loop of txIrq, and where it goes on after it.
Running == inIrq \/ pc = "txIrq"

Leave ==
    IF inIrq THEN inIrq' = FALSE /\ pc' = pc
             ELSE pc' = "attach" /\ inIrq' = FALSE

\* Mutant of SendByte: the index is not wrapped.
SendByteNoWrap ==
    /\ Running /\ serial_writable /\ available(tx)
    /\ reg' = tx.buf[tx.rloc] /\ full' = TRUE
    /\ tx' = [tx EXCEPT !.rloc = @ + 1]
    /\ UNCHANGED <<main, irqOn, inIrq, preempted>>

SendByte ==
    /\ Running /\ serial_writable /\ available(tx)
    /\ reg' = tx.buf[tx.rloc] /\ full' = TRUE
    /\ tx' = get(tx)
    /\ UNCHANGED <<main, irqOn, inIrq, preempted>>

\* Mutant of StopBusy: the interrupt is disabled while a byte is going out.
StopBusyDetach ==
    /\ Running /\ ~ serial_writable
    /\ irqOn' = FALSE
    /\ Leave
    /\ UNCHANGED <<tx, at, c, stored, full, reg, preempted>>

\* The transmitter is busy: the interrupt stays as it is.
StopBusy ==
    /\ Running /\ ~ serial_writable
    /\ Leave
    /\ UNCHANGED <<tx, at, c, stored, irqOn, full, reg, preempted>>

\* Nothing left to send: the interrupt is disabled.
StopEmpty ==
    /\ Running /\ serial_writable /\ ~ available(tx)
    /\ irqOn' = FALSE
    /\ Leave
    /\ UNCHANGED <<tx, at, c, stored, full, reg, preempted>>

------------------------------------------------------------------------------
(* The transmitter.                                                        *)

\* The byte leaves the data register.
Transmit ==
    /\ full
    /\ full' = FALSE
    /\ UNCHANGED <<tx, main, irqOn, inIrq, reg, preempted>>

\* An enabled interrupt is served whenever the data register is empty.
Interrupt ==
    /\ irqOn /\ ~ full /\ ~ inIrq
    /\ inIrq' = TRUE
    /\ preempted' = (preempted \/ InPut)
    /\ UNCHANGED <<tx, main, irqOn, full, reg>>

------------------------------------------------------------------------------

MainStep ==
    \/ PutStore \/ PutIncrement \/ PutWrap
    \/ PrimeBusy \/ PrimeWritable \/ PrimeDetach \/ PrimeAttach

Next ==
    \/ PutBegin \/ MainStep
    \/ SendByte \/ StopBusy \/ StopEmpty
    \/ Transmit \/ Interrupt

Spec == Init /\ [][Next]_vars

\* A program that has begun to write goes on, the transmitter transmits, and
\* its interrupt is served and ends.
FairSpec ==
    /\ Spec
    /\ WF_vars(MainStep) /\ WF_vars(SendByte \/ StopBusy \/ StopEmpty)
    /\ WF_vars(Transmit) /\ WF_vars(Interrupt)

------------------------------------------------------------------------------

(***************************************************************************)
(* Properties                                                               *)
(***************************************************************************)

\* "if already busy then the irq will pick this up" (BufferedSerial.cpp:148):
\* when the program returns from prime with bytes in the ring, the interrupt
\* that sends them is enabled.
NoStrandedByte == pc = "idle" /\ available(tx) => irqOn

\* "make sure not to cause contention in the irq" (BufferedSerial.cpp:150):
\* the loop of txIrq is never run by the interrupt while the program runs it.
OneSender == ~ (inIrq /\ pc = "txIrq")

\* The byte being put is in the ring, and the write index says so.
Visible == pc = "wrap" /\ stored

\* What the ring holds, while put runs without what it has not finished.
Waiting == Content(IF InPut /\ ~ Visible THEN [tx EXCEPT !.wloc = at] ELSE tx)

Fifo == INSTANCE ByteFifo WITH queue <- Waiting, out <- reg

\* The ring is a queue: "Pull the oldest element from the buffer"
\* (MyBuffer.h:90), and nothing else is sent, as long as the interrupt is not
\* served within put, where the write index is one past the end.
FifoUnlessPreempted ==
    /\ Fifo!Init
    /\ [][preempted' \/ Fifo!Put \/ Fifo!Get]_<<Waiting, reg>>

\* Whatever is written is sent: the ring runs empty unless the program goes
\* on to write.
Drains == (available(tx) /\ pc = "idle") ~> (~ available(tx) \/ pc # "idle")
=============================================================================
