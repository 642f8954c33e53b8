------------------------------- MODULE SerialRx -------------------------------
(***************************************************************************)
(* The receiving direction of BufferedSerial: the receiver's interrupt puts *)
(* bytes into the ring, the program takes them out after it found the ring  *)
(* readable (ATParser::getc and flush).                                     *)
(*                                                                          *)
(* The interrupt is served between any two accesses of the program to       *)
(* memory; nothing interrupts the interrupt.                                *)
(***************************************************************************)
EXTENDS MyBuffer

CONSTANT Backlog    \* bytes the modem may send without one being read

ASSUME RxAssumption == Backlog \in Nat

VARIABLES
    rx,         \* _rxbuf
    pc,         \* where the program is
    data_pos    \* the byte read last

VARIABLE unread \* history: bytes put and not yet got

vars == <<rx, pc, data_pos, unread>>

TypeOK ==
    /\ rx \in Ring /\ rx.wloc # Size - 1
    /\ pc \in {"idle", "get", "wrap"}
    /\ data_pos \in Byte
    /\ unread \in 0 .. Backlog

Init == rx = clear /\ pc = "idle" /\ data_pos = Zero /\ unread = 0

\* The interrupt, whatever the program is doing.
rxIrq ==
    /\ unread < Backlog
    /\ \E c \in Byte : rx' = put(rx, c)
    /\ unread' = unread + 1
    /\ UNCHANGED <<pc, data_pos>>

\* Mutant of readable: it is not asked.
readableAlways ==
    /\ pc = "idle"
    /\ pc' = "get"
    /\ UNCHANGED <<rx, data_pos, unread>>

\* readable() finds a byte.
readable ==
    /\ pc = "idle" /\ available(rx)
    /\ pc' = "get"
    /\ UNCHANGED <<rx, data_pos, unread>>

\* data_pos = _buf[_rloc++]
GetByte ==
    /\ pc = "get"
    /\ data_pos' = rx.buf[rx.rloc]
    /\ rx' = [rx EXCEPT !.rloc = @ + 1]
    /\ unread' = IF unread = 0 THEN 0 ELSE unread - 1
    /\ pc' = "wrap"

\* Mutant of GetWrap: a ring of Size places for the reader.
GetWrapLong ==
    /\ pc = "wrap"
    /\ rx' = [rx EXCEPT !.rloc = @ % Size]
    /\ pc' = "idle"
    /\ UNCHANGED <<data_pos, unread>>

\* _rloc %= (_size-1)
GetWrap ==
    /\ pc = "wrap"
    /\ rx' = [rx EXCEPT !.rloc = Wrap(@)]
    /\ pc' = "idle"
    /\ UNCHANGED <<data_pos, unread>>

Next == rxIrq \/ readable \/ GetByte \/ GetWrap

Spec == Init /\ [][Next]_vars

------------------------------------------------------------------------------

(***************************************************************************)
(* Properties                                                               *)
(***************************************************************************)

\* "Determine if anything is readable in the buffer; 1 if something can be
\* read, 0 otherwise" (MyBuffer.h:103).
ReadableIffUnread == pc # "wrap" => (available(rx) <=> unread > 0)

\* Bytes are read in the order they came, none lost, none twice.
Fifo == INSTANCE ByteFifo WITH queue <- Content(rx), out <- data_pos

FifoSpec == Fifo!Spec
=============================================================================
