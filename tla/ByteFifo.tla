------------------------------- MODULE ByteFifo -------------------------------
(***************************************************************************)
(* What a direction of the serial port promises: bytes come out in the      *)
(* order in which they went in, none twice and none that never went in.     *)
(***************************************************************************)
EXTENDS Sequences

CONSTANT Byte

VARIABLES
    queue,      \* the bytes put and not yet got
    out         \* the byte got last

Init == queue = <<>> /\ out \in Byte

Put == \E c \in Byte : queue' = Append(queue, c) /\ UNCHANGED out

Get == queue # <<>> /\ out' = Head(queue) /\ queue' = Tail(queue)

Spec == Init /\ [][Put \/ Get]_<<queue, out>>
=============================================================================
