------------------------------- MODULE MyBuffer -------------------------------
(***************************************************************************)
(* MyBuffer (BufferedSerial/Buffer): the ring both directions of the serial *)
(* port are built on.  The array has Size places; the indices run modulo    *)
(* Size - 1, and equal indices mean an empty ring.  There is no check for a *)
(* full one.                                                                *)
(***************************************************************************)
EXTENDS Integers, Sequences

CONSTANTS
    Size,       \* places of the array (1024 for receiving, 4096 for sending)
    Byte,       \* the values of a byte
    Zero        \* the byte the array is filled with at first

ASSUME RingAssumption == Size \in Nat /\ Size >= 3 /\ Zero \in Byte

\* While put or get runs, an index may be one too high.
Ring ==
    [buf : [0 .. Size - 1 -> Byte], wloc : 0 .. Size - 1, rloc : 0 .. Size - 1]

clear == [buf |-> [i \in 0 .. Size - 1 |-> Zero], wloc |-> 0, rloc |-> 0]

Wrap(i) == i % (Size - 1)

available(ring) == ring.wloc # ring.rloc

put(ring, c) ==
    [ring EXCEPT !.buf[ring.wloc] = c, !.wloc = Wrap(@ + 1)]

get(ring) == [ring EXCEPT !.rloc = Wrap(@ + 1)]

\* The bytes from the read index to the write index: what the ring holds for
\* its reader.
Content(ring) ==
    [i \in 1 .. (ring.wloc - ring.rloc) % (Size - 1) |->
        ring.buf[Wrap(ring.rloc + i - 1)]]
=============================================================================
