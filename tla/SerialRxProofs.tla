---------------------------- MODULE SerialRxProofs ----------------------------
(***************************************************************************)
(* The receiving direction is a queue: proofs about SerialRx for every size *)
(* of the ring, with the receiver's interrupt between any two steps of the  *)
(* program.                                                                 *)
(***************************************************************************)
EXTENDS SerialRx, SequenceTheorems, TLAPS

\* The modem is never so far ahead that the ring would look empty.
NoOverrun == Backlog <= Size - 2

\* The places from the read index to the write index, around the end.
Count(w, r) == IF w >= r THEN w - r ELSE w - r + (Size - 1)

\* The history counts the bytes between the indices, and the program reads
\* only when there is one.
Indices ==
    /\ pc # "wrap" => rx.rloc # Size - 1
    /\ unread = Count(rx.wloc, rx.rloc)
    /\ pc = "get" => unread > 0

IInv == TypeOK /\ Indices

------------------------------------------------------------------------------

(***************************************************************************)
(* The remainder, without the remainder                                     *)
(***************************************************************************)

\* The remainder below two rounds.
LEMMA Remainder ==
    ASSUME NEW n \in Nat \ {0}, NEW i \in 0 .. 2 * n - 1
    PROVE  i % n = IF i < n THEN i ELSE i - n
  OBVIOUS

\* The same below zero, where the write index is behind the read index.
LEMMA RemainderBelow ==
    ASSUME NEW n \in Nat \ {0}, NEW i \in Nat, i >= 1, i <= n
    PROVE  (0 - i) % n = n - i
  OBVIOUS

\* An index one or two rounds long, wrapped (MyBuffer.h:134, 143).
LEMMA WrapValue ==
    ASSUME NEW i \in 0 .. 2 * (Size - 1) - 1
    PROVE  Wrap(i) = IF i < Size - 1 THEN i ELSE i - (Size - 1)
  <1>1. Size - 1 \in Nat \ {0}
    BY RingAssumption
  <1> QED
    BY <1>1, Remainder DEF Wrap

\* The length of what the ring holds.
LEMMA Length ==
    ASSUME NEW w \in 0 .. Size - 2, NEW r \in 0 .. Size - 1
    PROVE  /\ (w - r) % (Size - 1) = Count(w, r)
           /\ Count(w, r) \in 0 .. Size - 2
  <1>1. Size - 1 \in Nat \ {0}
    BY RingAssumption
  <1>2. CASE w >= r
    <2>1. w - r \in 0 .. 2 * (Size - 1) - 1 /\ w - r < Size - 1
      BY <1>2, RingAssumption
    <2>2. (w - r) % (Size - 1) = w - r
      BY <1>1, <2>1, Remainder
    <2> QED
      BY <1>2, <2>1, <2>2, RingAssumption DEF Count
  <1>3. CASE w < r
    <2>1. r - w \in Nat /\ r - w >= 1 /\ r - w <= Size - 1 /\ 0 - (r - w) = w - r
      BY <1>3, RingAssumption
    <2>2. (w - r) % (Size - 1) = (Size - 1) - (r - w)
      BY <1>1, <2>1, RemainderBelow
    <2> QED
      BY <1>3, <2>1, <2>2, RingAssumption DEF Count
  <1> QED
    BY <1>2, <1>3

\* What the ring holds, byte by byte.
LEMMA ContentIs ==
    ASSUME NEW ring \in Ring, ring.wloc # Size - 1
    PROVE  LET n == Count(ring.wloc, ring.rloc)
           IN  /\ Content(ring) = [i \in 1 .. n |-> ring.buf[Wrap(ring.rloc + i - 1)]]
               /\ n \in 0 .. Size - 2
               /\ Content(ring) \in Seq(Byte)
               /\ Len(Content(ring)) = n
  <1> DEFINE n == Count(ring.wloc, ring.rloc)
  <1>1. ring.wloc \in 0 .. Size - 2 /\ ring.rloc \in 0 .. Size - 1
    BY RingAssumption DEF Ring
  <1>2. (ring.wloc - ring.rloc) % (Size - 1) = n /\ n \in 0 .. Size - 2
    BY <1>1, Length
  <1>3. Content(ring) = [i \in 1 .. n |-> ring.buf[Wrap(ring.rloc + i - 1)]]
    BY <1>2 DEF Content
  <1>4. ASSUME NEW i \in 1 .. n PROVE ring.buf[Wrap(ring.rloc + i - 1)] \in Byte
    <2>1. ring.rloc + i - 1 \in 0 .. 2 * (Size - 1) - 1
      BY <1>1, <1>2, <1>4, RingAssumption
    <2>2. Wrap(ring.rloc + i - 1) \in 0 .. Size - 1
      BY <2>1, WrapValue, RingAssumption
    <2> QED
      BY <2>2 DEF Ring
  <1>5. Content(ring) \in [1 .. n -> Byte]
    BY <1>3, <1>4
  <1> QED
    BY <1>2, <1>3, <1>5

------------------------------------------------------------------------------

(***************************************************************************)
(* The invariant                                                            *)
(***************************************************************************)

\* The ring is empty at first.
LEMMA InitIInv == Init => IInv
  <1> SUFFICES ASSUME Init PROVE IInv
    OBVIOUS
  <1>1. rx \in Ring /\ rx.wloc = 0 /\ rx.rloc = 0
    BY RingAssumption DEF Init, clear, Ring
  <1>2. TypeOK
    BY <1>1, RingAssumption, RxAssumption DEF Init, TypeOK
  <1> QED
    BY <1>1, <1>2, RingAssumption DEF Init, IInv, Indices, Count

\* A byte put: the ring is longer by one, unless that makes it look empty.
LEMMA PutStep ==
    ASSUME NoOverrun, IInv, rxIrq
    PROVE  /\ IInv'
           /\ unread < Size - 2
           /\ \E c \in Byte : rx' = put(rx, c)
  <1>1. PICK c \in Byte : rx' = put(rx, c)
    BY DEF rxIrq
  <1>2. /\ rx \in Ring /\ rx.wloc \in 0 .. Size - 2 /\ rx.rloc \in 0 .. Size - 1
        /\ unread \in Nat /\ unread < Size - 2
    BY RingAssumption, RxAssumption DEF IInv, TypeOK, Ring, rxIrq, NoOverrun
  <1>3. rx.wloc + 1 \in 0 .. 2 * (Size - 1) - 1
    BY <1>2, RingAssumption
  <1>4. Wrap(rx.wloc + 1) = IF rx.wloc = Size - 2 THEN 0 ELSE rx.wloc + 1
    BY <1>2, <1>3, WrapValue, RingAssumption
  <1>5. /\ rx' \in Ring /\ rx'.wloc = Wrap(rx.wloc + 1) /\ rx'.rloc = rx.rloc
    <2> DEFINE next == Wrap(rx.wloc + 1)
    <2>1. next \in 0 .. Size - 1
      BY <1>2, <1>4, RingAssumption
    <2>2. rx' = [rx EXCEPT !.buf[rx.wloc] = c, !.wloc = next]
      BY <1>1 DEF put
    <2> HIDE DEF next
    <2>3. rx' \in Ring /\ rx'.wloc = next /\ rx'.rloc = rx.rloc
      BY <1>2, <2>1, <2>2, RingAssumption DEF Ring
    <2> QED
      BY <2>3 DEF next
  <1>6. TypeOK'
    BY <1>2, <1>4, <1>5, RingAssumption, RxAssumption DEF IInv, TypeOK, rxIrq
  <1>7. Indices'
    <2>1. rx.rloc = Size - 1 => rx.wloc # Size - 2
      BY <1>2, RingAssumption DEF IInv, Indices, Count
    <2>2. unread' = Count(rx'.wloc, rx'.rloc)
      BY <1>2, <1>4, <1>5, RingAssumption DEF IInv, Indices, Count, rxIrq
    <2>3. pc' # "wrap" => rx'.rloc # Size - 1
      BY <1>5 DEF IInv, Indices, rxIrq
    <2>4. pc' = "get" => unread' > 0
      BY <1>2 DEF IInv, Indices, rxIrq
    <2> QED
      BY <2>2, <2>3, <2>4 DEF Indices
  <1> QED
    BY <1>1, <1>2, <1>6, <1>7 DEF IInv

\* The byte got: the ring is shorter by one, its read index maybe past the end.
LEMMA GetByteStep ==
    ASSUME IInv, GetByte
    PROVE  /\ IInv'
           /\ rx \in Ring /\ rx' = [rx EXCEPT !.rloc = @ + 1]
           /\ rx' \in Ring /\ rx'.wloc = rx.wloc /\ rx'.rloc = rx.rloc + 1
           /\ rx'.buf = rx.buf
           /\ rx.rloc \in 0 .. Size - 2 /\ unread \in 1 .. Size - 2
           /\ unread' = unread - 1
  <1>1. /\ rx \in Ring /\ rx.wloc \in 0 .. Size - 2 /\ rx.rloc \in 0 .. Size - 2
        /\ pc = "get" /\ unread \in Nat /\ unread > 0
    BY RingAssumption, RxAssumption DEF IInv, TypeOK, Indices, Ring, GetByte
  <1>2. rx' = [rx EXCEPT !.rloc = @ + 1]
    BY DEF GetByte
  <1>3. /\ rx' \in Ring /\ rx'.wloc = rx.wloc /\ rx'.rloc = rx.rloc + 1
        /\ rx'.buf = rx.buf
    BY <1>1, <1>2, RingAssumption DEF Ring
  <1>4. unread' = unread - 1 /\ pc' = "wrap"
    BY <1>1 DEF GetByte
  <1>5. data_pos' \in Byte
    BY <1>1, RingAssumption DEF GetByte, Ring
  <1>6. TypeOK'
    BY <1>1, <1>3, <1>4, <1>5, RingAssumption, RxAssumption DEF IInv, TypeOK
  <1>7. Indices'
    BY <1>1, <1>3, <1>4, RingAssumption DEF IInv, Indices, Count
  <1>8. unread \in 1 .. Size - 2
    BY <1>1, RingAssumption DEF IInv, Indices, Count
  <1> QED
    BY <1>1, <1>2, <1>3, <1>4, <1>6, <1>7, <1>8 DEF IInv

\* The read index is wrapped.
LEMMA GetWrapStep ==
    ASSUME IInv, GetWrap
    PROVE  /\ IInv'
           /\ rx \in Ring /\ rx' \in Ring
           /\ rx'.wloc = rx.wloc /\ rx'.buf = rx.buf
           /\ rx'.rloc = IF rx.rloc = Size - 1 THEN 0 ELSE rx.rloc
  <1>1. /\ rx \in Ring /\ rx.wloc \in 0 .. Size - 2 /\ rx.rloc \in 0 .. Size - 1
    BY RingAssumption DEF IInv, TypeOK, Ring
  <1>2. rx.rloc \in 0 .. 2 * (Size - 1) - 1
    BY <1>1, RingAssumption
  <1>3. Wrap(rx.rloc) = IF rx.rloc = Size - 1 THEN 0 ELSE rx.rloc
    BY <1>1, <1>2, WrapValue, RingAssumption
  <1>4. rx' = [rx EXCEPT !.rloc = Wrap(rx.rloc)]
    BY DEF GetWrap
  <1>5. /\ rx' \in Ring /\ rx'.wloc = rx.wloc /\ rx'.buf = rx.buf
        /\ rx'.rloc = Wrap(rx.rloc)
    BY <1>1, <1>3, <1>4, RingAssumption DEF Ring
  <1>6. TypeOK'
    BY <1>1, <1>5 DEF IInv, TypeOK, GetWrap
  <1>7. unread' = Count(rx'.wloc, rx'.rloc)
    BY <1>1, <1>3, <1>5, RingAssumption DEF IInv, Indices, Count, GetWrap
  <1>8. Indices'
    BY <1>1, <1>3, <1>5, <1>7, RingAssumption DEF Indices, GetWrap
  <1> QED
    BY <1>1, <1>3, <1>5, <1>6, <1>8 DEF IInv

\* Every step keeps the invariant.
LEMMA StepIInv ==
    ASSUME NoOverrun, IInv, [Next]_vars
    PROVE  IInv'
  <1>1. CASE rxIrq
    BY <1>1, PutStep
  <1>2. CASE readable
    <2>1. unread > 0
      BY <1>2, RingAssumption DEF IInv, TypeOK, Indices, Count, Ring, readable, available
    <2> QED
      BY <1>2, <2>1 DEF IInv, TypeOK, Indices, readable
  <1>3. CASE GetByte
    BY <1>3, GetByteStep
  <1>4. CASE GetWrap
    BY <1>4, GetWrapStep
  <1>5. CASE UNCHANGED vars
    BY <1>5 DEF IInv, TypeOK, Indices, vars
  <1> QED
    BY <1>1, <1>2, <1>3, <1>4, <1>5 DEF Next

\* The inductive invariant holds as long as the ring is not overrun.
LEMMA Invariance ==
    ASSUME NoOverrun
    PROVE  Spec => []IInv
  <1>1. IInv /\ [Next]_vars => IInv'
    BY StepIInv
  <1> QED
    BY <1>1, InitIInv, PTL DEF Spec

\* Both indices stay within the array, wherever the receiver's interrupt is
\* served (MyBuffer.h:133, 141).
THEOREM TypeCorrect ==
    ASSUME NoOverrun
    PROVE  Spec => []TypeOK
  <1>1. IInv => TypeOK
    BY DEF IInv
  <1> QED
    BY <1>1, Invariance, PTL

\* readable() says 1 exactly if a byte was put and is not yet read
\* (MyBuffer.h:156-160).
THEOREM ReadableRight ==
    ASSUME NoOverrun
    PROVE  Spec => []ReadableIffUnread
  <1>1. IInv => ReadableIffUnread
    <2> SUFFICES ASSUME IInv, pc # "wrap" PROVE available(rx) <=> unread > 0
      BY DEF ReadableIffUnread
    <2> QED
      BY RingAssumption DEF IInv, TypeOK, Indices, Count, Ring, available
  <1> QED
    BY <1>1, Invariance, PTL

------------------------------------------------------------------------------

(***************************************************************************)
(* The queue                                                                *)
(***************************************************************************)

\* The queue is empty at first.
LEMMA InitFifo == Init => Fifo!Init
  <1> SUFFICES ASSUME Init PROVE Fifo!Init
    OBVIOUS
  <1>1. rx \in Ring /\ rx.wloc = 0 /\ rx.rloc = 0
    BY RingAssumption DEF Init, clear, Ring
  <1>2. Count(rx.wloc, rx.rloc) = 0 /\ rx.wloc # Size - 1
    BY <1>1, RingAssumption DEF Count
  <1>3. Content(rx) \in Seq(Byte) /\ Len(Content(rx)) = 0
    BY <1>1, <1>2, ContentIs
  <1>4. Content(rx) = <<>>
    BY <1>3
  <1>5. data_pos \in Byte
    BY RingAssumption DEF Init
  <1> QED
    BY <1>4, <1>5 DEF Fifo!Init

\* The place the interrupt writes is none of those still to be read.
LEMMA FreePlace ==
    ASSUME NEW w \in 0 .. Size - 2, NEW r \in 0 .. Size - 1,
           Count(w, r) < Size - 2, NEW i \in 1 .. Count(w, r) + 1
    PROVE  /\ Wrap(r + i - 1) \in 0 .. Size - 1
           /\ Wrap(r + i - 1) = w <=> i = Count(w, r) + 1
  <1> DEFINE k == r + i - 1
  <1>1. k \in 0 .. 2 * (Size - 1) - 1
    BY RingAssumption DEF Count
  <1>2. Wrap(k) = IF k < Size - 1 THEN k ELSE k - (Size - 1)
    <2> HIDE DEF k
    <2> QED
      BY <1>1, WrapValue
  <1> QED
    BY <1>1, <1>2, RingAssumption DEF Count

\* The interrupt puts its byte behind all others.
LEMMA PutAppends ==
    ASSUME NoOverrun, IInv, rxIrq
    PROVE  Fifo!Put
  <1>1. PICK c \in Byte : rx' = put(rx, c)
    BY DEF rxIrq
  <1> DEFINE n == Count(rx.wloc, rx.rloc)
             old == Content(rx)
             new == Content(rx')
  <1>2. /\ rx \in Ring /\ rx.wloc \in 0 .. Size - 2 /\ rx.rloc \in 0 .. Size - 1
        /\ rx.wloc # Size - 1 /\ unread = n /\ unread < Size - 2
    BY PutStep, RingAssumption DEF IInv, TypeOK, Indices, Ring
  <1>3. rx' \in Ring /\ rx'.wloc # Size - 1 /\ unread' = Count(rx'.wloc, rx'.rloc)
    BY PutStep DEF IInv, TypeOK, Indices
  <1>4. rx'.buf = [rx.buf EXCEPT ![rx.wloc] = c] /\ rx'.rloc = rx.rloc
    BY <1>1, <1>2 DEF put, Ring
  <1>5. unread' = n + 1
    BY <1>2 DEF rxIrq
  <1>6. /\ old = [i \in 1 .. n |-> rx.buf[Wrap(rx.rloc + i - 1)]]
        /\ old \in Seq(Byte) /\ Len(old) = n /\ n \in 0 .. Size - 2
    BY <1>2, ContentIs
  <1>7. /\ new = [i \in 1 .. n + 1 |-> rx'.buf[Wrap(rx.rloc + i - 1)]]
        /\ new \in Seq(Byte) /\ Len(new) = n + 1
    <2> DEFINE next == Count(rx'.wloc, rx'.rloc)
    <2>1. /\ new = [i \in 1 .. next |-> rx'.buf[Wrap(rx'.rloc + i - 1)]]
          /\ new \in Seq(Byte) /\ Len(new) = next
      BY <1>3, ContentIs
    <2>2. next = n + 1
      BY <1>3, <1>5
    <2> QED
      BY <1>4, <2>1, <2>2
  <1>8. ASSUME NEW i \in 1 .. n + 1
        PROVE  new[i] = IF i = n + 1 THEN c ELSE old[i]
    <2> DEFINE place == Wrap(rx.rloc + i - 1)
    <2>3. place \in 0 .. Size - 1 /\ (place = rx.wloc <=> i = n + 1)
      BY <1>2, FreePlace
    <2>4. new[i] = rx'.buf[place]
      BY <1>7
    <2>5. i # n + 1 => old[i] = rx.buf[place]
      BY <1>6
    <2> HIDE DEF place, old, new, n
    <2>6. rx.buf \in [0 .. Size - 1 -> Byte]
      BY <1>2 DEF Ring
    <2> QED
      BY <1>4, <2>3, <2>4, <2>5, <2>6
  <1>9. new = Append(old, c)
    <2> HIDE DEF old, new, n
    <2>1. /\ Append(old, c) \in Seq(Byte) /\ Len(Append(old, c)) = n + 1
          /\ \A i \in 1 .. n : Append(old, c)[i] = old[i]
          /\ Append(old, c)[n + 1] = c
      BY <1>6, AppendProperties
    <2>2. n \in Nat
      BY <1>6
    <2>3. \A i \in 1 .. n + 1 : i = n + 1 \/ i \in 1 .. n
      BY <2>2
    <2>4. \A i \in 1 .. Len(new) : new[i] = Append(old, c)[i]
      BY <1>7, <1>8, <2>1, <2>2, <2>3
    <2> QED
      BY <1>7, <2>1, <2>4, SeqEqual
  <1> QED
    BY <1>9 DEF Fifo!Put, rxIrq

\* The program takes the oldest byte.
LEMMA GetTakesHead ==
    ASSUME IInv, GetByte
    PROVE  Fifo!Get
  <1> DEFINE n == Count(rx.wloc, rx.rloc)
             old == Content(rx)
             new == Content(rx')
  <1>1. /\ rx \in Ring /\ rx' \in Ring /\ rx'.wloc = rx.wloc
        /\ rx'.rloc = rx.rloc + 1 /\ rx'.buf = rx.buf
        /\ rx.rloc \in 0 .. Size - 2
        /\ rx.wloc # Size - 1 /\ unread = n /\ n \in 1 .. Size - 2
        /\ unread' = n - 1 /\ unread' = Count(rx'.wloc, rx'.rloc)
    BY GetByteStep DEF IInv, TypeOK, Indices
  <1>2. /\ old = [i \in 1 .. n |-> rx.buf[Wrap(rx.rloc + i - 1)]]
        /\ old \in Seq(Byte) /\ Len(old) = n
    BY <1>1, ContentIs
  <1>3. /\ new = [i \in 1 .. n - 1 |-> rx.buf[Wrap(rx.rloc + 1 + i - 1)]]
        /\ new \in Seq(Byte) /\ Len(new) = n - 1
    BY <1>1, ContentIs
  <1>4. data_pos' = old[1]
    <2>1. Wrap(rx.rloc) = rx.rloc /\ rx.rloc + 1 - 1 = rx.rloc
      BY <1>1, WrapValue, RingAssumption
    <2>2. 1 \in 1 .. n
      BY <1>1
    <2>3. old[1] = rx.buf[Wrap(rx.rloc + 1 - 1)]
      BY <1>2, <2>2
    <2> QED
      BY <2>1, <2>3 DEF GetByte
  <1>5. ASSUME NEW i \in 1 .. n - 1 PROVE new[i] = old[i + 1]
    <2>1. i + 1 \in 1 .. n /\ rx.rloc + (i + 1) - 1 = rx.rloc + 1 + i - 1
      BY <1>1
    <2>2. new[i] = rx.buf[Wrap(rx.rloc + 1 + i - 1)]
      BY <1>3
    <2>3. old[i + 1] = rx.buf[Wrap(rx.rloc + (i + 1) - 1)]
      BY <1>2, <2>1
    <2> QED
      BY <2>1, <2>2, <2>3
  <1>6. old # <<>> /\ Head(old) = old[1] /\ new = Tail(old)
    <2>1. n \in Nat /\ n >= 1
      BY <1>1
    <2> HIDE DEF old, new, n
    <2>2. old # <<>>
      BY <1>2, <2>1, EmptySeq
    <2>3. /\ Tail(old) \in Seq(Byte) /\ Len(Tail(old)) = n - 1
          /\ \A i \in 1 .. n - 1 : Tail(old)[i] = old[i + 1]
      BY <1>2, <2>2, HeadTailProperties
    <2>4. new = Tail(old)
      BY <1>3, <1>5, <2>3, SeqEqual
    <2>5. Head(old) = old[1]
      BY <1>2, <2>2
    <2> QED
      BY <2>2, <2>4, <2>5
  <1> QED
    BY <1>4, <1>6 DEF Fifo!Get

\* Wrapping the read index moves no byte.
LEMMA WrapStutters ==
    ASSUME IInv, GetWrap
    PROVE  UNCHANGED <<Content(rx), data_pos>>
  <1> DEFINE n == Count(rx.wloc, rx.rloc)
  <1>1. /\ rx \in Ring /\ rx' \in Ring /\ rx'.wloc = rx.wloc /\ rx'.buf = rx.buf
        /\ rx'.rloc = (IF rx.rloc = Size - 1 THEN 0 ELSE rx.rloc)
        /\ rx.wloc # Size - 1 /\ unread = n /\ unread' = Count(rx'.wloc, rx'.rloc)
        /\ rx.rloc \in 0 .. Size - 1
    BY GetWrapStep DEF IInv, TypeOK, Indices, Ring
  <1>2. unread' = n
    BY <1>1 DEF GetWrap
  <1>3. /\ Content(rx) = [i \in 1 .. n |-> rx.buf[Wrap(rx.rloc + i - 1)]]
        /\ Content(rx') = [i \in 1 .. n |-> rx.buf[Wrap(rx'.rloc + i - 1)]]
        /\ n \in 0 .. Size - 2
    BY <1>1, <1>2, ContentIs
  <1>4. ASSUME NEW i \in 1 .. n
        PROVE  Wrap(rx'.rloc + i - 1) = Wrap(rx.rloc + i - 1)
    <2>1. /\ rx.rloc + i - 1 \in 0 .. 2 * (Size - 1) - 1
          /\ rx'.rloc + i - 1 \in 0 .. 2 * (Size - 1) - 1
      BY <1>1, <1>3, RingAssumption
    <2> QED
      BY <1>1, <1>3, <2>1, WrapValue, RingAssumption
  <1>5. Content(rx') = Content(rx)
    BY <1>3, <1>4
  <1> QED
    BY <1>5 DEF GetWrap

\* BufferedSerial receives as a queue: bytes are read in the order they came,
\* none lost and none twice, as long as the ring is not overrun
\* (BufferedSerial.cpp:120-128, MyBuffer.h:130-146).
THEOREM Refinement ==
    ASSUME NoOverrun
    PROVE  Spec => FifoSpec
  <1>1. IInv /\ [Next]_vars => [Fifo!Put \/ Fifo!Get]_<<Content(rx), data_pos>>
    <2> SUFFICES ASSUME IInv, [Next]_vars
                 PROVE  \/ Fifo!Put \/ Fifo!Get
                        \/ UNCHANGED <<Content(rx), data_pos>>
      OBVIOUS
    <2>1. CASE rxIrq
      BY <2>1, PutAppends
    <2>2. CASE readable
      BY <2>2 DEF readable, Content
    <2>3. CASE GetByte
      BY <2>3, GetTakesHead
    <2>4. CASE GetWrap
      BY <2>4, WrapStutters
    <2>5. CASE UNCHANGED vars
      BY <2>5 DEF vars, Content
    <2> QED
      BY <2>1, <2>2, <2>3, <2>4, <2>5 DEF Next
  <1> QED
    BY <1>1, InitFifo, Invariance, PTL DEF Spec, FifoSpec, Fifo!Spec
=============================================================================
