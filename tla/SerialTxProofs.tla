---------------------------- MODULE SerialTxProofs ----------------------------
(***************************************************************************)
(* Who sends, and that the ring is a queue: proofs about SerialTx for every *)
(* size of the ring, with the transmitter's interrupt between any two steps *)
(* of the program.                                                          *)
(***************************************************************************)
EXTENDS SerialTx, SequenceTheorems, TLAPS

\* The write index is past the places of the ring only before it is wrapped.
IndexWrapped == pc # "wrap" => tx.wloc # Size - 1

\* Who owns the transmitter: the handler runs only while its interrupt is
\* enabled, prime keeps the interrupt disabled from its detaching to its
\* attaching, and a byte on its way out has somebody to send the next one.
Handover ==
    /\ inIrq => irqOn
    /\ pc \in {"txIrq", "attach"} => ~ irqOn
    /\ full => irqOn \/ pc \in {"txIrq", "attach"}
    /\ NoStrandedByte

IInv == TypeOK /\ IndexWrapped /\ Handover

------------------------------------------------------------------------------

\* The remainder is below the divisor.
LEMMA RemainderRange ==
    ASSUME NEW n \in Nat \ {0}, NEW i \in Nat
    PROVE  i % n \in 0 .. n - 1
  OBVIOUS

\* An index that is wrapped is a place below Size - 1 (MyBuffer.h:134, 143).
LEMMA WrapRange == \A i \in Nat : Wrap(i) \in 0 .. Size - 2
  <1> SUFFICES ASSUME NEW i \in Nat PROVE Wrap(i) \in 0 .. Size - 2
    OBVIOUS
  <1>1. Size - 1 \in Nat \ {0} /\ (Size - 1) - 1 = Size - 2
    BY RingAssumption
  <1>2. i % (Size - 1) \in 0 .. (Size - 1) - 1
    BY <1>1, RemainderRange
  <1> QED
    BY <1>1, <1>2 DEF Wrap

\* The ring a get leaves: only the read index moves, and it is wrapped.
LEMMA GetRange ==
    ASSUME NEW ring \in Ring
    PROVE  /\ get(ring) \in Ring
           /\ get(ring).rloc # Size - 1
           /\ get(ring).wloc = ring.wloc
  <1>1. ring.rloc + 1 \in Nat
    BY RingAssumption DEF Ring
  <1>2. Wrap(ring.rloc + 1) \in 0 .. Size - 2
    BY <1>1, WrapRange
  <1> QED
    BY <1>2, RingAssumption DEF Ring, get

\* The program starts with an empty ring and its interrupt disabled.
LEMMA InitIInv == Init => IInv
  <1> SUFFICES ASSUME Init PROVE IInv
    OBVIOUS
  <1>1. clear \in Ring /\ clear.rloc = 0 /\ clear.wloc = 0
    BY RingAssumption DEF clear, Ring
  <1>2. tx \in Ring /\ tx.rloc # Size - 1 /\ tx.wloc # Size - 1
    BY <1>1, RingAssumption DEF Init
  <1>3. at \in 0 .. Size - 2
    BY RingAssumption DEF Init
  <1>4. TypeOK /\ IndexWrapped
    BY <1>2, <1>3, RingAssumption DEF Init, TypeOK, IndexWrapped
  <1>5. Handover
    BY <1>1 DEF Init, Handover, NoStrandedByte, available
  <1> QED
    BY <1>4, <1>5 DEF IInv

------------------------------------------------------------------------------

\* put and prime leave the invariant: the steps of the program.
LEMMA PutInductive ==
    IInv /\ (PutBegin \/ PutStore \/ PutIncrement \/ PutWrap) => IInv'
  <1> SUFFICES ASSUME IInv, PutBegin \/ PutStore \/ PutIncrement \/ PutWrap
               PROVE  IInv'
    OBVIOUS
  <1> USE RingAssumption DEF IInv, InPut
  <1>1. CASE PutBegin
    <2>1. at' \in 0 .. Size - 2
      BY <1>1 DEF PutBegin, TypeOK, IndexWrapped, Ring
    <2>2. TypeOK' /\ IndexWrapped'
      BY <1>1, <2>1 DEF PutBegin, TypeOK, IndexWrapped
    <2>3. Handover'
      BY <1>1 DEF PutBegin, Handover, NoStrandedByte
    <2> QED
      BY <2>2, <2>3
  <1>2. CASE PutStore
    <2>1. tx' \in Ring /\ tx'.wloc = tx.wloc /\ tx'.rloc = tx.rloc
      BY <1>2 DEF PutStore, TypeOK, Ring
    <2>2. TypeOK' /\ IndexWrapped'
      BY <1>2, <2>1 DEF PutStore, TypeOK, IndexWrapped
    <2>3. Handover'
      BY <1>2 DEF PutStore, Handover, NoStrandedByte
    <2> QED
      BY <2>2, <2>3
  <1>3. CASE PutIncrement
    <2>1. tx' \in Ring /\ tx'.rloc = tx.rloc
      BY <1>3 DEF PutIncrement, TypeOK, Ring
    <2>2. TypeOK' /\ IndexWrapped'
      BY <1>3, <2>1 DEF PutIncrement, TypeOK, IndexWrapped
    <2>3. Handover'
      BY <1>3 DEF PutIncrement, Handover, NoStrandedByte
    <2> QED
      BY <2>2, <2>3
  <1>4. CASE PutWrap
    <2>1. tx.wloc \in Nat
      BY DEF TypeOK, Ring
    <2>2. Wrap(tx.wloc) \in 0 .. Size - 2
      BY <2>1, WrapRange
    <2>3. tx' \in Ring /\ tx'.rloc = tx.rloc /\ tx'.wloc # Size - 1
      BY <1>4, <2>2 DEF PutWrap, TypeOK, Ring
    <2>4. TypeOK' /\ IndexWrapped'
      BY <1>4, <2>3 DEF PutWrap, TypeOK, IndexWrapped
    <2>5. Handover'
      BY <1>4 DEF PutWrap, Handover, NoStrandedByte
    <2> QED
      BY <2>4, <2>5
  <1> QED
    BY <1>1, <1>2, <1>3, <1>4

\* prime leaves a byte on its way out to an enabled interrupt.
LEMMA PrimeInductive ==
    IInv /\ (PrimeBusy \/ PrimeWritable \/ PrimeDetach \/ PrimeAttach) => IInv'
  <1> SUFFICES ASSUME IInv,
                      PrimeBusy \/ PrimeWritable \/ PrimeDetach \/ PrimeAttach
               PROVE  IInv'
    OBVIOUS
  <1>1. TypeOK'
    BY DEF PrimeBusy, PrimeWritable, PrimeDetach, PrimeAttach, IInv, TypeOK
  <1>2. IndexWrapped'
    BY DEF PrimeBusy, PrimeWritable, PrimeDetach, PrimeAttach,
           IInv, IndexWrapped
  <1>3. CASE PrimeBusy
    \* Not writable in "more": the third conjunct gives the interrupt.
    <2>1. irqOn
      BY <1>3 DEF PrimeBusy, serial_writable, IInv, Handover
    <2> QED
      BY <1>1, <1>2, <1>3, <2>1
      DEF PrimeBusy, IInv, Handover, NoStrandedByte
  <1>4. CASE PrimeWritable
    BY <1>1, <1>2, <1>4
    DEF PrimeWritable, serial_writable, IInv, Handover, NoStrandedByte
  <1>5. CASE PrimeDetach
    BY <1>1, <1>2, <1>5 DEF PrimeDetach, IInv, Handover, NoStrandedByte
  <1>6. CASE PrimeAttach
    BY <1>1, <1>2, <1>6 DEF PrimeAttach, IInv, Handover, NoStrandedByte
  <1> QED
    BY <1>3, <1>4, <1>5, <1>6

\* txIrq keeps it, whoever runs it.
LEMMA TxIrqInductive ==
    IInv /\ (SendByte \/ StopBusy \/ StopEmpty) => IInv'
  <1> SUFFICES ASSUME IInv, SendByte \/ StopBusy \/ StopEmpty PROVE IInv'
    OBVIOUS
  <1>1. CASE SendByte
    <2>1. tx \in Ring
      BY DEF IInv, TypeOK
    <2>2. tx' \in Ring /\ tx'.rloc # Size - 1 /\ tx'.wloc = tx.wloc
      BY <1>1, <2>1, GetRange DEF SendByte
    <2>3. tx.buf[tx.rloc] \in Byte
      BY <2>1 DEF Ring
    <2>4. TypeOK' /\ IndexWrapped'
      BY <1>1, <2>2, <2>3 DEF SendByte, main, IInv, TypeOK, IndexWrapped
    <2>5. Handover'
      BY <1>1 DEF SendByte, Running, main, IInv, Handover, NoStrandedByte
    <2> QED
      BY <2>4, <2>5 DEF IInv
  <1>2. CASE StopBusy
    <2>1. TypeOK' /\ IndexWrapped'
      BY <1>2 DEF StopBusy, Leave, Running, IInv, TypeOK, IndexWrapped
    <2>2. Handover'
      BY <1>2
      DEF StopBusy, Leave, Running, IInv, Handover, NoStrandedByte, TypeOK
    <2> QED
      BY <2>1, <2>2 DEF IInv
  <1>3. CASE StopEmpty
    <2>1. TypeOK' /\ IndexWrapped'
      BY <1>3 DEF StopEmpty, Leave, Running, IInv, TypeOK, IndexWrapped
    <2>2. Handover'
      BY <1>3 DEF StopEmpty, Leave, Running, serial_writable, available,
                  IInv, Handover, NoStrandedByte, TypeOK
    <2> QED
      BY <2>1, <2>2 DEF IInv
  <1> QED
    BY <1>1, <1>2, <1>3

\* The transmitter and the start of its interrupt keep it.
LEMMA HardwareInductive == IInv /\ (Transmit \/ Interrupt) => IInv'
  <1> SUFFICES ASSUME IInv, Transmit \/ Interrupt PROVE IInv'
    OBVIOUS
  <1>1. TypeOK' /\ IndexWrapped'
    BY DEF Transmit, Interrupt, main, IInv, TypeOK, IndexWrapped, InPut
  <1>2. Handover'
    BY DEF Transmit, Interrupt, main, IInv, Handover, NoStrandedByte
  <1> QED
    BY <1>1, <1>2 DEF IInv

\* Every step keeps it.
LEMMA StepIInv == IInv /\ [Next]_vars => IInv'
  <1>1. IInv /\ UNCHANGED vars => IInv'
    BY DEF vars, main, IInv, TypeOK, IndexWrapped, Handover, NoStrandedByte
  <1> QED
    BY <1>1, PutInductive, PrimeInductive, TxIrqInductive, HardwareInductive
    DEF Next, MainStep

------------------------------------------------------------------------------

\* The invariant holds in every reachable state.
THEOREM Invariant == Spec => []IInv
  BY InitIInv, StepIInv, PTL DEF Spec

\* The rings and their indices stay what they are: the read index is always
\* wrapped when another can see it, whatever the size of the ring.
THEOREM TypeCorrect == Spec => []TypeOK
  <1>1. IInv => TypeOK
    BY DEF IInv
  <1> QED
    BY <1>1, Invariant, PTL

\* "if already busy then the irq will pick this up" (BufferedSerial.cpp:148):
\* bytes left in the ring by prime have an enabled interrupt that sends them.
THEOREM Handed == Spec => []NoStrandedByte
  <1>1. IInv => NoStrandedByte
    BY DEF IInv, Handover
  <1> QED
    BY <1>1, Invariant, PTL

\* "make sure not to cause contention in the irq" (BufferedSerial.cpp:150):
\* program and interrupt never run the loop of txIrq at the same time.
THEOREM NoContention == Spec => []OneSender
  <1>1. IInv => OneSender
    BY DEF IInv, Handover, OneSender
  <1> QED
    BY <1>1, Invariant, PTL

------------------------------------------------------------------------------

(***************************************************************************)
(* The ring                                                                 *)
(***************************************************************************)

\* The places from the read index to the write index, around the end.
Count(w, r) == IF w >= r THEN w - r ELSE w - r + (Size - 1)

\* The remainder, without the remainder.
LEMMA Remainder ==
    ASSUME NEW n \in Nat \ {0}, NEW i \in 0 .. 2 * n - 1
    PROVE  i % n = IF i < n THEN i ELSE i - n
  OBVIOUS

\* The same below zero, where the write index is behind the read index.
LEMMA RemainderBelow ==
    ASSUME NEW n \in Nat \ {0}, NEW i \in Nat, i >= 1, i <= n
    PROVE  (0 - i) % n = n - i
  OBVIOUS

\* An index one or two rounds long, wrapped (MyBuffer.h:134, 143).
LEMMA WrapValue ==
    ASSUME NEW i \in 0 .. 2 * (Size - 1) - 1
    PROVE  Wrap(i) = IF i < Size - 1 THEN i ELSE i - (Size - 1)
  <1>1. Size - 1 \in Nat \ {0}
    BY RingAssumption
  <1> QED
    BY <1>1, Remainder DEF Wrap

\* The length of what the ring holds.
LEMMA Length ==
    ASSUME NEW w \in 0 .. Size - 2, NEW r \in 0 .. Size - 1
    PROVE  /\ (w - r) % (Size - 1) = Count(w, r)
           /\ Count(w, r) \in 0 .. Size - 2
  <1>1. Size - 1 \in Nat \ {0}
    BY RingAssumption
  <1>2. CASE w >= r
    <2>1. w - r \in 0 .. 2 * (Size - 1) - 1 /\ w - r < Size - 1
      BY <1>2, RingAssumption
    <2>2. (w - r) % (Size - 1) = w - r
      BY <1>1, <2>1, Remainder
    <2> QED
      BY <1>2, <2>1, <2>2, RingAssumption DEF Count
  <1>3. CASE w < r
    <2>1. r - w \in Nat /\ r - w >= 1 /\ r - w <= Size - 1 /\ 0 - (r - w) = w - r
      BY <1>3, RingAssumption
    <2>2. (w - r) % (Size - 1) = (Size - 1) - (r - w)
      BY <1>1, <2>1, RemainderBelow
    <2> QED
      BY <1>3, <2>1, <2>2, RingAssumption DEF Count
  <1> QED
    BY <1>2, <1>3

\* What the ring holds, byte by byte.
LEMMA ContentIs ==
    ASSUME NEW ring \in Ring, ring.wloc # Size - 1
    PROVE  LET n == Count(ring.wloc, ring.rloc)
           IN  /\ Content(ring) = [i \in 1 .. n |-> ring.buf[Wrap(ring.rloc + i - 1)]]
               /\ n \in 0 .. Size - 2
               /\ Content(ring) \in Seq(Byte)
               /\ Len(Content(ring)) = n
  <1> DEFINE n == Count(ring.wloc, ring.rloc)
  <1>1. ring.wloc \in 0 .. Size - 2 /\ ring.rloc \in 0 .. Size - 1
    BY RingAssumption DEF Ring
  <1>2. (ring.wloc - ring.rloc) % (Size - 1) = n /\ n \in 0 .. Size - 2
    BY <1>1, Length
  <1>3. Content(ring) = [i \in 1 .. n |-> ring.buf[Wrap(ring.rloc + i - 1)]]
    BY <1>2 DEF Content
  <1>4. ASSUME NEW i \in 1 .. n PROVE ring.buf[Wrap(ring.rloc + i - 1)] \in Byte
    <2>1. ring.rloc + i - 1 \in 0 .. 2 * (Size - 1) - 1
      BY <1>1, <1>2, <1>4, RingAssumption
    <2>2. Wrap(ring.rloc + i - 1) \in 0 .. Size - 1
      BY <2>1, WrapValue, RingAssumption
    <2> QED
      BY <2>2 DEF Ring
  <1>5. Content(ring) \in [1 .. n -> Byte]
    BY <1>3, <1>4
  <1> QED
    BY <1>2, <1>3, <1>5

\* The place put writes is none of those still to be sent.
LEMMA FreePlace ==
    ASSUME NEW w \in 0 .. Size - 2, NEW r \in 0 .. Size - 1,
           Count(w, r) < Size - 2, NEW i \in 1 .. Count(w, r) + 1
    PROVE  /\ Wrap(r + i - 1) \in 0 .. Size - 1
           /\ Wrap(r + i - 1) = w <=> i = Count(w, r) + 1
  <1> DEFINE k == r + i - 1
  <1>1. k \in 0 .. 2 * (Size - 1) - 1
    BY RingAssumption DEF Count
  <1>2. Wrap(k) = IF k < Size - 1 THEN k ELSE k - (Size - 1)
    <2> HIDE DEF k
    <2> QED
      BY <1>1, WrapValue
  <1> QED
    BY <1>1, <1>2, RingAssumption DEF Count

\* A byte put into a ring that is not full is behind all others
\* (MyBuffer.h:130-136).
LEMMA PutAppends ==
    ASSUME NEW ring \in Ring, ring.wloc # Size - 1,
           Count(ring.wloc, ring.rloc) < Size - 2, NEW b \in Byte
    PROVE  Content(put(ring, b)) = Append(Content(ring), b)
  <1> DEFINE n == Count(ring.wloc, ring.rloc)
             next == Wrap(ring.wloc + 1)
             after == put(ring, b)
             old == Content(ring)
             new == Content(after)
  <1>1. ring.wloc \in 0 .. Size - 2 /\ ring.rloc \in 0 .. Size - 1
    BY RingAssumption DEF Ring
  <1>2. next = IF ring.wloc = Size - 2 THEN 0 ELSE ring.wloc + 1
    <2>1. ring.wloc + 1 \in 0 .. 2 * (Size - 1) - 1
      BY <1>1, RingAssumption
    <2> QED
      BY <1>1, <2>1, WrapValue, RingAssumption
  <1>3. after = [ring EXCEPT !.buf[ring.wloc] = b, !.wloc = next]
    BY DEF put
  <1>4. next \in 0 .. Size - 2
    BY <1>1, <1>2, RingAssumption
  <1>5. /\ after \in Ring /\ after.wloc = next /\ after.rloc = ring.rloc
        /\ after.buf = [ring.buf EXCEPT ![ring.wloc] = b]
    <2> HIDE DEF next, after
    <2>1. next \in 0 .. Size - 1 /\ ring.wloc \in 0 .. Size - 1
      BY <1>1, <1>4, RingAssumption
    <2>2. after.wloc = next /\ after.rloc = ring.rloc
      BY <1>3 DEF Ring
    <2>3. after.buf = [ring.buf EXCEPT ![ring.wloc] = b]
      BY <1>3 DEF Ring
    <2>4. after \in Ring
      BY <1>3, <2>1 DEF Ring
    <2> QED
      BY <2>2, <2>3, <2>4
  <1>6. Count(next, ring.rloc) = n + 1
    <2> HIDE DEF next
    <2> QED
      BY <1>1, <1>2, RingAssumption DEF Count
  <1>7. /\ old = [i \in 1 .. n |-> ring.buf[Wrap(ring.rloc + i - 1)]]
        /\ old \in Seq(Byte) /\ Len(old) = n /\ n \in 0 .. Size - 2
    BY ContentIs
  <1>8. /\ new = [i \in 1 .. n + 1 |-> after.buf[Wrap(ring.rloc + i - 1)]]
        /\ new \in Seq(Byte) /\ Len(new) = n + 1
    <2> DEFINE m == Count(after.wloc, after.rloc)
    <2>1. after.wloc # Size - 1 /\ m = n + 1
      <3> HIDE DEF next, after, n
      <3> QED
        BY <1>4, <1>5, <1>6, RingAssumption
    <2>2. /\ new = [i \in 1 .. m |-> after.buf[Wrap(after.rloc + i - 1)]]
          /\ new \in Seq(Byte) /\ Len(new) = m
      <3> HIDE DEF after
      <3> QED
        BY <1>5, <2>1, ContentIs
    <2> HIDE DEF after, new, m, n
    <2> QED
      BY <1>5, <2>1, <2>2
  <1>9. ASSUME NEW i \in 1 .. n + 1
        PROVE  new[i] = IF i = n + 1 THEN b ELSE old[i]
    <2> DEFINE place == Wrap(ring.rloc + i - 1)
    <2>1. place \in 0 .. Size - 1 /\ (place = ring.wloc <=> i = n + 1)
      BY <1>1, FreePlace
    <2>2. new[i] = after.buf[place]
      BY <1>8
    <2>3. i # n + 1 => old[i] = ring.buf[place]
      BY <1>7
    <2>4. ring.buf \in [0 .. Size - 1 -> Byte]
      BY DEF Ring
    <2> HIDE DEF place, old, new, after, n
    <2> QED
      BY <1>5, <2>1, <2>2, <2>3, <2>4
  <1>10. new = Append(old, b)
    <2> HIDE DEF old, new, n
    <2>1. /\ Append(old, b) \in Seq(Byte) /\ Len(Append(old, b)) = n + 1
          /\ \A i \in 1 .. n : Append(old, b)[i] = old[i]
          /\ Append(old, b)[n + 1] = b
      BY <1>7, AppendProperties
    <2>2. n \in Nat
      BY <1>7
    <2>3. \A i \in 1 .. n + 1 : i = n + 1 \/ i \in 1 .. n
      BY <2>2
    <2>4. \A i \in 1 .. Len(new) : new[i] = Append(old, b)[i]
      BY <1>8, <1>9, <2>1, <2>2, <2>3
    <2> QED
      BY <1>8, <2>1, <2>4, SeqEqual
  <1> QED
    BY <1>10

\* A byte got from a ring that is not empty is its oldest
\* (MyBuffer.h:138-146).
LEMMA GetTakesHead ==
    ASSUME NEW ring \in Ring, ring.wloc # Size - 1, ring.rloc # Size - 1,
           available(ring)
    PROVE  /\ Content(ring) # <<>>
           /\ ring.buf[ring.rloc] = Head(Content(ring))
           /\ Content(get(ring)) = Tail(Content(ring))
  <1> DEFINE n == Count(ring.wloc, ring.rloc)
             next == Wrap(ring.rloc + 1)
             after == get(ring)
             old == Content(ring)
             new == Content(after)
  <1>1. /\ ring.wloc \in 0 .. Size - 2 /\ ring.rloc \in 0 .. Size - 2
        /\ ring.wloc # ring.rloc
    BY RingAssumption DEF Ring, available
  <1>2. next = IF ring.rloc = Size - 2 THEN 0 ELSE ring.rloc + 1
    <2>1. ring.rloc + 1 \in 0 .. 2 * (Size - 1) - 1
      BY <1>1, RingAssumption
    <2> QED
      BY <1>1, <2>1, WrapValue, RingAssumption
  <1>3. /\ after \in Ring /\ after.wloc = ring.wloc /\ after.rloc = next
        /\ after.buf = ring.buf
    BY <1>1, <1>2, RingAssumption DEF Ring, get
  <1>4. n \in 1 .. Size - 2
    BY <1>1, RingAssumption DEF Count
  <1>5. Count(ring.wloc, next) = n - 1
    <2> HIDE DEF next
    <2> QED
      BY <1>1, <1>2, RingAssumption DEF Count
  <1>6. /\ old = [i \in 1 .. n |-> ring.buf[Wrap(ring.rloc + i - 1)]]
        /\ old \in Seq(Byte) /\ Len(old) = n
    BY ContentIs
  <1>7. /\ new = [i \in 1 .. n - 1 |-> ring.buf[Wrap(next + i - 1)]]
        /\ new \in Seq(Byte) /\ Len(new) = n - 1
    <2> HIDE DEF next, after
    <2> QED
      BY <1>3, <1>5, ContentIs
  <1>8. old[1] = ring.buf[ring.rloc]
    <2>1. Wrap(ring.rloc) = ring.rloc /\ ring.rloc + 1 - 1 = ring.rloc
      BY <1>1, WrapValue, RingAssumption
    <2>2. old[1] = ring.buf[Wrap(ring.rloc + 1 - 1)]
      BY <1>4, <1>6
    <2> QED
      BY <2>1, <2>2
  <1>9. ASSUME NEW i \in 1 .. n - 1 PROVE new[i] = old[i + 1]
    <2> HIDE DEF n, next, old, new
    <2>1. i + 1 \in 1 .. n /\ i \in 1 .. Size - 3
      BY <1>4, RingAssumption
    <2>2. /\ next + i - 1 \in 0 .. 2 * (Size - 1) - 1
          /\ ring.rloc + (i + 1) - 1 \in 0 .. 2 * (Size - 1) - 1
      BY <1>1, <1>2, <2>1, RingAssumption
    <2>3. Wrap(next + i - 1) = Wrap(ring.rloc + (i + 1) - 1)
      BY <1>1, <1>2, <2>1, <2>2, WrapValue, RingAssumption
    <2>4. new[i] = ring.buf[Wrap(next + i - 1)]
      BY <1>7
    <2>5. old[i + 1] = ring.buf[Wrap(ring.rloc + (i + 1) - 1)]
      BY <1>6, <2>1
    <2> QED
      BY <2>3, <2>4, <2>5
  <1>10. old # <<>> /\ Head(old) = old[1] /\ new = Tail(old)
    <2>1. n \in Nat /\ n >= 1
      BY <1>4
    <2> HIDE DEF old, new, n, next
    <2>2. old # <<>>
      BY <1>6, <2>1, EmptySeq
    <2>3. /\ Tail(old) \in Seq(Byte) /\ Len(Tail(old)) = n - 1
          /\ \A i \in 1 .. n - 1 : Tail(old)[i] = old[i + 1]
      BY <1>6, <2>2, HeadTailProperties
    <2>4. new = Tail(old)
      <3>1. /\ new \in Seq(Byte) /\ Len(new) = Len(Tail(old))
            /\ \A i \in 1 .. Len(new) : new[i] = Tail(old)[i]
        BY <1>7, <1>9, <2>3
      <3> DEFINE tail == Tail(old)
      <3> HIDE DEF tail
      <3>2. new = tail
        BY <2>3, <3>1, SeqEqual DEF tail
      <3> QED
        BY <3>2 DEF tail
    <2>5. Head(old) = old[1]
      BY <1>6, <2>2
    <2> QED
      BY <2>2, <2>4, <2>5
  <1> QED
    BY <1>8, <1>10

\* Before it is wrapped, a write index past the end means what it means
\* after, unless the first place of the ring is the next to be sent.
LEMMA WrapMovesNothing ==
    ASSUME NEW ring \in Ring, ring.rloc # Size - 1,
           ring.wloc = Size - 1 => ring.rloc # 0
    PROVE  Content([ring EXCEPT !.wloc = Wrap(ring.wloc)]) = Content(ring)
  <1> DEFINE w == ring.wloc
             r == ring.rloc
             next == Wrap(w)
  <1>1. w \in 0 .. Size - 1 /\ r \in 0 .. Size - 2
    BY RingAssumption DEF Ring
  <1>2. next = IF w = Size - 1 THEN 0 ELSE w
    <2>1. w \in 0 .. 2 * (Size - 1) - 1
      BY <1>1, RingAssumption
    <2> HIDE DEF w
    <2> QED
      BY <1>1, <2>1, WrapValue, RingAssumption
  <1>3. (next - r) % (Size - 1) = (w - r) % (Size - 1)
    <2>1. CASE w = Size - 1
      <3>1. (0 - r) % (Size - 1) = (Size - 1) - r
        <4>1. Size - 1 \in Nat \ {0} /\ r \in Nat /\ r >= 1 /\ r <= Size - 1
          BY <1>1, <2>1, RingAssumption
        <4> HIDE DEF r
        <4> QED
          BY <4>1, RemainderBelow
      <3>2. (w - r) % (Size - 1) = w - r
        <4>1. Size - 1 \in Nat \ {0} /\ w - r \in 0 .. 2 * (Size - 1) - 1
          BY <1>1, <2>1, RingAssumption
        <4>2. w - r < Size - 1
          BY <1>1, <2>1, RingAssumption
        <4> DEFINE k == w - r
        <4>3. k % (Size - 1) = k
          <5> HIDE DEF k
          <5> QED
            BY <4>1, <4>2, Remainder DEF k
        <4> QED
          BY <4>3
      <3> QED
        BY <1>2, <2>1, <3>1, <3>2
    <2>2. CASE w # Size - 1
      BY <1>2, <2>2
    <2> QED
      BY <2>1, <2>2
  <1>4. /\ [ring EXCEPT !.wloc = next].wloc = next
        /\ [ring EXCEPT !.wloc = next].rloc = r
        /\ [ring EXCEPT !.wloc = next].buf = ring.buf
    <2> HIDE DEF next
    <2> QED
      BY DEF Ring
  <1> QED
    BY <1>3, <1>4 DEF Content

\* A byte stored behind all others is not seen before the index says so.
LEMMA StoreUnseen ==
    ASSUME NEW ring \in Ring, ring.wloc # Size - 1,
           Count(ring.wloc, ring.rloc) < Size - 2, NEW b \in Byte
    PROVE  Content([ring EXCEPT !.buf[ring.wloc] = b]) = Content(ring)
  <1> DEFINE n == Count(ring.wloc, ring.rloc)
             after == [ring EXCEPT !.buf[ring.wloc] = b]
  <1>1. ring.wloc \in 0 .. Size - 2 /\ ring.rloc \in 0 .. Size - 1
    BY RingAssumption DEF Ring
  <1>2. /\ after \in Ring /\ after.wloc = ring.wloc /\ after.rloc = ring.rloc
        /\ after.buf = [ring.buf EXCEPT ![ring.wloc] = b]
    BY <1>1, RingAssumption DEF Ring
  <1>3. /\ Content(ring) = [i \in 1 .. n |-> ring.buf[Wrap(ring.rloc + i - 1)]]
        /\ n \in 0 .. Size - 2
    BY ContentIs
  <1>4. Content(after) = [i \in 1 .. n |-> after.buf[Wrap(ring.rloc + i - 1)]]
    <2> HIDE DEF after
    <2> QED
      BY <1>2, ContentIs
  <1>5. ASSUME NEW i \in 1 .. n
        PROVE  after.buf[Wrap(ring.rloc + i - 1)]
                  = ring.buf[Wrap(ring.rloc + i - 1)]
    <2> DEFINE place == Wrap(ring.rloc + i - 1)
    <2>1. i \in 1 .. n + 1 /\ i # n + 1
      BY <1>3
    <2>2. place \in 0 .. Size - 1 /\ place # ring.wloc
      BY <1>1, <2>1, FreePlace
    <2>3. ring.buf \in [0 .. Size - 1 -> Byte]
      BY DEF Ring
    <2> HIDE DEF place, after
    <2>4. after.buf[place] = ring.buf[place]
      BY <1>2, <2>2, <2>3
    <2> QED
      BY <2>4 DEF place
  <1>6. Content(after) = Content(ring)
    <2> HIDE DEF after, n
    <2> QED
      BY <1>3, <1>4, <1>5
  <1> QED
    BY <1>6

\* A put that is done but for the wrapping of the index has its byte behind
\* all others.
LEMMA UnwrappedAppends ==
    ASSUME NEW ring \in Ring, ring.wloc # Size - 1, ring.rloc # Size - 1,
           Count(ring.wloc, ring.rloc) < Size - 2, NEW b \in Byte,
           NEW after \in Ring, after.wloc = ring.wloc + 1,
           after.rloc = ring.rloc,
           after.buf = [ring.buf EXCEPT ![ring.wloc] = b]
    PROVE  Content(after) = Append(Content(ring), b)
  <1>1. ring.wloc \in 0 .. Size - 2 /\ ring.rloc \in 0 .. Size - 2
    BY RingAssumption DEF Ring
  <1>2. after.wloc = Size - 1 => after.rloc # 0
    BY <1>1, RingAssumption DEF Count
  <1>3. Content([after EXCEPT !.wloc = Wrap(after.wloc)]) = Content(after)
    BY <1>2, WrapMovesNothing
  <1> DEFINE next == Wrap(ring.wloc + 1)
  <1>4. [after EXCEPT !.wloc = next] = put(ring, b)
    <2> HIDE DEF next
    <2>1. put(ring, b) = [ring EXCEPT !.buf[ring.wloc] = b, !.wloc = next]
      BY DEF put, next
    <2> QED
      BY <2>1 DEF Ring
  <1>5. Content(put(ring, b)) = Append(Content(ring), b)
    BY PutAppends
  <1> QED
    BY <1>3, <1>4, <1>5

------------------------------------------------------------------------------

(***************************************************************************)
(* The queue                                                                *)
(***************************************************************************)

\* The program never leaves more bytes in the ring than it has room for.
NoOverrun == Backlog <= Size - 2

\* Where an undisturbed put is: the index read is the one in the ring until
\* it is incremented, a stored byte stays, and there is room for it.
PutState ==
    /\ ~ inIrq
    /\ tx.wloc = IF pc = "wrap" THEN at + 1 ELSE at
    /\ stored => tx.buf[at] = c
    /\ Count(at, tx.rloc) < Backlog

QueueInv == ~ preempted /\ InPut => PutState

\* The invariants of a step that does not disturb a put.
Undisturbed == IInv /\ QueueInv /\ ~ preempted'

\* The ring put has not yet changed for its reader.
Before == [tx EXCEPT !.wloc = at]

\* No put has begun.
LEMMA InitQueue == Init => QueueInv
  BY DEF Init, QueueInv, InPut

\* Once an interrupt was served within put, that stays so.
LEMMA PreemptedStays == [Next]_vars /\ preempted => preempted'
  BY DEF Next, MainStep, PutBegin, PutStore, PutIncrement, PutWrap,
         PrimeBusy, PrimeWritable, PrimeDetach, PrimeAttach,
         SendByte, StopBusy, StopEmpty, Transmit, Interrupt, vars

\* txIrq does not run within an undisturbed put.
LEMMA NotRunning == QueueInv /\ ~ preempted /\ InPut => ~ Running
  BY DEF QueueInv, PutState, InPut, Running

\* Nobody but put itself moves what an undisturbed put relies on.
LEMMA QueueStep ==
    ASSUME IInv, QueueInv, [Next]_vars
    PROVE  QueueInv'
  <1> SUFFICES ASSUME ~ preempted', InPut' PROVE PutState'
    BY DEF QueueInv
  <1>1. ~ preempted
    BY PreemptedStays
  <1> USE DEF InPut
  <1>2. CASE PutBegin
    <2>1. tx \in Ring /\ tx.wloc # Size - 1
      BY <1>2 DEF PutBegin, IInv, TypeOK, IndexWrapped
    <2>2. Count(tx.wloc, tx.rloc) < Backlog
      BY <1>2, <2>1, ContentIs DEF PutBegin
    <2> QED
      BY <1>2, <2>2 DEF PutBegin, PutState
  <1>3. CASE PutStore
    <2>1. tx \in Ring /\ at \in 0 .. Size - 1
      BY RingAssumption DEF IInv, TypeOK
    <2>2. /\ tx'.wloc = tx.wloc /\ tx'.rloc = tx.rloc /\ tx'.buf[at] = c
      BY <1>3, <2>1 DEF PutStore, Ring
    <2> QED
      BY <1>1, <1>3, <2>2 DEF PutStore, PutState, QueueInv
  <1>4. CASE PutIncrement
    <2>1. /\ tx'.wloc = at + 1 /\ tx'.rloc = tx.rloc /\ tx'.buf = tx.buf
      BY <1>4 DEF PutIncrement, IInv, TypeOK, Ring
    <2> QED
      BY <1>1, <1>4, <2>1 DEF PutIncrement, PutState, QueueInv
  <1>5. CASE PutWrap
    BY <1>5 DEF PutWrap
  <1>6. CASE PrimeBusy \/ PrimeWritable \/ PrimeDetach \/ PrimeAttach
    BY <1>6 DEF PrimeBusy, PrimeWritable, PrimeDetach, PrimeAttach
  <1>7. CASE SendByte \/ StopBusy \/ StopEmpty
    <2>1. InPut
      BY <1>7 DEF SendByte, StopBusy, StopEmpty, Leave, main
    <2> QED
      BY <1>1, <1>7, <2>1, NotRunning DEF SendByte, StopBusy, StopEmpty
  <1>8. CASE Transmit
    BY <1>1, <1>8 DEF Transmit, main, PutState, QueueInv
  <1>9. CASE Interrupt
    BY <1>9 DEF Interrupt, main
  <1>10. CASE UNCHANGED vars
    BY <1>1, <1>10 DEF vars, main, PutState, QueueInv
  <1> QED
    BY <1>2, <1>3, <1>4, <1>5, <1>6, <1>7, <1>8, <1>9, <1>10
    DEF Next, MainStep

------------------------------------------------------------------------------

\* The queue is empty at first.
LEMMA InitFifo == Init => Fifo!Init
  <1> SUFFICES ASSUME Init PROVE Fifo!Init
    OBVIOUS
  <1>1. tx \in Ring /\ tx.rloc = 0 /\ tx.wloc = 0
    BY RingAssumption DEF Init, clear, Ring
  <1>2. Count(tx.wloc, tx.rloc) = 0 /\ tx.wloc # Size - 1
    BY <1>1, RingAssumption DEF Count
  <1>3. Content(tx) \in Seq(Byte) /\ Len(Content(tx)) = 0
    BY <1>1, <1>2, ContentIs
  <1>4. Content(tx) = <<>>
    BY <1>3
  <1>5. Waiting = <<>> /\ reg \in Byte
    BY <1>4, RingAssumption DEF Init, Waiting, InPut
  <1> QED
    BY <1>5 DEF Fifo!Init

\* What is known of the ring within an undisturbed put.
LEMMA BeforeIs ==
    ASSUME NoOverrun, Undisturbed, ~ preempted, InPut
    PROVE  /\ Before \in Ring /\ Before.wloc = at /\ Before.rloc = tx.rloc
           /\ Before.buf = tx.buf
           /\ Before.wloc # Size - 1 /\ Before.rloc # Size - 1
           /\ Count(Before.wloc, Before.rloc) < Size - 2
           /\ at \in 0 .. Size - 2 /\ c \in Byte
           /\ tx.wloc = (IF pc = "wrap" THEN at + 1 ELSE at)
           /\ stored => tx.buf[at] = c
  <1>1. /\ tx \in Ring /\ tx.rloc # Size - 1 /\ at \in 0 .. Size - 2
        /\ c \in Byte /\ at \in 0 .. Size - 1
    BY RingAssumption DEF Undisturbed, IInv, TypeOK
  <1>2. /\ Before \in Ring /\ Before.wloc = at /\ Before.rloc = tx.rloc
        /\ Before.buf = tx.buf
    BY <1>1 DEF Before, Ring
  <1>3. PutState
    BY DEF Undisturbed, QueueInv
  <1>4. Count(at, tx.rloc) < Size - 2
    <2>1. Count(at, tx.rloc) < Backlog /\ Backlog <= Size - 2
      BY <1>3 DEF PutState, NoOverrun
    <2>2. Count(at, tx.rloc) \in Int
      BY <1>1, RingAssumption DEF Count, Ring
    <2> QED
      BY <2>1, <2>2, TxAssumption, RingAssumption
  <1>5. at # Size - 1
    BY <1>1, RingAssumption
  <1> QED
    BY <1>1, <1>2, <1>3, <1>4, <1>5 DEF PutState

\* Outside put, the queue is what the ring holds.
LEMMA OutsideStutters ==
    ASSUME UNCHANGED <<tx, reg>>, ~ InPut, ~ InPut'
    PROVE  UNCHANGED <<Waiting, reg>>
  BY DEF Waiting

\* put takes its place in the queue at the later of its two steps.
LEMMA PutQueues ==
    ASSUME NoOverrun, Undisturbed,
           PutBegin \/ PutStore \/ PutIncrement \/ PutWrap
    PROVE  Fifo!Put \/ UNCHANGED <<Waiting, reg>>
  <1>1. ~ preempted
    BY DEF Undisturbed, PutBegin, PutStore, PutIncrement, PutWrap
  <1>2. tx \in Ring
    BY DEF Undisturbed, IInv, TypeOK
  <1>3. CASE PutBegin
    <2>1. Waiting = Content(tx)
      BY <1>3 DEF PutBegin, Waiting, InPut
    <2>2. Waiting' = Content([tx EXCEPT !.wloc = tx.wloc])
      BY <1>3 DEF PutBegin, Waiting, InPut, Visible
    <2>3. [tx EXCEPT !.wloc = tx.wloc] = tx
      BY <1>2 DEF Ring
    <2> QED
      BY <1>3, <2>1, <2>2, <2>3 DEF PutBegin
  <1>4. CASE PutStore
    <2>1. /\ InPut /\ InPut' /\ ~ stored /\ stored' /\ pc' = pc /\ reg' = reg
          /\ at' = at /\ tx' = [tx EXCEPT !.buf[at] = c]
      BY <1>4 DEF PutStore, InPut
    <2>2. Waiting = Content(Before)
      BY <2>1 DEF Waiting, Visible, Before
    <2>3. CASE pc = "store"
      <3>1. Waiting' = Content([tx' EXCEPT !.wloc = at])
        BY <2>1, <2>3 DEF Waiting, Visible
      <3>2. [tx' EXCEPT !.wloc = at] = [Before EXCEPT !.buf[Before.wloc] = c]
        BY <1>1, <1>2, <2>1, BeforeIs DEF Before, Ring
      <3>3. Content([Before EXCEPT !.buf[Before.wloc] = c]) = Content(Before)
        BY <1>1, <2>1, BeforeIs, StoreUnseen
      <3> QED
        BY <2>1, <2>2, <3>1, <3>2, <3>3
    <2>4. CASE pc = "wrap"
      <3>1. Waiting' = Content(tx')
        BY <2>1, <2>4 DEF Waiting, Visible
      <3>2. /\ tx' \in Ring /\ tx'.wloc = at + 1 /\ tx'.rloc = tx.rloc
            /\ tx'.buf = [tx.buf EXCEPT ![at] = c]
        <4>1. at \in 0 .. Size - 1 /\ c \in Byte
          BY <1>1, <2>1, BeforeIs, RingAssumption
        <4>2. tx.wloc = at + 1
          BY <1>1, <2>1, <2>4, BeforeIs
        <4> QED
          BY <1>2, <2>1, <4>1, <4>2 DEF Ring
      <3>3. Content(tx') = Append(Content(Before), c)
        BY <1>1, <2>1, <3>2, BeforeIs, UnwrappedAppends
      <3>4. c \in Byte
        BY <1>1, <2>1, BeforeIs
      <3> QED
        BY <2>1, <2>2, <3>1, <3>3, <3>4 DEF Fifo!Put
    <2> QED
      BY <2>1, <2>3, <2>4 DEF InPut
  <1>5. CASE PutIncrement
    <2>1. /\ InPut /\ pc = "store" /\ pc' = "wrap" /\ stored' = stored
          /\ reg' = reg /\ at' = at /\ tx' = [tx EXCEPT !.wloc = at + 1]
      BY <1>5 DEF PutIncrement, InPut
    <2>2. Waiting = Content(Before)
      BY <2>1 DEF Waiting, Visible, Before
    <2>3. CASE stored
      <3>1. Waiting' = Content(tx')
        BY <2>1, <2>3 DEF Waiting, Visible
      <3>2. /\ tx' \in Ring /\ tx'.wloc = at + 1 /\ tx'.rloc = tx.rloc
            /\ tx'.buf = tx.buf
        <4>1. at + 1 \in 0 .. Size - 1
          BY <1>1, <2>1, BeforeIs, RingAssumption
        <4> QED
          BY <1>2, <2>1, <4>1 DEF Ring
      <3>3. tx.buf = [tx.buf EXCEPT ![at] = c]
        <4>1. tx.buf[at] = c /\ at \in 0 .. Size - 1
          BY <1>1, <2>1, <2>3, BeforeIs, RingAssumption
        <4>2. tx.buf \in [0 .. Size - 1 -> Byte]
          BY <1>2 DEF Ring
        <4> QED
          BY <4>1, <4>2
      <3>4. Content(tx') = Append(Content(Before), c)
        BY <1>1, <2>1, <3>2, <3>3, BeforeIs, UnwrappedAppends
      <3>5. c \in Byte
        BY <1>1, <2>1, BeforeIs
      <3> QED
        BY <2>1, <2>2, <3>1, <3>4, <3>5 DEF Fifo!Put
    <2>4. CASE ~ stored
      <3>1. Waiting' = Content([tx' EXCEPT !.wloc = at])
        BY <2>1, <2>4 DEF Waiting, Visible, InPut
      <3>2. [tx' EXCEPT !.wloc = at] = Before
        BY <1>2, <2>1 DEF Before, Ring
      <3> QED
        BY <2>1, <2>2, <3>1, <3>2
    <2> QED
      BY <2>3, <2>4
  <1>6. CASE PutWrap
    <2>1. /\ InPut /\ pc = "wrap" /\ stored /\ pc' = "more" /\ reg' = reg
          /\ tx' = [tx EXCEPT !.wloc = Wrap(tx.wloc)]
      BY <1>6 DEF PutWrap, InPut
    <2>2. Waiting = Content(tx) /\ Waiting' = Content(tx')
      BY <2>1 DEF Waiting, Visible, InPut
    <2>3. tx.rloc # Size - 1 /\ (tx.wloc = Size - 1 => tx.rloc # 0)
      BY <1>1, <2>1, BeforeIs, RingAssumption DEF Count, Ring
    <2>4. Content(tx') = Content(tx)
      BY <1>2, <2>1, <2>3, WrapMovesNothing
    <2> QED
      BY <2>1, <2>2, <2>4
  <1> QED
    BY <1>3, <1>4, <1>5, <1>6

\* Outside put, txIrq sends the oldest byte.
LEMMA SendTakesHead ==
    ASSUME Undisturbed, SendByte
    PROVE  Fifo!Get
  <1>1. ~ preempted /\ Running /\ available(tx)
    BY DEF Undisturbed, SendByte
  <1>2. ~ InPut /\ ~ InPut'
    BY <1>1, NotRunning DEF Undisturbed, SendByte, main, InPut
  <1>3. Waiting = Content(tx) /\ Waiting' = Content(get(tx))
    BY <1>2 DEF Waiting, SendByte
  <1>4. tx \in Ring /\ tx.wloc # Size - 1 /\ tx.rloc # Size - 1
    BY <1>2 DEF Undisturbed, IInv, TypeOK, IndexWrapped, InPut
  <1>5. /\ Content(tx) # <<>> /\ tx.buf[tx.rloc] = Head(Content(tx))
        /\ Content(get(tx)) = Tail(Content(tx))
    BY <1>1, <1>4, GetTakesHead
  <1> QED
    BY <1>3, <1>5 DEF SendByte, Fifo!Get

\* Every other step leaves the queue alone.
LEMMA RestStutters ==
    ASSUME Undisturbed,
           \/ PrimeBusy \/ PrimeWritable \/ PrimeDetach \/ PrimeAttach
           \/ StopBusy \/ StopEmpty \/ Transmit \/ Interrupt
           \/ UNCHANGED vars
    PROVE  UNCHANGED <<Waiting, reg>>
  <1>1. CASE PrimeBusy \/ PrimeWritable \/ PrimeDetach \/ PrimeAttach
    BY <1>1, OutsideStutters
    DEF PrimeBusy, PrimeWritable, PrimeDetach, PrimeAttach, InPut
  <1>2. CASE StopBusy \/ StopEmpty
    <2>1. UNCHANGED <<tx, reg>> /\ ~ preempted /\ Running
      BY <1>2 DEF StopBusy, StopEmpty, Undisturbed
    <2>2. ~ InPut
      BY <2>1, NotRunning DEF Undisturbed
    <2>3. ~ InPut'
      BY <1>2, <2>2 DEF StopBusy, StopEmpty, Leave, InPut
    <2> QED
      BY <2>1, <2>2, <2>3, OutsideStutters
  <1>3. CASE Transmit \/ Interrupt \/ UNCHANGED vars
    <2>1. UNCHANGED <<tx, pc, at, stored, reg>>
      BY <1>3 DEF Transmit, Interrupt, vars, main
    <2> QED
      BY <2>1 DEF Waiting, InPut, Visible
  <1> QED
    BY <1>1, <1>2, <1>3

\* BufferedSerial sends as a queue as long as its interrupt is not served
\* within put: "Pull the oldest element from the buffer" (MyBuffer.h:90), and
\* nothing else is sent, wherever the compiler moves the store of the byte.
THEOREM QueueUnlessPreempted ==
    ASSUME NoOverrun
    PROVE  Spec => FifoUnlessPreempted
  <1>1. QueueInv /\ IInv /\ [Next]_vars => QueueInv'
    BY QueueStep
  <1>2. IInv /\ QueueInv /\ [Next]_vars
          => [preempted' \/ Fifo!Put \/ Fifo!Get]_<<Waiting, reg>>
    <2> SUFFICES ASSUME IInv, QueueInv, [Next]_vars, ~ preempted'
                 PROVE  Fifo!Put \/ Fifo!Get \/ UNCHANGED <<Waiting, reg>>
      OBVIOUS
    <2>1. Undisturbed
      BY DEF Undisturbed
    <2>2. CASE PutBegin \/ PutStore \/ PutIncrement \/ PutWrap
      BY <2>1, <2>2, PutQueues
    <2>3. CASE SendByte
      BY <2>1, <2>3, SendTakesHead
    <2>4. CASE \/ PrimeBusy \/ PrimeWritable \/ PrimeDetach \/ PrimeAttach
               \/ StopBusy \/ StopEmpty \/ Transmit \/ Interrupt
               \/ UNCHANGED vars
      BY <2>1, <2>4, RestStutters
    <2> QED
      BY <2>2, <2>3, <2>4 DEF Next, MainStep
  <1> QED
    BY <1>1, <1>2, InitQueue, InitFifo, Invariant, PTL
    DEF Spec, FifoUnlessPreempted
=============================================================================
