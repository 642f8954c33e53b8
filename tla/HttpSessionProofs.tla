--------------------------- MODULE HttpSessionProofs ---------------------------
(***************************************************************************)
(* What the use of an access point promises, whatever the modem answers and *)
(* whenever it does: proofs about HttpSession for any number of failures.   *)
(***************************************************************************)
EXTENDS HttpSession, SequenceTheorems, FiniteSetTheorems, TLAPS

USE LinkAssumption

------------------------------------------------------------------------------
(* What the modem has said and the program has not read, as one sequence.    *)

Flow == rx \o air

\* Lines nobody asked for.
Urc == {"+QIURC:recv", "+QIURC:closed"}

\* s is made of lines, in this order, and of lines nobody asked for.
Carries(s, lines) ==
    \E f \in [1 .. Len(lines) -> 1 .. Len(s)] :
        /\ \A k, l \in 1 .. Len(lines) : k < l => f[k] < f[l]
        /\ \A k \in 1 .. Len(lines) : s[f[k]] = lines[k]
        /\ \A n \in 1 .. Len(s) : (\A k \in 1 .. Len(lines) : f[k] # n) => s[n] \in Urc

NoneIn(s, pattern) == \A n \in 1 .. Len(s) : s[n] \notin pattern

FirstIn(s, k, pattern) ==
    /\ k \in 1 .. Len(s) /\ s[k] \in pattern
    /\ \A j \in 1 .. k - 1 : s[j] \notin pattern

After(s, k) == SubSeq(s, k + 1, Len(s))

\* What is left of a sequence after its first k elements.
LEMMA AfterProperties ==
    ASSUME NEW S, NEW s \in Seq(S), NEW k \in 0 .. Len(s)
    PROVE  /\ After(s, k) \in Seq(S)
           /\ Len(After(s, k)) = Len(s) - k
           /\ \A n \in 1 .. Len(s) - k : After(s, k)[n] = s[n + k]
<1>1. k + 1 \in Int /\ Len(s) \in Int /\ \A n \in k + 1 .. Len(s) : s[n] \in S
  OBVIOUS
<1> QED BY <1>1, SubSeqProperties DEF After

\* Nothing is expected and nothing but unsolicited lines is there.
LEMMA CarriesNothing ==
    ASSUME NEW s \in Seq(Line)
    PROVE  Carries(s, <<>>) <=> \A n \in 1 .. Len(s) : s[n] \in Urc
<1>1. Len(<<>>) = 0 /\ 1 .. 0 = {}
  OBVIOUS
<1>2. ASSUME Carries(s, <<>>) PROVE \A n \in 1 .. Len(s) : s[n] \in Urc
  BY <1>1, <1>2 DEF Carries
<1>3. ASSUME \A n \in 1 .. Len(s) : s[n] \in Urc PROVE Carries(s, <<>>)
  <2> DEFINE f == [k \in 1 .. Len(<<>>) |-> 1]
  <2>1. f \in [1 .. Len(<<>>) -> 1 .. Len(s)]
    BY <1>1
  <2> QED BY <1>1, <1>3, <2>1 DEF Carries
<1> QED BY <1>2, <1>3

\* An answer is added to nothing but unsolicited lines.
LEMMA CarriesAnswer ==
    ASSUME NEW s \in Seq(Line), NEW q \in Seq(Line), Carries(s, <<>>)
    PROVE  Carries(s \o q, q)
<1> DEFINE f == [k \in 1 .. Len(q) |-> Len(s) + k]
<1>1. /\ s \o q \in Seq(Line) /\ Len(s \o q) = Len(s) + Len(q)
      /\ \A n \in 1 .. Len(s) + Len(q) :
            (s \o q)[n] = IF n <= Len(s) THEN s[n] ELSE q[n - Len(s)]
  BY ConcatProperties
<1>2. \A n \in 1 .. Len(s) : s[n] \in Urc
  BY CarriesNothing
<1>3. f \in [1 .. Len(q) -> 1 .. Len(s \o q)]
  BY <1>1
<1>4. \A k, l \in 1 .. Len(q) : k < l => f[k] < f[l]
  OBVIOUS
<1>5. \A k \in 1 .. Len(q) : (s \o q)[f[k]] = q[k]
  BY <1>1
<1>6. ASSUME NEW n \in 1 .. Len(s \o q), \A k \in 1 .. Len(q) : f[k] # n
      PROVE  (s \o q)[n] \in Urc
  <2>1. n <= Len(s)
    <3>1. SUFFICES ASSUME n > Len(s) PROVE FALSE
      BY <1>1
    <3>2. n - Len(s) \in 1 .. Len(q) /\ f[n - Len(s)] = n
      BY <1>1, <3>1
    <3> QED BY <3>2, <1>6
  <2> QED BY <2>1, <1>1, <1>2
<1> QED BY <1>3, <1>4, <1>5, <1>6 DEF Carries

\* An unsolicited line takes nothing away.
LEMMA CarriesUrc ==
    ASSUME NEW s \in Seq(Line), NEW p \in Seq(Line), NEW u \in Urc, Carries(s, p)
    PROVE  Carries(s \o <<u>>, p)
<1>1. PICK f \in [1 .. Len(p) -> 1 .. Len(s)] :
        /\ \A k, l \in 1 .. Len(p) : k < l => f[k] < f[l]
        /\ \A k \in 1 .. Len(p) : s[f[k]] = p[k]
        /\ \A n \in 1 .. Len(s) : (\A k \in 1 .. Len(p) : f[k] # n) => s[n] \in Urc
  BY DEF Carries
<1>2. u \in Line
  BY DEF Line, Urc
<1>3. /\ Len(s \o <<u>>) = Len(s) + 1
      /\ \A n \in 1 .. Len(s) : (s \o <<u>>)[n] = s[n]
      /\ (s \o <<u>>)[Len(s) + 1] = u
  BY <1>2
<1>4. f \in [1 .. Len(p) -> 1 .. Len(s \o <<u>>)]
  BY <1>3
<1>5. \A k \in 1 .. Len(p) : (s \o <<u>>)[f[k]] = p[k]
  BY <1>1, <1>3
<1>6. \A n \in 1 .. Len(s \o <<u>>) :
        (\A k \in 1 .. Len(p) : f[k] # n) => (s \o <<u>>)[n] \in Urc
  BY <1>1, <1>3
<1> QED BY <1>1, <1>4, <1>5, <1>6 DEF Carries

\* The first line of a pattern is the first expected line of that pattern.
LEMMA CarriesFirst ==
    ASSUME NEW s \in Seq(Line), NEW p \in Seq(Line), NEW pattern, NEW k,
           pattern \cap Urc = {}, Carries(s, p), FirstIn(s, k, pattern)
    PROVE  \E m \in 1 .. Len(p) : FirstIn(p, m, pattern) /\ p[m] = s[k]
                /\ Carries(After(s, k), After(p, m))
<1>1. PICK f \in [1 .. Len(p) -> 1 .. Len(s)] :
        /\ \A i1, i2 \in 1 .. Len(p) : i1 < i2 => f[i1] < f[i2]
        /\ \A i1 \in 1 .. Len(p) : s[f[i1]] = p[i1]
        /\ \A n \in 1 .. Len(s) : (\A i1 \in 1 .. Len(p) : f[i1] # n) => s[n] \in Urc
  BY DEF Carries
<1>2. k \in 1 .. Len(s) /\ s[k] \notin Urc
  BY DEF FirstIn
<1>3. PICK m \in 1 .. Len(p) : f[m] = k
  BY <1>1, <1>2
<1>4. FirstIn(p, m, pattern) /\ p[m] = s[k]
  <2>1. ASSUME NEW j \in 1 .. m - 1 PROVE p[j] \notin pattern
    <3>1. j \in 1 .. Len(p) /\ j < m
      OBVIOUS
    <3>2. f[j] < k /\ f[j] \in 1 .. Len(s)
      BY <1>1, <1>3, <3>1
    <3> QED BY <1>1, <3>1, <3>2 DEF FirstIn
  <2> QED BY <1>1, <1>3, <2>1 DEF FirstIn
<1>5. /\ After(s, k) \in Seq(Line) /\ Len(After(s, k)) = Len(s) - k
      /\ \A n \in 1 .. Len(s) - k : After(s, k)[n] = s[n + k]
  BY <1>2, AfterProperties
<1>6. /\ After(p, m) \in Seq(Line) /\ Len(After(p, m)) = Len(p) - m
      /\ \A n \in 1 .. Len(p) - m : After(p, m)[n] = p[n + m]
  BY AfterProperties
<1> DEFINE g == [j \in 1 .. Len(p) - m |-> f[j + m] - k]
<1>7. \A j \in 1 .. Len(p) - m :
        j + m \in 1 .. Len(p) /\ f[j + m] > k /\ f[j + m] \in 1 .. Len(s)
  BY <1>1, <1>3
<1>8. g \in [1 .. Len(p) - m -> 1 .. Len(s) - k]
  <2> SUFFICES ASSUME NEW j \in 1 .. Len(p) - m PROVE f[j + m] - k \in 1 .. Len(s) - k
    OBVIOUS
  <2>1. j + m \in 1 .. Len(p) /\ f[j + m] > k /\ f[j + m] \in 1 .. Len(s)
    BY <1>7
  <2> QED BY <1>2, <2>1
<1>9. \A i1, i2 \in 1 .. Len(p) - m : i1 < i2 => g[i1] < g[i2]
  <2> SUFFICES ASSUME NEW i1 \in 1 .. Len(p) - m, NEW i2 \in 1 .. Len(p) - m, i1 < i2
               PROVE  g[i1] < g[i2]
    OBVIOUS
  <2>1. i1 + m \in 1 .. Len(p) /\ i2 + m \in 1 .. Len(p) /\ i1 + m < i2 + m
    OBVIOUS
  <2>2. f[i1 + m] < f[i2 + m] /\ f[i1 + m] \in Int /\ f[i2 + m] \in Int
    <3>1. f[i1 + m] \in 1 .. Len(s) /\ f[i2 + m] \in 1 .. Len(s)
      BY <1>7
    <3>2. f[i1 + m] < f[i2 + m]
      BY <1>1, <2>1
    <3> QED BY <3>1, <3>2
  <2> QED BY <1>2, <2>2
<1>10. \A j \in 1 .. Len(p) - m : After(s, k)[g[j]] = After(p, m)[j]
  <2> SUFFICES ASSUME NEW j \in 1 .. Len(p) - m PROVE After(s, k)[g[j]] = After(p, m)[j]
    OBVIOUS
  <2>1. g[j] \in 1 .. Len(s) - k /\ g[j] + k = f[j + m] /\ j + m \in 1 .. Len(p)
    BY <1>2, <1>7, <1>8
  <2>2. After(s, k)[g[j]] = s[g[j] + k]
    BY <1>5, <2>1
  <2> QED BY <1>1, <1>6, <2>1, <2>2
<1>11. ASSUME NEW n \in 1 .. Len(s) - k, \A j \in 1 .. Len(p) - m : g[j] # n
       PROVE  After(s, k)[n] \in Urc
  <2>1. n + k \in 1 .. Len(s) /\ After(s, k)[n] = s[n + k]
    BY <1>2, <1>5
  <2>2. ASSUME NEW l \in 1 .. Len(p), f[l] = n + k PROVE FALSE
    <3>1. l > m
      <4>1. f[l] > f[m]
        BY <1>2, <1>3, <2>2
      <4>2. l < m => f[l] < f[m]
        BY <1>1
      <4>3. f[l] \in Int /\ f[m] \in Int
        BY <1>1
      <4> QED BY <4>1, <4>2, <4>3
    <3>2. l - m \in 1 .. Len(p) - m /\ g[l - m] = n
      BY <1>2, <2>2, <3>1
    <3> QED BY <3>2, <1>11
  <2> QED BY <1>1, <2>1, <2>2
<1>12. Carries(After(s, k), After(p, m))
  <2>1. 1 .. Len(After(s, k)) = 1 .. Len(s) - k /\ 1 .. Len(After(p, m)) = 1 .. Len(p) - m
    BY <1>5, <1>6
  <2>2. \A n \in 1 .. Len(s) - k :
          (\A j \in 1 .. Len(p) - m : g[j] # n) => After(s, k)[n] \in Urc
    BY <1>11
  <2> HIDE DEF g
  <2>3. g \in [1 .. Len(After(p, m)) -> 1 .. Len(After(s, k))]
    BY <1>8, <2>1
  <2>4. \A i1, i2 \in 1 .. Len(After(p, m)) : i1 < i2 => g[i1] < g[i2]
    BY <1>9, <2>1
  <2>5. \A j \in 1 .. Len(After(p, m)) : After(s, k)[g[j]] = After(p, m)[j]
    BY <1>10, <2>1
  <2>6. \A n \in 1 .. Len(After(s, k)) :
          (\A j \in 1 .. Len(After(p, m)) : g[j] # n) => After(s, k)[n] \in Urc
    BY <2>1, <2>2
  <2> QED BY <2>3, <2>4, <2>5, <2>6, Zenon DEF Carries
<1> QED BY <1>4, <1>12

\* If there is no line of a pattern, none is expected.
LEMMA CarriesNone ==
    ASSUME NEW s \in Seq(Line), NEW p \in Seq(Line), NEW pattern,
           Carries(s, p), NoneIn(s, pattern)
    PROVE  NoneIn(p, pattern)
BY DEF Carries, NoneIn

------------------------------------------------------------------------------
(* Types.                                                                    *)

CloseLabels ==
    {"close", "close_+QIRD", "close_OK", "QICLOSE", "QICLOSE_OK", "QICLOSE_ERROR"}

Parts == Message[call]

\* The loops count down to 1, the parts of a message up to the last.
Counters ==
    /\ pc \in {"+QISEND", "QISEND", ">"} => i \in 1 .. 3
    /\ pc \in {"QICLOSE", "QICLOSE_OK", "QICLOSE_ERROR"} => i \in 1 .. 2
    /\ pc = "write" => i \in 1 .. Len(Parts)

LinkOK ==
    /\ rx \in Seq(Line) /\ air \in Seq(Line)
    /\ taken \in Seq(Unit) /\ wire \in Seq(Seq(Unit))
    /\ sock \in {"closed", "open", "peer"} /\ room \in 0 .. 4
    /\ server \in {"idle", "asked", "data", "done"}
    /\ faults \in 0 .. MaxFaults /\ late \in BOOLEAN

Label ==
    {"QIOPEN", "QIOPEN_OK", "+QIOPEN", "QISEND?", "+QISEND", "QISEND", ">",
     "write", "SEND_OK", "wait", "+QIURC", "QIRD", "+QIRD", "read",
     "close", "close_+QIRD", "close_OK", "QICLOSE", "QICLOSE_OK",
     "QICLOSE_ERROR", "refused", "returned", "CEREG", "CEREG_OK", "CEREG?", "cell",
     "done"}

DriverOK ==
    /\ pc \in Label
    /\ call \in {"get", "post"}
    /\ max_attempt \in 0 .. 2 /\ i \in 0 .. 4 /\ _buf \subseteq Line
    /\ ret \in {"refused", "wait", "+QIURC", "returned"} /\ result \in BOOLEAN

\* TypeOK is about the link and about the driver.
LEMMA TypeParts == TypeOK <=> LinkOK /\ DriverOK
BY DEF TypeOK, LinkOK, DriverOK, Label

\* What the driver and the modem do to the link, but for CellRead.
Received == \E pattern \in SUBSET Line, line \in Line : Recv(pattern, line)
NotReceived == \E pattern \in SUBSET Line : RecvFails(pattern)

LinkStep ==
    \/ \E unit \in Unit : Send(unit) \/ FlushAndSend(unit)
    \/ Received \/ NotReceived \/ Read \/ ReadSome
    \/ ServerAnswers \/ PeerCloses \/ Deliver
    \/ UNCHANGED link

\* A failure is counted up to the bound.
LEMMA FaultsBounded ==
    ASSUME faults \in 0 .. MaxFaults, Fails \/ Works
    PROVE  faults' \in 0 .. MaxFaults
BY DEF Fails, Works

Answers ==
    {<<"OK">>, <<"ERROR">>, <<">">>, <<"SEND_OK">>, <<"SEND_FAIL">>,
     <<"OK", "+QIOPEN:0">>, <<"OK", "+QIOPEN:563">>, <<"OK", "+QIOPEN:566">>,
     <<"+QISEND:0", "OK">>, <<"+QIRD:0", "OK">>, <<"+QIRD:1", "data", "OK">>,
     <<"+QIURC:recv">>, <<"+QIURC:closed">>, <<"cell", "OK">>}

\* What the modem says are lines.
LEMMA AnswerLines ==
    ASSUME air \in Seq(Line), NEW lines \in Answers, Answer(lines)
    PROVE  air' \in Seq(Line)
<1>1. /\ \A a \in Line : <<a>> \in Seq(Line)
      /\ \A a, b \in Line : <<a, b>> \in Seq(Line)
      /\ \A a, b, c \in Line : <<a, b, c>> \in Seq(Line)
  OBVIOUS
<1>2. lines \in Seq(Line)
  BY <1>1 DEF Answers, Line, Refusals, Amounts
<1> QED BY <1>2, ConcatProperties DEF Answer

\* A command the modem executes leaves its own variables of their types.
LEMMA ExecuteTypes ==
    ASSUME LinkOK, NEW unit \in Unit, room = 0, Execute(unit)
    PROVE  /\ air' \in Seq(Line) /\ sock' \in {"closed", "open", "peer"}
           /\ server' \in {"idle", "asked", "data", "done"}
           /\ room' \in 0 .. 4 /\ faults' \in 0 .. MaxFaults
<1>1. faults' \in 0 .. MaxFaults
  BY FaultsBounded DEF Execute, LinkOK
<1>2. \E lines \in Answers : Answer(lines)
  BY DEF Execute, Works, Fails, Answers
<1>3. /\ sock' \in {"closed", "open", "peer"} /\ room' \in 0 .. 4
      /\ server' \in {"idle", "asked", "data", "done"}
  BY DEF Execute, Answer, Works, Fails, LinkOK
<1> QED BY <1>1, <1>2, <1>3, AnswerLines DEF LinkOK

\* A part the modem takes after the prompt does, too.
LEMMA TakeUnitTypes ==
    ASSUME LinkOK, NEW unit \in Unit, room > 0, TakeUnit(unit)
    PROVE  /\ air' \in Seq(Line) /\ sock' \in {"closed", "open", "peer"}
           /\ server' \in {"idle", "asked", "data", "done"}
           /\ room' \in 0 .. 4 /\ faults' \in 0 .. MaxFaults
           /\ taken' \in Seq(Unit) /\ wire' \in Seq(Seq(Unit))
<1>1. faults' \in 0 .. MaxFaults
  BY FaultsBounded DEF TakeUnit, LinkOK
<1>2. (\E lines \in Answers : Answer(lines)) \/ air' = air
  BY DEF TakeUnit, Works, Fails, Answers
<1>3. room' \in 0 .. 4
  BY DEF TakeUnit, Answer, Works, Fails, LinkOK
<1>4. Append(taken, unit) \in Seq(Unit)
  BY AppendProperties DEF LinkOK
<1>5. Append(wire, Append(taken, unit)) \in Seq(Seq(Unit))
  BY <1>4, AppendProperties DEF LinkOK
<1>6. taken' \in Seq(Unit) /\ wire' \in Seq(Seq(Unit))
  BY EmptySeq, <1>4, <1>5 DEF TakeUnit, Answer, Works, Fails, LinkOK
<1>7. /\ sock' \in {"closed", "open", "peer"}
      /\ server' \in {"idle", "asked", "data", "done"}
  BY DEF TakeUnit, Answer, Works, Fails, LinkOK
<1> QED BY <1>1, <1>2, <1>3, <1>6, <1>7, AnswerLines DEF LinkOK

\* What is left of the lines received are lines.
LEMMA RestLines ==
    ASSUME rx \in Seq(Line), NEW n \in 0 .. Len(rx)
    PROVE  SubSeq(rx, n + 1, Len(rx)) \in Seq(Line)
BY AfterProperties DEF After

\* Whatever happens on the link, its variables keep their types.
LEMMA LinkTypes ==
    ASSUME LinkOK, LinkStep
    PROVE  LinkOK'
<1>1. ASSUME NEW unit \in Unit, Write(unit), rx' \in Seq(Line), late' = late PROVE LinkOK'
  <2>1. CASE room = 0
    BY <1>1, <2>1, ExecuteTypes DEF Write, LinkOK
  <2>2. CASE room > 0
    BY <1>1, <2>2, TakeUnitTypes DEF Write, LinkOK
  <2> QED BY <2>1, <2>2 DEF LinkOK
<1>2. ASSUME NEW unit \in Unit, Send(unit) \/ FlushAndSend(unit) PROVE LinkOK'
  <2>1. Write(unit) /\ late' = late /\ (rx' = rx \/ rx' = <<>>)
    BY <1>2 DEF Send, FlushAndSend
  <2>2. rx' \in Seq(Line)
    BY <2>1, EmptySeq DEF LinkOK
  <2> QED BY <1>1, <2>1, <2>2
<1>3. ASSUME Received PROVE LinkOK'
  <2>1. PICK n \in 1 .. Len(rx) : rx' = SubSeq(rx, n + 1, Len(rx))
    BY <1>3 DEF Received, Recv
  <2>2. rx' \in Seq(Line)
    BY <2>1, RestLines DEF LinkOK
  <2> QED BY <1>3, <2>2 DEF Received, Recv, LinkOK
<1>4. ASSUME ReadSome PROVE LinkOK'
  <2>1. PICK n \in 1 .. Len(rx) : rx' = SubSeq(rx, n + 1, Len(rx))
    BY <1>4 DEF ReadSome
  <2>2. rx' \in Seq(Line)
    BY <2>1, RestLines DEF LinkOK
  <2> QED BY <1>4, <2>2 DEF ReadSome, LinkOK
<1>5. ASSUME NotReceived \/ Read PROVE LinkOK'
  <2>1. Silent /\ rx' = <<>> /\ UNCHANGED <<air, sock, room, taken, wire, server>>
    BY <1>5 DEF NotReceived, RecvFails, Read
  <2>2. faults' \in 0 .. MaxFaults /\ late' \in BOOLEAN
    BY <2>1, FaultsBounded DEF Silent, LinkOK
  <2> QED BY <2>1, <2>2 DEF LinkOK
<1>6. ASSUME ServerAnswers \/ PeerCloses PROVE LinkOK'
  <2>1. \E lines \in Answers : Answer(lines)
    BY <1>6 DEF ServerAnswers, PeerCloses, Works, Fails, Answers
  <2>2. air' \in Seq(Line)
    BY <2>1, AnswerLines DEF LinkOK
  <2>3. faults' \in 0 .. MaxFaults
    BY <1>6, FaultsBounded DEF ServerAnswers, PeerCloses, LinkOK
  <2> QED BY <1>6, <2>2, <2>3 DEF ServerAnswers, PeerCloses, LinkOK
<1>7. ASSUME Deliver PROVE LinkOK'
  BY <1>7, HeadTailProperties, AppendProperties DEF Deliver, LinkOK
<1>8. ASSUME UNCHANGED link PROVE LinkOK'
  BY <1>8 DEF link, LinkOK
<1> QED BY <1>2, <1>3, <1>4, <1>5, <1>6, <1>7, <1>8 DEF LinkStep

TypeInv == LinkOK /\ DriverOK /\ Counters

\* The driver's jumps.
LEMMA Jumps ==
    ASSUME DriverOK
    PROVE  /\ \A label \in Label \ {"+QISEND", "QISEND", ">", "QICLOSE", "QICLOSE_OK",
                                     "QICLOSE_ERROR", "write"} :
                Goto(label) => DriverOK' /\ Counters'
           /\ \A label \in Label, n \in 0 .. 4 : Loop(label, n) => DriverOK'
           /\ \A value \in BOOLEAN : Return(value) => DriverOK' /\ Counters'
           /\ \A then \in {"refused", "wait", "+QIURC", "returned"} :
                Close(then) => DriverOK' /\ Counters'
           /\ Goto(ret) => DriverOK' /\ Counters'
           /\ UNCHANGED driver => DriverOK'
BY DEF Goto, Loop, Return, Close, DriverOK, Counters, Label, Parts, Message, driver

\* Connecting.
LEMMA OpenTypes ==
    ASSUME TypeInv, SendOpen \/ OpenAccepted \/ Opened \/ OpenRefused \/ OpenFails
    PROVE  LinkStep /\ DriverOK' /\ Counters'
<1> USE DEF TypeInv
<1>1. LinkStep
  BY DEF SendOpen, OpenAccepted, Opened, OpenRefused, OpenFails, LinkStep, Received,
         NotReceived, Unit, Command, Line, Refusals
<1>2. DriverOK' /\ Counters'
  BY Jumps DEF SendOpen, OpenAccepted, Opened, OpenRefused, OpenFails, Label
<1> QED BY <1>1, <1>2

\* connect(), one attempt after the other.
LEMMA ConnectTypes ==
    ASSUME TypeInv, ConnectAgain
    PROVE  LinkStep /\ DriverOK' /\ Counters'
<1> USE DEF TypeInv
<1>1. LinkStep
  BY DEF ConnectAgain, LinkStep
<1>2. CASE max_attempt = 0
  BY <1>1, <1>2, Jumps DEF ConnectAgain
<1>3. CASE max_attempt \in 1 .. 2
  <2>1. /\ pc' = "QIOPEN" /\ max_attempt' = max_attempt - 1
        /\ UNCHANGED <<call, i, _buf, ret, result>>
    BY <1>3 DEF ConnectAgain, Return
  <2>2. max_attempt' \in 0 .. 2
    BY <1>3, <2>1
  <2> QED BY <1>1, <2>1, <2>2 DEF DriverOK, Counters, Label
<1> QED BY <1>2, <1>3 DEF DriverOK

\* There is a part after each but the last.
LEMMA NextPart ==
    ASSUME NEW n \in 2 .. 4, NEW k \in 1 .. n, k < n
    PROVE  k + 1 \in 1 .. n /\ k + 1 \in 0 .. 4
OBVIOUS

\* Sending.
LEMMA StreamTypes ==
    ASSUME TypeInv,
           SendQuery \/ ReadQuery \/ SendStream \/ Prompted \/ NotPrompted \/ WritePart
    PROVE  LinkStep /\ DriverOK' /\ Counters'
<1> USE DEF TypeInv
<1>1. ASSUME SendQuery PROVE LinkStep /\ DriverOK' /\ Counters'
  BY <1>1 DEF SendQuery, LinkStep, Unit, Command, DriverOK, Counters, Label
<1>2. ASSUME ReadQuery PROVE LinkStep /\ DriverOK' /\ Counters'
  <2>1. i \in 1 .. 3 /\ pc = "+QISEND" /\ UNCHANGED <<call, max_attempt, ret>> /\ result' = FALSE
    BY <1>2 DEF ReadQuery, Counters
  <2>2. _buf' \subseteq Line
    BY <1>2 DEF ReadQuery, Filled, LinkOK, DriverOK
  <2>3. \/ pc' = "QISEND" /\ i' = 3
        \/ pc' = "returned" /\ i' = i - 1
        \/ pc' = "+QISEND" /\ i' = i - 1 /\ i # 1
    BY <1>2 DEF ReadQuery
  <2>4. i' \in 0 .. 3 /\ (pc' # "returned" => i' \in 1 .. 3)
    BY <2>1, <2>3
  <2>5. LinkStep
    BY <1>2 DEF ReadQuery, LinkStep
  <2>6. i' \in 0 .. 4 /\ pc' \in {"QISEND", "returned", "+QISEND"}
    BY <2>3, <2>4
  <2>7. Counters'
    BY <2>4, <2>6 DEF Counters
  <2> QED BY <2>1, <2>2, <2>5, <2>6, <2>7 DEF DriverOK, Label
<1>3. ASSUME SendStream PROVE LinkStep /\ DriverOK' /\ Counters'
  BY <1>3 DEF SendStream, LinkStep, Unit, Command, Goto, DriverOK, Counters, Label
<1>4. ASSUME Prompted PROVE LinkStep /\ DriverOK' /\ Counters'
  <2>1. 1 \in 1 .. Len(Parts)
    BY DEF DriverOK, Parts, Message
  <2> QED BY <1>4, <2>1 DEF Prompted, LinkStep, Received, Line, Loop, DriverOK, Counters,
                            Label, Parts
<1>5. ASSUME NotPrompted PROVE LinkStep /\ DriverOK' /\ Counters'
  <2>1. LinkStep /\ i \in 1 .. 3
    BY <1>5 DEF NotPrompted, LinkStep, NotReceived, Line, Counters
  <2>2. CASE i = 1
    BY <1>5, <2>1, <2>2, Jumps DEF NotPrompted
  <2>3. CASE i \in 2 .. 3
    <3>1. Loop("QISEND", i - 1) /\ i - 1 \in 1 .. 2
      BY <1>5, <2>3 DEF NotPrompted, Return, Loop
    <3> QED BY <2>1, <3>1 DEF Loop, DriverOK, Counters, Label
  <2> QED BY <2>1, <2>2, <2>3
<1>6. ASSUME WritePart PROVE LinkStep /\ DriverOK' /\ Counters'
  <2>1. i \in 1 .. Len(Parts) /\ Len(Parts) \in 2 .. 4 /\ Parts[i] \in Part
    <3>1. CASE call = "get"
      BY <1>6, <3>1 DEF WritePart, Counters, Parts, Message, Part
    <3>2. CASE call = "post"
      BY <1>6, <3>2 DEF WritePart, Counters, Parts, Message, Part
    <3> QED BY <3>1, <3>2 DEF DriverOK
  <2>2. LinkStep
    BY <1>6, <2>1 DEF WritePart, LinkStep, Unit, Parts
  <2>3. CASE i < Len(Parts)
    <3>1. Loop("write", i + 1)
      BY <1>6, <2>3 DEF WritePart, Parts
    <3>2. i + 1 \in 1 .. Len(Parts) /\ i + 1 \in 0 .. 4
      BY <2>1, <2>3, NextPart
    <3> QED BY <2>2, <3>1, <3>2 DEF Loop, DriverOK, Counters, Label, Parts
  <2>4. CASE ~ i < Len(Parts)
    BY <1>6, <2>2, <2>4, Jumps DEF WritePart, Parts, Label
  <2> QED BY <2>3, <2>4
<1> QED BY <1>1, <1>2, <1>3, <1>4, <1>5, <1>6

\* The answers to the parts, and the end of a request.
LEMMA AnswerTypes ==
    ASSUME TypeInv,
           \/ SendOK \/ SendFails \/ PostEnds \/ Answered \/ AskAmount \/ AmountKnown
           \/ NotAnswered \/ ReadPart \/ GetEnds
    PROVE  LinkStep /\ DriverOK' /\ Counters'
<1> USE DEF TypeInv
<1>1. LinkStep
  BY DEF SendOK, SendFails, PostEnds, Answered, AskAmount, AmountKnown, NotAnswered,
         ReadPart, GetEnds, LinkStep, Received, NotReceived, Unit, Command, Line, Amounts
<1>2. ASSUME \/ SendOK \/ SendFails \/ Answered \/ AskAmount \/ AmountKnown
             \/ NotAnswered \/ ReadPart
      PROVE  DriverOK' /\ Counters'
  BY <1>2, Jumps DEF SendOK, SendFails, Answered, AskAmount, AmountKnown, NotAnswered,
                     ReadPart, AfterSend, Label
<1>3. ASSUME PostEnds \/ GetEnds PROVE DriverOK' /\ Counters'
  BY <1>3 DEF PostEnds, GetEnds, DriverOK, Counters, Label
<1> QED BY <1>1, <1>2, <1>3

\* close(), with the socket flushed before.
LEMMA CloseTypes ==
    ASSUME TypeInv,
           \/ FlushSocket \/ AmountToFlush \/ Flushed \/ FlushFails
           \/ SendClose \/ Closed \/ CloseNotOK \/ CloseError \/ CloseAgain
    PROVE  LinkStep /\ DriverOK' /\ Counters'
<1> USE DEF TypeInv
<1>1. LinkStep
  BY DEF FlushSocket, AmountToFlush, Flushed, FlushFails, SendClose, Closed, CloseNotOK,
         CloseError, CloseAgain,
         LinkStep, Received, NotReceived, Unit, Command, Line, Amounts
<1>2. ASSUME FlushSocket \/ AmountToFlush \/ FlushFails \/ Closed \/ CloseError
      PROVE  DriverOK' /\ Counters'
  BY <1>2, Jumps DEF FlushSocket, AmountToFlush, FlushFails, Closed, CloseError, Label
<1>3. ASSUME Flushed \/ SendClose \/ CloseNotOK PROVE DriverOK' /\ Counters'
  BY <1>3 DEF Flushed, SendClose, CloseNotOK, Goto, Loop, DriverOK, Counters, Label
<1>4. ASSUME CloseAgain PROVE DriverOK' /\ Counters'
  <2>1. i \in 1 .. 2
    BY <1>4 DEF CloseAgain, Counters
  <2>2. CASE i = 1
    BY <1>4, <2>2, Jumps DEF CloseAgain
  <2>3. CASE i = 2
    BY <1>4, <2>3 DEF CloseAgain, Loop, DriverOK, Counters, Label
  <2> QED BY <2>1, <2>2, <2>3
<1> QED BY <1>1, <1>2, <1>3, <1>4

\* Between the calls and after them.
LEMMA RunTypes ==
    ASSUME TypeInv, GetReturns \/ SendCell \/ CellSet \/ AskCell \/ PostReturns
    PROVE  LinkStep /\ DriverOK' /\ Counters'
<1> USE DEF TypeInv
<1>1. LinkStep
  BY DEF GetReturns, SendCell, CellSet, AskCell, PostReturns, LinkStep, Received,
         NotReceived, Unit, Command, Line, link
<1>2. DriverOK' /\ Counters'
  BY Jumps DEF GetReturns, SendCell, CellSet, AskCell, PostReturns, Label
<1> QED BY <1>1, <1>2

\* The end of the request for the cell, which empties the buffer of the port.
LEMMA CellReadTypes ==
    ASSUME TypeInv, CellRead
    PROVE  TypeInv'
BY EmptySeq DEF TypeInv, CellRead, LinkOK, DriverOK, Counters, Label

\* The modem's own steps leave the driver's variables alone.
LEMMA ModemTypes ==
    ASSUME TypeInv, ModemStep
    PROVE  LinkStep /\ DriverOK' /\ Counters'
BY Jumps DEF TypeInv, ModemStep, LinkStep, driver, Counters, Parts, Message

\* The types are an inductive invariant.
LEMMA TypeStep ==
    ASSUME TypeInv, [Next]_vars
    PROVE  TypeInv'
<1>1. ASSUME LinkStep, DriverOK', Counters' PROVE TypeInv'
  BY <1>1, LinkTypes DEF TypeInv
<1>2. ASSUME UNCHANGED vars PROVE TypeInv'
  <2>1. LinkStep /\ DriverOK' /\ Counters'
    BY <1>2 DEF TypeInv, vars, driver, LinkStep, DriverOK, Counters, Parts, Message
  <2> QED BY <1>1, <2>1
<1> QED BY <1>1, <1>2, OpenTypes, ConnectTypes, StreamTypes, AnswerTypes, CloseTypes,
           RunTypes, CellReadTypes, ModemTypes DEF Next, DriverStep

\* The types hold at the start.
LEMMA TypeInit == Init => TypeInv
<1>1. <<>> \in Seq(Line) /\ <<>> \in Seq(Unit) /\ <<>> \in Seq(Seq(Unit))
  BY EmptySeq
<1>2. 0 \in 0 .. MaxFaults
  OBVIOUS
<1>3. SUFFICES ASSUME Init PROVE TypeInv
  OBVIOUS
<1>4. LinkOK
  <2>1. /\ rx = <<>> /\ air = <<>> /\ taken = <<>> /\ wire = <<>>
        /\ sock = "closed" /\ room = 0 /\ server = "idle" /\ faults = 0
    BY <1>3 DEF Init, LinkInit
  <2>2. late \in BOOLEAN
    BY <1>3 DEF Init, LinkInit
  <2> QED BY <1>1, <1>2, <2>1, <2>2 DEF LinkOK
<1>5. DriverOK /\ Counters
  <2>1. pc \in {"QIOPEN", "CEREG"} /\ call \in {"get", "post"}
    BY <1>3 DEF Init
  <2>2. max_attempt = 2 /\ i = 0 /\ _buf = {} /\ ret = "returned"
    BY <1>3 DEF Init
  <2>3. result \in BOOLEAN
    BY <1>3 DEF Init
  <2> QED BY <2>1, <2>2, <2>3 DEF DriverOK, Counters, Label
<1> QED BY <1>4, <1>5 DEF TypeInv

\* The variables of the exchange keep their types.
THEOREM TypeCorrect == Spec => []TypeOK
<1>1. TypeInv => TypeOK
  BY TypeParts DEF TypeInv
<1> QED BY <1>1, TypeInit, TypeStep, PTL DEF Spec

------------------------------------------------------------------------------
(* The report is sent once at most.  A report begins with its header, which  *)
(* is written at one place; after it the driver does not come back there.    *)

Starts(message) == message # <<>> /\ message[1] = "header"

NoHeader == ~ Starts(taken) /\ \A n \in DOMAIN wire : ~ Starts(wire[n])

OneHeader ==
    /\ \A m, n \in DOMAIN wire : Starts(wire[m]) /\ Starts(wire[n]) => m = n
    /\ (\E n \in DOMAIN wire : Starts(wire[n])) => ~ Starts(taken)

\* The header has not been written.
Unsent ==
    call = "post" =>
        \/ pc \in {"QIOPEN", "QIOPEN_OK", "+QIOPEN", "QISEND?", "+QISEND", "QISEND", ">",
                   "refused", "CEREG", "CEREG_OK", "CEREG?", "cell"}
        \/ pc = "write" /\ i = 1
        \/ pc \in CloseLabels /\ ret = "refused"
        \/ pc \in {"returned", "done"} /\ ~ result

\* Which call a place belongs to, and that close returns true to its caller.
Places ==
    /\ pc \in CloseLabels => ret \in {"refused", "wait", "+QIURC"} \/ result
    /\ pc \in CloseLabels /\ call = "post" => ret # "+QIURC"
    /\ pc \in CloseLabels /\ call = "get" => ret # "wait"
    /\ pc \in {"wait", "done"} => call = "post"
    /\ pc \in {"+QIURC", "QIRD", "+QIRD", "read"} => call = "get"

HeaderInv == Places /\ OneHeader /\ (Unsent => NoHeader)

\* What a written unit does to the message and to what has been sent.
LEMMA WriteEffect ==
    ASSUME NEW unit, Write(unit)
    PROVE  \/ taken' = taken /\ wire' = wire
           \/ taken' = Append(taken, unit) /\ wire' = wire
           \/ taken' = <<>> /\ wire' = wire
           \/ taken' = <<>> /\ wire' = Append(wire, Append(taken, unit))
BY DEF Write, TakeUnit

\* A unit more changes how a message starts only if it is the first.
LEMMA StartsAppend ==
    ASSUME taken \in Seq(Unit), NEW unit \in Unit
    PROVE  Starts(Append(taken, unit)) <=> Starts(taken) \/ (taken = <<>> /\ unit = "header")
<1>1. CASE taken = <<>>
  <2>1. Append(taken, unit) = <<unit>>
    BY <1>1
  <2> QED BY <1>1, <2>1 DEF Starts
<1>2. CASE taken # <<>>
  <2>1. Append(taken, unit) # <<>> /\ Append(taken, unit)[1] = taken[1]
    BY <1>2, AppendProperties
  <2> QED BY <1>2, <2>1 DEF Starts
<1> QED BY <1>1, <1>2

\* The message handed over is the last of those sent.
LEMMA HandedOver ==
    ASSUME wire \in Seq(Seq(Unit)), NEW message \in Seq(Unit), wire' = Append(wire, message)
    PROVE  /\ DOMAIN wire' = DOMAIN wire \cup {Len(wire) + 1}
           /\ Len(wire) + 1 \notin DOMAIN wire
           /\ \A n \in DOMAIN wire : wire'[n] = wire[n]
           /\ wire'[Len(wire) + 1] = message
<1>1. /\ wire' \in Seq(Seq(Unit)) /\ Len(wire') = Len(wire) + 1
      /\ \A n \in 1 .. Len(wire) : wire'[n] = wire[n]
      /\ wire'[Len(wire) + 1] = message
  BY AppendProperties
<1>2. DOMAIN wire' = 1 .. Len(wire) + 1 /\ DOMAIN wire = 1 .. Len(wire) /\ Len(wire) \in Nat
  BY <1>1
<1> QED BY <1>1, <1>2

\* A unit other than the header makes no header.
LEMMA OtherUnit ==
    ASSUME LinkOK, NEW unit \in Unit, unit # "header", Write(unit)
    PROVE  (NoHeader => NoHeader') /\ (OneHeader => OneHeader')
<1>1. Starts(Append(taken, unit)) <=> Starts(taken)
  BY StartsAppend DEF LinkOK
<1>2. ~ Starts(<<>>)
  BY DEF Starts
<1>3. CASE taken' = taken /\ wire' = wire
  BY <1>3 DEF NoHeader, OneHeader
<1>4. CASE taken' = Append(taken, unit) /\ wire' = wire
  BY <1>1, <1>4 DEF NoHeader, OneHeader
<1>5. CASE taken' = <<>> /\ wire' = wire
  BY <1>2, <1>5 DEF NoHeader, OneHeader
<1>6. CASE taken' = <<>> /\ wire' = Append(wire, Append(taken, unit))
  <2>1. Append(taken, unit) \in Seq(Unit)
    BY AppendProperties DEF LinkOK
  <2>2. /\ DOMAIN wire' = DOMAIN wire \cup {Len(wire) + 1}
        /\ Len(wire) + 1 \notin DOMAIN wire
        /\ \A n \in DOMAIN wire : wire'[n] = wire[n]
        /\ wire'[Len(wire) + 1] = Append(taken, unit)
    BY <1>6, <2>1, HandedOver DEF LinkOK
  <2>3. NoHeader => NoHeader'
    BY <1>1, <1>2, <1>6, <2>2 DEF NoHeader
  <2>4. ASSUME OneHeader PROVE OneHeader'
    <3>1. ~ Starts(taken')
      BY <1>2, <1>6
    <3>2. \A m, n \in DOMAIN wire' : Starts(wire'[m]) /\ Starts(wire'[n]) => m = n
      BY <1>1, <2>2, <2>4 DEF OneHeader
    <3> QED BY <3>1, <3>2 DEF OneHeader
  <2> QED BY <2>3, <2>4
<1> QED BY <1>3, <1>4, <1>5, <1>6, WriteEffect

\* The header, written where there was none, is the only one.
LEMMA HeaderUnit ==
    ASSUME LinkOK, NoHeader, Write("header")
    PROVE  OneHeader'
<1>1. "header" \in Unit
  BY DEF Unit, Part
<1>2. CASE wire' = wire
  BY <1>2 DEF NoHeader, OneHeader
<1>3. CASE taken' = <<>> /\ wire' = Append(wire, Append(taken, "header"))
  <2>1. Append(taken, "header") \in Seq(Unit)
    BY <1>1, AppendProperties DEF LinkOK
  <2>2. /\ DOMAIN wire' = DOMAIN wire \cup {Len(wire) + 1}
        /\ \A n \in DOMAIN wire : wire'[n] = wire[n]
    BY <1>3, <2>1, HandedOver DEF LinkOK
  <2>3. ~ Starts(taken')
    BY <1>3 DEF Starts
  <2> QED BY <2>2, <2>3 DEF NoHeader, OneHeader
<1> QED BY <1>2, <1>3, WriteEffect

\* A step that writes no header and does not lead back before it.
OnwardStep ==
    /\ (\E unit \in Unit \ {"header"} : Write(unit)) \/ UNCHANGED <<taken, wire>>
    /\ Unsent' => Unsent
    /\ Places'

\* A step that writes no header, and does not lead back to where it is written.
LEMMA OnwardInv ==
    ASSUME LinkOK, HeaderInv, OnwardStep
    PROVE  HeaderInv'
<1>1. CASE \E unit \in Unit \ {"header"} : Write(unit)
  BY <1>1, OtherUnit DEF HeaderInv, OnwardStep
<1>2. CASE UNCHANGED <<taken, wire>>
  BY <1>2 DEF HeaderInv, OnwardStep, NoHeader, OneHeader
<1> QED BY <1>1, <1>2 DEF OnwardStep

\* The steps that write nothing.
Reading ==
    \/ OpenAccepted \/ Opened \/ OpenRefused \/ OpenFails \/ ConnectAgain
    \/ ReadQuery \/ Prompted \/ NotPrompted \/ SendOK \/ SendFails \/ PostEnds
    \/ Answered \/ AmountKnown \/ NotAnswered \/ ReadPart \/ GetEnds
    \/ AmountToFlush \/ Flushed \/ FlushFails \/ Closed \/ CloseNotOK \/ CloseError
    \/ CloseAgain \/ GetReturns \/ CellSet \/ PostReturns

\* A step that only reads writes nothing to the modem.
LEMMA ReadingUntouched == ASSUME Reading PROVE UNCHANGED <<taken, wire>>
BY DEF Reading, OpenAccepted, Opened, OpenRefused, OpenFails, ConnectAgain, ReadQuery,
       Prompted, NotPrompted, SendOK, SendFails, PostEnds, Answered, AmountKnown, NotAnswered,
       ReadPart, GetEnds, AmountToFlush, Flushed, FlushFails, Closed, CloseNotOK, CloseError,
       CloseAgain, GetReturns, CellSet, PostReturns, Recv, RecvFails, Read, ReadSome, link

\* The steps that write a command.
Commanding ==
    \/ SendOpen \/ SendQuery \/ SendStream \/ AskAmount \/ FlushSocket \/ SendClose
    \/ SendCell \/ AskCell

\* A command is no header.
LEMMA CommandingOther ==
    ASSUME Commanding
    PROVE  \E unit \in Unit \ {"header"} : Write(unit)
BY DEF Commanding, SendOpen, SendQuery, SendStream, AskAmount, FlushSocket, SendClose,
       SendCell, AskCell, Send, FlushAndSend, Unit, Command

Onward == (Unsent' => Unsent) /\ Places'

\* Before the header is written, and in close, the driver goes on soundly.
LEMMA ReadingOnward ==
    ASSUME TypeInv, HeaderInv, Reading
    PROVE  Onward
<1> USE DEF Onward, Unsent, Places, CloseLabels, HeaderInv
<1>1. call \in {"get", "post"} /\ ret \in {"refused", "wait", "+QIURC", "returned"}
  BY DEF TypeInv, DriverOK
<1>2. CASE OpenAccepted \/ Opened \/ OpenRefused \/ OpenFails \/ ConnectAgain
  BY <1>1, <1>2 DEF OpenAccepted, Opened, OpenRefused, OpenFails, ConnectAgain, Goto, Close, Return
<1>3. CASE ReadQuery
  <2>1. pc = "+QISEND" /\ pc' \in {"QISEND", "+QISEND", "returned"} /\ call' = call
    BY <1>3 DEF ReadQuery
  <2> QED BY <1>1, <2>1
<1>4. CASE Prompted \/ NotPrompted
  BY <1>1, <1>4 DEF Prompted, NotPrompted, Loop, Return
<1>5. CASE SendOK \/ SendFails
  BY <1>1, <1>5 DEF SendOK, SendFails, AfterSend, Goto, Close
<1>6. CASE PostEnds \/ GetEnds
  BY <1>1, <1>6 DEF PostEnds, GetEnds
<1>7. CASE Answered \/ AmountKnown \/ NotAnswered \/ ReadPart
  BY <1>1, <1>7 DEF Answered, AmountKnown, NotAnswered, ReadPart, Goto, Return
<1>8. ASSUME pc \in CloseLabels, pc' \in CloseLabels \cup {ret},
             UNCHANGED <<call, ret, result>>
      PROVE  Onward
  <2>1. result' <=> result
    BY <1>8
  <2>2. CASE pc' \in CloseLabels
    BY <1>1, <1>8, <2>1, <2>2
  <2>3. CASE pc' = ret /\ ret = "refused"
    BY <1>1, <1>8, <2>1, <2>3
  <2>4. CASE pc' = ret /\ ret = "wait"
    BY <1>1, <1>8, <2>1, <2>4
  <2>5. CASE pc' = ret /\ ret = "+QIURC"
    BY <1>1, <1>8, <2>1, <2>5
  <2>6. CASE pc' = ret /\ ret = "returned"
    BY <1>1, <1>8, <2>1, <2>6
  <2> QED BY <1>1, <1>8, <2>2, <2>3, <2>4, <2>5, <2>6
<1>9. CASE \/ AmountToFlush \/ Flushed \/ FlushFails
           \/ Closed \/ CloseNotOK \/ CloseError \/ CloseAgain
  <2>1. pc \in CloseLabels /\ pc' \in CloseLabels \cup {ret} /\ UNCHANGED <<call, ret, result>>
    BY <1>9 DEF AmountToFlush, Flushed, FlushFails, Closed, CloseNotOK, CloseError, CloseAgain,
                Goto, Loop
  <2> QED BY <2>1, <1>8
<1>10. CASE GetReturns \/ CellSet \/ PostReturns
  BY <1>1, <1>10 DEF GetReturns, CellSet, PostReturns, Goto
<1> QED BY <1>2, <1>3, <1>4, <1>5, <1>6, <1>7, <1>9, <1>10 DEF Reading

\* A command does not bring the driver back to where the header is sent.
LEMMA CommandingOnward ==
    ASSUME TypeInv, HeaderInv, Commanding
    PROVE  Onward
BY DEF Onward, Unsent, Places, CloseLabels, HeaderInv, Commanding, SendOpen, SendQuery,
       SendStream, AskAmount, FlushSocket, SendClose, SendCell, AskCell, Goto, TypeInv, DriverOK

\* The header is the first part of the report and of nothing else.
LEMMA WritePartHeader ==
    ASSUME TypeInv, HeaderInv, WritePart
    PROVE  HeaderInv'
<1>1. /\ pc = "write" /\ Write(Parts[i]) /\ i \in 1 .. Len(Parts)
      /\ call' = call /\ call \in {"get", "post"} /\ LinkOK
      /\ \/ pc' = "write" /\ i' = i + 1
         \/ pc' = "SEND_OK"
  BY DEF WritePart, Send, Goto, Loop, TypeInv, Counters, Parts, DriverOK
<1>2. Places'
  BY <1>1 DEF Places, CloseLabels
<1>3. call = "post" => ~ Unsent'
  <2>1. i' = i + 1 => i' # 1
    BY <1>1
  <2> QED BY <1>1, <2>1 DEF Unsent, CloseLabels
<1>4. CASE Parts[i] = "header"
  <2>1. call = "post" /\ i = 1
    <3>1. CASE call = "get"
      BY <1>1, <1>4, <3>1 DEF Parts, Message
    <3>2. CASE call = "post"
      BY <1>1, <1>4, <3>2 DEF Parts, Message
    <3> QED BY <1>1, <3>1, <3>2
  <2>2. NoHeader
    BY <1>1, <2>1 DEF HeaderInv, Unsent
  <2> QED BY <1>1, <1>2, <1>3, <1>4, <2>1, <2>2, HeaderUnit DEF HeaderInv
<1>5. CASE Parts[i] # "header"
  <2>1. Parts[i] \in Unit
    <3>1. CASE call = "get"
      BY <1>1, <3>1 DEF Parts, Message, Unit, Part
    <3>2. CASE call = "post"
      BY <1>1, <3>2 DEF Parts, Message, Unit, Part
    <3> QED BY <1>1, <3>1, <3>2
  <2>2. (NoHeader => NoHeader') /\ (OneHeader => OneHeader')
    BY <1>1, <1>5, <2>1, OtherUnit
  <2>3. Unsent' => Unsent
    BY <1>1, <1>3 DEF Unsent
  <2> QED BY <1>2, <2>2, <2>3 DEF HeaderInv
<1> QED BY <1>4, <1>5

\* That the header is written once is an inductive invariant.
LEMMA HeaderStep ==
    ASSUME TypeInv, HeaderInv, [Next]_vars
    PROVE  HeaderInv'
<1>1. CASE Reading
  BY <1>1, ReadingUntouched, ReadingOnward, OnwardInv DEF OnwardStep, Onward, TypeInv
<1>2. CASE Commanding
  BY <1>2, CommandingOther, CommandingOnward, OnwardInv DEF OnwardStep, Onward, TypeInv
<1>3. CASE WritePart
  BY <1>3, WritePartHeader
<1>4. CASE CellRead
  <2>1. UNCHANGED <<taken, wire>> /\ Unsent /\ Places'
    BY <1>4 DEF CellRead, Unsent, Places, CloseLabels
  <2> QED BY <2>1, OnwardInv DEF OnwardStep, TypeInv
<1>5. CASE ModemStep \/ UNCHANGED vars
  <2>1. UNCHANGED <<taken, wire, driver>>
    BY <1>5 DEF ModemStep, ServerAnswers, PeerCloses, Deliver, vars, link
  <2>2. (Unsent' => Unsent) /\ Places'
    BY <2>1 DEF driver, Unsent, Places, HeaderInv
  <2> QED BY <2>1, <2>2, OnwardInv DEF OnwardStep, TypeInv
<1> QED BY <1>1, <1>2, <1>3, <1>4, <1>5 DEF Next, DriverStep, Reading, Commanding

\* Nothing is written at the start.
LEMMA HeaderInit == Init => HeaderInv
<1>1. SUFFICES ASSUME Init PROVE HeaderInv
  OBVIOUS
<1>2. taken = <<>> /\ DOMAIN wire = {}
  BY <1>1 DEF Init, LinkInit
<1>3. pc \in {"QIOPEN", "CEREG"}
  BY <1>1 DEF Init
<1> QED BY <1>2, <1>3 DEF HeaderInv, Places, CloseLabels, OneHeader, NoHeader, Starts

\* App::Run goes on to the next access point when HttpPost returns false
\* (app.cpp:401): the report has not been sent then, and never twice, whatever
\* fails and whatever is late, however often.
THEOREM ReportedOnce == Spec => []NotSentTwice
<1>1. TypeInv /\ HeaderInv => NotSentTwice
  <2>1. SUFFICES ASSUME TypeInv, HeaderInv PROVE NotSentTwice
    OBVIOUS
  <2>2. \A n \in Reports : n \in DOMAIN wire /\ Starts(wire[n])
    BY DEF Reports, Message, Starts
  <2>3. Cardinality(Reports) <= 1
    <3>1. CASE Reports = {}
      BY <3>1, FS_EmptySet
    <3>2. ASSUME NEW n \in Reports PROVE Cardinality(Reports) <= 1
      <4>1. Reports = {n}
        BY <2>1, <2>2, <3>2 DEF HeaderInv, OneHeader
      <4> QED BY <4>1, FS_Singleton
    <3> QED BY <3>1, <3>2
  <2>4. pc = "done" /\ ~ result => Reports = {}
    BY <2>1, <2>2 DEF HeaderInv, Unsent, NoHeader
  <2> QED BY <2>3, <2>4 DEF NotSentTwice
<1> QED BY <1>1, TypeInit, TypeStep, HeaderInit, HeaderStep, PTL DEF Spec

------------------------------------------------------------------------------
(* What a step does to the flow.                                             *)

\* The lines received and those under way, as one sequence.
LEMMA FlowShape ==
    ASSUME LinkOK
    PROVE  /\ Flow \in Seq(Line) /\ Len(Flow) = Len(rx) + Len(air)
           /\ \A n \in 1 .. Len(rx) : Flow[n] = rx[n]
           /\ \A n \in 1 .. Len(air) : Flow[Len(rx) + n] = air[n]
<1>1. /\ Flow \in Seq(Line) /\ Len(Flow) = Len(rx) + Len(air)
      /\ \A n \in 1 .. Len(rx) + Len(air) :
            Flow[n] = IF n <= Len(rx) THEN rx[n] ELSE air[n - Len(rx)]
  BY ConcatProperties DEF LinkOK, Flow
<1>2. Len(rx) \in Nat /\ Len(air) \in Nat
  BY DEF LinkOK
<1>3. ASSUME NEW n \in 1 .. Len(air) PROVE Flow[Len(rx) + n] = air[n]
  <2>1. Len(rx) + n \in 1 .. Len(rx) + Len(air) /\ ~ Len(rx) + n <= Len(rx)
        /\ Len(rx) + n - Len(rx) = n
    BY <1>2
  <2> QED BY <1>1, <2>1
<1> QED BY <1>1, <1>2, <1>3

\* An answer comes last.
LEMMA FlowAnswered ==
    ASSUME LinkOK, NEW lines \in Seq(Line), Answer(lines), rx' = rx
    PROVE  Flow' = Flow \o lines
BY ConcatAssociative DEF LinkOK, Flow, Answer

\* A line delivered stays where it is.
LEMMA FlowDelivered ==
    ASSUME LinkOK, Deliver
    PROVE  Flow' = Flow
<1>1. rx \in Seq(Line) /\ air \in Seq(Line) /\ air # <<>>
  BY DEF LinkOK, Deliver
<1>2. Head(air) \in Line /\ Tail(air) \in Seq(Line)
  BY <1>1, HeadTailProperties
<1>3. Append(rx, Head(air)) \o Tail(air) = rx \o air
  BY <1>1, <1>2
<1> QED BY <1>3 DEF Deliver, Flow

\* recv takes the first line that matches and those before it.
LEMMA FlowReceived ==
    ASSUME LinkOK, NEW pattern, NEW line \in pattern, Recv(pattern, line)
    PROVE  \E k \in 1 .. Len(rx) :
                FirstIn(Flow, k, pattern) /\ Flow[k] = line /\ Flow' = After(Flow, k)
<1>1. PICK k \in 1 .. Len(rx) :
        /\ rx[k] = line /\ \A j \in 1 .. k - 1 : rx[j] \notin pattern
        /\ rx' = SubSeq(rx, k + 1, Len(rx)) /\ air' = air
  BY DEF Recv
<1>2. Len(rx) \in Nat /\ Len(air) \in Nat /\ rx \in Seq(Line) /\ air \in Seq(Line)
  BY DEF LinkOK
<1>3. FirstIn(Flow, k, pattern) /\ Flow[k] = line
  <2>1. k \in 1 .. Len(Flow) /\ \A j \in 1 .. k - 1 : j \in 1 .. Len(rx)
    BY <1>2, FlowShape
  <2> QED BY <1>1, <2>1, FlowShape DEF FirstIn
<1>4. Flow' = After(Flow, k)
  <2>1. /\ rx' \in Seq(Line) /\ Len(rx') = Len(rx) - k
        /\ \A n \in 1 .. Len(rx) - k : rx'[n] = rx[n + k]
    BY <1>1, <1>2, AfterProperties DEF After
  <2>2. /\ Flow' \in Seq(Line) /\ Len(Flow') = Len(rx) - k + Len(air)
        /\ \A n \in 1 .. Len(rx) - k + Len(air) :
              Flow'[n] = IF n <= Len(rx) - k THEN rx'[n] ELSE air[n - (Len(rx) - k)]
    <3> DEFINE left == rx'
    <3>1. Flow' = left \o air
      BY <1>1 DEF Flow
    <3>2. left \in Seq(Line) /\ Len(left) = Len(rx) - k
      BY <2>1
    <3> HIDE DEF left
    <3>3. /\ left \o air \in Seq(Line) /\ Len(left \o air) = Len(left) + Len(air)
          /\ \A n \in 1 .. Len(left) + Len(air) :
                (left \o air)[n] = IF n <= Len(left) THEN left[n] ELSE air[n - Len(left)]
      BY <1>2, <3>2, ConcatProperties
    <3> QED BY <3>1, <3>2, <3>3 DEF left
  <2>3. /\ After(Flow, k) \in Seq(Line) /\ Len(After(Flow, k)) = Len(rx) + Len(air) - k
        /\ \A n \in 1 .. Len(rx) + Len(air) - k : After(Flow, k)[n] = Flow[n + k]
    <3>1. k \in 0 .. Len(Flow)
      BY <1>2, FlowShape
    <3>2. /\ After(Flow, k) \in Seq(Line) /\ Len(After(Flow, k)) = Len(Flow) - k
          /\ \A n \in 1 .. Len(Flow) - k : After(Flow, k)[n] = Flow[n + k]
      BY <3>1, FlowShape, AfterProperties
    <3>3. Len(Flow) = Len(rx) + Len(air)
      BY FlowShape
    <3> QED BY <3>2, <3>3
  <2>4. ASSUME NEW n \in 1 .. Len(rx) + Len(air) - k PROVE Flow'[n] = After(Flow, k)[n]
    <3>1. CASE n <= Len(rx) - k
      <4>1. n \in 1 .. Len(rx) - k /\ n + k \in 1 .. Len(rx)
        BY <1>2, <3>1
      <4>2. Flow'[n] = rx[n + k] /\ Flow[n + k] = rx[n + k]
        BY <1>2, <2>1, <2>2, <3>1, <4>1, FlowShape
      <4> QED BY <2>3, <4>2
    <3>2. CASE n > Len(rx) - k
      <4> DEFINE m == n - (Len(rx) - k)
      <4>1. m \in 1 .. Len(air) /\ n + k = Len(rx) + m /\ n \in 1 .. Len(rx) - k + Len(air)
            /\ ~ n <= Len(rx) - k
        BY <1>2, <3>2
      <4>2. Flow'[n] = air[m] /\ Flow[n + k] = air[m]
        BY <2>2, <4>1, FlowShape
      <4> QED BY <2>3, <4>2
    <3> QED BY <1>2, <3>1, <3>2
  <2>5. Len(rx) - k + Len(air) = Len(rx) + Len(air) - k
    BY <1>2
  <2> QED BY <2>2, <2>3, <2>4, <2>5, SeqEqual
<1> QED BY <1>1, <1>3, <1>4

\* After a silence in time there is nothing left, and nothing has matched.
LEMMA FlowSilent ==
    ASSUME LinkOK, Silent, rx' = <<>>, air' = air, ~ late'
    PROVE  /\ Flow = rx /\ Flow' = <<>> /\ faults' = faults /\ ~ late
BY ConcatEmptySeq, EmptySeq DEF Silent, Works, LinkOK, Flow

\* What a failed recv() tells when nothing is late: the line it waited for was not under way.
LEMMA FlowFailed ==
    ASSUME LinkOK, NEW pattern, RecvFails(pattern), ~ late'
    PROVE  /\ NoneIn(Flow, pattern) /\ Flow' = <<>> /\ faults' = faults /\ ~ late
<1>1. Flow = rx /\ Flow' = <<>> /\ faults' = faults /\ ~ late
  BY FlowSilent DEF RecvFails
<1> QED BY <1>1 DEF NoneIn, RecvFails

\* flush drops what has arrived, and the answer to the command comes last.
LEMMA FlowFlushed ==
    ASSUME LinkOK, NEW lines \in Seq(Line), Answer(lines), rx' = <<>>
    PROVE  Flow' = After(Flow, Len(rx)) \o lines /\ Len(rx) \in 0 .. Len(Flow)
<1>1. Len(rx) \in Nat /\ Len(air) \in Nat /\ rx \in Seq(Line) /\ air \in Seq(Line)
      /\ air \o lines \in Seq(Line)
  BY ConcatProperties DEF LinkOK
<1>2. Len(rx) \in 0 .. Len(Flow) /\ Len(Flow) - Len(rx) = Len(air)
  BY <1>1, FlowShape
<1>3. /\ After(Flow, Len(rx)) \in Seq(Line) /\ Len(After(Flow, Len(rx))) = Len(air)
      /\ \A n \in 1 .. Len(air) : After(Flow, Len(rx))[n] = Flow[n + Len(rx)]
  BY <1>2, FlowShape, AfterProperties
<1>4. After(Flow, Len(rx)) = air
  <2>1. \A n \in 1 .. Len(air) : Flow[n + Len(rx)] = air[n]
    BY <1>1, FlowShape
  <2> QED BY <1>1, <1>3, <2>1, SeqEqual
<1>5. Flow' = air \o lines
  BY <1>1, ConcatEmptySeq DEF Flow, Answer
<1> QED BY <1>2, <1>4, <1>5

\* What is not in a sequence is not in what is left of it.
LEMMA NoneAfter ==
    ASSUME NEW s \in Seq(Line), NEW pattern, NoneIn(s, pattern), NEW k \in 0 .. Len(s)
    PROVE  NoneIn(After(s, k), pattern)
<1>1. /\ Len(After(s, k)) = Len(s) - k
      /\ \A n \in 1 .. Len(s) - k : After(s, k)[n] = s[n + k] /\ n + k \in 1 .. Len(s)
  BY AfterProperties
<1> QED BY <1>1 DEF NoneIn

\* A line that is in neither of two sequences is not in both together.
LEMMA NoneConcat ==
    ASSUME NEW s \in Seq(Line), NEW q \in Seq(Line), NEW pattern,
           NoneIn(s, pattern), NoneIn(q, pattern)
    PROVE  NoneIn(s \o q, pattern)
<1>1. /\ Len(s \o q) = Len(s) + Len(q)
      /\ \A n \in 1 .. Len(s) + Len(q) :
            (s \o q)[n] = IF n <= Len(s) THEN s[n] ELSE q[n - Len(s)]
  BY ConcatProperties
<1>2. \A n \in 1 .. Len(s) + Len(q) : n > Len(s) => n - Len(s) \in 1 .. Len(q)
  OBVIOUS
<1> QED BY <1>1, <1>2 DEF NoneIn

------------------------------------------------------------------------------
(* A message goes out whole while no answer is late.  The modem waits for    *)
(* payload only when its prompt is on the way, or has been read and the      *)
(* parts are being written.                                                  *)

Prompt == {">"}

OnePrompt(s) ==
    \A m, n \in 1 .. Len(s) : s[m] = ">" /\ s[n] = ">" => m = n

InStep ==
    ~ late =>
        /\ pc \notin {">", "write"} => room = 0
        /\ pc # "write" => taken = <<>>
        /\ pc = ">" /\ room > 0 => room = Len(Parts) /\ ~ NoneIn(Flow, Prompt)
        /\ pc # ">" \/ room = 0 => NoneIn(Flow, Prompt)
        /\ OnePrompt(Flow)
        /\ pc = "write" => room = Len(Parts) - i + 1 /\ taken = SubSeq(Parts, 1, i - 1)

IntactInv == InStep /\ IntactInTime

\* The commands that make the modem wait for payload.
SendCommands == {"QISEND_2", "QISEND_4"}

\* In command mode, no other command gets an answer with a prompt.
LEMMA CommandAnswer ==
    ASSUME room = 0, NEW unit \in Unit \ SendCommands, Write(unit)
    PROVE  /\ room' = 0 /\ taken' = taken /\ wire' = wire
           /\ \E lines \in Answers \ {<<">">>} : Answer(lines)
<1>1. Execute(unit) /\ UNCHANGED <<taken, wire>>
  BY DEF Write
<1>2. room' = 0
  BY <1>1 DEF Execute, SendCommands
<1>3. \E lines \in Answers \ {<<">">>} : Answer(lines)
  BY <1>1 DEF Execute, Answers, Works, Fails, SendCommands
<1> QED BY <1>1, <1>2, <1>3

\* Every answer is made of lines.
LEMMA AnswersAreLines == \A lines \in Answers : lines \in Seq(Line)
<1>1. /\ \A a \in Line : <<a>> \in Seq(Line)
      /\ \A a, b \in Line : <<a, b>> \in Seq(Line)
      /\ \A a, b, c \in Line : <<a, b, c>> \in Seq(Line)
  OBVIOUS
<1> QED BY <1>1 DEF Answers, Line, Refusals, Amounts

\* No answer but the prompt itself holds a prompt.
LEMMA NoPromptIn == \A lines \in Answers \ {<<">">>} : NoneIn(lines, Prompt)
BY DEF Answers, NoneIn, Prompt

\* No prompt is at most one.
LEMMA NoneOne ==
    ASSUME NEW s, NoneIn(s, Prompt)
    PROVE  OnePrompt(s)
BY DEF NoneIn, Prompt, OnePrompt

\* Nothing holds no prompt.
LEMMA NoneEmpty == \A pattern : NoneIn(<<>>, pattern)
BY DEF NoneIn

\* A step in command mode that asks for no prompt.
CalmStep ==
    \/ \E unit \in Unit \ SendCommands : Send(unit) \/ FlushAndSend(unit)
    \/ \E pattern \in SUBSET Line : RecvFails(pattern) \/ \E line \in pattern : Recv(pattern, line)
    \/ Read \/ ReadSome \/ UNCHANGED link
    \/ ServerAnswers \/ PeerCloses \/ Deliver

\* After it there is no prompt either, and nothing has been sent.
LEMMA CalmFlow ==
    ASSUME LinkOK, room = 0, NoneIn(Flow, Prompt), CalmStep, ~ late'
    PROVE  ~ late /\ room' = 0 /\ UNCHANGED <<taken, wire>> /\ NoneIn(Flow', Prompt)
<1>0. Flow \in Seq(Line)
  BY FlowShape
<1>1. CASE \E unit \in Unit \ SendCommands : Send(unit) \/ FlushAndSend(unit)
  <2>1. PICK unit \in Unit \ SendCommands :
          Write(unit) /\ late' = late /\ (rx' = rx \/ rx' = <<>>)
    BY <1>1 DEF Send, FlushAndSend
  <2>2. PICK lines \in Answers \ {<<">">>} : Answer(lines)
    BY <2>1, CommandAnswer
  <2>3. room' = 0 /\ UNCHANGED <<taken, wire>>
    BY <2>1, CommandAnswer
  <2>4. lines \in Seq(Line) /\ NoneIn(lines, Prompt)
    BY AnswersAreLines, NoPromptIn
  <2>5. CASE rx' = rx
    BY <1>0, <2>1, <2>2, <2>3, <2>4, <2>5, FlowAnswered, NoneConcat
  <2>6. CASE rx' = <<>>
    <3>1. Flow' = After(Flow, Len(rx)) \o lines /\ Len(rx) \in 0 .. Len(Flow)
      BY <2>2, <2>4, <2>6, FlowFlushed
    <3>2. NoneIn(After(Flow, Len(rx)), Prompt) /\ After(Flow, Len(rx)) \in Seq(Line)
      BY <1>0, <3>1, NoneAfter, AfterProperties
    <3>3. NoneIn(Flow', Prompt)
      BY <2>4, <3>1, <3>2, NoneConcat
    <3> QED BY <2>1, <2>3, <3>3
  <2> QED BY <2>1, <2>5, <2>6
<1>2. CASE \E pattern \in SUBSET Line : RecvFails(pattern)
  <2>1. PICK pattern \in SUBSET Line : RecvFails(pattern)
    BY <1>2
  <2>2. Flow' = <<>> /\ ~ late
    BY <2>1, FlowFailed
  <2> QED BY <2>1, <2>2, NoneEmpty DEF RecvFails
<1>3. CASE \E pattern \in SUBSET Line : \E line \in pattern : Recv(pattern, line)
  <2>0. PICK pattern \in SUBSET Line : \E line \in pattern : Recv(pattern, line)
    BY <1>3
  <2>1. PICK line \in pattern : Recv(pattern, line)
    BY <2>0
  <2>2. PICK k \in 1 .. Len(rx) : FirstIn(Flow, k, pattern) /\ Flow' = After(Flow, k)
    BY <2>1, FlowReceived
  <2>3. k \in 0 .. Len(Flow)
    BY <1>0, <2>2 DEF FirstIn
  <2>4. NoneIn(Flow', Prompt)
    BY <1>0, <2>2, <2>3, NoneAfter
  <2> QED BY <2>1, <2>4 DEF Recv
<1>4. CASE Read
  <2>1. Flow' = <<>> /\ ~ late
    BY <1>4, FlowSilent DEF Read
  <2> QED BY <1>4, <2>1, NoneEmpty DEF Read
<1>5. CASE ReadSome
  <2>1. PICK n \in 1 .. Len(rx) : rx' = SubSeq(rx, n + 1, Len(rx))
    BY <1>5 DEF ReadSome
  <2>2. rx \in Seq(Line) /\ air \in Seq(Line) /\ air' = air
    BY <1>5 DEF LinkOK, ReadSome
  <2>3. NoneIn(rx, Prompt) /\ NoneIn(air, Prompt)
    <3>1. ASSUME NEW m \in 1 .. Len(rx)
          PROVE  m \in 1 .. Len(Flow) /\ Flow[m] = rx[m]
      <4>1. Len(rx) \in Nat /\ Len(air) \in Nat /\ Len(Flow) = Len(rx) + Len(air)
        BY <2>2, FlowShape
      <4>2. m \in 1 .. Len(Flow)
        BY <4>1
      <4> QED BY <4>2, FlowShape
    <3>2. ASSUME NEW m \in 1 .. Len(air)
          PROVE  Len(rx) + m \in 1 .. Len(Flow) /\ Flow[Len(rx) + m] = air[m]
      <4>1. Len(rx) \in Nat /\ Len(air) \in Nat /\ Len(Flow) = Len(rx) + Len(air)
        BY <2>2, FlowShape
      <4>2. Len(rx) + m \in 1 .. Len(Flow)
        BY <4>1
      <4> QED BY <4>2, FlowShape
    <3> QED BY <3>1, <3>2 DEF NoneIn
  <2>4. NoneIn(After(rx, n), Prompt) /\ After(rx, n) \in Seq(Line)
    BY <2>2, <2>3, NoneAfter, AfterProperties
  <2>5. Flow' = After(rx, n) \o air
    BY <2>1, <2>2 DEF Flow, After
  <2>6. NoneIn(Flow', Prompt)
    BY <2>2, <2>3, <2>4, <2>5, NoneConcat
  <2> QED BY <1>5, <2>6 DEF ReadSome
<1>6. CASE UNCHANGED link
  BY <1>6 DEF link, Flow
<1>7. CASE ServerAnswers \/ PeerCloses
  <2>1. PICK u \in Urc : Answer(<<u>>)
    BY <1>7 DEF ServerAnswers, PeerCloses, Urc
  <2>2. <<u>> \in Seq(Line) /\ NoneIn(<<u>>, Prompt)
    BY DEF Urc, Line, NoneIn, Prompt
  <2>3. UNCHANGED <<rx, room, taken, wire, late>>
    BY <1>7 DEF ServerAnswers, PeerCloses
  <2>4. Flow' = Flow \o <<u>>
    BY <2>1, <2>2, <2>3, FlowAnswered
  <2> QED BY <1>0, <2>2, <2>3, <2>4, NoneConcat
<1>8. CASE Deliver
  BY <1>8, FlowDelivered DEF Deliver
<1> QED BY <1>1, <1>2, <1>3, <1>4, <1>5, <1>6, <1>7, <1>8 DEF CalmStep

\* The driver's steps in command mode.
Calm ==
    \/ SendOpen \/ OpenAccepted \/ Opened \/ OpenRefused \/ OpenFails \/ ConnectAgain
    \/ SendQuery \/ ReadQuery \/ SendOK \/ SendFails \/ PostEnds
    \/ Answered \/ AskAmount \/ AmountKnown \/ NotAnswered \/ ReadPart \/ GetEnds
    \/ FlushSocket \/ AmountToFlush \/ Flushed \/ FlushFails
    \/ SendClose \/ Closed \/ CloseNotOK \/ CloseError \/ CloseAgain
    \/ GetReturns \/ SendCell \/ CellSet \/ AskCell \/ PostReturns

\* The steps between two requests to send are calm: they open no payload.
LEMMA CalmIsCalm ==
    ASSUME Calm
    PROVE  CalmStep
<1>1. CASE \/ SendOpen \/ SendQuery \/ AskAmount \/ FlushSocket \/ SendClose
           \/ SendCell \/ AskCell
  BY <1>1 DEF SendOpen, SendQuery, AskAmount, FlushSocket, SendClose, SendCell, AskCell,
              CalmStep, Unit, Command, SendCommands
<1>2. CASE OpenAccepted \/ Opened \/ OpenRefused
  BY <1>2 DEF OpenAccepted, Opened, OpenRefused, CalmStep, Line, Refusals
<1>3. CASE OpenFails \/ SendOK \/ SendFails
  BY <1>3 DEF OpenFails, SendOK, SendFails, CalmStep, Line, Refusals
<1>4. CASE \/ ReadQuery \/ ConnectAgain \/ PostEnds \/ ReadPart \/ GetEnds
           \/ GetReturns \/ PostReturns
  BY <1>4 DEF ReadQuery, ConnectAgain, PostEnds, ReadPart, GetEnds, GetReturns, PostReturns,
              CalmStep
<1>5. CASE Answered \/ AmountKnown \/ AmountToFlush
  BY <1>5 DEF Answered, AmountKnown, AmountToFlush, CalmStep, Line, Amounts
<1>6. CASE NotAnswered \/ FlushFails \/ CloseNotOK \/ CloseAgain
  BY <1>6 DEF NotAnswered, FlushFails, CloseNotOK, CloseAgain, CalmStep, Line, Amounts
<1>7. CASE Flushed \/ Closed \/ CloseError \/ CellSet
  BY <1>7 DEF Flushed, Closed, CloseError, CellSet, CalmStep, Line
<1> QED BY <1>1, <1>2, <1>3, <1>4, <1>5, <1>6, <1>7 DEF Calm

Payload == {">", "write"}

\* A calm step is neither taken in the payload nor leads into it.
LEMMA CalmPlaces ==
    ASSUME TypeInv, Calm
    PROVE  pc \notin Payload /\ pc' \notin Payload
<1>1. ret \notin Payload
  BY DEF TypeInv, DriverOK, Payload
<1>2. CASE \/ SendOpen \/ OpenAccepted \/ Opened \/ OpenRefused \/ OpenFails \/ ConnectAgain
           \/ SendQuery \/ ReadQuery
  BY <1>2 DEF SendOpen, OpenAccepted, Opened, OpenRefused, OpenFails, ConnectAgain, SendQuery,
              ReadQuery, Goto, Close, Return, Payload
<1>3. CASE \/ SendOK \/ SendFails \/ PostEnds \/ Answered \/ AskAmount \/ AmountKnown
           \/ NotAnswered \/ ReadPart \/ GetEnds
  BY <1>3 DEF SendOK, SendFails, PostEnds, Answered, AskAmount, AmountKnown, NotAnswered,
              ReadPart, GetEnds, AfterSend, Goto, Close, Return, Payload
<1>4. CASE \/ FlushSocket \/ AmountToFlush \/ Flushed \/ FlushFails
           \/ SendClose \/ Closed \/ CloseNotOK \/ CloseError \/ CloseAgain
  BY <1>1, <1>4 DEF FlushSocket, AmountToFlush, Flushed, FlushFails, SendClose, Closed,
                    CloseNotOK, CloseError, CloseAgain, Goto, Loop, Payload
<1>5. CASE GetReturns \/ SendCell \/ CellSet \/ AskCell \/ PostReturns
  BY <1>5 DEF GetReturns, SendCell, CellSet, AskCell, PostReturns, Goto, Payload
<1> QED BY <1>2, <1>3, <1>4, <1>5 DEF Calm

\* In command mode all stays in step.
LEMMA CalmIntact ==
    ASSUME TypeInv, IntactInv, Calm
    PROVE  IntactInv'
<1>1. SUFFICES ASSUME ~ late' PROVE InStep' /\ PayloadIntact'
  BY DEF IntactInv, InStep, IntactInTime
<1>2. ~ late
  BY <1>1, CalmIsCalm DEF CalmStep, Send, FlushAndSend, Recv, RecvFails, Read, ReadSome, Silent,
                          ServerAnswers, PeerCloses, Deliver, link
<1>3. pc \notin Payload /\ pc' \notin Payload
  BY CalmPlaces
<1>4. LinkOK /\ room = 0 /\ taken = <<>> /\ NoneIn(Flow, Prompt) /\ PayloadIntact
  BY <1>2, <1>3 DEF IntactInv, InStep, IntactInTime, TypeInv, Payload
<1>5. room' = 0 /\ UNCHANGED <<taken, wire>> /\ NoneIn(Flow', Prompt)
  BY <1>1, <1>4, CalmIsCalm, CalmFlow
<1>6. OnePrompt(Flow')
  BY <1>5, NoneOne
<1> QED BY <1>3, <1>4, <1>5, <1>6 DEF InStep, PayloadIntact, Payload

\* Where there was no prompt, an answered prompt is the only one.
LEMMA OneAnswered ==
    ASSUME NEW s \in Seq(Line), NoneIn(s, Prompt)
    PROVE  OnePrompt(s \o <<">">>) /\ ~ NoneIn(s \o <<">">>, Prompt)
<1>1. ">" \in Line
  BY DEF Line
<1>2. /\ Len(s \o <<">">>) = Len(s) + 1
      /\ \A n \in 1 .. Len(s) : (s \o <<">">>)[n] = s[n]
      /\ (s \o <<">">>)[Len(s) + 1] = ">"
  BY <1>1
<1>3. Len(s) \in Nat
  OBVIOUS
<1>4. \A n \in 1 .. Len(s) + 1 : (s \o <<">">>)[n] = ">" => n = Len(s) + 1
  BY <1>2, <1>3 DEF NoneIn, Prompt
<1>5. Len(s) + 1 \in 1 .. Len(s \o <<">">>)
  BY <1>2, <1>3
<1> QED BY <1>2, <1>4, <1>5 DEF OnePrompt, NoneIn, Prompt

\* The length announced is that of the message.
LEMMA StreamIntact ==
    ASSUME TypeInv, IntactInv, SendStream
    PROVE  IntactInv'
<1>1. SUFFICES ASSUME ~ late' PROVE InStep' /\ PayloadIntact'
  BY DEF IntactInv, InStep, IntactInTime
<1>2. /\ pc = "QISEND" /\ pc' = ">" /\ UNCHANGED <<call, i, rx>> /\ late' = late
      /\ Write(IF call = "get" THEN "QISEND_2" ELSE "QISEND_4")
  BY DEF SendStream, Send, Goto
<1>3. room = 0 /\ taken = <<>> /\ NoneIn(Flow, Prompt) /\ LinkOK /\ PayloadIntact
  BY <1>1, <1>2 DEF IntactInv, InStep, IntactInTime, TypeInv
<1>4. UNCHANGED <<taken, wire>> /\ Execute(IF call = "get" THEN "QISEND_2" ELSE "QISEND_4")
  BY <1>2, <1>3 DEF Write
<1>5. \/ Answer(<<">">>) /\ room' = IF call = "get" THEN 2 ELSE 4
      \/ Answer(<<"ERROR">>) /\ room' = room
  BY <1>4 DEF Execute, Works, Fails, Part
<1>6. Len(Parts') = (IF call = "get" THEN 2 ELSE 4) /\ Flow \in Seq(Line)
  <2>1. call' = call /\ call \in {"get", "post"}
    BY <1>2 DEF TypeInv, DriverOK
  <2>2. CASE call = "get"
    BY <1>3, <2>1, <2>2, FlowShape DEF Parts, Message
  <2>3. CASE call = "post"
    BY <1>3, <2>1, <2>3, FlowShape DEF Parts, Message
  <2> QED BY <2>1, <2>2, <2>3
<1>7. <<">">> \in Seq(Line) /\ <<"ERROR">> \in Seq(Line)
  BY DEF Line
<1>8. CASE Answer(<<">">>) /\ room' = IF call = "get" THEN 2 ELSE 4
  <2>1. Flow' = Flow \o <<">">>
    BY <1>2, <1>3, <1>7, <1>8, FlowAnswered
  <2>2. OnePrompt(Flow') /\ ~ NoneIn(Flow', Prompt)
    BY <1>3, <1>6, <2>1, OneAnswered
  <2>3. room' = Len(Parts') /\ room' # 0
    BY <1>6, <1>8
  <2> QED BY <1>2, <1>3, <1>4, <2>2, <2>3 DEF InStep, PayloadIntact
<1>9. CASE Answer(<<"ERROR">>) /\ room' = room
  <2>1. Flow' = Flow \o <<"ERROR">>
    BY <1>2, <1>3, <1>7, <1>9, FlowAnswered
  <2>2. NoneIn(<<"ERROR">>, Prompt)
    BY DEF NoneIn, Prompt
  <2>3. NoneIn(Flow', Prompt)
    BY <1>3, <1>6, <1>7, <2>1, <2>2, NoneConcat
  <2>4. OnePrompt(Flow')
    BY <2>3, NoneOne
  <2> QED BY <1>2, <1>3, <1>4, <1>9, <2>3, <2>4 DEF InStep, PayloadIntact
<1> QED BY <1>5, <1>8, <1>9

\* Once the only prompt has been read there is none.
LEMMA OneRead ==
    ASSUME NEW s \in Seq(Line), OnePrompt(s), NEW k \in 1 .. Len(s), s[k] = ">"
    PROVE  NoneIn(After(s, k), Prompt)
<1>1. /\ Len(After(s, k)) = Len(s) - k
      /\ \A n \in 1 .. Len(s) - k : After(s, k)[n] = s[n + k]
  BY AfterProperties
<1>2. \A n \in 1 .. Len(s) - k : n + k \in 1 .. Len(s) /\ n + k # k
  OBVIOUS
<1> QED BY <1>1, <1>2 DEF NoneIn, Prompt, OnePrompt

\* The modem waits for all parts when the first is written.
LEMMA PromptedIntact ==
    ASSUME TypeInv, IntactInv, Prompted
    PROVE  IntactInv'
<1>1. SUFFICES ASSUME ~ late' PROVE InStep' /\ PayloadIntact'
  BY DEF IntactInv, InStep, IntactInTime
<1>2. /\ pc = ">" /\ pc' = "write" /\ i' = 1 /\ UNCHANGED <<call, room, taken, wire, late>>
      /\ Recv(Prompt, ">")
  BY DEF Prompted, Recv, Loop, Prompt
<1>3. /\ LinkOK /\ PayloadIntact /\ OnePrompt(Flow) /\ taken = <<>>
      /\ room = 0 => NoneIn(Flow, Prompt)
      /\ room > 0 => room = Len(Parts)
  BY <1>1, <1>2 DEF IntactInv, InStep, IntactInTime, TypeInv
<1>4. PICK k \in 1 .. Len(rx) : FirstIn(Flow, k, Prompt) /\ Flow[k] = ">" /\ Flow' = After(Flow, k)
  BY <1>2, <1>3, FlowReceived DEF Prompt
<1>5. Flow \in Seq(Line) /\ k \in 1 .. Len(Flow)
  BY <1>3, <1>4, FlowShape DEF FirstIn
<1>6. ~ NoneIn(Flow, Prompt)
  BY <1>4, <1>5 DEF NoneIn, Prompt
<1>7. NoneIn(Flow', Prompt)
  BY <1>3, <1>4, <1>5, OneRead
<1>8. room \in 0 .. 4 /\ Parts' = Parts
  BY <1>2, <1>3 DEF LinkOK, Parts
<1>9. room = Len(Parts) /\ room = Len(Parts) - 1 + 1
  BY <1>3, <1>6, <1>8
<1>10. SubSeq(Parts, 1, 0) = <<>>
  BY SubSeqEmpty
<1>11. OnePrompt(Flow')
  BY <1>7, NoneOne
<1> QED BY <1>2, <1>3, <1>7, <1>8, <1>9, <1>10, <1>11 DEF InStep, PayloadIntact

\* Without a prompt the modem does not wait.
LEMMA NotPromptedIntact ==
    ASSUME TypeInv, IntactInv, NotPrompted
    PROVE  IntactInv'
<1>1. SUFFICES ASSUME ~ late' PROVE InStep' /\ PayloadIntact'
  BY DEF IntactInv, InStep, IntactInTime
<1>2. pc = ">" /\ pc' \in {"QISEND", "returned"} /\ UNCHANGED <<room, taken, wire>> /\ RecvFails(Prompt)
  BY DEF NotPrompted, RecvFails, Loop, Return, Prompt
<1>3. NoneIn(Flow, Prompt) /\ Flow' = <<>> /\ ~ late
  BY <1>1, <1>2, FlowFailed DEF TypeInv
<1>4. room = 0 /\ taken = <<>> /\ PayloadIntact
  BY <1>2, <1>3 DEF IntactInv, InStep, IntactInTime, TypeInv, LinkOK
<1>5. NoneIn(Flow', Prompt) /\ OnePrompt(Flow')
  BY <1>3, NoneEmpty, NoneOne
<1> QED BY <1>2, <1>4, <1>5 DEF InStep, PayloadIntact

\* A request has two to four parts.
LEMMA PartsShape ==
    ASSUME TypeInv
    PROVE  Parts \in Seq(Unit) /\ Len(Parts) \in 2 .. 4 /\ Parts \in {Message.get, Message.post}
<1>1. CASE call = "get"
  BY <1>1 DEF Parts, Message, Unit, Part
<1>2. CASE call = "post"
  BY <1>2 DEF Parts, Message, Unit, Part
<1> QED BY <1>1, <1>2 DEF TypeInv, DriverOK

\* A sequence is its beginning and its next element.
LEMMA BeginningAndNext ==
    ASSUME NEW s \in Seq(Unit), NEW k \in 1 .. Len(s)
    PROVE  Append(SubSeq(s, 1, k - 1), s[k]) = SubSeq(s, 1, k)
<1>1. \A n \in 1 .. k : s[n] \in Unit
  OBVIOUS
<1>2. /\ SubSeq(s, 1, k) \in Seq(Unit) /\ Len(SubSeq(s, 1, k)) = k
      /\ \A n \in 1 .. k : SubSeq(s, 1, k)[n] = s[n]
  BY <1>1, SubSeqProperties
<1>3. /\ SubSeq(s, 1, k - 1) \in Seq(Unit) /\ Len(SubSeq(s, 1, k - 1)) = k - 1
      /\ \A n \in 1 .. k - 1 : SubSeq(s, 1, k - 1)[n] = s[n]
  BY <1>1, SubSeqProperties
<1> DEFINE b == SubSeq(s, 1, k - 1)
<1> HIDE DEF b
<1>4. /\ Append(b, s[k]) \in Seq(Unit) /\ Len(Append(b, s[k])) = Len(b) + 1
      /\ \A n \in 1 .. Len(b) : Append(b, s[k])[n] = b[n]
      /\ Append(b, s[k])[Len(b) + 1] = s[k]
  BY <1>1, <1>3, AppendProperties DEF b
<1>5. Len(b) = k - 1 /\ \A n \in 1 .. k - 1 : b[n] = s[n]
  BY <1>3 DEF b
<1>6. Len(Append(b, s[k])) = k /\ \A n \in 1 .. k : Append(b, s[k])[n] = s[n]
  BY <1>4, <1>5
<1>7. Append(b, s[k]) = SubSeq(s, 1, k)
  BY <1>2, <1>4, <1>6, SeqEqual
<1> QED BY <1>7 DEF b

\* What is left to be written.
LEMMA LeftToWrite ==
    ASSUME NEW n \in 2 .. 4, NEW k \in 1 .. n, NEW r, r = n - k + 1
    PROVE  /\ r > 0 /\ (r > 1 <=> k < n) /\ (r = 1 <=> k = n)
           /\ r - 1 = n - (k + 1) + 1 /\ (k = n => r - 1 = 0)
OBVIOUS

\* With the last part a whole message is handed over, or none.
LEMMA WriteIntact ==
    ASSUME TypeInv, IntactInv, WritePart
    PROVE  IntactInv'
<1>1. SUFFICES ASSUME ~ late' PROVE InStep' /\ PayloadIntact'
  BY DEF IntactInv, InStep, IntactInTime
<1>2. pc = "write" /\ Write(Parts[i]) /\ UNCHANGED <<call, rx, late>>
  BY DEF WritePart, Send, Goto, Loop, Parts
<1>3. /\ LinkOK /\ PayloadIntact /\ NoneIn(Flow, Prompt)
      /\ room = Len(Parts) - i + 1 /\ taken = SubSeq(Parts, 1, i - 1)
      /\ i \in 1 .. Len(Parts)
  BY <1>1, <1>2 DEF IntactInv, InStep, IntactInTime, TypeInv, Counters
<1>4. Parts \in Seq(Unit) /\ Len(Parts) \in 2 .. 4 /\ Parts \in {Message.get, Message.post}
  BY PartsShape
<1>5. /\ room > 0 /\ (room > 1 <=> i < Len(Parts)) /\ (room = 1 <=> i = Len(Parts))
      /\ room - 1 = Len(Parts) - (i + 1) + 1 /\ (i = Len(Parts) => room - 1 = 0)
  BY <1>3, <1>4, LeftToWrite
<1>6. TakeUnit(Parts[i])
  BY <1>2, <1>5 DEF Write
<1>7. Append(taken, Parts[i]) = SubSeq(Parts, 1, i)
  BY <1>3, <1>4, BeginningAndNext
<1>8. Parts' = Parts /\ room' = room - 1 /\ Flow \in Seq(Line)
  BY <1>2, <1>3, <1>6, FlowShape DEF TakeUnit, Parts
<1>9. CASE i < Len(Parts)
  <2>1. /\ taken' = Append(taken, Parts[i]) /\ UNCHANGED <<air, wire>>
        /\ pc' = "write" /\ i' = i + 1
    BY <1>5, <1>6, <1>9 DEF TakeUnit, WritePart, Loop, Parts
  <2>2. i' - 1 = i /\ room' = Len(Parts) - i' + 1
    <3>1. room' = Len(Parts) - (i + 1) + 1
      BY <1>5, <1>8
    <3>2. (i + 1) - 1 = i
      BY <1>3, <1>4
    <3>3. i' = i + 1
      BY <2>1
    <3> QED BY <3>1, <3>2, <3>3, Zenon
  <2>3. Flow' = Flow
    BY <1>2, <2>1 DEF Flow
  <2>4. OnePrompt(Flow')
    BY <1>3, <2>3, NoneOne
  <2> QED BY <1>3, <1>7, <1>8, <2>1, <2>2, <2>3, <2>4 DEF InStep, PayloadIntact
<1>10. CASE i = Len(Parts)
  <2>1. pc' = "SEND_OK" /\ taken' = <<>> /\ room' = 0
    BY <1>5, <1>6, <1>8, <1>10 DEF TakeUnit, WritePart, Goto, Parts
  <2>2. PICK lines \in {<<"SEND_OK">>, <<"SEND_FAIL">>} : Answer(lines)
    BY <1>5, <1>6, <1>10 DEF TakeUnit
  <2>3. lines \in Seq(Line) /\ NoneIn(lines, Prompt)
    BY <2>2, AnswersAreLines, NoPromptIn DEF Answers
  <2>4. Flow' = Flow \o lines
    BY <1>2, <1>3, <2>2, <2>3, FlowAnswered
  <2>5. NoneIn(Flow', Prompt)
    BY <1>3, <1>8, <2>3, <2>4, NoneConcat
  <2>6. OnePrompt(Flow')
    BY <2>5, NoneOne
  <2>7. Append(taken, Parts[i]) = Parts
    BY <1>4, <1>7, <1>10, SubSeqFull
  <2>8. wire' = wire \/ wire' = Append(wire, Parts)
    BY <1>5, <1>6, <1>10, <2>7 DEF TakeUnit
  <2>9. ASSUME wire' = wire PROVE PayloadIntact'
    BY <1>3, <2>9 DEF PayloadIntact
  <2>10. ASSUME wire' = Append(wire, Parts) PROVE PayloadIntact'
    <3>1. /\ DOMAIN wire' = DOMAIN wire \cup {Len(wire) + 1}
          /\ \A n \in DOMAIN wire : wire'[n] = wire[n]
          /\ wire'[Len(wire) + 1] = Parts
      BY <1>3, <1>4, <2>10, HandedOver DEF LinkOK
    <3> QED BY <1>3, <1>4, <3>1 DEF PayloadIntact
  <2>11. PayloadIntact'
    BY <2>8, <2>9, <2>10
  <2> QED BY <2>1, <2>5, <2>6, <2>11 DEF InStep
<1> QED BY <1>3, <1>4, <1>9, <1>10

\* The lines of the first call that are still on the way make what follows late.
LEMMA CellReadIntact ==
    ASSUME TypeInv, IntactInv, CellRead
    PROVE  IntactInv'
<1>1. SUFFICES ASSUME ~ late' PROVE InStep' /\ PayloadIntact'
  BY DEF IntactInv, InStep, IntactInTime
<1>2. ~ late /\ air = <<>> /\ air' = <<>> /\ rx' = <<>>
  BY <1>1 DEF CellRead
<1>3. pc = "cell" /\ pc' = "QIOPEN" /\ UNCHANGED <<room, taken, wire>>
  BY DEF CellRead
<1>4. room = 0 /\ taken = <<>> /\ PayloadIntact
  BY <1>2, <1>3 DEF IntactInv, InStep, IntactInTime
<1>5. Flow' = <<>>
  BY <1>2, EmptySeq, ConcatEmptySeq DEF Flow
<1>6. NoneIn(Flow', Prompt) /\ OnePrompt(Flow')
  BY <1>5, NoneEmpty, NoneOne
<1> QED BY <1>3, <1>4, <1>6 DEF InStep, PayloadIntact

\* A line nobody asked for is no prompt.
LEMMA UrcAdded ==
    ASSUME NEW s \in Seq(Line), NEW u \in Urc
    PROVE  /\ NoneIn(s \o <<u>>, Prompt) <=> NoneIn(s, Prompt)
           /\ OnePrompt(s) => OnePrompt(s \o <<u>>)
<1>1. u \in Line /\ u # ">"
  BY DEF Urc, Line
<1>2. /\ Len(s \o <<u>>) = Len(s) + 1 /\ Len(s) \in Nat
      /\ \A n \in 1 .. Len(s) : (s \o <<u>>)[n] = s[n]
      /\ (s \o <<u>>)[Len(s) + 1] = u
  BY <1>1
<1>3. \A n \in 1 .. Len(s) + 1 : n \in 1 .. Len(s) \/ n = Len(s) + 1
  BY <1>2
<1>4. \A n \in 1 .. Len(s) : n \in 1 .. Len(s) + 1
  BY <1>2
<1> QED BY <1>1, <1>2, <1>3, <1>4 DEF NoneIn, Prompt, OnePrompt

\* The modem's own steps keep the parts intact.
LEMMA ModemIntact ==
    ASSUME TypeInv, IntactInv, ModemStep
    PROVE  IntactInv'
<1>1. UNCHANGED <<pc, call, i, room, taken, wire, late>>
  BY DEF ModemStep, ServerAnswers, PeerCloses, Deliver, driver
<1>2. Flow \in Seq(Line)
  BY FlowShape DEF TypeInv
<1>3. (NoneIn(Flow', Prompt) <=> NoneIn(Flow, Prompt)) /\ (OnePrompt(Flow) => OnePrompt(Flow'))
  <2>1. CASE Deliver
    BY <2>1, FlowDelivered DEF TypeInv
  <2>2. CASE ServerAnswers \/ PeerCloses
    <3>1. PICK u \in Urc : Answer(<<u>>)
      BY <2>2 DEF ServerAnswers, PeerCloses, Urc
    <3>2. <<u>> \in Seq(Line) /\ rx' = rx
      BY <2>2 DEF Urc, Line, ServerAnswers, PeerCloses
    <3>3. Flow' = Flow \o <<u>>
      BY <3>1, <3>2, FlowAnswered DEF TypeInv
    <3> QED BY <1>2, <3>3, UrcAdded
  <2> QED BY <2>1, <2>2 DEF ModemStep
<1>4. Parts' = Parts
  BY <1>1 DEF Parts
<1> QED BY <1>1, <1>3, <1>4 DEF IntactInv, InStep, IntactInTime, PayloadIntact

\* The parts handed over stay intact.
LEMMA IntactStep ==
    ASSUME TypeInv, IntactInv, [Next]_vars
    PROVE  IntactInv'
<1>1. CASE UNCHANGED vars
  BY <1>1 DEF vars, link, driver, IntactInv, InStep, IntactInTime, PayloadIntact, Flow, Parts
<1> QED BY <1>1, CalmIntact, StreamIntact, PromptedIntact, NotPromptedIntact, WriteIntact,
           CellReadIntact, ModemIntact DEF Next, DriverStep, Calm

\* Nothing is handed over at the start.
LEMMA IntactInit == Init => IntactInv
<1>1. SUFFICES ASSUME Init PROVE IntactInv
  OBVIOUS
<1>2. pc \in {"QIOPEN", "CEREG"} /\ room = 0 /\ taken = <<>> /\ wire = <<>>
      /\ rx = <<>> /\ air = <<>>
  BY <1>1 DEF Init, LinkInit
<1>3. Flow = <<>>
  BY <1>2, EmptySeq, ConcatEmptySeq DEF Flow
<1>4. NoneIn(Flow, Prompt) /\ OnePrompt(Flow)
  BY <1>3, NoneEmpty, NoneOne
<1>5. PayloadIntact
  BY <1>2 DEF PayloadIntact
<1> QED BY <1>2, <1>4, <1>5 DEF IntactInv, InStep, IntactInTime

\* What the modem hands to the network is a whole message, however often
\* something fails and a command is repeated, as long as no answer comes later
\* than socket_openstream waits for it (BG96.cpp:547).
THEOREM SentWhole == Spec => []IntactInTime
<1>1. IntactInv => IntactInTime
  BY DEF IntactInv
<1> QED BY <1>1, TypeInit, TypeStep, IntactInit, IntactStep, PTL DEF Spec

------------------------------------------------------------------------------
(* A report recovers from whatever failed for the configuration before it.   *)
(* While nothing fails for the report itself, the answers on the way are     *)
(* those the driver waits for, and lines nobody asked for.                   *)

\* The places of GetCell.
AtCell == {"CEREG", "CEREG_OK", "CEREG?", "cell"}

Active == call = "post" /\ pc \notin AtCell /\ faults = 0 /\ ~ late

\* The socket has been opened for the report.
Fresh == sock = "open" /\ server = "idle"

\* The socket was left open: the first attempt finds it, the second does not.
LeftOpen == max_attempt = 2 /\ sock # "closed"

Connecting ==
    /\ pc = "QIOPEN" =>
          Carries(Flow, <<>>) /\ (max_attempt = 2 \/ (max_attempt = 1 /\ sock = "closed"))
    /\ pc = "QIOPEN_OK" =>
          \/ Carries(Flow, <<"OK", "+QIOPEN:0">>) /\ Fresh
          \/ Carries(Flow, <<"OK", "+QIOPEN:563">>) /\ LeftOpen
    /\ pc = "+QIOPEN" =>
          \/ Carries(Flow, <<"+QIOPEN:0">>) /\ Fresh
          \/ Carries(Flow, <<"+QIOPEN:563">>) /\ LeftOpen
    /\ pc = "refused" => Carries(Flow, <<>>) /\ max_attempt = 2 /\ sock = "closed"

Sending ==
    /\ pc \in {"QISEND?", "QISEND", "write"} => Carries(Flow, <<>>) /\ Fresh
    /\ pc = "+QISEND" => Carries(Flow, <<"+QISEND:0", "OK">>) /\ Fresh
    /\ pc = ">" => Carries(Flow, <<">">>) /\ Fresh /\ room > 0
    /\ pc = "SEND_OK" => Carries(Flow, <<"SEND_OK">>) /\ sock # "closed" /\ Reports # {}
    /\ pc = "wait" => Carries(Flow, <<>>) /\ sock # "closed" /\ Reports # {}
    /\ pc \notin {"+QIURC", "QIRD", "+QIRD", "read"}

Closing ==
    /\ pc \in {"close", "QICLOSE"} => Carries(Flow, <<>>) /\ sock # "closed"
    /\ pc = "close_+QIRD" =>
          /\ sock # "closed"
          /\ Carries(Flow, <<"+QIRD:0", "OK">>) \/ Carries(Flow, <<"+QIRD:1", "data", "OK">>)
    /\ pc = "close_OK" =>
          sock # "closed" /\ (Carries(Flow, <<"OK">>) \/ Carries(Flow, <<"data", "OK">>))
    /\ pc = "QICLOSE_OK" => Carries(Flow, <<"OK">>) /\ sock = "closed"
    /\ pc # "QICLOSE_ERROR"
    /\ pc \in CloseLabels =>
          \/ ret = "refused" /\ max_attempt = 2
          \/ ret = "returned" /\ Reports # {}
    /\ pc \in {"returned", "done"} => result /\ Reports # {} /\ sock = "closed"

Expected == Connecting /\ Sending /\ Closing

RecoverInv == Active => Expected

\* What is left of the lines expected.
LEMMA AfterFirst ==
    ASSUME NEW a, NEW b
    PROVE  /\ After(<<a>>, 1) = <<>> /\ After(<<a, b>>, 1) = <<b>>
           /\ After(<<a, b>>, 2) = <<>>
<1> DEFINE S == {a, b}
<1>1. After(<<a>>, 1) = <<>> /\ After(<<a, b>>, 2) = <<>>
  BY SubSeqEmpty DEF After
<1>2. After(<<a, b>>, 1) = <<b>>
  <2>1. <<a, b>> \in Seq(S) /\ Len(<<a, b>>) = 2 /\ <<a, b>>[2] = b
    OBVIOUS
  <2> DEFINE t == <<a, b>>
  <2>2. /\ After(t, 1) \in Seq(S) /\ Len(After(t, 1)) = 2 - 1
        /\ \A n \in 1 .. 2 - 1 : After(t, 1)[n] = t[n + 1]
    <3>1. t \in Seq(S) /\ Len(t) = 2
      BY <2>1
    <3> HIDE DEF t
    <3>2. 1 \in 0 .. Len(t)
      BY <3>1
    <3> QED BY <3>1, <3>2, AfterProperties
  <2>3. <<b>> \in Seq(S) /\ Len(<<b>>) = 1 /\ <<b>>[1] = b
    OBVIOUS
  <2> QED BY <2>1, <2>2, <2>3, SeqEqual
<1> QED BY <1>1, <1>2

\* Three answers without the first are two.
LEMMA AfterFirstOfThree ==
    ASSUME NEW a, NEW b, NEW c
    PROVE  After(<<a, b, c>>, 1) = <<b, c>>
<1> DEFINE S == {a, b, c}
<1>1. <<a, b, c>> \in Seq(S) /\ Len(<<a, b, c>>) = 3 /\ <<a, b, c>>[2] = b /\ <<a, b, c>>[3] = c
  OBVIOUS
<1> DEFINE t == <<a, b, c>>
<1>2. /\ After(t, 1) \in Seq(S) /\ Len(After(t, 1)) = 3 - 1
      /\ \A n \in 1 .. 3 - 1 : After(t, 1)[n] = t[n + 1]
  <2>1. t \in Seq(S) /\ Len(t) = 3
    BY <1>1
  <2> HIDE DEF t
  <2>2. 1 \in 0 .. Len(t)
    BY <2>1
  <2> QED BY <2>1, <2>2, AfterProperties
<1>3. <<b, c>> \in Seq(S) /\ Len(<<b, c>>) = 2 /\ <<b, c>>[1] = b /\ <<b, c>>[2] = c
  OBVIOUS
<1> QED BY <1>1, <1>2, <1>3, SeqEqual

\* The first line expected, if it matches, is the one received.
LEMMA CarriesHead ==
    ASSUME NEW s \in Seq(Line), NEW p \in Seq(Line), NEW pattern, NEW k,
           pattern \cap Urc = {}, Carries(s, p), FirstIn(s, k, pattern),
           Len(p) > 0, p[1] \in pattern
    PROVE  s[k] = p[1] /\ Carries(After(s, k), After(p, 1))
<1>1. PICK m \in 1 .. Len(p) : FirstIn(p, m, pattern) /\ p[m] = s[k]
                /\ Carries(After(s, k), After(p, m))
  BY CarriesFirst
<1>2. m = 1
  BY <1>1 DEF FirstIn
<1> QED BY <1>1, <1>2

\* The line looked for in a single answer is that answer.
LEMMA CarriesOne ==
    ASSUME NEW s \in Seq(Line), NEW a \in Line, NEW pattern, NEW k,
           pattern \cap Urc = {}, Carries(s, <<a>>), FirstIn(s, k, pattern), a \in pattern
    PROVE  s[k] = a /\ Carries(After(s, k), <<>>)
<1>1. <<a>> \in Seq(Line) /\ Len(<<a>>) > 0 /\ <<a>>[1] = a
  OBVIOUS
<1>2. s[k] = <<a>>[1] /\ Carries(After(s, k), After(<<a>>, 1))
  BY <1>1, CarriesHead
<1> QED BY <1>1, <1>2, AfterFirst

\* If the first of two answers is looked for, the other one is left.
LEMMA CarriesTwo ==
    ASSUME NEW s \in Seq(Line), NEW a \in Line, NEW b \in Line, NEW pattern, NEW k,
           pattern \cap Urc = {}, Carries(s, <<a, b>>), FirstIn(s, k, pattern), a \in pattern
    PROVE  s[k] = a /\ Carries(After(s, k), <<b>>)
<1>1. <<a, b>> \in Seq(Line) /\ Len(<<a, b>>) > 0 /\ <<a, b>>[1] = a
  OBVIOUS
<1>2. s[k] = <<a, b>>[1] /\ Carries(After(s, k), After(<<a, b>>, 1))
  BY <1>1, CarriesHead
<1> QED BY <1>1, <1>2, AfterFirst

\* If the first of three answers is looked for, the other two are left.
LEMMA CarriesThree ==
    ASSUME NEW s \in Seq(Line), NEW a \in Line, NEW b \in Line, NEW c \in Line, NEW pattern,
           NEW k, pattern \cap Urc = {}, Carries(s, <<a, b, c>>), FirstIn(s, k, pattern),
           a \in pattern
    PROVE  s[k] = a /\ Carries(After(s, k), <<b, c>>)
<1>1. <<a, b, c>> \in Seq(Line) /\ Len(<<a, b, c>>) > 0 /\ <<a, b, c>>[1] = a
  OBVIOUS
<1>2. s[k] = <<a, b, c>>[1] /\ Carries(After(s, k), After(<<a, b, c>>, 1))
  BY <1>1, CarriesHead
<1>3. After(<<a, b, c>>, 1) = <<b, c>>
  BY AfterFirstOfThree
<1> QED BY <1>1, <1>2, <1>3

\* A line that does not match is dropped.
LEMMA CarriesSecond ==
    ASSUME NEW s \in Seq(Line), NEW a \in Line, NEW b \in Line, NEW pattern, NEW k,
           pattern \cap Urc = {}, Carries(s, <<a, b>>), FirstIn(s, k, pattern),
           a \notin pattern
    PROVE  Carries(After(s, k), <<>>)
<1>1. <<a, b>> \in Seq(Line) /\ Len(<<a, b>>) = 2 /\ <<a, b>>[1] = a
  OBVIOUS
<1>2. PICK m \in 1 .. 2 : FirstIn(<<a, b>>, m, pattern) /\ Carries(After(s, k), After(<<a, b>>, m))
  BY <1>1, CarriesFirst
<1>3. m = 2
  BY <1>1, <1>2 DEF FirstIn
<1> QED BY <1>2, <1>3, AfterFirst

\* A line that is expected is there.
LEMMA CarriesThere ==
    ASSUME NEW s \in Seq(Line), NEW p \in Seq(Line), NEW m \in 1 .. Len(p), NEW pattern,
           Carries(s, p), p[m] \in pattern
    PROVE  ~ NoneIn(s, pattern)
BY CarriesNone DEF NoneIn

\* Nothing is on the way after a silence.
LEMMA CarriesEmpty == Carries(<<>>, <<>>)
<1>1. <<>> \in Seq(Line) /\ 1 .. Len(<<>>) = {}
  BY EmptySeq
<1> QED BY <1>1, CarriesNothing

\* flush leaves unsolicited lines only.
LEMMA CarriesFlushed ==
    ASSUME NEW s \in Seq(Line), Carries(s, <<>>), NEW k \in 0 .. Len(s)
    PROVE  After(s, k) \in Seq(Line) /\ Carries(After(s, k), <<>>)
<1>1. /\ After(s, k) \in Seq(Line) /\ Len(After(s, k)) = Len(s) - k
      /\ \A n \in 1 .. Len(s) - k : After(s, k)[n] = s[n + k] /\ n + k \in 1 .. Len(s)
  BY AfterProperties
<1>2. \A n \in 1 .. Len(s) : s[n] \in Urc
  BY CarriesNothing
<1>3. \A n \in 1 .. Len(After(s, k)) : After(s, k)[n] \in Urc
  BY <1>1, <1>2
<1> QED BY <1>1, <1>3, CarriesNothing

\* What has failed or has been late before stays so, but for CellRead.
LEMMA LinkHistory ==
    ASSUME LinkOK, LinkStep, faults' = 0, ~ late'
    PROVE  faults = 0 /\ ~ late
<1>1. faults \in Nat
  BY DEF LinkOK
<1>2. faults' = faults \/ faults' = faults + 1
  <2>1. ASSUME NEW unit, Write(unit) PROVE faults' = faults \/ faults' = faults + 1
    BY <2>1 DEF Write, Execute, TakeUnit, Works, Fails
  <2> QED BY <2>1 DEF LinkStep, Send, FlushAndSend, Received, NotReceived, Recv, RecvFails, Read,
                      ReadSome, Silent, ServerAnswers, PeerCloses, Deliver, Works, Fails, link
<1>3. ~ late
  BY DEF LinkStep, Send, FlushAndSend, Received, NotReceived, Recv, RecvFails, Read,
         ReadSome, Silent, ServerAnswers, PeerCloses, Deliver, link
<1>4. faults = 0
  <2>1. ASSUME faults' = faults + 1 PROVE FALSE
    BY <1>1, <2>1
  <2> QED BY <1>2, <2>1
<1> QED BY <1>3, <1>4

\* An answer to a command, sent when nothing else was expected.
LEMMA AnswerExpected ==
    ASSUME LinkOK, Carries(Flow, <<>>), NEW lines \in Answers, Answer(lines),
           rx' = rx \/ rx' = <<>>
    PROVE  Carries(Flow', lines)
<1>1. lines \in Seq(Line) /\ Flow \in Seq(Line)
  BY AnswersAreLines, FlowShape
<1>2. CASE rx' = rx
  BY <1>1, <1>2, FlowAnswered, CarriesAnswer
<1>3. CASE rx' = <<>>
  <2>1. Flow' = After(Flow, Len(rx)) \o lines /\ Len(rx) \in 0 .. Len(Flow)
    BY <1>1, <1>3, FlowFlushed
  <2>2. After(Flow, Len(rx)) \in Seq(Line) /\ Carries(After(Flow, Len(rx)), <<>>)
    BY <1>1, <2>1, CarriesFlushed
  <2> QED BY <1>1, <2>1, <2>2, CarriesAnswer
<1> QED BY <1>2, <1>3

\* recv returns the line expected.
LEMMA RecvOne ==
    ASSUME LinkOK, NEW pattern, NEW line \in pattern, Recv(pattern, line), pattern \cap Urc = {},
           NEW a \in Line, a \in pattern, Carries(Flow, <<a>>)
    PROVE  line = a /\ Carries(Flow', <<>>)
BY FlowReceived, FlowShape, CarriesOne

\* recv() of the first of two expected lines.
LEMMA RecvTwo ==
    ASSUME LinkOK, NEW pattern, NEW line \in pattern, Recv(pattern, line), pattern \cap Urc = {},
           NEW a \in Line, NEW b \in Line, a \in pattern, Carries(Flow, <<a, b>>)
    PROVE  line = a /\ Carries(Flow', <<b>>)
BY FlowReceived, FlowShape, CarriesTwo

\* recv() of the first of three expected lines.
LEMMA RecvThree ==
    ASSUME LinkOK, NEW pattern, NEW line \in pattern, Recv(pattern, line), pattern \cap Urc = {},
           NEW a \in Line, NEW b \in Line, NEW c \in Line, a \in pattern,
           Carries(Flow, <<a, b, c>>)
    PROVE  line = a /\ Carries(Flow', <<b, c>>)
BY FlowReceived, FlowShape, CarriesThree

\* recv() of the second of two expected lines skips the first.
LEMMA RecvSecond ==
    ASSUME LinkOK, NEW pattern, NEW line \in pattern, Recv(pattern, line), pattern \cap Urc = {},
           NEW a \in Line, NEW b \in Line, a \notin pattern, Carries(Flow, <<a, b>>)
    PROVE  Carries(Flow', <<>>)
BY FlowReceived, FlowShape, CarriesSecond

\* recv does not give up in time on a line that is expected.
LEMMA RecvOneThere ==
    ASSUME LinkOK, NEW pattern, RecvFails(pattern), ~ late',
           NEW a \in Line, a \in pattern, Carries(Flow, <<a>>)
    PROVE  FALSE
<1>1. <<a>> \in Seq(Line) /\ 1 \in 1 .. Len(<<a>>) /\ <<a>>[1] = a
  OBVIOUS
<1>2. ~ NoneIn(Flow, pattern)
  BY <1>1, FlowShape, CarriesThere
<1> QED BY <1>2, FlowFailed

\* recv() of one of two expected lines cannot fail in time.
LEMMA RecvTwoThere ==
    ASSUME LinkOK, NEW pattern, RecvFails(pattern), ~ late',
           NEW a \in Line, NEW b \in Line, a \in pattern \/ b \in pattern,
           Carries(Flow, <<a, b>>)
    PROVE  FALSE
<1>1. <<a, b>> \in Seq(Line) /\ 1 \in 1 .. Len(<<a, b>>) /\ 2 \in 1 .. Len(<<a, b>>)
      /\ <<a, b>>[1] = a /\ <<a, b>>[2] = b
  OBVIOUS
<1>2. ~ NoneIn(Flow, pattern)
  BY <1>1, FlowShape, CarriesThere
<1> QED BY <1>2, FlowFailed

\* recv() of one of three expected lines cannot fail in time.
LEMMA RecvThreeThere ==
    ASSUME LinkOK, NEW pattern, RecvFails(pattern), ~ late',
           NEW a \in Line, NEW b \in Line, NEW c \in Line, a \in pattern,
           Carries(Flow, <<a, b, c>>)
    PROVE  FALSE
<1>1. <<a, b, c>> \in Seq(Line) /\ 1 \in 1 .. Len(<<a, b, c>>) /\ <<a, b, c>>[1] = a
  OBVIOUS
<1>2. ~ NoneIn(Flow, pattern)
  BY <1>1, FlowShape, CarriesThere
<1> QED BY <1>2, FlowFailed

\* While nothing fails for the report, nothing has failed for it before.
Others ==
    \/ SendOpen \/ OpenAccepted \/ Opened \/ OpenRefused \/ OpenFails \/ ConnectAgain
    \/ SendQuery \/ ReadQuery \/ SendStream \/ Prompted \/ NotPrompted
    \/ WritePart \/ SendOK \/ SendFails \/ PostEnds
    \/ Answered \/ AskAmount \/ AmountKnown \/ NotAnswered \/ ReadPart \/ GetEnds
    \/ FlushSocket \/ AmountToFlush \/ Flushed \/ FlushFails
    \/ SendClose \/ Closed \/ CloseNotOK \/ CloseError \/ CloseAgain
    \/ GetReturns \/ SendCell \/ CellSet \/ AskCell \/ PostReturns

\* Only the end of a request changes which of the two is made.
LEMMA SameCall ==
    ASSUME Others
    PROVE  call' = call /\ (call = "post" /\ pc \in AtCell => pc' \in AtCell)
<1>1. CASE \/ SendOpen \/ OpenAccepted \/ Opened \/ OpenRefused \/ OpenFails \/ ConnectAgain
  BY <1>1 DEF SendOpen, OpenAccepted, Opened, OpenRefused, OpenFails, ConnectAgain, Goto, Close, Return, AtCell
<1>2. CASE SendQuery \/ ReadQuery \/ SendStream \/ Prompted \/ NotPrompted \/ WritePart
  BY <1>2 DEF SendQuery, ReadQuery, SendStream, Prompted, NotPrompted, WritePart, Goto, Loop,
              Return, AtCell
<1>3. CASE \/ SendOK \/ SendFails \/ PostEnds \/ Answered \/ AskAmount \/ AmountKnown
           \/ NotAnswered \/ ReadPart \/ GetEnds
  BY <1>3 DEF SendOK, SendFails, PostEnds, Answered, AskAmount, AmountKnown, NotAnswered,
              ReadPart, GetEnds, Goto, Close, Return, AtCell
<1>4. CASE \/ FlushSocket \/ AmountToFlush \/ Flushed \/ FlushFails
           \/ SendClose \/ Closed \/ CloseNotOK \/ CloseError \/ CloseAgain
  BY <1>4 DEF FlushSocket, AmountToFlush, Flushed, FlushFails, SendClose, Closed,
              CloseNotOK, CloseError, CloseAgain, Goto, Loop, AtCell
<1>5. CASE GetReturns \/ SendCell \/ CellSet \/ AskCell \/ PostReturns
  BY <1>5 DEF GetReturns, SendCell, CellSet, AskCell, PostReturns, Goto, AtCell
<1> QED BY <1>1, <1>2, <1>3, <1>4, <1>5 DEF Others

\* While nothing is late, there is no failure either.
LEMMA ActiveBefore ==
    ASSUME TypeInv, Others \/ ModemStep, Active'
    PROVE  Active /\ faults' = faults
<1>1. LinkStep
  BY OpenTypes, ConnectTypes, StreamTypes, AnswerTypes, CloseTypes, RunTypes, ModemTypes DEF Others
<1>2. faults = 0 /\ ~ late
  BY <1>1, LinkHistory DEF Active, TypeInv
<1>3. call = "post" /\ pc \notin AtCell
  BY SameCall DEF Active, ModemStep, driver
<1> QED BY <1>2, <1>3 DEF Active

\* What is known when the driver takes a step of its own for the report.
Known ==
    /\ LinkOK /\ DriverOK /\ Places /\ Active /\ faults' = faults /\ ~ late'
    /\ pc \notin Payload => room = 0
    /\ Expected

\* BG96::open.
LEMMA OpenExpected ==
    ASSUME Known, SendOpen \/ OpenAccepted \/ Opened \/ OpenRefused \/ OpenFails \/ ConnectAgain
    PROVE  Expected'
<1>1. CASE SendOpen
  <2>1. /\ pc = "QIOPEN" /\ pc' = "QIOPEN_OK" /\ rx' = rx /\ max_attempt' = max_attempt
        /\ Write("QIOPEN") /\ room = 0
    BY <1>1 DEF SendOpen, Send, Goto, Known, Payload
  <2>2. Carries(Flow, <<>>) /\ (max_attempt = 2 \/ sock = "closed")
    BY <2>1 DEF Known, Expected, Connecting
  <2>3. Execute("QIOPEN")
    BY <2>1 DEF Write
  <2>4. \/ Answer(<<"OK", "+QIOPEN:0">>) /\ Fresh'
        \/ Answer(<<"OK", "+QIOPEN:563">>) /\ sock # "closed" /\ sock' = sock
    BY <2>3 DEF Execute, Works, Fails, Fresh, Known, Active, Part
  <2>5. <<"OK", "+QIOPEN:0">> \in Answers /\ <<"OK", "+QIOPEN:563">> \in Answers /\ LinkOK
    BY DEF Answers, Known
  <2>6. \/ Carries(Flow', <<"OK", "+QIOPEN:0">>) /\ Fresh'
        \/ Carries(Flow', <<"OK", "+QIOPEN:563">>) /\ LeftOpen'
    BY <2>1, <2>2, <2>4, <2>5, AnswerExpected DEF LeftOpen
  <2> QED BY <2>1, <2>6 DEF Expected, Connecting, Sending, Closing, CloseLabels
<1>2. CASE OpenAccepted
  <2>1. /\ pc = "QIOPEN_OK" /\ pc' = "+QIOPEN" /\ Recv({"OK"}, "OK")
        /\ UNCHANGED <<sock, server, max_attempt>>
    BY <1>2 DEF OpenAccepted, Recv, Goto
  <2>2. {"OK"} \cap Urc = {} /\ "OK" \in Line /\ "+QIOPEN:0" \in Line /\ "+QIOPEN:563" \in Line
        /\ LinkOK
    BY DEF Urc, Line, Refusals, Known
  <2>3. \/ Carries(Flow, <<"OK", "+QIOPEN:0">>) /\ Fresh
        \/ Carries(Flow, <<"OK", "+QIOPEN:563">>) /\ LeftOpen
    BY <2>1 DEF Known, Expected, Connecting
  <2>4. \/ Carries(Flow', <<"+QIOPEN:0">>) /\ Fresh'
        \/ Carries(Flow', <<"+QIOPEN:563">>) /\ LeftOpen'
    BY <2>1, <2>2, <2>3, RecvTwo DEF Fresh, LeftOpen
  <2> QED BY <2>1, <2>4 DEF Expected, Connecting, Sending, Closing, CloseLabels
<1>3. ASSUME NEW line \in Refusals \cup {"+QIOPEN:0"}, pc = "+QIOPEN",
             Recv(Refusals \cup {"+QIOPEN:0"}, line)
      PROVE  /\ Carries(Flow', <<>>)
             /\ (line = "+QIOPEN:0" /\ Fresh) \/ (line = "+QIOPEN:563" /\ LeftOpen)
  <2>1. /\ (Refusals \cup {"+QIOPEN:0"}) \cap Urc = {} /\ "+QIOPEN:0" \in Line
        /\ "+QIOPEN:563" \in Line /\ LinkOK
        /\ "+QIOPEN:563" \in Refusals \cup {"+QIOPEN:0"}
        /\ "+QIOPEN:0" \in Refusals \cup {"+QIOPEN:0"}
    BY DEF Urc, Line, Refusals, Known
  <2>2. \/ Carries(Flow, <<"+QIOPEN:0">>) /\ Fresh
        \/ Carries(Flow, <<"+QIOPEN:563">>) /\ LeftOpen
    BY <1>3 DEF Known, Expected, Connecting
  <2>3. CASE Carries(Flow, <<"+QIOPEN:0">>) /\ Fresh
    BY <1>3, <2>1, <2>3, RecvOne
  <2>4. CASE Carries(Flow, <<"+QIOPEN:563">>) /\ LeftOpen
    BY <1>3, <2>1, <2>4, RecvOne
  <2> QED BY <2>2, <2>3, <2>4
<1>4. CASE Opened
  <2>1. pc = "+QIOPEN" /\ pc' = "QISEND?" /\ UNCHANGED <<sock, server>>
        /\ Recv(Refusals \cup {"+QIOPEN:0"}, "+QIOPEN:0")
    BY <1>4 DEF Opened, Recv, Goto
  <2>2. Carries(Flow', <<>>) /\ Fresh
    BY <1>3, <2>1
  <2> QED BY <2>1, <2>2 DEF Expected, Connecting, Sending, Closing, CloseLabels, Fresh
<1>5. CASE OpenRefused
  <2>1. PICK line \in Refusals : Recv(Refusals \cup {"+QIOPEN:0"}, line)
    BY <1>5 DEF OpenRefused
  <2>2. /\ pc = "+QIOPEN" /\ pc' = "close" /\ ret' = "refused" /\ UNCHANGED <<sock, max_attempt>>
    BY <1>5, <2>1 DEF OpenRefused, Recv, Close
  <2>3. Carries(Flow', <<>>) /\ LeftOpen
    BY <1>3, <2>1, <2>2 DEF Refusals
  <2> QED BY <2>2, <2>3 DEF Expected, Connecting, Sending, Closing, CloseLabels, LeftOpen
<1>6. CASE OpenFails
  <2>1. /\ "OK" \in Line /\ "+QIOPEN:0" \in Line /\ "+QIOPEN:563" \in Line
        /\ "+QIOPEN:563" \in Refusals /\ LinkOK /\ ~ late'
    BY DEF Line, Refusals, Known
  <2>2. CASE pc = "QIOPEN_OK" /\ RecvFails({"OK"})
    <3>1. Carries(Flow, <<"OK", "+QIOPEN:0">>) \/ Carries(Flow, <<"OK", "+QIOPEN:563">>)
      BY <2>2 DEF Known, Expected, Connecting
    <3> QED BY <2>1, <2>2, <3>1, RecvTwoThere
  <2>3. CASE pc = "+QIOPEN" /\ RecvFails(Refusals \cup {"+QIOPEN:0"})
    <3>1. Carries(Flow, <<"+QIOPEN:0">>) \/ Carries(Flow, <<"+QIOPEN:563">>)
      BY <2>3 DEF Known, Expected, Connecting
    <3> QED BY <2>1, <2>3, <3>1, RecvOneThere
  <2> QED BY <1>6, <2>2, <2>3 DEF OpenFails
<1>7. CASE ConnectAgain
  <2>1. pc = "refused" /\ Carries(Flow, <<>>) /\ max_attempt = 2 /\ sock = "closed"
    BY <1>7 DEF ConnectAgain, Known, Expected, Connecting
  <2>2. pc' = "QIOPEN" /\ max_attempt' = max_attempt - 1 /\ UNCHANGED link
    BY <1>7, <2>1 DEF ConnectAgain, Return
  <2>3. Carries(Flow', <<>>) /\ sock' = "closed"
    BY <2>1, <2>2 DEF link, Flow
  <2>4. max_attempt' = 1
    BY <2>1, <2>2
  <2> QED BY <2>2, <2>3, <2>4 DEF Expected, Connecting, Sending, Closing, CloseLabels
<1> QED BY <1>1, <1>2, <1>4, <1>5, <1>6, <1>7

\* BG96::socket_openstream, socket_writestream and socket_closestream.
LEMMA StreamExpected ==
    ASSUME Known, SendQuery \/ ReadQuery \/ SendStream \/ Prompted \/ NotPrompted
    PROVE  Expected'
<1>0. LinkOK /\ ~ late' /\ faults' = faults /\ faults = 0 /\ call = "post"
  BY DEF Known, Active
<1>1. CASE SendQuery
  <2>1. /\ pc = "QISEND?" /\ pc' = "+QISEND" /\ rx' = rx /\ Write("QISEND?") /\ room = 0
    BY <1>1 DEF SendQuery, Send, Known, Payload
  <2>2. Carries(Flow, <<>>) /\ Fresh
    BY <2>1 DEF Known, Expected, Sending
  <2>3. Answer(<<"+QISEND:0", "OK">>) /\ Fresh'
    BY <2>1, <2>2 DEF Write, Execute, Fresh, Part, Works, Fails
  <2>4. Carries(Flow', <<"+QISEND:0", "OK">>)
    BY <1>0, <2>1, <2>2, <2>3, AnswerExpected DEF Answers
  <2> QED BY <2>1, <2>3, <2>4 DEF Expected, Connecting, Sending, Closing, CloseLabels
<1>2. CASE ReadQuery
  <2>1. pc = "+QISEND" /\ Silent /\ rx' = <<>> /\ UNCHANGED <<air, sock, server>> /\ _buf' \in Filled
    BY <1>2 DEF ReadQuery, Read
  <2>2. Flow = rx /\ Flow' = <<>>
    BY <1>0, <2>1, FlowSilent
  <2>3. Carries(rx, <<"+QISEND:0", "OK">>) /\ Fresh
    BY <2>1, <2>2 DEF Known, Expected, Sending
  <2>4. PICK f \in [1 .. Len(<<"+QISEND:0", "OK">>) -> 1 .. Len(rx)] :
            \A k \in 1 .. Len(<<"+QISEND:0", "OK">>) : rx[f[k]] = <<"+QISEND:0", "OK">>[k]
    BY <2>3 DEF Carries
  <2>5. /\ f[1] \in 1 .. Len(rx) /\ rx[f[1]] = "+QISEND:0"
        /\ f[2] \in 1 .. Len(rx) /\ rx[f[2]] = "OK"
    BY <2>4
  <2>6. DOMAIN rx = 1 .. Len(rx) /\ rx # <<>>
    BY <1>0, <2>5 DEF LinkOK
  <2>7. "+QISEND:0" \in _buf' /\ "OK" \in _buf'
    <3>1. {rx[n] : n \in DOMAIN rx} \subseteq _buf'
      BY <2>1, <2>6 DEF Filled
    <3> QED BY <2>5, <2>6, <3>1
  <2>8. pc' = "QISEND"
    <3>1. _buf' \cap Comma0 # {}
      BY <2>7 DEF Comma0
    <3> QED BY <1>2, <2>7, <3>1 DEF ReadQuery
  <2>9. Carries(Flow', <<>>) /\ Fresh'
    BY <2>1, <2>2, <2>3, CarriesEmpty DEF Fresh
  <2> QED BY <2>8, <2>9 DEF Expected, Connecting, Sending, Closing, CloseLabels
<1>3. CASE SendStream
  <2>1. pc = "QISEND" /\ pc' = ">" /\ rx' = rx /\ Write("QISEND_4") /\ room = 0
    BY <1>0, <1>3 DEF SendStream, Send, Goto, Known, Payload
  <2>2. Carries(Flow, <<>>) /\ Fresh
    BY <2>1 DEF Known, Expected, Sending
  <2>3. Execute("QISEND_4")
    BY <2>1 DEF Write
  <2>4. Answer(<<">">>) /\ room' = 4 /\ Fresh'
    BY <1>0, <2>2, <2>3 DEF Execute, Fresh, Part, Works, Fails
  <2>5. Carries(Flow', <<">">>)
    BY <1>0, <2>1, <2>2, <2>4, AnswerExpected DEF Answers
  <2> QED BY <2>1, <2>4, <2>5 DEF Expected, Connecting, Sending, Closing, CloseLabels
<1>4. CASE Prompted
  <2>1. /\ pc = ">" /\ pc' = "write" /\ Recv(Prompt, ">") /\ UNCHANGED <<sock, server>>
    BY <1>4 DEF Prompted, Recv, Loop, Prompt
  <2>2. Carries(Flow, <<">">>) /\ Fresh
    BY <2>1 DEF Known, Expected, Sending
  <2>3. Prompt \cap Urc = {} /\ ">" \in Prompt /\ ">" \in Line
    BY DEF Prompt, Urc, Line
  <2>4. Carries(Flow', <<>>) /\ Fresh'
    BY <1>0, <2>1, <2>2, <2>3, RecvOne DEF Fresh
  <2> QED BY <2>1, <2>4 DEF Expected, Connecting, Sending, Closing, CloseLabels
<1>5. CASE NotPrompted
  <2>1. pc = ">" /\ RecvFails({">"}) /\ ">" \in Line
    BY <1>5 DEF NotPrompted, Line
  <2>2. Carries(Flow, <<">">>)
    BY <2>1 DEF Known, Expected, Sending
  <2> QED BY <1>0, <2>1, <2>2, RecvOneThere
<1> QED BY <1>1, <1>2, <1>3, <1>4, <1>5

\* The parts, of which the last completes the report.
LEMMA WriteExpected ==
    ASSUME TypeInv, IntactInv, Known, WritePart
    PROVE  Expected'
<1>1. /\ LinkOK /\ ~ late' /\ faults' = faults /\ faults = 0 /\ call = "post" /\ ~ late
      /\ pc = "write" /\ Carries(Flow, <<>>) /\ Fresh
  BY DEF WritePart, Known, Active, Expected, Sending
<1>2. Write(Parts[i]) /\ UNCHANGED <<call, rx, late>>
  BY DEF WritePart, Send, Goto, Loop, Parts
<1>3. /\ room = Len(Parts) - i + 1 /\ taken = SubSeq(Parts, 1, i - 1)
      /\ i \in 1 .. Len(Parts)
  BY <1>1 DEF IntactInv, InStep, TypeInv, Counters
<1>4. Parts \in Seq(Unit) /\ Len(Parts) \in 2 .. 4 /\ Parts = Message.post
  BY <1>1, PartsShape DEF Parts
<1>5. /\ room > 0 /\ (room > 1 <=> i < Len(Parts)) /\ (room = 1 <=> i = Len(Parts))
  BY <1>3, <1>4, LeftToWrite
<1>6. TakeUnit(Parts[i])
  BY <1>2, <1>5 DEF Write
<1>7. CASE i < Len(Parts)
  <2>1. UNCHANGED <<air, server, sock>> /\ pc' = "write"
    BY <1>5, <1>6, <1>7 DEF TakeUnit, WritePart, Loop, Parts
  <2>2. Carries(Flow', <<>>) /\ Fresh'
    BY <1>1, <1>2, <2>1 DEF Flow, Fresh
  <2> QED BY <2>1, <2>2 DEF Expected, Connecting, Sending, Closing, CloseLabels
<1>8. CASE i = Len(Parts)
  <2>1. pc' = "SEND_OK" /\ sock' = sock
    BY <1>5, <1>6, <1>8 DEF TakeUnit, WritePart, Goto, Parts
  <2>2. Append(taken, Parts[i]) = Parts
    <3>1. Append(taken, Parts[i]) = SubSeq(Parts, 1, i)
      BY <1>3, <1>4, BeginningAndNext
    <3> QED BY <1>4, <1>8, <3>1, SubSeqFull
  <2>3. Answer(<<"SEND_OK">>) /\ wire' = Append(wire, Parts)
    BY <1>1, <1>5, <1>6, <1>8, <2>2 DEF TakeUnit, Fails, Works, Fresh
  <2>4. Carries(Flow', <<"SEND_OK">>)
    BY <1>1, <1>2, <2>3, AnswerExpected DEF Answers
  <2>5. Reports' # {}
    <3>1. DOMAIN wire' = DOMAIN wire \cup {Len(wire) + 1} /\ wire'[Len(wire) + 1] = Parts
      BY <1>1, <1>4, <2>3, HandedOver DEF LinkOK
    <3> QED BY <1>4, <3>1 DEF Reports
  <2> QED BY <1>1, <2>1, <2>4, <2>5 DEF Expected, Connecting, Sending, Closing, CloseLabels, Fresh
<1> QED BY <1>3, <1>4, <1>7, <1>8

\* After the last part the answers expected are those under way.
LEMMA SentExpected ==
    ASSUME Known, SendOK \/ SendFails \/ PostEnds
    PROVE  Expected'
<1>0. LinkOK /\ ~ late' /\ call = "post"
  BY DEF Known, Active
<1>1. CASE SendOK
  <2>1. /\ pc = "SEND_OK" /\ pc' = "wait" /\ Recv({"SEND_OK"}, "SEND_OK") /\ UNCHANGED <<sock, wire>>
    BY <1>0, <1>1 DEF SendOK, Recv, Goto, AfterSend
  <2>2. Carries(Flow, <<"SEND_OK">>) /\ sock # "closed" /\ Reports # {}
    BY <2>1 DEF Known, Expected, Sending
  <2>3. {"SEND_OK"} \cap Urc = {} /\ "SEND_OK" \in Line
    BY DEF Urc, Line
  <2>4. Carries(Flow', <<>>)
    BY <1>0, <2>1, <2>2, <2>3, RecvOne
  <2>5. Reports' = Reports
    BY <2>1 DEF Reports
  <2> QED BY <2>1, <2>2, <2>4, <2>5 DEF Expected, Connecting, Sending, Closing, CloseLabels
<1>2. CASE SendFails
  <2>1. pc = "SEND_OK" /\ RecvFails({"SEND_OK"}) /\ "SEND_OK" \in Line
    BY <1>2 DEF SendFails, Line
  <2>2. Carries(Flow, <<"SEND_OK">>)
    BY <2>1 DEF Known, Expected, Sending
  <2> QED BY <1>0, <2>1, <2>2, RecvOneThere
<1>3. CASE PostEnds
  <2>1. pc = "wait" /\ pc' = "close" /\ ret' = "returned" /\ UNCHANGED link
    BY <1>3 DEF PostEnds
  <2>2. Carries(Flow, <<>>) /\ sock # "closed" /\ Reports # {}
    BY <2>1 DEF Known, Expected, Sending
  <2>3. Flow' = Flow /\ sock' = sock /\ Reports' = Reports
    BY <2>1 DEF link, Flow, Reports
  <2> QED BY <2>1, <2>2, <2>3 DEF Expected, Connecting, Sending, Closing, CloseLabels
<1> QED BY <1>1, <1>2, <1>3

\* BG96::close flushes the socket, ...
LEMMA FlushExpected ==
    ASSUME Known, FlushSocket \/ AmountToFlush \/ Flushed \/ FlushFails
    PROVE  Expected'
<1>0. LinkOK /\ ~ late' /\ call = "post"
  BY DEF Known, Active
<1>1. CASE FlushSocket
  <2>1. /\ pc = "close" /\ pc' = "close_+QIRD" /\ rx' = <<>> /\ Write("QIRD") /\ room = 0
        /\ UNCHANGED <<ret, max_attempt>>
    BY <1>1 DEF FlushSocket, FlushAndSend, Goto, Known, Payload
  <2>2. Carries(Flow, <<>>) /\ sock # "closed"
    BY <2>1 DEF Known, Expected, Closing
  <2>3. /\ Answer(<<"+QIRD:0", "OK">>) \/ Answer(<<"+QIRD:1", "data", "OK">>)
        /\ sock' = sock /\ wire' = wire
    BY <2>1, <2>2 DEF Write, Execute, Part, Works, Fails
  <2>4. <<"+QIRD:0", "OK">> \in Answers /\ <<"+QIRD:1", "data", "OK">> \in Answers
    BY DEF Answers
  <2>5. Carries(Flow', <<"+QIRD:0", "OK">>) \/ Carries(Flow', <<"+QIRD:1", "data", "OK">>)
    BY <1>0, <2>1, <2>2, <2>3, <2>4, AnswerExpected
  <2>6. (ret = "refused" /\ max_attempt = 2) \/ (ret = "returned" /\ Reports # {})
    BY <2>1 DEF Known, Expected, Closing, CloseLabels
  <2>7. Reports' = Reports
    BY <2>3 DEF Reports
  <2> QED BY <2>1, <2>2, <2>3, <2>5, <2>6, <2>7 DEF Expected, Connecting, Sending, Closing, CloseLabels
<1>2. CASE AmountToFlush
  <2>1. PICK line \in Amounts : Recv(Amounts, line)
    BY <1>2 DEF AmountToFlush
  <2>2. /\ pc = "close_+QIRD" /\ pc' = "close_OK"
        /\ UNCHANGED <<ret, max_attempt, sock, wire>>
    BY <1>2 DEF AmountToFlush, Goto, Recv
  <2>3. /\ Amounts \cap Urc = {} /\ "+QIRD:0" \in Amounts /\ "+QIRD:1" \in Amounts
        /\ "+QIRD:0" \in Line /\ "+QIRD:1" \in Line /\ "data" \in Line /\ "OK" \in Line
    BY DEF Amounts, Urc, Line
  <2>4. /\ sock # "closed"
        /\ Carries(Flow, <<"+QIRD:0", "OK">>) \/ Carries(Flow, <<"+QIRD:1", "data", "OK">>)
        /\ (ret = "refused" /\ max_attempt = 2) \/ (ret = "returned" /\ Reports # {})
    BY <2>2 DEF Known, Expected, Closing, CloseLabels
  <2>5. CASE Carries(Flow, <<"+QIRD:0", "OK">>)
    <3>1. Carries(Flow', <<"OK">>)
      BY <1>0, <2>1, <2>3, <2>5, RecvTwo
    <3> QED BY <2>2, <2>4, <3>1 DEF Expected, Connecting, Sending, Closing, CloseLabels, Reports
  <2>6. CASE Carries(Flow, <<"+QIRD:1", "data", "OK">>)
    <3>1. Carries(Flow', <<"data", "OK">>)
      BY <1>0, <2>1, <2>3, <2>6, RecvThree
    <3> QED BY <2>2, <2>4, <3>1 DEF Expected, Connecting, Sending, Closing, CloseLabels, Reports
  <2> QED BY <2>4, <2>5, <2>6
<1>3. CASE Flushed
  <2>1. /\ pc = "close_OK" /\ pc' = "QICLOSE" /\ Recv({"OK"}, "OK")
        /\ UNCHANGED <<ret, max_attempt, sock, wire>>
    BY <1>3 DEF Flushed, Loop, Recv
  <2>2. {"OK"} \cap Urc = {} /\ "data" \in Line /\ "OK" \in Line /\ "data" \notin {"OK"}
    BY DEF Urc, Line
  <2>3. /\ sock # "closed"
        /\ Carries(Flow, <<"OK">>) \/ Carries(Flow, <<"data", "OK">>)
        /\ (ret = "refused" /\ max_attempt = 2) \/ (ret = "returned" /\ Reports # {})
    BY <2>1 DEF Known, Expected, Closing, CloseLabels
  <2>4. Carries(Flow', <<>>)
    <3>1. CASE Carries(Flow, <<"OK">>)
      BY <1>0, <2>1, <2>2, <3>1, RecvOne
    <3>2. CASE Carries(Flow, <<"data", "OK">>)
      BY <1>0, <2>1, <2>2, <3>2, RecvSecond
    <3> QED BY <2>3, <3>1, <3>2
  <2> QED BY <2>1, <2>3, <2>4 DEF Expected, Connecting, Sending, Closing, CloseLabels, Reports
<1>4. CASE FlushFails
  <2>1. /\ "+QIRD:0" \in Amounts /\ "+QIRD:1" \in Amounts /\ "OK" \in {"OK"}
        /\ "+QIRD:0" \in Line /\ "+QIRD:1" \in Line /\ "data" \in Line /\ "OK" \in Line
    BY DEF Amounts, Line
  <2>2. CASE pc = "close_+QIRD" /\ RecvFails(Amounts)
    <3>1. Carries(Flow, <<"+QIRD:0", "OK">>) \/ Carries(Flow, <<"+QIRD:1", "data", "OK">>)
      BY <2>2 DEF Known, Expected, Closing
    <3> QED BY <1>0, <2>1, <2>2, <3>1, RecvTwoThere, RecvThreeThere
  <2>3. CASE pc = "close_OK" /\ RecvFails({"OK"})
    <3>1. Carries(Flow, <<"OK">>) \/ Carries(Flow, <<"data", "OK">>)
      BY <2>3 DEF Known, Expected, Closing
    <3> QED BY <1>0, <2>1, <2>3, <3>1, RecvOneThere, RecvTwoThere
  <2> QED BY <1>4, <2>2, <2>3 DEF FlushFails
<1> QED BY <1>1, <1>2, <1>3, <1>4

\* ... and closes it: after it a refused attempt has another, a call returns true.
LEMMA CloseExpected ==
    ASSUME Known, SendClose \/ Closed \/ CloseNotOK \/ CloseError \/ CloseAgain
    PROVE  Expected'
<1>0. LinkOK /\ ~ late' /\ call = "post" /\ faults' = faults
  BY DEF Known, Active
<1>1. CASE SendClose
  <2>1. /\ pc = "QICLOSE" /\ pc' = "QICLOSE_OK" /\ rx' = rx /\ Write("QICLOSE") /\ room = 0
        /\ UNCHANGED <<ret, max_attempt>>
    BY <1>1 DEF SendClose, Send, Goto, Known, Payload
  <2>2. /\ Carries(Flow, <<>>)
        /\ (ret = "refused" /\ max_attempt = 2) \/ (ret = "returned" /\ Reports # {})
    BY <2>1 DEF Known, Expected, Closing, CloseLabels
  <2>3. Answer(<<"OK">>) /\ sock' = "closed" /\ wire' = wire
    <3>1. Execute("QICLOSE") /\ wire' = wire
      BY <2>1 DEF Write
    <3>2. ~ Fails
      BY <1>0 DEF Fails, LinkOK
    <3> QED BY <3>1, <3>2 DEF Execute, Part
  <2>4. Carries(Flow', <<"OK">>)
    BY <1>0, <2>1, <2>2, <2>3, AnswerExpected DEF Answers
  <2> QED BY <2>1, <2>2, <2>3, <2>4 DEF Expected, Connecting, Sending, Closing, CloseLabels, Reports
<1>2. CASE Closed
  <2>1. /\ pc = "QICLOSE_OK" /\ pc' = ret /\ Recv({"OK"}, "OK")
        /\ UNCHANGED <<ret, max_attempt, sock, wire, result>>
    BY <1>2 DEF Closed, Goto, Recv
  <2>2. {"OK"} \cap Urc = {} /\ "OK" \in Line
    BY DEF Urc, Line
  <2>3. /\ Carries(Flow, <<"OK">>) /\ sock = "closed"
        /\ (ret = "refused" /\ max_attempt = 2) \/ (ret = "returned" /\ Reports # {})
    BY <2>1 DEF Known, Expected, Closing, CloseLabels
  <2>4. Carries(Flow', <<>>)
    BY <1>0, <2>1, <2>2, <2>3, RecvOne
  <2>5. ret = "returned" => result
    BY <2>1 DEF Known, Places, CloseLabels
  <2> QED BY <2>1, <2>3, <2>4, <2>5 DEF Expected, Connecting, Sending, Closing, CloseLabels, Reports
<1>3. CASE CloseNotOK
  <2>1. pc = "QICLOSE_OK" /\ RecvFails({"OK"}) /\ "OK" \in Line
    BY <1>3 DEF CloseNotOK, Line
  <2>2. Carries(Flow, <<"OK">>)
    BY <2>1 DEF Known, Expected, Closing
  <2> QED BY <1>0, <2>1, <2>2, RecvOneThere
<1>4. CASE CloseError \/ CloseAgain
  BY <1>4 DEF CloseError, CloseAgain, Known, Expected, Closing
<1> QED BY <1>1, <1>2, <1>3, <1>4

\* The remaining steps of the driver: the call has returned, or is the other one.
LEMMA OtherExpected ==
    ASSUME Known,
           \/ Answered \/ AskAmount \/ AmountKnown \/ NotAnswered \/ ReadPart \/ GetEnds
           \/ GetReturns \/ SendCell \/ CellSet \/ AskCell \/ PostReturns
    PROVE  Expected'
<1>1. CASE Answered \/ AskAmount \/ AmountKnown \/ NotAnswered \/ ReadPart \/ GetEnds
  BY <1>1 DEF Answered, AskAmount, AmountKnown, NotAnswered, ReadPart, GetEnds, Known, Expected, Sending
<1>2. CASE GetReturns \/ SendCell \/ CellSet \/ AskCell
  BY <1>2 DEF GetReturns, SendCell, CellSet, AskCell, Known, Active, AtCell
<1>3. CASE PostReturns
  <2>1. pc = "returned" /\ pc' = "done" /\ UNCHANGED <<result, sock, wire>>
    BY <1>3 DEF PostReturns, Goto, link
  <2>2. result /\ Reports # {} /\ sock = "closed"
    BY <2>1 DEF Known, Expected, Closing
  <2> QED BY <2>1, <2>2 DEF Expected, Connecting, Sending, Closing, CloseLabels, Reports
<1> QED BY <1>1, <1>2, <1>3

\* The report starts afresh: what the configuration left is read, or is late.
LEMMA CellReadExpected ==
    ASSUME CellRead, Active'
    PROVE  Expected'
<1>1. /\ pc' = "QIOPEN" /\ max_attempt' = 2 /\ rx' = <<>> /\ air' = <<>>
  BY DEF CellRead, Active, AtCell
<1>2. Flow' = <<>>
  BY <1>1, EmptySeq, ConcatEmptySeq DEF Flow
<1>3. Carries(Flow', <<>>)
  BY <1>2, CarriesEmpty
<1> QED BY <1>1, <1>3 DEF Expected, Connecting, Sending, Closing, CloseLabels

\* What is expected stays, and is about the same, after a line nobody asked for.
LEMMA Unasked ==
    ASSUME Expected, UNCHANGED <<pc, call, max_attempt, ret, result, wire, room>>,
           \A lines \in Seq(Line) : Carries(Flow, lines) => Carries(Flow', lines),
           sock' = "closed" <=> sock = "closed", Fresh => Fresh'
    PROVE  Expected'
<1>1. /\ \A a \in Line : <<a>> \in Seq(Line)
      /\ \A a, b \in Line : <<a, b>> \in Seq(Line)
      /\ \A a, b, c \in Line : <<a, b, c>> \in Seq(Line)
      /\ <<>> \in Seq(Line)
  BY EmptySeq
<1>2. /\ Carries(Flow, <<>>) => Carries(Flow', <<>>)
      /\ \A a \in Line : Carries(Flow, <<a>>) => Carries(Flow', <<a>>)
      /\ \A a, b \in Line : Carries(Flow, <<a, b>>) => Carries(Flow', <<a, b>>)
      /\ \A a, b, c \in Line : Carries(Flow, <<a, b, c>>) => Carries(Flow', <<a, b, c>>)
  BY <1>1
<1>3. /\ Carries(Flow, <<"OK">>) => Carries(Flow', <<"OK">>)
      /\ Carries(Flow, <<">">>) => Carries(Flow', <<">">>)
      /\ Carries(Flow, <<"SEND_OK">>) => Carries(Flow', <<"SEND_OK">>)
      /\ Carries(Flow, <<"+QIOPEN:0">>) => Carries(Flow', <<"+QIOPEN:0">>)
      /\ Carries(Flow, <<"+QIOPEN:563">>) => Carries(Flow', <<"+QIOPEN:563">>)
  BY <1>2 DEF Line, Refusals
<1>4. /\ Carries(Flow, <<"OK", "+QIOPEN:0">>) => Carries(Flow', <<"OK", "+QIOPEN:0">>)
      /\ Carries(Flow, <<"OK", "+QIOPEN:563">>) => Carries(Flow', <<"OK", "+QIOPEN:563">>)
      /\ Carries(Flow, <<"+QISEND:0", "OK">>) => Carries(Flow', <<"+QISEND:0", "OK">>)
      /\ Carries(Flow, <<"+QIRD:0", "OK">>) => Carries(Flow', <<"+QIRD:0", "OK">>)
      /\ Carries(Flow, <<"data", "OK">>) => Carries(Flow', <<"data", "OK">>)
      /\ Carries(Flow, <<"+QIRD:1", "data", "OK">>) => Carries(Flow', <<"+QIRD:1", "data", "OK">>)
  BY <1>2 DEF Line, Refusals, Amounts
<1>5. Connecting'
  BY <1>2, <1>3, <1>4 DEF Expected, Connecting, LeftOpen
<1>6. Reports' = Reports
  BY DEF Reports
<1>7. Sending'
  BY <1>2, <1>3, <1>4, <1>6 DEF Expected, Sending
<1>8. Closing'
  BY <1>2, <1>3, <1>4, <1>6 DEF Expected, Closing
<1> QED BY <1>5, <1>7, <1>8 DEF Expected

\* The modem and the server leave what the driver waits for as it is.
LEMMA ModemExpected ==
    ASSUME LinkOK, ModemStep, Active, faults' = faults, Expected
    PROVE  Expected'
<1>1. UNCHANGED <<pc, call, max_attempt, ret, result, wire, room>>
  BY DEF ModemStep, ServerAnswers, PeerCloses, Deliver, driver
<1>2. CASE Deliver
  <2>1. Flow' = Flow
    BY <1>2, FlowDelivered
  <2>2. sock' = sock /\ server' = server
    BY <1>2 DEF Deliver
  <2> QED BY <1>1, <2>1, <2>2, Unasked DEF Fresh
<1>3. CASE ServerAnswers \/ PeerCloses
  <2>1. PICK u \in Urc : Answer(<<u>>)
    BY <1>3 DEF ServerAnswers, PeerCloses, Urc
  <2>2. <<u>> \in Seq(Line) /\ rx' = rx
    BY <1>3 DEF Urc, Line, ServerAnswers, PeerCloses
  <2>3. Flow' = Flow \o <<u>>
    BY <2>1, <2>2, FlowAnswered
  <2>4. \A lines \in Seq(Line) : Carries(Flow, lines) => Carries(Flow', lines)
    BY <2>3, FlowShape, CarriesUrc
  <2>5. ~ Fails
    BY DEF Fails, LinkOK
  <2>6. ~ Fresh /\ sock = "open" /\ sock' # "closed"
    BY <1>3, <2>5 DEF ServerAnswers, PeerCloses, Fresh
  <2> QED BY <1>1, <2>4, <2>6, Unasked
<1> QED BY <1>2, <1>3 DEF ModemStep

\* The invariant is inductive.
LEMMA RecoverStep ==
    ASSUME TypeInv, HeaderInv, IntactInv, RecoverInv, [Next]_vars
    PROVE  RecoverInv'
<1>1. SUFFICES ASSUME Active' PROVE Expected'
  BY DEF RecoverInv
<1>2. CASE UNCHANGED vars
  BY <1>1, <1>2 DEF vars, link, driver, RecoverInv, Active, Expected, Connecting, Sending, Closing,
                    Fresh, LeftOpen, Reports, Flow
<1>3. CASE CellRead
  BY <1>1, <1>3, CellReadExpected
<1>4. CASE ModemStep
  BY <1>1, <1>4, ActiveBefore, ModemExpected DEF RecoverInv, TypeInv
<1>5. CASE Others
  <2>1. Active /\ faults' = faults /\ ~ late /\ ~ late' /\ Expected
    BY <1>1, <1>5, ActiveBefore DEF RecoverInv, Active
  <2>2. Known
    BY <2>1 DEF Known, TypeInv, HeaderInv, IntactInv, InStep, Payload
  <2> QED BY <1>5, <2>2, OpenExpected, StreamExpected, WriteExpected, SentExpected,
             FlushExpected, CloseExpected, OtherExpected DEF Others
<1> QED BY <1>2, <1>3, <1>4, <1>5 DEF Next, DriverStep, Others

\* No report has begun at first.
LEMMA RecoverInitially == Init => RecoverInv
BY DEF Init, RecoverInv, Active, AtCell

\* If nothing fails while the report is sent, and no answer is late, it is sent
\* and the socket is closed after it, whatever has failed for the configuration
\* before: a socket left open is found (563) and closed (BG96::open, BG96.cpp).
THEOREM ReportRecovers == Spec => []PostRecovers
<1>1. HeaderInv /\ RecoverInv => PostRecovers
  BY DEF HeaderInv, Places, RecoverInv, Active, AtCell, Expected, Closing, PostRecovers
<1> QED BY <1>1, TypeInit, TypeStep, HeaderInit, HeaderStep, IntactInit, IntactStep,
           RecoverInitially, RecoverStep, PTL DEF Spec

===============================================================================
