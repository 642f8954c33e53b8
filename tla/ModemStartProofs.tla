--------------------------- MODULE ModemStartProofs ---------------------------
(***************************************************************************)
(* What the start-up of the modem survives: proofs about ModemStart for any *)
(* numbers of attempts, failures, late answers and unsolicited lines.       *)
(***************************************************************************)
EXTENDS ModemStart, SequenceTheorems, WellFoundedInduction, TLAPS

\* MaxStartups is 5 in the code (BG96fInterface.cpp:97); init must get to its
\* reset.
EnoughStartups == MaxStartups >= 4

Starting == {"RDY", "ATE0", "ATE0_OK", "CFUN", "CFUN_OK", "failed"}
Identity == {"CGSN", "IMEI"}
Ending == {"GPSOff", "GPSOff_OK", "shutdown", "POWERED_DOWN", "done"}

Failures == faults + late

\* The lines.
Word == {"RDY", "OK", "ERROR", "position", "IMEI", "POWERED_DOWN", "none"}
            \cup Unasked \cup Technologies

Types ==
    /\ rx \in Seq(Word) /\ echo \in BOOLEAN
    /\ faults \in Nat /\ late \in Nat
    /\ max_attemps \in 0 .. MaxStartups - 1

\* The identity is asked for after the start-up, and only then; a run without
\* one ends.
Phases ==
    /\ pc = "wakeup" => rx = <<>>
    /\ pc \in {"wakeup"} \cup Starting \cup Identity => mac = "none"
    /\ pc \notin {"wakeup"} \cup Starting \cup Identity =>
          mac # "none" \/ (pc \in Ending /\ Failures > 1)
    /\ mac # "none" \/ pc \in Identity => ~ echo

NoneAfterRdy(line) ==
    \A m, n \in DOMAIN rx : rx[m] = "RDY" /\ m < n => rx[n] # line

\* A modem that repeats commands has sent no OK since its RDY, and before the
\* reset there is one RDY at most.
EchoKnown ==
    /\ pc \in {"CFUN", "CFUN_OK"} => ~ echo
    /\ pc \in {"ATE0", "ATE0_OK"} /\ echo => "OK" \notin Got
    /\ pc \in {"ATE0", "ATE0_OK", "CFUN", "CFUN_OK"} /\ max_attemps >= 3 =>
          "RDY" \notin Got
    /\ pc \in {"RDY", "failed"} /\ (echo \/ max_attemps >= 3) =>
          NoneAfterRdy("OK") /\ (max_attemps >= 3 => NoneAfterRdy("RDY"))

\* The failures that a start-up before or after the reset survives.
Allowed == IF max_attemps >= 3 THEN 0 ELSE 1

\* The first of the waits for a line that is there.
Expected ==
    /\ pc \in {"RDY", "ATE0_OK", "CFUN_OK"} => i = MAX_ATTEMPTS
    /\ pc = "RDY" => "RDY" \in Got
    /\ pc \in {"ATE0_OK", "CFUN_OK"} => "OK" \in Got

\* The first start-up, and the first after the reset, fail only because of a
\* failure of the modem since then; until then the line waited for is there.
FailuresCounted ==
    pc \in Starting =>
        /\ max_attemps < 3 => Failures > 0
        /\ pc = "failed" \/ max_attemps \notin {2, MaxStartups - 1} => Failures > Allowed
        /\ Failures <= Allowed => Expected

IInv == Types /\ Phases /\ EchoKnown /\ FailuresCounted

------------------------------------------------------------------------------

(***************************************************************************)
(* The link                                                                 *)
(***************************************************************************)

\* What no command and no wait does: forget failures, or make the modem
\* repeat commands again.
Mild ==
    /\ rx' \in Seq(Word) /\ echo' \in BOOLEAN /\ (echo' => echo)
    /\ faults' \in Nat /\ late' \in Nat /\ Failures' \in Nat /\ Failures' >= Failures

\* The first k lines are gone.
Dropped(k) ==
    /\ k \in 0 .. Len(rx) /\ rx' \in Seq(Word) /\ Len(rx') = Len(rx) - k
    /\ \A n \in 1 .. Len(rx) - k : rx'[n] = rx[n + k]

\* A set of numbers has a least one.
LEMMA Least ==
    ASSUME NEW T \in SUBSET Nat, T # {}
    PROVE  \E n \in T : \A m \in T : n <= m
  <1> DEFINE R == OpToRel(<, Nat)
  <1>1. IsWellFoundedOn(R, Nat)
    BY NatLessThanWellFounded
  <1>2. PICK n \in T : \A m \in T : <<m, n>> \notin R
    <2> HIDE DEF R
    <2> QED
      BY <1>1, WFMin
  <1>3. \A m \in T : ~ (m < n)
    BY <1>2 DEF OpToRel
  <1> QED
    BY <1>3

\* The line that is found is the first of its kind.
LEMMA FirstIs ==
    ASSUME rx \in Seq(Word), NEW line, line \in Got
    PROVE  /\ First(line) \in 1 .. Len(rx) /\ rx[First(line)] = line
           /\ \A m \in 1 .. First(line) - 1 : rx[m] # line
  <1> DEFINE T == {n \in DOMAIN rx : rx[n] = line}
  <1>1. T \in SUBSET Nat /\ T # {}
    BY DEF Got
  <1>2. PICK n \in T : \A m \in T : n <= m
    BY <1>1, Least
  <1>3. n \in DOMAIN rx /\ rx[n] = line /\ \A m \in 1 .. n - 1 : rx[m] # line
    BY <1>2
  <1>4. /\ First(line) \in DOMAIN rx /\ rx[First(line)] = line
        /\ \A m \in 1 .. First(line) - 1 : rx[m] # line
    BY <1>3 DEF First
  <1> QED
    BY <1>4

\* What SubSeq leaves of the lines received.
LEMMA DropShape ==
    ASSUME rx \in Seq(Word), NEW k \in 0 .. Len(rx),
           rx' = SubSeq(rx, k + 1, Len(rx))
    PROVE  Dropped(k)
  <1>1. \A n \in k + 1 .. Len(rx) : rx[n] \in Word
    OBVIOUS
  <1>2. k + 1 \in Int /\ Len(rx) \in Int
    OBVIOUS
  <1> DEFINE s == SubSeq(rx, k + 1, Len(rx))
  <1>3. /\ s \in Seq(Word)
        /\ Len(s) = IF k + 1 <= Len(rx) THEN Len(rx) - (k + 1) + 1 ELSE 0
        /\ \A n \in 1 .. Len(rx) - (k + 1) + 1 : s[n] = rx[k + 1 + n - 1]
    BY <1>1, <1>2, SubSeqProperties
  <1>4. Len(rx) - (k + 1) + 1 = Len(rx) - k
    OBVIOUS
  <1>5. Len(s) = Len(rx) - k
    BY <1>3
  <1>6. ASSUME NEW n \in 1 .. Len(rx) - k PROVE s[n] = rx[n + k]
    <2>1. s[n] = rx[k + 1 + n - 1] /\ k + 1 + n - 1 = n + k
      BY <1>3, <1>4
    <2> QED
      BY <2>1
  <1> QED
    BY <1>3, <1>5, <1>6 DEF Dropped

\* A timeout: what had not arrived by then comes late.
LEMMA ArriveShape ==
    ASSUME Types, NEW k \in 0 .. Len(rx), Arrive(k)
    PROVE  /\ Dropped(k) /\ Mild /\ echo' = echo /\ faults' = faults
           /\ k < Len(rx) => Failures' = Failures + 1
  <1>1. Dropped(k)
    BY DropShape DEF Arrive, Types
  <1>2. echo' = echo
    BY DEF Arrive, modem
  <1>3. faults \in Nat /\ late \in Nat /\ faults' = faults
    BY DEF Arrive, Types
  <1>4. (k = Len(rx) /\ late' = late) \/ late' = late + 1
    BY DEF Arrive
  <1> DEFINE Counted == /\ late' \in Nat /\ Failures' \in Nat /\ Failures' >= Failures
                        /\ k < Len(rx) => Failures' = Failures + 1
  <1>5. ASSUME k = Len(rx) /\ late' = late PROVE Counted
    <2>1. Failures' = Failures /\ Failures \in Nat
      BY <1>3, <1>5 DEF Failures
    <2> QED
      BY <1>3, <1>5, <2>1
  <1>6. ASSUME late' = late + 1 PROVE Counted
    <2>1. Failures' = Failures + 1 /\ Failures \in Nat
      BY <1>3, <1>6 DEF Failures
    <2> QED
      BY <1>3, <1>6, <2>1
  <1>7. Counted
    BY <1>4, <1>5, <1>6
  <1>8. echo' \in BOOLEAN /\ (echo' => echo)
    BY <1>2 DEF Types
  <1> QED
    BY <1>1, <1>2, <1>3, <1>7, <1>8 DEF Mild, Dropped

\* recv() of a line takes it and those before it.
LEMMA RecvShape ==
    ASSUME Types, NEW line, Recv(line)
    PROVE  /\ Mild /\ echo' = echo /\ faults' = faults /\ late' = late
           /\ \E k \in 1 .. Len(rx) : Dropped(k) /\ rx[k] = line
  <1> DEFINE k == First(line)
  <1>1. k \in 1 .. Len(rx) /\ rx[k] = line
    BY FirstIs DEF Recv, Types
  <1>2. Dropped(k)
    <2>1. rx' = SubSeq(rx, k + 1, Len(rx))
      BY DEF Recv
    <2> HIDE DEF k
    <2>2. k \in 0 .. Len(rx) /\ rx \in Seq(Word)
      BY <1>1 DEF Types
    <2> QED
      BY <2>1, <2>2, DropShape
  <1>3. echo' = echo /\ faults' = faults /\ late' = late
    BY DEF Recv, modem, history
  <1>4. Mild
    <2>1. faults' \in Nat /\ late' \in Nat /\ Failures' \in Nat /\ Failures' >= Failures
      BY <1>3 DEF Failures, Types
    <2>2. echo' \in BOOLEAN /\ (echo' => echo)
      BY <1>3 DEF Types
    <2> QED
      BY <1>2, <2>1, <2>2 DEF Mild, Dropped
  <1> QED
    BY <1>1, <1>2, <1>3, <1>4

\* recv() that finds the line missing, or too late.
LEMMA RecvFailsShape ==
    ASSUME Types, NEW line, RecvFails(line)
    PROVE  /\ Mild /\ echo' = echo
           /\ \E k \in 0 .. Len(rx) : Dropped(k)
           /\ line \in Got => Failures' = Failures + 1
  <1>1. PICK k \in 0 .. Len(rx) : Arrive(k) /\ \A n \in 1 .. k : rx[n] # line
    BY DEF RecvFails
  <1>2. /\ Dropped(k) /\ Mild /\ echo' = echo
        /\ k < Len(rx) => Failures' = Failures + 1
    BY <1>1, ArriveShape
  <1>3. line \in Got => k < Len(rx)
    BY <1>1 DEF Got, Types
  <1> QED
    BY <1>2, <1>3

\* Reading until a timeout is mild.
LEMMA ReadMild ==
    ASSUME Types, NEW lines, Read(lines)
    PROVE  Mild
  BY ArriveShape DEF Read

\* flush() is mild.
LEMMA FlushMild ==
    ASSUME Types, NEW line, Flush(line)
    PROVE  Mild /\ echo' = echo
  <1>1. First(line) \in 1 .. Len(rx)
    BY FirstIs DEF Flush, Types
  <1>2. PICK k \in First(line) .. Len(rx) : Arrive(k)
    BY DEF Flush
  <1>3. k \in 0 .. Len(rx)
    BY <1>1 DEF Types
  <1> QED
    BY <1>2, <1>3, ArriveShape

\* Lines, no RDY among them.
Plain(lines) == lines \in Seq(Word) /\ \A n \in 1 .. Len(lines) : lines[n] # "RDY"

\* The answers to commands are no RDY.
LEMMA ReplyShape ==
    ASSUME NEW lines \in Replies
    PROVE  Plain(lines)
  <1>1. ASSUME NEW a \in Word, a # "RDY"
        PROVE  Plain(<<a>>)
    BY <1>1 DEF Plain
  <1>2. ASSUME NEW a \in Word, a # "RDY", NEW b \in Word, b # "RDY"
        PROVE  Plain(<<a, b>>)
    BY <1>2 DEF Plain
  <1>3. /\ "OK" \in Word /\ "OK" # "RDY" /\ "ERROR" \in Word /\ "ERROR" # "RDY"
        /\ "position" \in Word /\ "position" # "RDY" /\ "IMEI" \in Word /\ "IMEI" # "RDY"
        /\ "POWERED_DOWN" \in Word /\ "POWERED_DOWN" # "RDY"
    BY DEF Word
  <1>4. Plain(<<"OK">>) /\ Plain(<<"ERROR">>)
    BY <1>1, <1>3
  <1>5. /\ Plain(<<"position", "OK">>) /\ Plain(<<"IMEI", "OK">>)
        /\ Plain(<<"OK", "POWERED_DOWN">>)
    BY <1>2, <1>3
  <1>6. ASSUME NEW t \in Technologies \cup {"none"}
        PROVE  Plain(<<t, "OK">>)
    <2>1. t \in Word /\ t # "RDY"
      BY DEF Word, Technologies
    <2> QED
      BY <1>2, <1>3, <2>1
  <1> QED
    BY <1>4, <1>5, <1>6 DEF Replies

\* No command switches the echo on.
LEMMA AcceptsEcho ==
    ASSUME NEW command, NEW lines, Accepts(command, lines)
    PROVE  echo' = FALSE \/ echo' = echo
  BY DEF Accepts, modem

\* More lines, no RDY among them.
Added(lines) == Plain(lines) /\ rx' = rx \o lines

\* A refusal adds a line.
LEMMA OneAdded ==
    ASSUME rx \in Seq(Word), NEW line \in Word, line # "RDY", rx' = Append(rx, line)
    PROVE  Added(<<line>>)
  <1>1. Plain(<<line>>)
    BY DEF Plain
  <1>2. Append(rx, line) = rx \o <<line>>
    OBVIOUS
  <1> QED
    BY <1>1, <1>2 DEF Added

\* A command adds the lines of its answer.
LEMMA SendAdds ==
    ASSUME Types, NEW command, Send(command)
    PROVE  \E lines : Added(lines)
  <1>1. CASE \E lines \in Replies : rx' = rx \o lines
    BY <1>1, ReplyShape DEF Added
  <1>2. CASE UNCHANGED rx
    <2>1. Plain(<<>>) /\ rx = rx \o <<>>
      BY DEF Plain, Types
    <2>2. Added(<<>>)
      BY <1>2, <2>1 DEF Added
    <2> QED
      BY <2>2
  <1>3. CASE rx' = Append(rx, "ERROR")
    <2>1. Added(<<"ERROR">>)
      BY <1>3, OneAdded DEF Types, Word
    <2> QED
      BY <2>1
  <1> QED
    BY <1>1, <1>2, <1>3 DEF Send

\* A command is mild, and fails at most once.
LEMMA SendShape ==
    ASSUME Types, NEW command, Send(command)
    PROVE  /\ Mild /\ (\E lines : Added(lines))
           /\ Failures' = Failures \/ Failures' = Failures + 1
  <1>1. \E lines : Added(lines)
    BY SendAdds
  <1>2. rx' \in Seq(Word)
    BY <1>1 DEF Added, Plain, Types
  <1>3. echo' \in BOOLEAN /\ (echo' => echo)
    <2>1. echo' = FALSE \/ echo' = echo
      BY AcceptsEcho DEF Send, modem
    <2>2. CASE echo' = FALSE
      BY <2>2
    <2>3. CASE echo' = echo
      BY <2>3 DEF Types
    <2> QED
      BY <2>1, <2>2, <2>3
  <1>4. faults \in Nat /\ late \in Nat /\ late' = late
    BY DEF Send, Types
  <1>5. CASE faults' = faults
    <2>1. Failures' = Failures /\ Failures \in Nat
      BY <1>4, <1>5 DEF Failures
    <2> QED
      BY <1>1, <1>2, <1>3, <1>4, <1>5, <2>1 DEF Mild
  <1>6. CASE faults' = faults + 1
    <2>1. Failures' = Failures + 1 /\ Failures \in Nat
      BY <1>4, <1>6 DEF Failures
    <2>2. faults' \in Nat
      BY <1>4, <1>6
    <2> QED
      BY <1>1, <1>2, <1>3, <1>4, <2>1, <2>2 DEF Mild
  <1> QED
    BY <1>5, <1>6 DEF Send, Works, Fails

\* What was received stays when lines are added.
LEMMA SentStays ==
    ASSUME Types, NEW lines, Added(lines)
    PROVE  /\ \A line : line \in Got => line \in Got'
           /\ \A line : line \in Got' =>
                 line \in Got \/ \E n \in 1 .. Len(lines) : lines[n] = line
  BY DEF Types, Added, Got

\* A start-up command that meets no failure is answered with OK, and ATE0
\* switches the echo off.
LEMMA SendAnswered ==
    ASSUME Types, NEW command, Send(command), command \in {"ATE0", "CFUN=0"}
    PROVE  /\ Failures' = Failures => "OK" \in Got'
           /\ command = "ATE0" /\ echo' => ("OK" \in Got' => "OK" \in Got)
  <1>1. \A lines : Accepts(command, lines) =>
           lines = <<"OK">> /\ (command = "ATE0" => echo' = FALSE)
    BY DEF Accepts
  <1>2. faults \in Nat /\ late \in Nat /\ late' = late
    BY DEF Send, Types
  <1>3. CASE rx' = rx \o <<"OK">> /\ faults' = faults /\ (command = "ATE0" => echo' = FALSE)
    <2> DEFINE s == rx \o <<"OK">>
    <2>1. Len(s) = Len(rx) + 1 /\ s[Len(rx) + 1] = "OK" /\ Len(rx) \in Nat
      BY DEF Types
    <2>2. Len(rx) + 1 \in DOMAIN s
      BY <2>1
    <2> HIDE DEF s
    <2>3. rx' = s
      BY <1>3 DEF s
    <2>4. "OK" \in Got'
      BY <2>1, <2>2, <2>3 DEF Got
    <2> QED
      BY <1>3, <2>4
  <1>4. CASE faults' = faults + 1 /\ (rx' = rx \/ rx' = Append(rx, "ERROR"))
    <2>1. Failures' = Failures + 1 /\ Failures \in Nat
      BY <1>2, <1>4 DEF Failures
    <2>2. "OK" \in Got' => "OK" \in Got
      BY <1>4 DEF Got, Types
    <2> QED
      BY <2>1, <2>2
  <1> QED
    BY <1>1, <1>3, <1>4 DEF Send, Works, Fails

\* What was not there, or not after RDY, is not when lines are dropped.
LEMMA DropStays ==
    ASSUME Types, NEW k, Dropped(k)
    PROVE  /\ \A line : line \in Got' => line \in Got
           /\ \A line : NoneAfterRdy(line) => NoneAfterRdy(line)'
  <1>1. /\ k \in 0 .. Len(rx) /\ Len(rx) \in Nat /\ DOMAIN rx = 1 .. Len(rx)
        /\ DOMAIN rx' = 1 .. Len(rx) - k
        /\ \A n \in 1 .. Len(rx) - k : rx'[n] = rx[n + k]
    BY DEF Types, Dropped
  <1>2. \A n \in DOMAIN rx' : n + k \in DOMAIN rx /\ rx'[n] = rx[n + k]
    BY <1>1
  <1>3. ASSUME NEW line, line \in Got'
        PROVE  line \in Got
    <2>1. PICK n \in DOMAIN rx' : rx'[n] = line
      BY <1>3 DEF Got
    <2> QED
      BY <1>2, <2>1 DEF Got
  <1>4. ASSUME NEW line, NoneAfterRdy(line), NEW m \in DOMAIN rx', NEW n \in DOMAIN rx',
               rx'[m] = "RDY", m < n
        PROVE  rx'[n] # line
    <2>1. m + k < n + k
      BY <1>1, <1>4
    <2> QED
      BY <1>2, <1>4, <2>1 DEF NoneAfterRdy
  <1> QED
    BY <1>3, <1>4 DEF NoneAfterRdy

\* After RDY is found, what never follows it is gone.
LEMMA DropToRdy ==
    ASSUME Types, NEW k, Dropped(k), k # 0, rx[k] = "RDY"
    PROVE  \A line : NoneAfterRdy(line) => line \notin Got'
  <1>1. /\ k \in 1 .. Len(rx) /\ Len(rx) \in Nat /\ DOMAIN rx = 1 .. Len(rx)
        /\ DOMAIN rx' = 1 .. Len(rx) - k
        /\ \A n \in 1 .. Len(rx) - k : rx'[n] = rx[n + k]
    BY DEF Types, Dropped
  <1>2. ASSUME NEW line, NoneAfterRdy(line), NEW n \in DOMAIN rx'
        PROVE  rx'[n] # line
    <2>1. n + k \in DOMAIN rx /\ rx'[n] = rx[n + k] /\ k \in DOMAIN rx /\ k < n + k
      BY <1>1
    <2> QED
      BY <1>2, <2>1 DEF NoneAfterRdy
  <1> QED
    BY <1>2 DEF Got

------------------------------------------------------------------------------

(***************************************************************************)
(* The start-up                                                             *)
(***************************************************************************)

\* Failures are counted by numbers.
LEMMA Counts ==
    ASSUME Types
    PROVE  Failures \in Nat /\ Allowed \in {0, 1}
  BY DEF Types, Failures, Allowed

\* One more failure is too many.
LEMMA OneMore ==
    ASSUME Types, FailuresCounted, pc \in Starting, Failures' = Failures + 1
    PROVE  ~ (Failures' <= Allowed)
  <1>1. Failures \in Nat /\ Allowed \in {0, 1}
    BY Counts
  <1>2. max_attemps < 3 => Failures > 0
    BY DEF FailuresCounted
  <1>3. max_attemps \in Int
    BY AttemptAssumption DEF Types
  <1>4. Failures + 1 > Allowed
    BY <1>1, <1>2, <1>3 DEF Allowed
  <1> QED
    BY <1>1, <1>4

\* And too many they stay.
LEMMA StillMore ==
    ASSUME Types, Mild, ~ (Failures <= Allowed)
    PROVE  ~ (Failures' <= Allowed)
  BY Counts DEF Mild

\* A step ends an attempt only after too many failures, and without them waits
\* for a line that is there.
FailsLate == pc' = "failed" => Failures > Allowed
ExpectsRight == Failures' <= Allowed => Expected'

\* A step within an attempt.
LEMMA AttemptStep ==
    ASSUME IInv, Mild, pc \in Starting, pc' \in Starting, UNCHANGED <<max_attemps, mac>>,
           EchoKnown',
           FailsLate, ExpectsRight
    PROVE  IInv'
  <1>1. Types'
    BY DEF IInv, Types, Mild
  <1>2. Phases'
    <2>1. mac = "none" /\ pc' # "wakeup" /\ pc' \notin Identity
      BY DEF IInv, Phases, Starting, Identity
    <2> QED
      BY <2>1 DEF Phases
  <1>3. FailuresCounted'
    <2>1. Allowed' = Allowed /\ max_attemps' = max_attemps
      BY DEF Allowed
    <2>2. Failures \in Nat /\ Failures' >= Failures /\ Allowed \in {0, 1} /\ Failures' \in Nat
      BY Counts DEF IInv, Mild
    <2>3. max_attemps < 3 => Failures > 0
      BY DEF IInv, FailuresCounted
    <2>4. ASSUME pc' = "failed" \/ max_attemps \notin {2, MaxStartups - 1}
          PROVE  Failures > Allowed
      <3>1. CASE pc' = "failed"
        BY <3>1 DEF FailsLate
      <3>2. CASE max_attemps \notin {2, MaxStartups - 1}
        BY <3>2 DEF IInv, FailuresCounted
      <3> QED
        BY <2>4, <3>1, <3>2
    <2>5. max_attemps' < 3 => Failures' > 0
      <3>1. max_attemps \in Int
        BY AttemptAssumption DEF IInv, Types
      <3> QED
        BY <2>1, <2>2, <2>3, <3>1
    <2>6. pc' = "failed" \/ max_attemps' \notin {2, MaxStartups - 1} => Failures' > Allowed'
      BY <2>1, <2>2, <2>4
    <2> QED
      BY <2>1, <2>5, <2>6 DEF FailuresCounted, ExpectsRight
  <1> QED
    BY <1>1, <1>2, <1>3 DEF IInv

\* RDY has come: on to ATE0.
LEMMA ReadyInv ==
    ASSUME IInv, Ready
    PROVE  IInv'
  <1>1. pc = "RDY" /\ Recv("RDY") /\ pc' = "ATE0" /\ UNCHANGED <<max_attemps, mac>>
    BY DEF Ready, Awaited, Goto
  <1>2. /\ Mild /\ echo' = echo
        /\ \E k \in 1 .. Len(rx) : Dropped(k) /\ rx[k] = "RDY"
    BY <1>1, RecvShape DEF IInv
  <1>3. PICK k \in 1 .. Len(rx) : Dropped(k) /\ rx[k] = "RDY"
    BY <1>2
  <1>4. \A line : NoneAfterRdy(line) => line \notin Got'
    <2>1. k # 0
      BY <1>3
    <2> QED
      BY <1>3, <2>1, DropToRdy DEF IInv
  <1>5. EchoKnown'
    <2>1. /\ echo \/ max_attemps >= 3 => NoneAfterRdy("OK")
          /\ max_attemps >= 3 => NoneAfterRdy("RDY")
      BY <1>1 DEF IInv, EchoKnown
    <2> QED
      BY <1>1, <1>2, <1>4, <2>1 DEF EchoKnown
  <1>6. FailsLate /\ ExpectsRight
    BY <1>1 DEF FailsLate, ExpectsRight, Expected
  <1> QED
    BY <1>1, <1>2, <1>5, <1>6, AttemptStep DEF Starting

\* The wait for RDY ends without it only when it is not the first of the waits.
LEMMA NotReadyInv ==
    ASSUME IInv, NotReady
    PROVE  IInv'
  <1>1. /\ pc = "RDY" /\ i = 1 /\ RecvFails("RDY") /\ pc' = "failed"
        /\ UNCHANGED <<max_attemps, mac>>
    BY DEF NotReady, Goto
  <1>2. /\ Mild /\ echo' = echo
        /\ \E k \in 0 .. Len(rx) : Dropped(k)
    BY <1>1, RecvFailsShape DEF IInv
  <1>3. EchoKnown'
    <2>1. /\ echo \/ max_attemps >= 3 => NoneAfterRdy("OK")
          /\ max_attemps >= 3 => NoneAfterRdy("RDY")
      BY <1>1 DEF IInv, EchoKnown
    <2>2. \A line : NoneAfterRdy(line) => NoneAfterRdy(line)'
      BY <1>2, DropStays DEF IInv
    <2> QED
      BY <1>1, <1>2, <2>1, <2>2 DEF EchoKnown
  <1>4. FailsLate
    <2>1. i # MAX_ATTEMPTS
      BY <1>1, AttemptAssumption
    <2>2. ~ Expected
      BY <1>1, <2>1 DEF Expected
    <2>3. ~ (Failures <= Allowed)
      BY <1>1, <2>2 DEF IInv, FailuresCounted, Starting
    <2> QED
      BY <2>3, Counts DEF FailsLate, IInv
  <1>5. ExpectsRight
    BY <1>1 DEF ExpectsRight, Expected
  <1> QED
    BY <1>1, <1>2, <1>3, <1>4, <1>5, AttemptStep DEF Starting

\* What a command of the start-up does to the answer it waits for.
LEMMA SendExpects ==
    ASSUME IInv, pc \in Starting, NEW command \in {"ATE0", "CFUN=0"}, Send(command),
           pc' \in {"ATE0_OK", "CFUN_OK"}, i' = MAX_ATTEMPTS
    PROVE  ExpectsRight
  <1>1. CASE Failures' = Failures
    <2>1. "OK" \in Got'
      BY <1>1, SendAnswered DEF IInv
    <2> QED
      BY <2>1 DEF ExpectsRight, Expected
  <1>2. CASE Failures' = Failures + 1
    <2>1. ~ (Failures' <= Allowed)
      BY <1>2, OneMore DEF IInv
    <2> QED
      BY <2>1 DEF ExpectsRight
  <1> QED
    BY <1>1, <1>2, SendShape DEF IInv

\* ATE0 is sent.
LEMMA SendEchoInv ==
    ASSUME IInv, SendEcho
    PROVE  IInv'
  <1>1. /\ pc = "ATE0" /\ Send("ATE0") /\ pc' = "ATE0_OK" /\ i' = MAX_ATTEMPTS
        /\ UNCHANGED <<max_attemps, mac>>
    BY DEF SendEcho, Command, Goto
  <1>2. Mild /\ \E lines : Added(lines)
    BY <1>1, SendShape DEF IInv
  <1>3. EchoKnown'
    <2>1. echo' => "OK" \notin Got'
      <3>1. echo => "OK" \notin Got
        BY <1>1 DEF IInv, EchoKnown
      <3>2. echo' => echo
        BY <1>2 DEF Mild
      <3>3. echo' => ("OK" \in Got' => "OK" \in Got)
        BY <1>1, SendAnswered DEF IInv
      <3> QED
        BY <3>1, <3>2, <3>3, Zenon
    <2>2. max_attemps >= 3 => "RDY" \notin Got'
      <3>1. max_attemps >= 3 => "RDY" \notin Got
        BY <1>1 DEF IInv, EchoKnown
      <3>2. "RDY" \in Got' => "RDY" \in Got
        BY <1>2, SentStays DEF Added, Plain, IInv
      <3> QED
        BY <3>1, <3>2
    <2> QED
      BY <1>1, <2>1, <2>2 DEF EchoKnown
  <1>4. FailsLate
    BY <1>1 DEF FailsLate
  <1>5. ExpectsRight
    BY <1>1, SendExpects DEF Starting
  <1> QED
    BY <1>1, <1>2, <1>3, <1>4, <1>5, AttemptStep DEF Starting

\* ATE0 is answered.
LEMMA EchoOKInv ==
    ASSUME IInv, EchoOK
    PROVE  IInv'
  <1>1. /\ pc = "ATE0_OK" /\ Recv("OK") /\ pc' = "CFUN"
        /\ UNCHANGED <<max_attemps, mac>>
    BY DEF EchoOK, Goto
  <1>2. /\ Mild /\ echo' = echo
        /\ \E k \in 1 .. Len(rx) : Dropped(k) /\ rx[k] = "OK"
    BY <1>1, RecvShape DEF IInv
  <1>3. PICK k \in 1 .. Len(rx) : Dropped(k)
    BY <1>2
  <1>4. EchoKnown'
    <2>1. ~ echo'
      <3>1. echo => "OK" \notin Got
        BY <1>1 DEF IInv, EchoKnown
      <3>2. "OK" \in Got
        BY <1>1 DEF Recv
      <3> QED
        BY <1>2, <3>1, <3>2, Zenon
    <2>2. max_attemps >= 3 => "RDY" \notin Got'
      <3>1. max_attemps >= 3 => "RDY" \notin Got
        BY <1>1 DEF IInv, EchoKnown
      <3>2. "RDY" \in Got' => "RDY" \in Got
        BY <1>3, DropStays DEF IInv
      <3> QED
        BY <3>1, <3>2
    <2> QED
      BY <1>1, <2>1, <2>2 DEF EchoKnown
  <1>5. FailsLate /\ ExpectsRight
    BY <1>1 DEF FailsLate, ExpectsRight, Expected
  <1> QED
    BY <1>1, <1>2, <1>4, <1>5, AttemptStep DEF Starting

\* CFUN=0 is sent.
LEMMA SendRadioOffInv ==
    ASSUME IInv, SendRadioOff
    PROVE  IInv'
  <1>1. /\ pc = "CFUN" /\ Send("CFUN=0") /\ pc' = "CFUN_OK" /\ i' = MAX_ATTEMPTS
        /\ UNCHANGED <<max_attemps, mac>>
    BY DEF SendRadioOff, Command, Goto
  <1>2. Mild /\ \E lines : Added(lines)
    BY <1>1, SendShape DEF IInv
  <1>3. EchoKnown'
    <2>1. ~ echo'
      <3>1. ~ echo
        BY <1>1 DEF IInv, EchoKnown
      <3> QED
        BY <1>2, <3>1, Zenon DEF Mild
    <2>2. max_attemps >= 3 => "RDY" \notin Got'
      <3>1. max_attemps >= 3 => "RDY" \notin Got
        BY <1>1 DEF IInv, EchoKnown
      <3>2. "RDY" \in Got' => "RDY" \in Got
        BY <1>2, SentStays DEF Added, Plain, IInv
      <3> QED
        BY <3>1, <3>2
    <2> QED
      BY <1>1, <2>1, <2>2 DEF EchoKnown
  <1>4. FailsLate
    BY <1>1 DEF FailsLate
  <1>5. ExpectsRight
    BY <1>1, SendExpects DEF Starting
  <1> QED
    BY <1>1, <1>2, <1>3, <1>4, <1>5, AttemptStep DEF Starting

\* An OK that the last of the attempts does not count, or none.
LEMMA LastAttemptInv ==
    ASSUME IInv, LastAttempt
    PROVE  IInv'
  <1>1. /\ pc \in {"ATE0_OK", "CFUN_OK"} /\ i = 1 /\ pc' = "failed"
        /\ Recv("OK") \/ RecvFails("OK")
        /\ UNCHANGED <<max_attemps, mac>>
    BY DEF LastAttempt, Goto
  <1>2. /\ Mild /\ echo' = echo
        /\ \E k \in 0 .. Len(rx) : Dropped(k)
    <2>1. CASE Recv("OK")
      BY <2>1, RecvShape DEF IInv, Dropped
    <2>2. CASE RecvFails("OK")
      BY <2>2, RecvFailsShape DEF IInv
    <2> QED
      BY <1>1, <2>1, <2>2
  <1>3. EchoKnown'
    <2>1. \A line : line \in Got' => line \in Got
      BY <1>2, DropStays DEF IInv
    <2>2. \A line : line \notin Got => NoneAfterRdy(line)'
      BY <2>1 DEF NoneAfterRdy, Got
    <2>3. "RDY" \notin Got => \A line : NoneAfterRdy(line)'
      BY <2>1 DEF NoneAfterRdy, Got
    <2>4. /\ pc = "CFUN_OK" => ~ echo
          /\ pc = "ATE0_OK" /\ echo => "OK" \notin Got
          /\ max_attemps >= 3 => "RDY" \notin Got
      BY <1>1 DEF IInv, EchoKnown
    <2> QED
      BY <1>1, <1>2, <2>2, <2>3, <2>4, Zenon DEF EchoKnown
  <1>4. FailsLate
    <2>1. i # MAX_ATTEMPTS
      BY <1>1, AttemptAssumption
    <2>2. ~ Expected
      BY <1>1, <2>1 DEF Expected
    <2>3. ~ (Failures <= Allowed)
      BY <1>1, <2>2 DEF IInv, FailuresCounted, Starting
    <2> QED
      BY <2>3, Counts DEF FailsLate, IInv
  <1>5. ExpectsRight
    BY <1>1 DEF ExpectsRight, Expected
  <1> QED
    BY <1>1, <1>2, <1>3, <1>4, <1>5, AttemptStep DEF Starting

\* A wait that goes on: a line that is there comes late.
LEMMA WaitOnShape ==
    ASSUME Types, NEW label, NEW line, WaitOn(label, line)
    PROVE  /\ Mild /\ echo' = echo /\ \E k \in 0 .. Len(rx) : Dropped(k)
           /\ line \in Got => Failures' = Failures + 1
           /\ pc = label /\ pc' = label /\ UNCHANGED <<max_attemps, mac>>
  <1>1. CASE line \in Got
    <2>1. First(line) \in 1 .. Len(rx) /\ Len(rx) \in Nat
      BY <1>1, FirstIs DEF Types
    <2>2. First(line) - 1 \in 0 .. Len(rx) /\ First(line) - 1 < Len(rx)
      BY <2>1
    <2>3. Arrive(First(line) - 1)
      BY <1>1 DEF WaitOn
    <2> DEFINE k == First(line) - 1
    <2>4. k \in 0 .. Len(rx) /\ k < Len(rx) /\ Arrive(k)
      BY <2>2, <2>3
    <2> HIDE DEF k
    <2>5. /\ Dropped(k) /\ Mild /\ echo' = echo
          /\ Failures' = Failures + 1
      BY <2>4, ArriveShape
    <2> QED
      BY <1>1, <2>4, <2>5 DEF WaitOn, Goto
  <1>2. CASE line \notin Got
    <2>1. Len(rx) \in 0 .. Len(rx)
      BY DEF Types
    <2>2. Arrive(Len(rx))
      BY <1>2 DEF WaitOn
    <2>3. Dropped(Len(rx)) /\ Mild /\ echo' = echo
      BY <2>1, <2>2, ArriveShape
    <2> QED
      BY <1>2, <2>1, <2>3 DEF WaitOn, Goto
  <1> QED
    BY <1>1, <1>2

\* One more turn of a loop that waits for a line.
LEMMA WaitOnInv ==
    ASSUME IInv, NEW label, NEW line, WaitOn(label, line),
           \/ label = "RDY" /\ line = "RDY"
           \/ label \in {"ATE0_OK", "CFUN_OK"} /\ line = "OK"
    PROVE  IInv'
  <1>1. /\ Mild /\ echo' = echo /\ \E k \in 0 .. Len(rx) : Dropped(k)
        /\ line \in Got => Failures' = Failures + 1
        /\ pc = label /\ pc' = label /\ UNCHANGED <<max_attemps, mac>>
    BY WaitOnShape DEF IInv
  <1>2. label \in Starting /\ label # "failed"
    BY DEF Starting
  <1>3. EchoKnown'
    <2>1. \A l : l \in Got' => l \in Got
      BY <1>1, DropStays DEF IInv
    <2>2. \A l : NoneAfterRdy(l) => NoneAfterRdy(l)'
      BY <1>1, DropStays DEF IInv
    <2>3. EchoKnown
      BY DEF IInv
    <2> QED
      BY <1>1, <2>1, <2>2, <2>3, Zenon DEF EchoKnown
  <1>4. FailsLate
    BY <1>1, <1>2 DEF FailsLate
  <1>5. ExpectsRight
    <2>1. CASE line \in Got
      <3>1. ~ (Failures' <= Allowed)
        BY <1>1, <1>2, <2>1, OneMore DEF IInv
      <3> QED
        BY <3>1 DEF ExpectsRight
    <2>2. CASE line \notin Got
      <3>1. ~ Expected
        BY <1>1, <2>2 DEF Expected
      <3>2. ~ (Failures <= Allowed)
        BY <1>1, <1>2, <3>1 DEF IInv, FailuresCounted
      <3>3. ~ (Failures' <= Allowed)
        BY <1>1, <3>2, StillMore DEF IInv
      <3> QED
        BY <3>3 DEF ExpectsRight
    <2> QED
      BY <2>1, <2>2
  <1> QED
    BY <1>1, <1>2, <1>3, <1>4, <1>5, AttemptStep

\* The modem says RDY: with what it had to say before, or instead.
LEMMA RdyAdded ==
    ASSUME NEW s \in Seq(Word), rx' = Append(s, "RDY")
    PROVE  /\ rx' \in Seq(Word) /\ "RDY" \in Got'
           /\ s = <<>> => \A line : NoneAfterRdy(line)'
           /\ s = rx /\ NoneAfterRdy("OK") => NoneAfterRdy("OK")'
  <1>1. "RDY" \in Word
    BY DEF Word
  <1> DEFINE t == Append(s, "RDY")
  <1>2. /\ t \in Seq(Word) /\ Len(t) = Len(s) + 1 /\ Len(s) \in Nat
        /\ t[Len(s) + 1] = "RDY" /\ \A n \in 1 .. Len(s) : t[n] = s[n]
        /\ DOMAIN t = 1 .. Len(t) /\ DOMAIN s = 1 .. Len(s)
    BY <1>1, AppendProperties
  <1> HIDE DEF t
  <1>3. rx' = t
    BY DEF t
  <1>4. Len(s) + 1 \in DOMAIN t
    BY <1>2
  <1>5. "RDY" \in Got'
    BY <1>2, <1>3, <1>4 DEF Got
  <1>6. ASSUME s = <<>>, NEW line
        PROVE  NoneAfterRdy(line)'
    <2>1. Len(t) = 1
      BY <1>2, <1>6
    <2>2. \A m, n \in DOMAIN t : ~ (m < n)
      BY <1>2, <2>1
    <2> QED
      BY <1>3, <2>2 DEF NoneAfterRdy
  <1>7. ASSUME s = rx, NoneAfterRdy("OK")
        PROVE  NoneAfterRdy("OK")'
    <2>1. ASSUME NEW m \in DOMAIN t, NEW n \in DOMAIN t, t[m] = "RDY", m < n
          PROVE  t[n] # "OK"
      <3>1. CASE n = Len(s) + 1
        BY <1>2, <3>1
      <3>2. CASE n \in 1 .. Len(s)
        <4>1. m \in 1 .. Len(s)
          BY <1>2, <2>1, <3>2
        <4>2. s[m] = "RDY" /\ t[n] = s[n] /\ m \in DOMAIN s /\ n \in DOMAIN s
          BY <1>2, <2>1, <3>2, <4>1
        <4> QED
          BY <1>7, <2>1, <4>2 DEF NoneAfterRdy
      <3> QED
        BY <1>2, <3>1, <3>2
    <2> QED
      BY <1>3, <2>1 DEF NoneAfterRdy
  <1> QED
    BY <1>2, <1>3, <1>5, <1>6, <1>7

\* A reset: the modem says RDY, or a failure is counted.
LEMMA PowerCycleShape ==
    ASSUME Types, PowerCycle
    PROVE  /\ rx' \in Seq(Word) /\ echo' \in BOOLEAN /\ faults' \in Nat /\ late' \in Nat
           /\ \/ Failures' = Failures /\ "RDY" \in Got'
              \/ Failures' = Failures + 1
           /\ NoneAfterRdy("OK") => NoneAfterRdy("OK")'
           /\ rx = <<>> => \A line : NoneAfterRdy(line)'
  <1>1. PICK sent \in {<<>>, rx} : \/ rx' = Append(sent, "RDY") /\ Works
                                   \/ rx' = sent /\ Fails
    BY DEF PowerCycle
  <1>2. sent \in Seq(Word) /\ (rx = <<>> => sent = <<>>)
    <2>1. <<>> \in Seq(Word)
      OBVIOUS
    <2>2. rx \in Seq(Word)
      BY DEF Types
    <2> QED
      BY <2>1, <2>2, Zenon
  <1>3. echo' = TRUE /\ late' = late /\ faults \in Nat /\ late \in Nat
    BY DEF PowerCycle, Types
  <1>4. CASE rx' = Append(sent, "RDY") /\ Works
    <2>1. faults' = faults
      BY <1>4 DEF Works
    <2>2. Failures' = Failures
      BY <1>3, <2>1 DEF Failures
    <2>3. /\ rx' \in Seq(Word) /\ "RDY" \in Got'
          /\ sent = <<>> => \A line : NoneAfterRdy(line)'
          /\ sent = rx /\ NoneAfterRdy("OK") => NoneAfterRdy("OK")'
      BY <1>2, <1>4, RdyAdded
    <2>4. echo' \in BOOLEAN /\ faults' \in Nat /\ late' \in Nat
      BY <1>3, <2>1
    <2> QED
      BY <1>1, <1>2, <2>2, <2>3, <2>4
  <1>5. CASE rx' = sent /\ Fails
    <2>1. faults' = faults + 1
      BY <1>5 DEF Fails
    <2>2. Failures' = Failures + 1
      BY <1>3, <2>1 DEF Failures
    <2>3. sent = <<>> => \A line : NoneAfterRdy(line)'
      BY <1>5 DEF NoneAfterRdy
    <2>4. sent = rx /\ NoneAfterRdy("OK") => NoneAfterRdy("OK")'
      BY <1>5 DEF NoneAfterRdy
    <2>5. echo' \in BOOLEAN /\ faults' \in Nat /\ late' \in Nat
      BY <1>3, <2>1
    <2> QED
      BY <1>1, <1>2, <1>5, <2>2, <2>3, <2>4, <2>5
  <1> QED
    BY <1>1, <1>4, <1>5

\* The first power cycle.
LEMMA WakeUpInv ==
    ASSUME EnoughStartups, IInv, WakeUp
    PROVE  IInv'
  <1>1. /\ pc = "wakeup" /\ PowerCycle /\ pc' = "RDY" /\ i' = MAX_ATTEMPTS
        /\ max_attemps' = MaxStartups - 1 /\ mac' = mac
    BY DEF WakeUp
  <1>2. rx = <<>> /\ mac = "none"
    BY <1>1 DEF IInv, Phases
  <1>3. /\ rx' \in Seq(Word) /\ echo' \in BOOLEAN /\ faults' \in Nat /\ late' \in Nat
        /\ \/ Failures' = Failures /\ "RDY" \in Got'
           \/ Failures' = Failures + 1
        /\ \A line : NoneAfterRdy(line)'
    BY <1>1, <1>2, PowerCycleShape DEF IInv
  <1>4. max_attemps' \in 0 .. MaxStartups - 1 /\ max_attemps' >= 3
    BY <1>1, AttemptAssumption DEF EnoughStartups
  <1>5. Types'
    BY <1>3, <1>4 DEF Types
  <1>6. Phases'
    BY <1>1, <1>2 DEF Phases, Starting, Identity
  <1>7. EchoKnown'
    BY <1>1, <1>3 DEF EchoKnown
  <1>8. FailuresCounted'
    <2>1. Allowed' = 0 /\ ~ (max_attemps' < 3)
      BY <1>4, <1>1, AttemptAssumption DEF Allowed
    <2>2. Failures \in Nat
      BY Counts DEF IInv
    <2>3. Failures' <= 0 => "RDY" \in Got'
      BY <1>3, <2>2
    <2>4. Failures' <= Allowed' => Expected'
      BY <1>1, <2>1, <2>3 DEF Expected
    <2> QED
      BY <1>1, <2>1, <2>4 DEF FailuresCounted
  <1> QED
    BY <1>5, <1>6, <1>7, <1>8 DEF IInv

\* The attempt that failed, and all before it, had one failure more than they
\* survive.
LEMMA StartupFailedInv ==
    ASSUME EnoughStartups, IInv, StartupFailed
    PROVE  IInv'
  <1>1. pc = "failed" /\ mac' = mac
    BY DEF StartupFailed
  <1>2. mac = "none"
    BY <1>1 DEF IInv, Phases, Starting
  <1>3. max_attemps \in 0 .. MaxStartups - 1 /\ MaxStartups \in Nat
    BY AttemptAssumption DEF IInv, Types
  <1>4. Failures > Allowed /\ Failures \in Nat /\ Allowed \in {0, 1}
    BY <1>1, Counts DEF IInv, FailuresCounted, Starting
  <1>5. CASE max_attemps = 0
    <2>1. UNCHANGED link /\ pc' = "GPSOff" /\ max_attemps' = max_attemps
      BY <1>5 DEF StartupFailed
    <2>2. rx' = rx /\ echo' = echo /\ faults' = faults /\ late' = late
      BY <2>1 DEF link, modem, history
    <2>3. Types'
      BY <2>1, <2>2 DEF IInv, Types
    <2>4. Failures' = Failures
      BY <2>2 DEF Failures
    <2>5. Failures > 1
      BY <1>4, <1>5 DEF Allowed
    <2>6. Failures' > 1
      BY <2>4, <2>5
    <2>7. Phases'
      BY <1>1, <1>2, <2>1, <2>6 DEF Phases, Starting, Identity, Ending
    <2>8. EchoKnown' /\ FailuresCounted'
      BY <2>1 DEF EchoKnown, FailuresCounted, Starting
    <2> QED
      BY <2>3, <2>7, <2>8 DEF IInv
  <1>6. CASE max_attemps = 3
    <2>1. PowerCycle /\ pc' = "RDY" /\ max_attemps' = 2 /\ i' = MAX_ATTEMPTS
      BY <1>6 DEF StartupFailed
    <2>2. NoneAfterRdy("OK") /\ Allowed = 0
      BY <1>1, <1>6 DEF IInv, EchoKnown, Allowed
    <2>3. /\ rx' \in Seq(Word) /\ echo' \in BOOLEAN /\ faults' \in Nat /\ late' \in Nat
          /\ \/ Failures' = Failures /\ "RDY" \in Got'
             \/ Failures' = Failures + 1
          /\ NoneAfterRdy("OK")'
      BY <2>1, <2>2, PowerCycleShape DEF IInv
    <2>4. max_attemps' \in 0 .. MaxStartups - 1
      BY <1>3, <1>6, <2>1
    <2>5. Types'
      BY <2>3, <2>4 DEF Types
    <2>6. Phases'
      BY <1>2, <1>1, <2>1 DEF Phases, Starting, Identity
    <2>7. EchoKnown'
      BY <2>1, <2>3 DEF EchoKnown
    <2>8. FailuresCounted'
      <3>1. Allowed' = 1
        BY <2>1 DEF Allowed
      <3>2. Failures' > 0
        BY <1>4, <2>2, <2>3
      <3>3. Failures' <= 1 => "RDY" \in Got'
        BY <1>4, <2>2, <2>3
      <3>4. Failures' <= Allowed' => Expected'
        BY <2>1, <3>1, <3>3 DEF Expected
      <3> QED
        BY <2>1, <3>2, <3>4 DEF FailuresCounted
    <2> QED
      BY <2>5, <2>6, <2>7, <2>8 DEF IInv
  <1>7. CASE max_attemps \notin {0, 3}
    <2>1. /\ UNCHANGED link /\ pc' = "RDY" /\ max_attemps' = max_attemps - 1
          /\ i' = MAX_ATTEMPTS
      BY <1>7 DEF StartupFailed
    <2>2. rx' = rx /\ echo' = echo /\ faults' = faults /\ late' = late
      BY <2>1 DEF link, modem, history
    <2>3. max_attemps' \in 0 .. MaxStartups - 1
      BY <1>3, <1>7, <2>1
    <2>4. Types'
      BY <2>2, <2>3 DEF IInv, Types
    <2>5. Phases'
      BY <1>2, <1>1, <2>1 DEF Phases, Starting, Identity
    <2>6. max_attemps' >= 3 => max_attemps >= 3
      BY <1>3, <2>1
    <2>7. EchoKnown'
      <3>1. /\ echo \/ max_attemps >= 3 => NoneAfterRdy("OK")
            /\ max_attemps >= 3 => NoneAfterRdy("RDY")
        BY <1>1 DEF IInv, EchoKnown
      <3>2. \A line : NoneAfterRdy(line) => NoneAfterRdy(line)'
        BY <2>2 DEF NoneAfterRdy
      <3> QED
        BY <2>1, <2>2, <2>6, <3>1, <3>2, Zenon DEF EchoKnown
    <2>8. FailuresCounted'
      <3>1. Allowed' = Allowed
        BY <1>3, <1>7, <2>1 DEF Allowed
      <3>2. Failures' = Failures
        BY <2>2 DEF Failures
      <3>3. Failures' > 0 /\ Failures' > Allowed' /\ ~ (Failures' <= Allowed')
        BY <1>4, <3>1, <3>2
      <3> QED
        BY <3>3 DEF FailuresCounted
    <2> QED
      BY <2>4, <2>5, <2>7, <2>8 DEF IInv
  <1> QED
    BY <1>5, <1>6, <1>7

------------------------------------------------------------------------------

(***************************************************************************)
(* After the start-up                                                       *)
(***************************************************************************)

Before == {"wakeup"} \cup Starting \cup Identity

Middle ==
    {"CGSN_OK", "QGPS", "QGPS_OK", "QGPSLOC", "position", "QGPSEND", "QGPSEND_OK",
     "apn", "configure", "configure_OK", "COPS?", "network", "COPS=", "COPS=_OK",
     "QIACT", "QIACT_OK", "QGPSLOC_again", "position_again", "publish"}

\* A step after the startup, which counts attempts no more.
LEMMA LaterStep ==
    ASSUME IInv, Mild, max_attemps' = max_attemps,
           pc' \notin {"wakeup"} \cup Starting,
           mac' # "none" \/ pc' \in Identity => ~ echo,
           pc' \in Identity => mac' = "none",
           pc' \notin Identity => mac' # "none" \/ (pc' \in Ending /\ Failures > 1)
    PROVE  IInv'
  <1>1. Types'
    BY DEF IInv, Types, Mild
  <1>2. echo' => echo
    BY DEF Mild
  <1>3. Failures > 1 => Failures' > 1
    BY Counts DEF IInv, Mild
  <1>4. Phases'
    BY <1>2, <1>3, Zenon DEF Phases
  <1>5. EchoKnown' /\ FailuresCounted'
    BY DEF EchoKnown, FailuresCounted, Starting
  <1> QED
    BY <1>1, <1>4, <1>5 DEF IInv

\* When the identity has been asked for.
MiddleStep ==
    /\ Mild /\ max_attemps' = max_attemps /\ (mac' = mac \/ mac' # "none")
    /\ pc \in Middle /\ pc' \in Middle \cup Ending

\* The end.
EndStep ==
    /\ Mild /\ max_attemps' = max_attemps /\ mac' = mac
    /\ pc \in Ending /\ pc' \in Ending

\* A step between the startup and the end keeps the invariant.
LEMMA MiddleInv ==
    ASSUME IInv, MiddleStep
    PROVE  IInv'
  <1>1. pc \notin Before \cup Ending /\ pc' \notin Before
    BY DEF MiddleStep, Before, Middle, Ending, Starting, Identity
  <1>2. mac # "none" /\ ~ echo
    BY <1>1 DEF IInv, Phases, Before
  <1>3. Mild /\ max_attemps' = max_attemps /\ mac' # "none"
    BY <1>2 DEF MiddleStep
  <1> QED
    BY <1>1, <1>2, <1>3, LaterStep DEF Before

\* A step of the end does.
LEMMA EndInv ==
    ASSUME IInv, EndStep
    PROVE  IInv'
  <1>1. pc \notin Before /\ pc' \notin Before
    BY DEF EndStep, Before, Ending, Starting, Identity
  <1>2. /\ mac # "none" \/ Failures > 1
        /\ mac # "none" => ~ echo
    BY <1>1 DEF IInv, Phases, Before
  <1>3. Mild /\ max_attemps' = max_attemps /\ mac' = mac /\ pc' \in Ending
    BY DEF EndStep
  <1> QED
    BY <1>1, <1>2, <1>3, LaterStep DEF Before

\* A step that leaves the link alone is mild.
LEMMA QuietMild ==
    ASSUME Types, UNCHANGED link
    PROVE  Mild
  <1>1. rx' = rx /\ echo' = echo /\ faults' = faults /\ late' = late
    BY DEF link, modem, history
  <1>2. Failures' = Failures
    BY <1>1 DEF Failures
  <1>3. Failures' \in Nat /\ Failures' >= Failures
    BY <1>2, Counts
  <1> QED
    BY <1>1, <1>3 DEF Mild, Types

MiddleAction ==
    \/ SendGps \/ SendLocation \/ SendGpsOff \/ SendCommand \/ SendCops
    \/ ChooseNetwork \/ Activate \/ SendLocationAgain \/ CgsnOK \/ GpsOn
    \/ NetworkChosen \/ Activated \/ NoMac \/ GpsNotOn \/ CommandFails
    \/ NetworkRefused \/ ActivateAgain \/ GpsOff \/ CommandOK \/ Position
    \/ NetworkRead \/ PositionAgain \/ NextApn \/ Configured \/ Published
    \/ WaitOn("QIACT_OK", "OK")

\* The actions of GPS, configuration, connection and report are such steps.
LEMMA MiddleActions ==
    ASSUME IInv, MiddleAction
    PROVE  MiddleStep
  <1>1. CASE SendGps
    BY <1>1, SendShape
      DEF SendGps, Command, Goto, MiddleStep, Middle, Ending, IInv
  <1>2. CASE SendLocation
    BY <1>2, SendShape
      DEF SendLocation, Command, Goto, MiddleStep, Middle, Ending, IInv
  <1>3. CASE SendGpsOff
    BY <1>3, SendShape
      DEF SendGpsOff, Command, Goto, MiddleStep, Middle, Ending, IInv
  <1>4. CASE SendCommand
    BY <1>4, SendShape
      DEF SendCommand, Goto, MiddleStep, Middle, Ending, IInv
  <1>5. CASE SendCops
    BY <1>5, SendShape
      DEF SendCops, Command, Goto, MiddleStep, Middle, Ending, IInv
  <1>6. CASE ChooseNetwork
    BY <1>6, SendShape
      DEF ChooseNetwork, Command, Goto, MiddleStep, Middle, Ending, IInv
  <1>7. CASE Activate
    BY <1>7, SendShape
      DEF Activate, Command, Goto, MiddleStep, Middle, Ending, IInv
  <1>8. CASE SendLocationAgain
    BY <1>8, SendShape
      DEF SendLocationAgain, Command, Goto, MiddleStep, Middle, Ending, IInv
  <1>9. CASE CgsnOK
    BY <1>9, RecvShape
      DEF CgsnOK, Awaited, Goto, MiddleStep, Middle, Ending, IInv
  <1>10. CASE GpsOn
    BY <1>10, RecvShape
      DEF GpsOn, Awaited, Goto, MiddleStep, Middle, Ending, IInv
  <1>11. CASE NetworkChosen
    BY <1>11, RecvShape
      DEF NetworkChosen, Awaited, Goto, MiddleStep, Middle, Ending, IInv
  <1>12. CASE Activated
    BY <1>12, RecvShape
      DEF Activated, MiddleStep, Middle, Ending, IInv
  <1>13. CASE NoMac
    BY <1>13, RecvFailsShape
      DEF NoMac, MiddleStep, Middle, Ending, IInv
  <1>14. CASE GpsNotOn
    BY <1>14, RecvFailsShape
      DEF GpsNotOn, Goto, MiddleStep, Middle, Ending, IInv
  <1>15. CASE CommandFails
    BY <1>15, RecvFailsShape
      DEF CommandFails, Abandon, MiddleStep, Middle, Ending, IInv
  <1>16. CASE NetworkRefused
    BY <1>16, RecvFailsShape
      DEF NetworkRefused, Abandon, MiddleStep, Middle, Ending, IInv
  <1>17. CASE ActivateAgain
    BY <1>17, RecvFailsShape
      DEF ActivateAgain, Goto, MiddleStep, Middle, Ending, IInv
  <1>18. CASE GpsOff
    BY <1>18, RecvShape, RecvFailsShape
      DEF GpsOff, Awaited, NotAwaited, Goto, MiddleStep, Middle, Ending, IInv
  <1>19. CASE CommandOK
    BY <1>19, RecvShape, RecvFailsShape
      DEF CommandOK, MiddleStep, Middle, Ending, IInv
  <1>20. CASE Position
    BY <1>20, ReadMild
      DEF Position, MiddleStep, Middle, Ending, IInv
  <1>21. CASE NetworkRead
    BY <1>21, ReadMild
      DEF NetworkRead, Goto, Abandon, MiddleStep, Middle, Ending, IInv
  <1>22. CASE PositionAgain
    BY <1>22, ReadMild
      DEF PositionAgain, MiddleStep, Middle, Ending, IInv
  <1>23. CASE NextApn
    BY <1>23, QuietMild
      DEF NextApn, MiddleStep, Middle, Ending, IInv
  <1>24. CASE Configured
    BY <1>24, QuietMild
      DEF Configured, Goto, MiddleStep, Middle, Ending, IInv
  <1>25. CASE Published
    BY <1>25, QuietMild
      DEF Published, Goto, Abandon, MiddleStep, Middle, Ending, IInv
  <1>26. CASE WaitOn("QIACT_OK", "OK")
    BY <1>26, WaitOnShape
      DEF MiddleStep, Middle, Ending, IInv
  <1> QED
    BY <1>1, <1>2, <1>3, <1>4, <1>5, <1>6, <1>7, <1>8, <1>9, <1>10,
       <1>11, <1>12, <1>13, <1>14, <1>15, <1>16, <1>17, <1>18, <1>19,
       <1>20, <1>21, <1>22, <1>23, <1>24, <1>25, <1>26
      DEF MiddleAction

EndAction == SendGpsEnd \/ GpsEnd \/ SendPowerDown \/ PoweredDown

\* Those that switch the modem off are steps of the end.
LEMMA EndActions ==
    ASSUME IInv, EndAction
    PROVE  EndStep
  <1>1. CASE SendGpsEnd
    BY <1>1, SendShape
      DEF SendGpsEnd, Command, Goto, EndStep, Middle, Ending, IInv
  <1>2. CASE SendPowerDown
    BY <1>2, SendShape
      DEF SendPowerDown, Command, Goto, EndStep, Middle, Ending, IInv
  <1>3. CASE GpsEnd
    BY <1>3, RecvShape, RecvFailsShape
      DEF GpsEnd, Awaited, NotAwaited, Goto, EndStep, Middle, Ending, IInv
  <1>4. CASE PoweredDown
    BY <1>4, RecvShape, RecvFailsShape
      DEF PoweredDown, Goto, EndStep, Middle, Ending, IInv
  <1> QED
    BY <1>1, <1>2, <1>3, <1>4
      DEF EndAction

\* The start-up has ended with an OK, which no modem that repeats commands sent.
LEMMA StartupInv ==
    ASSUME IInv, Startup
    PROVE  IInv'
  <1>1. /\ pc = "CFUN_OK" /\ Flush("OK") /\ pc' = "CGSN"
        /\ UNCHANGED <<max_attemps, mac>>
    BY DEF Startup, Goto
  <1>2. mac = "none" /\ ~ echo
    BY <1>1 DEF IInv, Phases, EchoKnown, Starting
  <1>3. Mild
    BY <1>1, FlushMild DEF IInv
  <1> QED
    BY <1>1, <1>2, <1>3, LaterStep DEF Starting, Identity

\* CGSN is sent.
LEMMA SendCgsnInv ==
    ASSUME IInv, SendCgsn
    PROVE  IInv'
  <1>1. /\ pc = "CGSN" /\ Send("CGSN") /\ pc' = "IMEI"
        /\ UNCHANGED <<max_attemps, mac>>
    BY DEF SendCgsn, Command, Goto
  <1>2. mac = "none" /\ ~ echo
    BY <1>1 DEF IInv, Phases, Identity
  <1>3. Mild
    BY <1>1, SendShape DEF IInv
  <1> QED
    BY <1>1, <1>2, <1>3, LaterStep DEF Starting, Identity

\* The line that may be the IMEI is read.
LEMMA ReadImeiInv ==
    ASSUME IInv, ReadImei
    PROVE  IInv'
  <1>1. pc = "IMEI" /\ max_attemps' = max_attemps
    BY DEF ReadImei
  <1>2. ~ echo
    BY <1>1 DEF IInv, Phases, Identity
  <1>3. mac' # "none" /\ pc' \in {"CGSN_OK", "QGPS"}
    BY DEF ReadImei
  <1>4. Mild
    <2>1. CASE rx # <<>> /\ rx' = Tail(rx) /\ UNCHANGED <<modem, history>>
      <3>1. echo' = echo /\ faults' = faults /\ late' = late
        BY <2>1 DEF modem, history
      <3>2. Failures' = Failures
        BY <3>1 DEF Failures
      <3>3. Failures' \in Nat /\ Failures' >= Failures
        BY <3>2, Counts DEF IInv
      <3>4. rx' \in Seq(Word)
        BY <2>1 DEF IInv, Types
      <3> QED
        BY <3>1, <3>3, <3>4 DEF Mild, IInv, Types
    <2>2. CASE Read({})
      BY <2>2, ReadMild DEF IInv
    <2> QED
      BY <2>1, <2>2 DEF ReadImei
  <1> QED
    BY <1>1, <1>2, <1>3, <1>4, LaterStep DEF Starting, Identity

------------------------------------------------------------------------------

(***************************************************************************)
(* The modem, and the theorem                                               *)
(***************************************************************************)

\* Nothing that the invariant is about changes.
LEMMA SameInv ==
    ASSUME IInv, rx' = rx, echo' = echo, faults' = faults, late' = late,
           UNCHANGED driver
    PROVE  IInv'
  <1>1. pc' = pc /\ max_attemps' = max_attemps /\ i' = i /\ mac' = mac
    BY DEF driver
  <1>2. Failures' = Failures /\ Allowed' = Allowed
    BY <1>1 DEF Failures, Allowed
  <1>3. \A line : /\ line \in Got' <=> line \in Got
                  /\ NoneAfterRdy(line) => NoneAfterRdy(line)'
    BY DEF Got, NoneAfterRdy
  <1>4. Types'
    BY <1>1 DEF IInv, Types
  <1>5. Phases'
    BY <1>1, <1>2, Zenon DEF IInv, Phases
  <1>6. EchoKnown'
    BY <1>1, <1>3, Zenon DEF IInv, EchoKnown
  <1>7. Expected => Expected'
    BY <1>1, <1>3, Zenon DEF Expected
  <1>8. FailuresCounted'
    BY <1>1, <1>2, <1>7, Zenon DEF IInv, FailuresCounted
  <1> QED
    BY <1>4, <1>5, <1>6, <1>8 DEF IInv

\* A line that nobody asked for is neither OK nor RDY.
LEMMA UnsolicitedInv ==
    ASSUME IInv, Unsolicited, UNCHANGED driver
    PROVE  IInv'
  <1>1. pc' = pc /\ max_attemps' = max_attemps /\ i' = i /\ mac' = mac
    BY DEF driver
  <1>2. echo' = echo /\ faults' = faults /\ late' = late
    BY DEF Unsolicited, modem
  <1>3. Failures' = Failures /\ Allowed' = Allowed
    BY <1>1, <1>2 DEF Failures, Allowed
  <1>0. PICK u \in Unasked : rx' = Append(rx, u)
    BY DEF Unsolicited, Unasked
  <1> DEFINE t == Append(rx, u)
  <1>4. /\ t \in Seq(Word) /\ Len(t) = Len(rx) + 1 /\ Len(rx) \in Nat
        /\ t[Len(rx) + 1] = u /\ \A n \in 1 .. Len(rx) : t[n] = rx[n]
        /\ DOMAIN t = 1 .. Len(t) /\ DOMAIN rx = 1 .. Len(rx)
    <2>1. rx \in Seq(Word) /\ u \in Word
      BY DEF IInv, Types, Word
    <2> QED
      BY <2>1, AppendProperties
  <1> HIDE DEF t
  <1>5. rx' = t
    BY <1>0 DEF t
  <1>5a. u # "OK" /\ u # "RDY"
    BY DEF Unasked
  <1>6. \A line \in {"OK", "RDY"} : line \in Got' <=> line \in Got
    <2>1. \A n \in DOMAIN rx : n \in DOMAIN t /\ t[n] = rx[n]
      BY <1>4
    <2>2. \A n \in DOMAIN t : t[n] # u => n \in DOMAIN rx /\ t[n] = rx[n]
      BY <1>4
    <2> QED
      BY <1>5, <1>5a, <2>1, <2>2 DEF Got
  <1>7. ASSUME NEW line \in {"OK", "RDY"}, NoneAfterRdy(line)
        PROVE  NoneAfterRdy(line)'
    <2>1. ASSUME NEW m \in DOMAIN t, NEW n \in DOMAIN t, t[m] = "RDY", m < n
          PROVE  t[n] # line
      <3>1. CASE n = Len(rx) + 1
        BY <1>4, <1>5a, <3>1
      <3>2. CASE n \in 1 .. Len(rx)
        <4>1. m \in 1 .. Len(rx)
          BY <1>4, <2>1, <3>2
        <4>2. rx[m] = "RDY" /\ t[n] = rx[n] /\ m \in DOMAIN rx /\ n \in DOMAIN rx
          BY <1>4, <2>1, <3>2, <4>1
        <4> QED
          BY <1>7, <2>1, <4>2 DEF NoneAfterRdy
      <3> QED
        BY <1>4, <3>1, <3>2
    <2> QED
      BY <1>5, <2>1 DEF NoneAfterRdy
  <1>8. Types'
    BY <1>1, <1>2, <1>4, <1>5 DEF IInv, Types
  <1>9. Phases'
    <2>1. pc # "wakeup"
      BY DEF Unsolicited
    <2> QED
      BY <1>1, <1>2, <1>3, <2>1, Zenon DEF IInv, Phases
  <1>10. EchoKnown'
    <2>1. /\ "OK" \in Got' <=> "OK" \in Got
          /\ "RDY" \in Got' <=> "RDY" \in Got
          /\ NoneAfterRdy("OK") => NoneAfterRdy("OK")'
          /\ NoneAfterRdy("RDY") => NoneAfterRdy("RDY")'
      BY <1>6, <1>7
    <2> QED
      BY <1>1, <1>2, <2>1, Zenon DEF IInv, EchoKnown
  <1>11. Expected => Expected'
    <2>1. /\ "OK" \in Got' <=> "OK" \in Got
          /\ "RDY" \in Got' <=> "RDY" \in Got
      BY <1>6
    <2> QED
      BY <1>1, <2>1, Zenon DEF Expected
  <1>12. FailuresCounted'
    BY <1>1, <1>3, <1>11, Zenon DEF IInv, FailuresCounted
  <1> QED
    BY <1>8, <1>9, <1>10, <1>12 DEF IInv

\* The invariant is inductive.
LEMMA StepInv ==
    ASSUME EnoughStartups, IInv, [Next]_vars
    PROVE  IInv'
  <1>1. CASE Ready \/ NotReady \/ SendEcho \/ EchoOK \/ SendRadioOff \/ LastAttempt
    BY <1>1, ReadyInv, NotReadyInv, SendEchoInv, EchoOKInv, SendRadioOffInv, LastAttemptInv
  <1>2. CASE WakeUp \/ StartupFailed \/ Startup \/ SendCgsn \/ ReadImei
    BY <1>2, WakeUpInv, StartupFailedInv, StartupInv, SendCgsnInv, ReadImeiInv
  <1>3. CASE WaitOn("RDY", "RDY")
    BY <1>3, WaitOnInv
  <1>4. CASE WaitOn("ATE0_OK", "OK") \/ WaitOn("CFUN_OK", "OK")
    <2>1. ASSUME NEW label \in {"ATE0_OK", "CFUN_OK"}, WaitOn(label, "OK")
          PROVE  IInv'
      BY <2>1, WaitOnInv
    <2> QED
      BY <1>4, <2>1
  <1>5. CASE MiddleAction
    BY <1>5, MiddleActions, MiddleInv
  <1>6. CASE EndAction
    BY <1>6, EndActions, EndInv
  <1>7. CASE ModemStep
    <2>1. CASE Registers
      <3>1. rx' = rx /\ echo' = echo /\ faults' = faults /\ late' = late
        BY <2>1 DEF Registers, history
      <3> QED
        BY <1>7, <3>1, SameInv DEF ModemStep
    <2>2. CASE Unsolicited
      BY <1>7, <2>2, UnsolicitedInv DEF ModemStep
    <2> QED
      BY <1>7, <2>1, <2>2 DEF ModemStep
  <1>8. CASE UNCHANGED vars
    BY <1>8, SameInv DEF vars, link, modem, history
  <1> QED
    BY <1>1, <1>2, <1>3, <1>4, <1>5, <1>6, <1>7, <1>8
       DEF Next, DriverStep, KeepWaiting, MiddleAction, EndAction, Done

\* It holds at the start.
LEMMA InitInv ==
    ASSUME EnoughStartups, Init
    PROVE  IInv
  <1>1. rx = <<>> /\ rx \in Seq(Word) /\ echo = TRUE /\ faults = 0 /\ late = 0
    BY DEF Init, Off
  <1>2. pc = "wakeup" /\ max_attemps = 0 /\ mac = "none"
    BY DEF Init
  <1>3. Types
    BY <1>1, <1>2, AttemptAssumption DEF Types
  <1>4. Phases /\ EchoKnown /\ FailuresCounted
    BY <1>1, <1>2 DEF Phases, EchoKnown, FailuresCounted, Starting, Identity
  <1> QED
    BY <1>3, <1>4 DEF IInv

\* InitSound of ModemStart, for any numbers of attempts, faults, late answers
\* and unsolicited lines: BG96Interface::init fails only after two failures of
\* the modem, and a modem that was started does not repeat commands.
THEOREM StartsSoundly ==
    ASSUME EnoughStartups
    PROVE  Spec => []InitSound
  <1>1. Init => IInv
    BY InitInv
  <1>2. IInv /\ [Next]_vars => IInv'
    BY StepInv
  <1>3. IInv => InitSound
    <2> SUFFICES ASSUME IInv PROVE InitSound
      OBVIOUS
    <2>1. Started => ~ echo
      <3>1. CASE mac # "none" \/ pc \in Identity
        BY <3>1 DEF IInv, Phases
      <3>2. CASE pc = "CGSN_OK"
        BY <3>2 DEF IInv, Phases, Starting, Identity, Ending
      <3> QED
        BY <3>1, <3>2 DEF Started, Identity
    <2>2. pc = "GPSOff" /\ ~ Started => Failures > 1
      BY DEF IInv, Phases, Started, Starting, Identity
    <2> QED
      BY <2>1, <2>2 DEF InitSound, Failures
  <1> QED
    BY <1>1, <1>2, <1>3, PTL DEF Spec

------------------------------------------------------------------------------
(***************************************************************************)
(* Under whose identity a report goes out: IdentityKnown of ModemStart, for *)
(* any numbers of attempts, failures, late answers and unsolicited lines.   *)
(***************************************************************************)

Quiet == noise = 0 /\ late = 0
Reliable == faults = 0 /\ late = 0

\* With nothing unasked for or late, only a refusal is taken for the IMEI, and
\* then there is no OK either.
Undisturbed ==
    Quiet =>
        /\ pc = "CGSN" => rx = <<>>
        /\ pc = "IMEI" => rx \in {<<>>, <<"ERROR">>} \/ Head(rx) = "IMEI"
        /\ mac = "else" => pc = "CGSN_OK" /\ rx = <<>>

\* Without a failure there are the IMEI, or what is taken for it, and an OK.
Unharmed ==
    Reliable =>
        /\ pc = "IMEI" => \E n \in DOMAIN rx : n > 1 /\ rx[n] = "OK"
        /\ pc = "CGSN_OK" => "OK" \in Got
        /\ mac # "null"

Known == mac \in {"none", "imei", "else", "null"} /\ noise \in Nat

IdInv == Known /\ Undisturbed /\ Unharmed

------------------------------------------------------------------------------

\* Failures, late answers and unsolicited lines are only counted.
Steady ==
    /\ faults' = faults \/ faults' = faults + 1
    /\ late' = late \/ late' = late + 1
    /\ noise' = noise \/ noise' = noise + 1

\* A command adds at most one failure, one late line and one of noise.
LEMMA SendSteady ==
    ASSUME NEW command, Send(command)
    PROVE  Steady
  BY DEF Send, Works, Fails, Steady

\* So do lines that arrive,
LEMMA ArriveSteady ==
    ASSUME NEW k, Arrive(k)
    PROVE  Steady
  BY DEF Arrive, Steady

\* a line that is taken,
LEMMA RecvSteady ==
    ASSUME NEW line, Recv(line) \/ RecvFails(line) \/ Flush(line)
    PROVE  Steady
  <1>1. CASE Recv(line)
    BY <1>1 DEF Recv, history, Steady
  <1>2. CASE RecvFails(line)
    BY <1>2, ArriveSteady DEF RecvFails
  <1>3. CASE Flush(line)
    BY <1>3, ArriveSteady DEF Flush
  <1> QED
    BY <1>1, <1>2, <1>3

\* reading until a timeout,
LEMMA ReadSteady ==
    ASSUME NEW lines, Read(lines)
    PROVE  Steady
  BY ArriveSteady DEF Read

\* a step that leaves the link alone,
LEMMA QuietSteady ==
    ASSUME UNCHANGED link
    PROVE  Steady
  BY DEF link, history, Steady

\* a power cycle,
LEMMA PowerCycleSteady ==
    ASSUME PowerCycle
    PROVE  Steady
  BY DEF PowerCycle, Works, Fails, Steady

\* or one more turn of a loop.
LEMMA WaitOnSteady ==
    ASSUME NEW label, NEW line, WaitOn(label, line)
    PROVE  Steady
  BY ArriveSteady DEF WaitOn

\* So what is zero has been.
LEMMA SteadyBack ==
    ASSUME Types, Known, Steady
    PROVE  (Quiet' => Quiet) /\ (Reliable' => Reliable) /\ noise' \in Nat
  <1>1. faults \in Nat /\ late \in Nat /\ noise \in Nat
    BY DEF Types, Known
  <1> QED
    BY <1>1 DEF Steady, Quiet, Reliable

------------------------------------------------------------------------------

(***************************************************************************)
(* The steps that are not about the identity                                *)
(***************************************************************************)

Asking == {"CGSN", "IMEI", "CGSN_OK"}

OtherStep == Steady /\ mac' = mac /\ pc # "CGSN_OK" /\ pc' \notin Asking

\* What is known of the identity outlives steps that are not about it.
LEMMA OtherInv ==
    ASSUME Types, IdInv, OtherStep
    PROVE  IdInv'
  <1>1. (Quiet' => Quiet) /\ (Reliable' => Reliable) /\ noise' \in Nat
    BY SteadyBack DEF IdInv, OtherStep
  <1>2. mac' = mac /\ pc # "CGSN_OK" /\ pc' \notin Asking
    BY DEF OtherStep
  <1>3. Undisturbed'
    BY <1>1, <1>2 DEF IdInv, Undisturbed, Asking
  <1>4. Unharmed'
    BY <1>1, <1>2 DEF IdInv, Unharmed, Asking
  <1> QED
    BY <1>1, <1>2, <1>3, <1>4 DEF IdInv, Known

OtherAction ==
    \/ WakeUp \/ Ready \/ NotReady \/ SendEcho \/ EchoOK \/ SendRadioOff
    \/ LastAttempt \/ StartupFailed \/ KeepWaiting \/ SendGps
    \/ SendLocation \/ SendGpsOff \/ SendCommand \/ SendCops
    \/ ChooseNetwork \/ Activate \/ SendLocationAgain \/ GpsOn
    \/ NetworkChosen \/ Activated \/ GpsNotOn \/ CommandFails
    \/ NetworkRefused \/ ActivateAgain \/ GpsOff \/ CommandOK \/ Position
    \/ NetworkRead \/ PositionAgain \/ NextApn \/ Configured \/ Published
    \/ SendGpsEnd \/ SendPowerDown \/ GpsEnd \/ PoweredDown

\* All actions but those that read it are such steps.
LEMMA OtherActions ==
    ASSUME OtherAction
    PROVE  OtherStep
  <1>1. CASE WakeUp
    BY <1>1, PowerCycleSteady DEF WakeUp, OtherStep, Asking
  <1>2. CASE Ready
    BY <1>2, RecvSteady DEF Ready, Awaited, Goto, OtherStep, Asking
  <1>3. CASE NotReady
    BY <1>3, RecvSteady DEF NotReady, Goto, OtherStep, Asking
  <1>4. CASE SendEcho
    BY <1>4, SendSteady DEF SendEcho, Command, Goto, OtherStep, Asking
  <1>5. CASE EchoOK
    BY <1>5, RecvSteady DEF EchoOK, Goto, OtherStep, Asking
  <1>6. CASE SendRadioOff
    BY <1>6, SendSteady DEF SendRadioOff, Command, Goto, OtherStep, Asking
  <1>7. CASE LastAttempt
    BY <1>7, RecvSteady DEF LastAttempt, Goto, OtherStep, Asking
  <1>8. CASE StartupFailed
    BY <1>8, PowerCycleSteady, QuietSteady DEF StartupFailed, OtherStep, Asking
  <1>9. CASE KeepWaiting
    BY <1>9, WaitOnSteady DEF KeepWaiting, WaitOn, Goto, OtherStep, Asking
  <1>10. CASE SendGps
    BY <1>10, SendSteady DEF SendGps, Command, Goto, OtherStep, Asking
  <1>11. CASE SendLocation
    BY <1>11, SendSteady DEF SendLocation, Command, Goto, OtherStep, Asking
  <1>12. CASE SendGpsOff
    BY <1>12, SendSteady DEF SendGpsOff, Command, Goto, OtherStep, Asking
  <1>13. CASE SendCommand
    BY <1>13, SendSteady DEF SendCommand, Goto, OtherStep, Asking
  <1>14. CASE SendCops
    BY <1>14, SendSteady DEF SendCops, Command, Goto, OtherStep, Asking
  <1>15. CASE ChooseNetwork
    BY <1>15, SendSteady DEF ChooseNetwork, Command, Goto, OtherStep, Asking
  <1>16. CASE Activate
    BY <1>16, SendSteady DEF Activate, Command, Goto, OtherStep, Asking
  <1>17. CASE SendLocationAgain
    BY <1>17, SendSteady DEF SendLocationAgain, Command, Goto, OtherStep, Asking
  <1>18. CASE GpsOn
    BY <1>18, RecvSteady DEF GpsOn, Awaited, Goto, OtherStep, Asking
  <1>19. CASE NetworkChosen
    BY <1>19, RecvSteady DEF NetworkChosen, Awaited, Goto, OtherStep, Asking
  <1>20. CASE Activated
    BY <1>20, RecvSteady DEF Activated, OtherStep, Asking
  <1>21. CASE GpsNotOn
    BY <1>21, RecvSteady DEF GpsNotOn, Goto, OtherStep, Asking
  <1>22. CASE CommandFails
    BY <1>22, RecvSteady DEF CommandFails, Abandon, OtherStep, Asking
  <1>23. CASE NetworkRefused
    BY <1>23, RecvSteady DEF NetworkRefused, Abandon, OtherStep, Asking
  <1>24. CASE ActivateAgain
    BY <1>24, RecvSteady DEF ActivateAgain, Goto, OtherStep, Asking
  <1>25. CASE GpsOff
    BY <1>25, RecvSteady DEF GpsOff, Awaited, NotAwaited, Goto, OtherStep, Asking
  <1>26. CASE CommandOK
    BY <1>26, RecvSteady DEF CommandOK, OtherStep, Asking
  <1>27. CASE Position
    BY <1>27, ReadSteady DEF Position, OtherStep, Asking
  <1>28. CASE NetworkRead
    BY <1>28, ReadSteady DEF NetworkRead, Goto, Abandon, OtherStep, Asking
  <1>29. CASE PositionAgain
    BY <1>29, ReadSteady DEF PositionAgain, OtherStep, Asking
  <1>30. CASE NextApn
    BY <1>30, QuietSteady DEF NextApn, OtherStep, Asking
  <1>31. CASE Configured
    BY <1>31, QuietSteady DEF Configured, Goto, OtherStep, Asking
  <1>32. CASE Published
    BY <1>32, QuietSteady DEF Published, Goto, Abandon, OtherStep, Asking
  <1>33. CASE SendGpsEnd
    BY <1>33, SendSteady DEF SendGpsEnd, Command, Goto, OtherStep, Asking
  <1>34. CASE SendPowerDown
    BY <1>34, SendSteady DEF SendPowerDown, Command, Goto, OtherStep, Asking
  <1>35. CASE GpsEnd
    BY <1>35, RecvSteady DEF GpsEnd, Awaited, NotAwaited, Goto, OtherStep, Asking
  <1>36. CASE PoweredDown
    BY <1>36, RecvSteady DEF PoweredDown, Goto, OtherStep, Asking
  <1> QED
    BY <1>1, <1>2, <1>3, <1>4, <1>5, <1>6, <1>7, <1>8, <1>9, <1>10,
       <1>11, <1>12, <1>13, <1>14, <1>15, <1>16, <1>17, <1>18, <1>19,
       <1>20, <1>21, <1>22, <1>23, <1>24, <1>25, <1>26, <1>27, <1>28,
       <1>29, <1>30, <1>31, <1>32, <1>33, <1>34, <1>35, <1>36
      DEF OtherAction

------------------------------------------------------------------------------

(***************************************************************************)
(* The identity                                                             *)
(***************************************************************************)

\* The flush after the start-up leaves only what comes late.
LEMMA StartupId ==
    ASSUME Types, IdInv, Startup
    PROVE  IdInv'
  <1>1. /\ pc = "CFUN_OK" /\ Flush("OK") /\ pc' = "CGSN" /\ mac' = mac
    BY DEF Startup, Goto
  <1>2. Steady
    BY <1>1, RecvSteady
  <1>3. (Quiet' => Quiet) /\ (Reliable' => Reliable) /\ noise' \in Nat
    BY <1>2, SteadyBack DEF IdInv
  <1>4. Quiet' => rx' = <<>>
    <2>1. First("OK") \in 1 .. Len(rx)
      BY <1>1, FirstIs DEF Flush, Types
    <2>2. PICK k \in First("OK") .. Len(rx) : Arrive(k)
      BY <1>1 DEF Flush
    <2>3. k \in 0 .. Len(rx) /\ Len(rx) \in Nat
      BY <2>1, <2>2 DEF Types
    <2>4. Dropped(k)
      BY <2>2, <2>3, ArriveShape
    <2>5. CASE k = Len(rx)
      <3>1. rx' \in Seq(Word) /\ Len(rx') = 0
        BY <2>3, <2>4, <2>5 DEF Dropped
      <3> QED
        BY <3>1
    <2>6. CASE k # Len(rx)
      <3>1. late' = late + 1 /\ late \in Nat
        BY <2>2, <2>6 DEF Arrive, Types
      <3> QED
        BY <3>1 DEF Quiet
    <2> QED
      BY <2>5, <2>6
  <1>5. Undisturbed'
    BY <1>1, <1>3, <1>4 DEF IdInv, Undisturbed
  <1>6. Unharmed'
    BY <1>1, <1>3 DEF IdInv, Unharmed
  <1> QED
    BY <1>1, <1>3, <1>5, <1>6 DEF IdInv, Known

\* CGSN is sent, and the answer is under way.
LEMMA SendCgsnId ==
    ASSUME Types, IdInv, SendCgsn
    PROVE  IdInv'
  <1>1. pc = "CGSN" /\ Send("CGSN") /\ pc' = "IMEI" /\ mac' = mac
    BY DEF SendCgsn, Command, Goto
  <1>2. Steady
    BY <1>1, SendSteady
  <1>3. (Quiet' => Quiet) /\ (Reliable' => Reliable) /\ noise' \in Nat
    BY <1>2, SteadyBack DEF IdInv
  <1>4. \/ rx' = rx \o <<"IMEI", "OK">>
        \/ (rx' = rx \/ rx' = Append(rx, "ERROR")) /\ faults' = faults + 1
    <2>1. \A lines : Accepts("CGSN", lines) => lines = <<"IMEI", "OK">>
      BY DEF Accepts
    <2> QED
      BY <1>1, <2>1 DEF Send, Fails
  <1>5. Undisturbed'
    <2>1. ASSUME Quiet'
          PROVE  rx' \in {<<>>, <<"ERROR">>} \/ Head(rx') = "IMEI"
      <3>1. rx = <<>>
        BY <1>1, <1>3, <2>1 DEF IdInv, Undisturbed
      <3>2. <<>> \o <<"IMEI", "OK">> = <<"IMEI", "OK">> /\ Append(<<>>, "ERROR") = <<"ERROR">>
        OBVIOUS
      <3>3. Head(<<"IMEI", "OK">>) = "IMEI"
        OBVIOUS
      <3> QED
        BY <1>4, <3>1, <3>2, <3>3
    <2> QED
      BY <1>1, <1>3, <2>1 DEF IdInv, Undisturbed
  <1>6. Unharmed'
    <2>1. ASSUME Reliable'
          PROVE  \E n \in DOMAIN rx' : n > 1 /\ rx'[n] = "OK"
      <3>1. faults \in Nat /\ faults' = 0
        BY <2>1 DEF Types, Reliable
      <3>2. faults' # faults + 1
        BY <3>1
      <3> DEFINE s == rx \o <<"IMEI", "OK">>
      <3>3. Len(rx) \in Nat /\ Len(s) = Len(rx) + 2 /\ s[Len(rx) + 2] = "OK"
        BY DEF Types
      <3>4. Len(rx) + 2 \in DOMAIN s /\ Len(rx) + 2 > 1
        BY <3>3
      <3> HIDE DEF s
      <3>5. rx' = s
        BY <1>4, <3>2 DEF s
      <3> QED
        BY <3>3, <3>4, <3>5
    <2> QED
      BY <1>1, <1>3, <2>1 DEF IdInv, Unharmed
  <1> QED
    BY <1>1, <1>3, <1>5, <1>6 DEF IdInv, Known

\* The line read for the IMEI.
LEMMA ReadImeiId ==
    ASSUME Types, IdInv, ReadImei
    PROVE  IdInv'
  <1>1. pc = "IMEI"
    BY DEF ReadImei
  <1>2. CASE /\ rx # <<>> /\ rx' = Tail(rx) /\ pc' = "CGSN_OK"
             /\ mac' = IF Head(rx) = "IMEI" THEN "imei" ELSE "else"
             /\ UNCHANGED <<modem, history>>
    <2>1. Steady
      BY <1>2 DEF history, Steady
    <2>2. (Quiet' => Quiet) /\ (Reliable' => Reliable) /\ noise' \in Nat
      BY <2>1, SteadyBack DEF IdInv
    <2>3. Undisturbed'
      <3>1. ASSUME Quiet, Head(rx) # "IMEI"
            PROVE  rx' = <<>>
        <4>1. rx = <<"ERROR">>
          BY <1>1, <1>2, <3>1 DEF IdInv, Undisturbed
        <4>2. Tail(<<"ERROR">>) = <<>>
          OBVIOUS
        <4> QED
          BY <1>2, <4>1, <4>2
      <3> QED
        BY <1>2, <2>2, <3>1 DEF Undisturbed
    <2>4. Unharmed'
      <3>1. ASSUME Reliable
            PROVE  "OK" \in Got'
        <4>1. PICK n \in DOMAIN rx : n > 1 /\ rx[n] = "OK"
          BY <1>1, <3>1 DEF IdInv, Unharmed
        <4> DEFINE t == Tail(rx)
        <4>2. n - 1 \in DOMAIN t /\ t[n - 1] = rx[n]
          <5>1. rx \in Seq(Word) /\ rx # <<>>
            BY <1>2 DEF Types
          <5>2. /\ t \in Seq(Word) /\ Len(t) = Len(rx) - 1 /\ Len(rx) \in Nat
                /\ \A m \in 1 .. Len(t) : t[m] = rx[m + 1]
            BY <5>1, HeadTailProperties
          <5> HIDE DEF t
          <5>3. n \in 2 .. Len(rx)
            BY <4>1, <5>1
          <5>4. n - 1 \in 1 .. Len(t) /\ (n - 1) + 1 = n
            BY <5>2, <5>3
          <5> QED
            BY <5>2, <5>4
        <4> HIDE DEF t
        <4>3. rx' = t
          BY <1>2 DEF t
        <4> QED
          BY <4>1, <4>2, <4>3 DEF Got
      <3> QED
        BY <1>2, <2>2, <3>1 DEF Unharmed
    <2>5. mac' \in {"imei", "else"}
      BY <1>2
    <2> QED
      BY <2>2, <2>3, <2>4, <2>5 DEF IdInv, Known
  <1>3. CASE Read({}) /\ mac' = "null" /\ pc' = "QGPS"
    <2>1. Steady
      BY <1>3, ReadSteady
    <2>2. (Quiet' => Quiet) /\ (Reliable' => Reliable) /\ noise' \in Nat
      BY <2>1, SteadyBack DEF IdInv
    <2>3. ~ Reliable'
      <3>1. PICK k \in 0 .. Len(rx) : Arrive(k) /\ {} = {rx[n] : n \in 1 .. k}
        BY <1>3 DEF Read
      <3>2. k = 0
        <4>1. k \in Nat /\ (k >= 1 => 1 \in 1 .. k)
          BY <3>1
        <4>2. ~ (1 \in 1 .. k)
          BY <3>1
        <4> QED
          BY <4>1, <4>2
      <3>3. SUFFICES ASSUME Reliable' PROVE FALSE
        OBVIOUS
      <3>4. Len(rx) # 0
        BY <1>1, <2>2, <3>3 DEF IdInv, Unharmed, Types
      <3>5. late' = late + 1 /\ late \in Nat
        BY <3>1, <3>2, <3>4 DEF Arrive, Types
      <3> QED
        BY <3>3, <3>5 DEF Reliable
    <2> QED
      BY <1>3, <2>2, <2>3 DEF IdInv, Known, Undisturbed, Unharmed
  <1> QED
    BY <1>2, <1>3 DEF ReadImei

\* The OK after the IMEI; a refused AT+CGSN has none.
LEMMA CgsnOKId ==
    ASSUME Types, IdInv, CgsnOK
    PROVE  IdInv'
  <1>1. pc = "CGSN_OK" /\ Recv("OK") /\ pc' = "QGPS" /\ mac' = mac
    BY DEF CgsnOK, Awaited, Goto
  <1>2. Steady
    BY <1>1, RecvSteady
  <1>3. (Quiet' => Quiet) /\ (Reliable' => Reliable) /\ noise' \in Nat
    BY <1>2, SteadyBack DEF IdInv
  <1>4. rx # <<>>
    <2>1. PICK n \in DOMAIN rx : rx[n] = "OK"
      BY <1>1 DEF Recv, Got
    <2> QED
      BY <2>1
  <1>5. Undisturbed' /\ Unharmed'
    BY <1>1, <1>3, <1>4 DEF IdInv, Undisturbed, Unharmed
  <1> QED
    BY <1>1, <1>3, <1>5 DEF IdInv, Known

\* The OK after it is missing: the identity is "null".
LEMMA NoMacId ==
    ASSUME Types, IdInv, NoMac
    PROVE  IdInv'
  <1>1. pc = "CGSN_OK" /\ RecvFails("OK") /\ pc' = "QGPS" /\ mac' = "null"
    BY DEF NoMac
  <1>2. Steady
    BY <1>1, RecvSteady
  <1>3. (Quiet' => Quiet) /\ (Reliable' => Reliable) /\ noise' \in Nat
    BY <1>2, SteadyBack DEF IdInv
  <1>4. ~ Reliable'
    <2>1. SUFFICES ASSUME Reliable' PROVE FALSE
      OBVIOUS
    <2>2. "OK" \in Got
      BY <1>1, <1>3, <2>1 DEF IdInv, Unharmed
    <2>3. PICK k \in 0 .. Len(rx) : Arrive(k) /\ \A n \in 1 .. k : rx[n] # "OK"
      BY <1>1 DEF RecvFails
    <2>4. k # Len(rx)
      BY <2>2, <2>3 DEF Got, Types
    <2>5. late' = late + 1 /\ late \in Nat
      BY <2>3, <2>4 DEF Arrive, Types
    <2> QED
      BY <2>1, <2>5 DEF Reliable
  <1> QED
    BY <1>1, <1>3, <1>4 DEF IdInv, Known, Undisturbed, Unharmed

\* The modem by itself adds a line that nobody asked for, or none.
LEMMA ModemId ==
    ASSUME Types, IdInv, ModemStep \/ UNCHANGED vars
    PROVE  IdInv'
  <1>1. pc' = pc /\ mac' = mac
    BY DEF ModemStep, vars, driver
  <1>2. \/ rx' = rx /\ UNCHANGED history
        \/ /\ \E u \in Unasked : rx' = Append(rx, u)
           /\ noise' = noise + 1 /\ UNCHANGED <<faults, late>>
    BY DEF ModemStep, Registers, Unsolicited, Unasked, vars, link
  <1>3. Steady
    BY <1>2 DEF history, Steady
  <1>4. (Quiet' => Quiet) /\ (Reliable' => Reliable) /\ noise' \in Nat
    BY <1>3, SteadyBack DEF IdInv
  <1>5. CASE rx' = rx
    <2>1. Undisturbed'
      BY <1>1, <1>4, <1>5 DEF IdInv, Undisturbed
    <2>2. Unharmed'
      BY <1>1, <1>4, <1>5 DEF IdInv, Unharmed, Got
    <2> QED
      BY <1>1, <1>4, <2>1, <2>2 DEF IdInv, Known
  <1>6. ASSUME NEW u \in Unasked, rx' = Append(rx, u), noise' = noise + 1 PROVE IdInv'
    <2>1. ~ Quiet'
      BY <1>6 DEF IdInv, Known, Quiet
    <2> DEFINE t == Append(rx, u)
    <2>2. \A n \in DOMAIN rx : n \in DOMAIN t /\ t[n] = rx[n]
      BY DEF Types
    <2> HIDE DEF t
    <2>3. rx' = t
      BY <1>6 DEF t
    <2>4. Unharmed'
      <3>1. "OK" \in Got => "OK" \in Got'
        BY <2>2, <2>3 DEF Got
      <3>2. (\E n \in DOMAIN rx : n > 1 /\ rx[n] = "OK") =>
                \E n \in DOMAIN rx' : n > 1 /\ rx'[n] = "OK"
        BY <2>2, <2>3
      <3> QED
        BY <1>1, <1>4, <3>1, <3>2 DEF IdInv, Unharmed
    <2> QED
      BY <1>1, <1>4, <2>1, <2>4 DEF IdInv, Known, Undisturbed
  <1> QED
    BY <1>2, <1>5, <1>6

------------------------------------------------------------------------------

\* What is known of the identity is inductive.
LEMMA IdStep ==
    ASSUME Types, IdInv, [Next]_vars
    PROVE  IdInv'
  <1>1. CASE OtherAction
    BY <1>1, OtherActions, OtherInv
  <1>2. CASE Startup \/ SendCgsn \/ ReadImei \/ CgsnOK \/ NoMac
    BY <1>2, StartupId, SendCgsnId, ReadImeiId, CgsnOKId, NoMacId
  <1>3. CASE ModemStep \/ UNCHANGED vars
    BY <1>3, ModemId
  <1> QED
    BY <1>1, <1>2, <1>3 DEF Next, DriverStep, OtherAction, Done

\* It holds at the start.
LEMMA IdInit ==
    ASSUME Init
    PROVE  IdInv
  BY DEF Init, Off, IdInv, Known, Undisturbed, Unharmed

\* IdentityKnown of ModemStart, for any numbers of attempts, faults, late
\* answers and unsolicited lines: a report goes out under the modem's identity,
\* but for an unsolicited line or a late or lost answer (getMACAddress).
THEOREM ReportsIdentity ==
    ASSUME EnoughStartups
    PROVE  Spec => []IdentityKnown
  <1>1. Init => IInv /\ IdInv
    BY InitInv, IdInit
  <1>2. IInv /\ IdInv /\ [Next]_vars => IInv' /\ IdInv'
    BY StepInv, IdStep DEF IInv
  <1>3. IInv /\ IdInv => IdentityKnown
    <2> SUFFICES ASSUME IInv, IdInv, pc = "publish"
                 PROVE  /\ mac = "imei" \/ mac = "else" \/ mac = "null"
                        /\ mac = "else" => noise + late > 0
                        /\ mac = "null" => faults + late > 0
      BY DEF IdentityKnown
    <2>1. mac # "none" /\ faults \in Nat /\ late \in Nat /\ noise \in Nat
      BY DEF IInv, Phases, Types, Starting, Identity, Ending, IdInv, Known
    <2>2. mac = "else" => ~ Quiet
      BY DEF IdInv, Undisturbed
    <2>3. mac = "null" => ~ Reliable
      BY DEF IdInv, Unharmed
    <2> QED
      BY <2>1, <2>2, <2>3 DEF Quiet, Reliable, IdInv, Known
  <1> QED
    BY <1>1, <1>2, <1>3, PTL DEF Spec

------------------------------------------------------------------------------

(***************************************************************************)
(* Types                                                                    *)
(***************************************************************************)

\* The steps of BG96::setConnection, BG96::connect and of what follows them.
Configuring == {"configure", "configure_OK"}
Connecting == {"COPS?", "network", "COPS=", "COPS=_OK", "QIACT", "QIACT_OK"}
Publishing == {"QGPSLOC_again", "position_again", "publish"}

ModemOK ==
    /\ echo \in BOOLEAN /\ radio \in BOOLEAN /\ gps \in BOOLEAN
    /\ mode \in Technologies \cup {"any"} /\ act \in Technologies \cup {"none"}
    /\ apn \in 0 .. Len(Nbiot) /\ active \in 0 .. Len(Nbiot)

HistoryOK ==
    /\ faults \in 0 .. MaxFaults /\ noise \in 0 .. MaxNoise /\ late \in 0 .. MaxLate
    /\ closed \in BOOLEAN

\* Before the modem has told that a socket is closed there is no such line.
ClosedKnown == closed \/ \A n \in DOMAIN rx : rx[n] # "closed"

LinkOK == rx \in Seq(Word) /\ ModemOK /\ HistoryOK /\ ClosedKnown

MaxI == MAX_ATTEMPTS + MaxFixes + PdpWaits + 2 * MaxPdpRetries

DriverOK ==
    /\ max_attemps \in 0 .. MaxStartups /\ pdp_retry \in 0 .. MaxPdpRetries
    /\ i \in 0 .. MaxI /\ apn_index \in 1 .. Len(Nbiot) + 1
    /\ mac \in {"none", "imei", "else", "null"} /\ valid \in BOOLEAN

\* setConnection sends the commands that are left to the last, which sets the
\* access point and must not fail.
Item == {Try("CFUN=0"), Try("settings"), Try("nwscanmode"), Must("CFUN=1"), Must("QICSGP")}

ToDo ==
    /\ todo \in Seq(Item)
    /\ todo # <<>> => todo[Len(todo)] = Must("QICSGP")
    /\ pc = "configure_OK" => todo # <<>>

Places ==
    /\ pc \in Configuring \cup Connecting \cup Publishing => apn_index <= Len(Nbiot)
    /\ pc \in {"QGPSLOC", "position"} => i > 0

TypeInv == LinkOK /\ DriverOK /\ ToDo /\ Places

\* Every line is one that the modem sends.
LEMMA WordsAreLines == Word = Lines
  BY DEF Word, Lines

\* TypeOK is about the link and about the driver.
LEMMA TypeParts == LinkOK /\ DriverOK => TypeOK
  BY WordsAreLines DEF LinkOK, ModemOK, HistoryOK, DriverOK, MaxI, TypeOK

\* The access points are numbered.
LEMMA AccessPoints ==
    /\ Len(Nbiot) \in Nat
    /\ \A index \in 1 .. Len(Nbiot) : Nbiot[index] \in BOOLEAN
  BY ModemAssumption

\* Whatever the configuration holds, a technology is chosen.
LEMMA TechnologyIs == \A index : Technology(index) \in Technologies
  BY DEF Technology, Technologies

\* A command leaves the modem in a state it may be in.
LEMMA AcceptsTypes ==
    ASSUME ModemOK, NEW command, NEW lines, Accepts(command, lines),
           command = "QICSGP" => apn_index \in 1 .. Len(Nbiot)
    PROVE  ModemOK'
  <1>1. echo' \in BOOLEAN /\ radio' \in BOOLEAN
    BY DEF Accepts, modem, ModemOK
  <1>2. gps' \in BOOLEAN
    BY DEF Accepts, modem, ModemOK
  <1>3. mode' \in Technologies \cup {"any"}
    BY TechnologyIs DEF Accepts, modem, ModemOK
  <1>4. act' \in Technologies \cup {"none"}
    BY TechnologyIs DEF Accepts, modem, ModemOK
  <1>5. apn' \in 0 .. Len(Nbiot)
    BY AccessPoints DEF Accepts, modem, ModemOK
  <1>6. active' \in 0 .. Len(Nbiot)
    BY AccessPoints DEF Accepts, modem, ModemOK
  <1> QED BY <1>1, <1>2, <1>3, <1>4, <1>5, <1>6 DEF ModemOK

\* Failures are counted up to the bound.
LEMMA FaultsBounded ==
    ASSUME faults \in 0 .. MaxFaults, Fails \/ Works
    PROVE  faults' \in 0 .. MaxFaults
  BY ModemAssumption DEF Fails, Works

\* Lines read and answers do not tell that a socket is closed.
LEMMA ClosedStays ==
    ASSUME ClosedKnown, closed' = closed,
           \A n \in DOMAIN rx' : rx'[n] \in Got \/ rx'[n] # "closed"
    PROVE  ClosedKnown'
  BY DEF ClosedKnown, Got

\* A command keeps the link's types.
LEMMA SendTypes ==
    ASSUME LinkOK, NEW command, Send(command),
           command = "QICSGP" => apn_index \in 1 .. Len(Nbiot)
    PROVE  LinkOK'
  <1>1. rx' \in Seq(Word)
    <2>1. \A lines \in Replies : lines \in Seq(Word)
      BY ReplyShape DEF Plain
    <2>2. rx \in Seq(Word) /\ "ERROR" \in Word
      BY DEF LinkOK, Word
    <2>3. \A lines \in Replies : rx \o lines \in Seq(Word)
      BY <2>1, <2>2, ConcatProperties
    <2>4. Append(rx, "ERROR") \in Seq(Word)
      BY <2>2
    <2> QED BY <2>2, <2>3, <2>4 DEF Send
  <1>2. ModemOK'
    <2>1. CASE \E lines \in Replies : Accepts(command, lines)
      BY <2>1, AcceptsTypes DEF LinkOK
    <2>2. CASE UNCHANGED modem
      BY <2>2 DEF LinkOK, ModemOK, modem
    <2> QED BY <2>1, <2>2 DEF Send
  <1>3. HistoryOK'
    BY FaultsBounded DEF Send, LinkOK, HistoryOK
  <1>4. ClosedKnown'
    <2>1. closed' = closed /\ ClosedKnown /\ rx \in Seq(Word)
      BY DEF Send, LinkOK
    <2>2. ASSUME NEW lines \in Seq(Word), rx' = rx \o lines,
                 \A n \in DOMAIN lines : lines[n] # "closed"
          PROVE  ClosedKnown'
      <3> DEFINE s == rx \o lines
      <3>1. /\ DOMAIN s = 1 .. Len(rx) + Len(lines) /\ Len(lines) \in Nat /\ Len(rx) \in Nat
            /\ DOMAIN rx = 1 .. Len(rx) /\ DOMAIN lines = 1 .. Len(lines)
            /\ \A n \in 1 .. Len(rx) + Len(lines) :
                  s[n] = IF n <= Len(rx) THEN rx[n] ELSE lines[n - Len(rx)]
        BY <2>1, ConcatProperties
      <3>2. rx' = s
        BY <2>2
      <3> HIDE DEF s
      <3>3. ASSUME NEW n \in DOMAIN s PROVE s[n] \in Got \/ s[n] # "closed"
        <4>1. n \in 1 .. Len(rx) + Len(lines)
          BY <3>1
        <4>2. CASE n <= Len(rx)
          BY <3>1, <4>1, <4>2 DEF Got
        <4>3. CASE n > Len(rx)
          <5>1. n - Len(rx) \in DOMAIN lines /\ s[n] = lines[n - Len(rx)]
            BY <3>1, <4>1, <4>3
          <5> QED BY <2>2, <5>1
        <4> QED BY <3>1, <4>1, <4>2, <4>3
      <3> QED BY <2>1, <3>2, <3>3, ClosedStays
    <2>3. ASSUME NEW lines \in Replies PROVE /\ lines \in Seq(Word)
                                            /\ \A n \in DOMAIN lines : lines[n] # "closed"
      <3>1. lines \in Seq(Word)
        BY ReplyShape DEF Plain
      <3>2. /\ \A a : a # "closed" => \A n \in DOMAIN <<a>> : <<a>>[n] # "closed"
            /\ \A a, b : a # "closed" /\ b # "closed" =>
                  \A n \in DOMAIN <<a, b>> : <<a, b>>[n] # "closed"
        OBVIOUS
      <3>3. \A n \in DOMAIN lines : lines[n] # "closed"
        BY <3>2 DEF Replies, Technologies
      <3> QED BY <3>1, <3>3
    <2>4. <<"ERROR">> \in Replies /\ Append(rx, "ERROR") = rx \o <<"ERROR">>
      BY <2>1 DEF Replies
    <2>5. CASE rx' = rx
      BY <2>1, <2>5 DEF ClosedKnown
    <2>6. rx' = rx \/ \E lines \in Replies : rx' = rx \o lines
      BY <2>4 DEF Send
    <2> QED BY <2>2, <2>3, <2>5, <2>6
  <1> QED BY <1>1, <1>2, <1>3, <1>4 DEF LinkOK

\* Dropping lines adds none.
LEMMA DroppedClosed ==
    ASSUME rx \in Seq(Word), NEW k, Dropped(k), ClosedKnown, closed' = closed
    PROVE  ClosedKnown'
  <1>1. ASSUME NEW n \in DOMAIN rx' PROVE rx'[n] \in Got
    <2>1. k \in 0 .. Len(rx) /\ n \in 1 .. Len(rx) - k /\ rx'[n] = rx[n + k]
      BY DEF Dropped
    <2>2. n + k \in DOMAIN rx
      BY <2>1
    <2> QED BY <2>1, <2>2 DEF Got
  <1> QED BY <1>1, ClosedStays

\* Lines that arrive do.
LEMMA ArriveTypes ==
    ASSUME LinkOK, NEW k \in 0 .. Len(rx), Arrive(k)
    PROVE  LinkOK'
  <1>1. rx' \in Seq(Word)
    BY DropShape DEF LinkOK, Arrive, Dropped
  <1>2. late' \in 0 .. MaxLate
    BY ModemAssumption DEF Arrive, LinkOK, HistoryOK
  <1>3. ClosedKnown'
    <2>1. Dropped(k)
      BY DropShape DEF LinkOK, Arrive
    <2>2. closed' = closed /\ ClosedKnown
      BY DEF Arrive, LinkOK
    <2> QED BY <2>1, <2>2, DroppedClosed DEF LinkOK
  <1> QED BY <1>1, <1>2, <1>3 DEF LinkOK, ModemOK, HistoryOK, Arrive, modem

\* Reading, waiting and giving up.
ReadStep ==
    \/ \E line : Recv(line) \/ RecvFails(line) \/ Flush(line)
    \/ \E lines : Read(lines)
    \/ \E k \in 0 .. Len(rx) : Arrive(k)

\* So does everything that reads,
LEMMA ReadTypes ==
    ASSUME LinkOK, ReadStep
    PROVE  LinkOK'
  <1>1. rx \in Seq(Word) /\ Len(rx) \in Nat
    BY DEF LinkOK
  <1>2. ASSUME NEW line, Recv(line) PROVE LinkOK'
    <2> DEFINE k == First(line)
    <2>1. k \in 1 .. Len(rx)
      BY <1>1, <1>2, FirstIs DEF Recv
    <2>2. rx' = SubSeq(rx, k + 1, Len(rx))
      BY <1>2 DEF Recv
    <2> HIDE DEF k
    <2>3. rx' \in Seq(Word)
      BY <1>1, <2>1, <2>2, DropShape DEF Dropped
    <2>4. ClosedKnown'
      <3>1. closed' = closed /\ ClosedKnown
        BY <1>2 DEF Recv, LinkOK, history
      <3>2. Dropped(k)
        BY <1>1, <2>1, <2>2, DropShape
      <3> QED BY <1>1, <3>1, <3>2, DroppedClosed
    <2> QED BY <1>2, <2>3, <2>4 DEF Recv, LinkOK, ModemOK, HistoryOK, modem, history
  <1>3. ASSUME NEW line, Flush(line) PROVE \E k \in 0 .. Len(rx) : Arrive(k)
    BY <1>1, <1>3, FirstIs DEF Flush
  <1> QED BY <1>2, <1>3, ArriveTypes DEF ReadStep, RecvFails, Read


\* What a reset, the modem by itself, and a character of the IMEI leave.
LEMMA OtherTypes ==
    ASSUME LinkOK,
           \/ PowerCycle \/ Registers \/ Unsolicited \/ UNCHANGED link
           \/ rx # <<>> /\ rx' = Tail(rx) /\ UNCHANGED <<modem, history>>
    PROVE  LinkOK'
  <1>1. rx \in Seq(Word) /\ "RDY" \in Word /\ Unasked \subseteq Word /\ ClosedKnown
    BY DEF LinkOK, Word
  <1>a. ASSUME NEW s \in Seq(Word), NEW line \in Word, rx' = Append(s, line)
        PROVE  \A n \in DOMAIN rx' : (n \in DOMAIN s /\ rx'[n] = s[n]) \/ rx'[n] = line
    BY <1>a, AppendProperties
  <1>2. CASE PowerCycle
    <2>1. rx' \in Seq(Word)
      <3>1. PICK sent \in {<<>>, rx} : rx' = Append(sent, "RDY") \/ rx' = sent
        BY <1>2 DEF PowerCycle
      <3>2. sent \in Seq(Word) /\ Append(sent, "RDY") \in Seq(Word)
        BY <1>1, <3>1, EmptySeq, AppendProperties
      <3> QED BY <3>1, <3>2
    <2>2. faults' \in 0 .. MaxFaults
      BY <1>2, FaultsBounded DEF PowerCycle, LinkOK, HistoryOK
    <2>3. /\ echo' = TRUE /\ radio' = TRUE /\ act' = "none" /\ active' = 0 /\ gps' = FALSE
          /\ UNCHANGED <<mode, apn, noise, late, closed>>
      BY <1>2 DEF PowerCycle
    <2>4. 0 \in 0 .. Len(Nbiot)
      BY AccessPoints
    <2>5. ClosedKnown'
      <3>1. PICK sent \in {<<>>, rx} : rx' = Append(sent, "RDY") \/ rx' = sent
        BY <1>2 DEF PowerCycle
      <3>2. sent \in Seq(Word) /\ \A n \in DOMAIN sent : sent[n] \in Got
        <4>1. CASE sent = <<>>
          <5>1. DOMAIN sent = {}
            BY <4>1
          <5> QED BY <4>1, <5>1, EmptySeq
        <4>2. CASE sent = rx
          BY <1>1, <4>2 DEF Got
        <4> QED BY <3>1, <4>1, <4>2
      <3>3. CASE rx' = sent
        BY <1>1, <2>3, <3>2, <3>3, ClosedStays
      <3>4. CASE rx' = Append(sent, "RDY")
        <4>1. \A n \in DOMAIN rx' : (n \in DOMAIN sent /\ rx'[n] = sent[n]) \/ rx'[n] = "RDY"
          BY <1>1, <1>a, <3>2, <3>4
        <4>2. \A n \in DOMAIN rx' : rx'[n] \in Got \/ rx'[n] # "closed"
          BY <3>2, <4>1
        <4> QED BY <1>1, <2>3, <4>2, ClosedStays
      <3> QED BY <3>1, <3>3, <3>4
    <2> QED BY <2>1, <2>2, <2>3, <2>4, <2>5 DEF LinkOK, ModemOK, HistoryOK
  <1>3. CASE Registers
    BY <1>3 DEF Registers, LinkOK, ModemOK, HistoryOK, ClosedKnown, history, Technologies
  <1>4. CASE Unsolicited
    <2>1. PICK u \in Unasked : /\ rx' = Append(rx, u)
                              /\ ((u = "URC" /\ closed' = closed) \/ closed' = TRUE)
      BY <1>4 DEF Unsolicited, Unasked
    <2>2. noise' \in 0 .. MaxNoise
      BY <1>4, ModemAssumption DEF Unsolicited, LinkOK, HistoryOK
    <2>3. rx' \in Seq(Word)
      <3>1. u \in Word
        BY <1>1
      <3> QED BY <1>1, <2>1, <3>1, AppendProperties
    <2>4. ClosedKnown'
      <3>1. CASE closed' = TRUE
        BY <3>1 DEF ClosedKnown
      <3>2. CASE u = "URC" /\ closed' = closed
        <4>1. \A n \in DOMAIN rx' : (n \in DOMAIN rx /\ rx'[n] = rx[n]) \/ rx'[n] = "URC"
          <5>1. "URC" \in Word /\ rx' = Append(rx, "URC")
            BY <2>1, <3>2 DEF Word, Unasked
          <5> QED BY <1>1, <1>a, <5>1
        <4>2. \A n \in DOMAIN rx' : rx'[n] \in Got \/ rx'[n] # "closed"
          BY <4>1 DEF Got
        <4> QED BY <1>1, <3>2, <4>2, ClosedStays
      <3> QED BY <2>1, <3>1, <3>2
    <2>5. closed' \in BOOLEAN
      BY <2>1 DEF LinkOK, HistoryOK
    <2> QED BY <1>4, <2>2, <2>3, <2>4, <2>5
          DEF Unsolicited, LinkOK, ModemOK, HistoryOK, modem
  <1>5. CASE UNCHANGED link
    BY <1>5 DEF link, LinkOK, ModemOK, HistoryOK, ClosedKnown, modem, history
  <1>6. CASE rx # <<>> /\ rx' = Tail(rx) /\ UNCHANGED <<modem, history>>
    <2>1. rx' \in Seq(Word)
      BY <1>1, <1>6, HeadTailProperties
    <2>2. \A n \in DOMAIN rx' : rx'[n] \in Got
      <3>1. /\ Len(Tail(rx)) = Len(rx) - 1 /\ Len(rx) \in Nat
            /\ \A n \in 1 .. Len(Tail(rx)) : Tail(rx)[n] = rx[n + 1]
        BY <1>1, <1>6, HeadTailProperties
      <3>2. DOMAIN rx' = 1 .. Len(rx) - 1
        BY <1>6, <2>1, <3>1
      <3>3. \A n \in DOMAIN rx' : n + 1 \in DOMAIN rx /\ rx'[n] = rx[n + 1]
        BY <1>1, <1>6, <3>1, <3>2
      <3> QED BY <3>3 DEF Got
    <2>3. ClosedKnown'
      BY <1>1, <1>6, <2>2, ClosedStays DEF history
    <2> QED BY <1>6, <2>1, <2>3 DEF LinkOK, ModemOK, HistoryOK, modem, history
  <1> QED BY <1>2, <1>3, <1>4, <1>5, <1>6

\* The counters as they are set.
LEMMA CounterBounds ==
    /\ 0 \in 0 .. MaxI /\ MAX_ATTEMPTS \in 0 .. MaxI /\ MaxFixes \in 1 .. MaxI
    /\ \A n \in 0 .. MaxPdpRetries : PdpWaits + 2 * n \in 0 .. MaxI
    /\ \A n \in 0 .. MaxI : n > 0 => n - 1 \in 0 .. MaxI
    /\ \A n \in 0 .. MaxI : n > 0 => 1 .. n - 1 \subseteq 0 .. MaxI
  <1>1. /\ MAX_ATTEMPTS \in Nat /\ MaxFixes \in Nat /\ MaxFixes > 0 /\ PdpWaits \in Nat
        /\ MaxPdpRetries \in Nat
    BY AttemptAssumption
  <1>2. MaxI \in Nat
    BY <1>1 DEF MaxI
  <1>3. 0 \in 0 .. MaxI /\ MAX_ATTEMPTS \in 0 .. MaxI /\ MaxFixes \in 1 .. MaxI
    BY <1>1 DEF MaxI
  <1>4. \A n \in 0 .. MaxPdpRetries : PdpWaits + 2 * n \in 0 .. MaxI
    BY <1>1 DEF MaxI
  <1> QED BY <1>2, <1>3, <1>4

\* The driver goes on at another label.
LEMMA GotoTypes ==
    ASSUME TypeInv, NEW label, NEW n \in 0 .. MaxI, Goto(label, n),
           label # "configure_OK" \/ todo # <<>>,
           label \in Configuring \cup Connecting \cup Publishing => apn_index <= Len(Nbiot),
           label \in {"QGPSLOC", "position"} => n > 0
    PROVE  DriverOK' /\ ToDo' /\ Places'
  BY DEF Goto, TypeInv, DriverOK, ToDo, Places

\* The next access point.
LEMMA AbandonTypes ==
    ASSUME TypeInv, apn_index <= Len(Nbiot), Abandon
    PROVE  DriverOK' /\ ToDo' /\ Places'
  <1>1. todo' = <<>> /\ <<>> \in Seq(Item) /\ pc' = "apn"
    BY EmptySeq DEF Abandon
  <1>2. apn_index' \in 1 .. Len(Nbiot) + 1
    BY AccessPoints DEF Abandon, TypeInv, DriverOK
  <1> QED BY <1>1, <1>2 DEF Abandon, TypeInv, DriverOK, ToDo, Places, Configuring, Connecting,
                            Publishing

\* The commands that are sent with Command, and what they are answered at.
Commanding ==
    \/ SendEcho \/ SendRadioOff \/ SendCgsn \/ SendGps \/ SendLocation \/ SendGpsOff
    \/ SendCops \/ ChooseNetwork \/ Activate \/ SendLocationAgain \/ SendGpsEnd \/ SendPowerDown

\* and the actions that send a command.
LEMMA CommandingTypes ==
    ASSUME TypeInv, Commanding
    PROVE  TypeInv'
  <1> USE CounterBounds, GotoTypes DEF Command, Configuring, Connecting, Publishing
  <1>1. i \in 0 .. MaxI /\ pdp_retry \in 0 .. MaxPdpRetries /\ LinkOK
    BY DEF TypeInv, DriverOK
  <1>2. \E command : command # "QICSGP" /\ Send(command)
    BY DEF Commanding, SendEcho, SendRadioOff, SendCgsn, SendGps, SendLocation, SendGpsOff,
           SendCops, ChooseNetwork, Activate, SendLocationAgain, SendGpsEnd, SendPowerDown
  <1>3. LinkOK'
    BY <1>1, <1>2, SendTypes
  <1>4. CASE SendEcho \/ SendRadioOff \/ SendCgsn
    BY <1>3, <1>4 DEF SendEcho, SendRadioOff, SendCgsn, TypeInv
  <1>5. CASE SendGps
    BY <1>1, <1>3, <1>5 DEF SendGps, TypeInv
  <1>6. CASE SendLocation
    <2>1. pc = "QGPSLOC" /\ Goto("position", i) /\ i > 0
      BY <1>6 DEF SendLocation, TypeInv, Places
    <2> QED BY <1>1, <1>3, <2>1 DEF TypeInv
  <1>7. CASE SendGpsOff
    BY <1>3, <1>7 DEF SendGpsOff, TypeInv
  <1>8. CASE SendCops \/ ChooseNetwork \/ Activate \/ SendLocationAgain
    <2>1. pc \in Connecting \cup Publishing /\ apn_index <= Len(Nbiot)
      BY <1>8 DEF SendCops, ChooseNetwork, Activate, SendLocationAgain, TypeInv, Places
    <2>2. CASE SendCops
      BY <1>1, <1>3, <2>1, <2>2 DEF SendCops, TypeInv
    <2>3. CASE ChooseNetwork
      BY <1>3, <2>1, <2>3 DEF ChooseNetwork, TypeInv
    <2>4. CASE Activate
      <3>1. Goto("QIACT_OK", PdpWaits + 2 * pdp_retry) /\ PdpWaits + 2 * pdp_retry \in 0 .. MaxI
        BY <1>1, <2>4 DEF Activate
      <3> QED BY <1>3, <2>1, <3>1 DEF TypeInv
    <2>5. CASE SendLocationAgain
      BY <1>3, <2>1, <2>5 DEF SendLocationAgain, TypeInv
    <2> QED BY <1>8, <2>2, <2>3, <2>4, <2>5
  <1>9. CASE SendGpsEnd \/ SendPowerDown
    BY <1>3, <1>9 DEF SendGpsEnd, SendPowerDown, TypeInv
  <1> QED BY <1>4, <1>5, <1>6, <1>7, <1>8, <1>9 DEF Commanding


\* What is read.
Reading ==
    \/ Ready \/ NotReady \/ EchoOK \/ Startup \/ LastAttempt \/ KeepWaiting
    \/ CgsnOK \/ NoMac \/ GpsOn \/ GpsNotOn \/ Position \/ GpsOff
    \/ CommandOK \/ CommandFails \/ NetworkRead \/ NetworkChosen \/ NetworkRefused
    \/ Activated \/ ActivateAgain \/ PositionAgain \/ GpsEnd \/ PoweredDown

\* One more turn of a loop is reading.
LEMMA WaitOnReads ==
    ASSUME NEW label, NEW line, rx \in Seq(Word), WaitOn(label, line)
    PROVE  ReadStep
  <1>1. CASE line \in Got
    <2>1. First(line) - 1 \in 0 .. Len(rx)
      BY <1>1, FirstIs
    <2> QED BY <1>1, <2>1 DEF WaitOn, ReadStep
  <1>2. CASE line \notin Got
    <2>1. Len(rx) \in 0 .. Len(rx)
      OBVIOUS
    <2> QED BY <1>2, <2>1 DEF WaitOn, ReadStep
  <1> QED BY <1>1, <1>2

\* These actions read.
LEMMA ReadingReads ==
    ASSUME TypeInv, Reading
    PROVE  ReadStep
  <1>1. rx \in Seq(Word)
    BY DEF TypeInv, LinkOK
  <1>2. CASE KeepWaiting
    BY <1>1, <1>2, WaitOnReads DEF KeepWaiting
  <1>3. CASE Ready \/ NotReady \/ EchoOK \/ Startup \/ LastAttempt
    BY <1>3 DEF Ready, NotReady, EchoOK, Startup, LastAttempt, Awaited, ReadStep
  <1>4. CASE CgsnOK \/ NoMac \/ GpsOn \/ GpsNotOn \/ Position \/ GpsOff
    BY <1>4 DEF CgsnOK, NoMac, GpsOn, GpsNotOn, Position, GpsOff, Awaited, NotAwaited, ReadStep
  <1>5. CASE CommandOK \/ CommandFails \/ NetworkRead \/ NetworkChosen \/ NetworkRefused
    BY <1>5 DEF CommandOK, CommandFails, NetworkRead, NetworkChosen, NetworkRefused, Awaited, ReadStep
  <1>6. CASE Activated \/ ActivateAgain \/ PositionAgain \/ GpsEnd \/ PoweredDown
    BY <1>6 DEF Activated, ActivateAgain, PositionAgain, GpsEnd, PoweredDown, Awaited, NotAwaited,
                ReadStep
  <1> QED BY <1>2, <1>3, <1>4, <1>5, <1>6 DEF Reading

\* What is read decides where the driver goes on.
LEMMA WaitOnTypes ==
    ASSUME TypeInv, NEW label, NEW line, WaitOn(label, line),
           label \in {"RDY", "ATE0_OK", "CFUN_OK", "QIACT_OK"}
    PROVE  DriverOK' /\ ToDo' /\ Places'
  <1>1. pc = label /\ i > 1 /\ i \in 0 .. MaxI
    BY DEF WaitOn, TypeInv, DriverOK
  <1>2. PICK n : Goto(label, n) /\ (n \in 1 .. i - 1 \/ n = i - 1)
    BY DEF WaitOn
  <1>3. n \in 0 .. MaxI
    BY <1>1, <1>2, CounterBounds
  <1>4. label = "QIACT_OK" => apn_index <= Len(Nbiot)
    BY <1>1 DEF TypeInv, Places, Connecting
  <1> QED BY <1>2, <1>3, <1>4, GotoTypes DEF Configuring, Connecting, Publishing

\* They keep the types.
LEMMA ReadingTypes ==
    ASSUME TypeInv, Reading
    PROVE  TypeInv'
  <1> USE CounterBounds, GotoTypes DEF Configuring, Connecting, Publishing
  <1>1. i \in 0 .. MaxI /\ pdp_retry \in 0 .. MaxPdpRetries /\ LinkOK /\ todo \in Seq(Item)
    BY DEF TypeInv, DriverOK, ToDo
  <1>2. LinkOK'
    BY <1>1, ReadingReads, ReadTypes
  <1>3. CASE Ready \/ NotReady \/ EchoOK \/ Startup \/ LastAttempt
    BY <1>2, <1>3 DEF Ready, NotReady, EchoOK, Startup, LastAttempt, Awaited, TypeInv
  <1>4. CASE KeepWaiting
    BY <1>2, <1>4, WaitOnTypes DEF KeepWaiting, TypeInv
  <1>5. CASE CgsnOK \/ GpsOn \/ GpsOff \/ GpsEnd \/ PoweredDown
    BY <1>2, <1>5 DEF CgsnOK, GpsOn, GpsOff, GpsEnd, PoweredDown, Awaited, NotAwaited, TypeInv
  <1>6. CASE NoMac
    BY <1>2, <1>6 DEF NoMac, TypeInv, DriverOK, ToDo, Places
  <1>7. CASE GpsNotOn
    <2>1. \E label \in {"apn", "QGPS"}, n \in 0 .. MaxI : Goto(label, n)
      BY <1>1, <1>7 DEF GpsNotOn
    <2> QED BY <1>2, <2>1 DEF TypeInv
  <1>8. CASE Position
    <2>1. pc = "position" /\ i > 0
      BY <1>8 DEF Position, TypeInv, Places
    <2>2. i - 1 \in 0 .. MaxI /\ (i > 1 => i - 1 > 0)
      BY <1>1, <2>1
    <2>3. /\ pc' \in {"QGPSEND", "QGPSLOC", "apn"} /\ (pc' = "QGPSLOC" => i > 1)
          /\ valid' \in BOOLEAN /\ i' = i - 1
          /\ UNCHANGED <<max_attemps, pdp_retry, todo, apn_index, mac>>
      BY <1>8 DEF Position
    <2>4. DriverOK'
      BY <2>2, <2>3 DEF TypeInv, DriverOK
    <2>5. ToDo' /\ Places'
      BY <2>2, <2>3 DEF TypeInv, ToDo, Places
    <2> QED BY <1>2, <2>4, <2>5 DEF TypeInv
  <1>9. CASE CommandOK
    <2>1. /\ pc = "configure_OK" /\ todo # <<>> /\ pc' = "configure" /\ todo' = Tail(todo)
          /\ UNCHANGED <<max_attemps, i, pdp_retry, apn_index, mac, valid>>
          /\ apn_index <= Len(Nbiot)
      BY <1>9 DEF CommandOK, TypeInv, ToDo, Places
    <2>2. /\ todo' \in Seq(Item) /\ Len(todo') = Len(todo) - 1
          /\ \A n \in 1 .. Len(todo') : todo'[n] = todo[n + 1]
      BY <1>1, <2>1, HeadTailProperties
    <2>3. ASSUME todo' # <<>> PROVE todo'[Len(todo')] = Must("QICSGP")
      <3> DEFINE left == todo'
      <3>1. left \in Seq(Item) /\ left # <<>>
        BY <2>2, <2>3
      <3>2. Len(left) \in 1 .. Len(left) /\ Len(todo) = Len(left) + 1
        <4>1. Len(todo) \in Nat /\ Len(left) = Len(todo) - 1
          BY <1>1, <2>2
        <4> HIDE DEF left
        <4>2. Len(left) \in Nat \ {0}
          BY <3>1, EmptySeq
        <4> QED BY <4>1, <4>2
      <3>3. left[Len(left)] = todo[Len(todo)]
        BY <2>2, <3>2
      <3> QED BY <2>1, <3>3 DEF TypeInv, ToDo
    <2>4. ToDo'
      BY <2>1, <2>2, <2>3 DEF ToDo
    <2> QED BY <1>2, <2>1, <2>4 DEF TypeInv, DriverOK, Places
  <1>10. CASE CommandFails \/ NetworkRefused
    <2>1. apn_index <= Len(Nbiot) /\ Abandon
      BY <1>10 DEF CommandFails, NetworkRefused, TypeInv, Places
    <2> QED BY <1>2, <2>1, AbandonTypes DEF TypeInv
  <1>11. CASE NetworkRead
    <2>1. apn_index <= Len(Nbiot)
      BY <1>11 DEF NetworkRead, TypeInv, Places
    <2>2. \/ Goto("QIACT", 0) \/ Goto("COPS=", 0) \/ Abandon
          \/ i > 1 /\ Goto("COPS?", i - 1)
      BY <1>11 DEF NetworkRead
    <2>3. i > 1 => i - 1 \in 0 .. MaxI
      BY <1>1
    <2> QED BY <1>2, <2>1, <2>2, <2>3, AbandonTypes DEF TypeInv
  <1>12. CASE NetworkChosen
    <2>1. apn_index <= Len(Nbiot)
      BY <1>12 DEF NetworkChosen, Awaited, TypeInv, Places
    <2> QED BY <1>2, <1>12, <2>1 DEF NetworkChosen, Awaited, TypeInv
  <1>13. CASE Activated \/ PositionAgain
    <2>1. apn_index <= Len(Nbiot) /\ UNCHANGED <<max_attemps, i, todo, apn_index, mac>>
      BY <1>13 DEF Activated, PositionAgain, TypeInv, Places
    <2>2. pc' \in {"publish", "QGPSLOC_again"} /\ valid' \in BOOLEAN /\ pdp_retry' \in {0, pdp_retry}
      <3>1. CASE Activated
        BY <3>1 DEF Activated, TypeInv, DriverOK
      <3>2. CASE PositionAgain
        BY <3>2 DEF PositionAgain
      <3> QED BY <1>13, <3>1, <3>2
    <2>3. 0 \in 0 .. MaxPdpRetries
      BY AttemptAssumption
    <2> QED BY <1>2, <2>1, <2>2, <2>3 DEF TypeInv, DriverOK, ToDo, Places
  <1>14. CASE ActivateAgain
    <2>1. pc = "QIACT_OK" /\ apn_index <= Len(Nbiot)
      BY <1>14 DEF ActivateAgain, TypeInv, Places
    <2>2. CASE pdp_retry < MaxPdpRetries
      <3>1. /\ pc' = "QIACT" /\ pdp_retry' = pdp_retry + 1
            /\ UNCHANGED <<max_attemps, i, todo, apn_index, mac, valid>>
        BY <1>14, <2>2 DEF ActivateAgain
      <3>2. pdp_retry' \in 0 .. MaxPdpRetries
        BY <1>1, <2>2, <3>1, AttemptAssumption
      <3> QED BY <1>2, <2>1, <3>1, <3>2 DEF TypeInv, DriverOK, ToDo, Places
    <2>3. CASE ~ pdp_retry < MaxPdpRetries
      <3>1. /\ pc' = "apn" /\ pdp_retry' = 0 /\ apn_index' = apn_index + 1
            /\ UNCHANGED <<max_attemps, i, todo, mac, valid>>
        BY <1>14, <2>3 DEF ActivateAgain
      <3>2. apn_index' \in 1 .. Len(Nbiot) + 1 /\ 0 \in 0 .. MaxPdpRetries
        BY <2>1, <3>1, AccessPoints, AttemptAssumption DEF TypeInv, DriverOK
      <3> QED BY <1>2, <3>1, <3>2 DEF TypeInv, DriverOK, ToDo, Places
    <2> QED BY <2>2, <2>3
  <1> QED BY <1>3, <1>4, <1>5, <1>6, <1>7, <1>8, <1>9, <1>10, <1>11, <1>12, <1>13, <1>14 DEF Reading

\* The commands of setConnection, of which there is a last one.
LEMMA CommandsShape ==
    ASSUME NEW nbiot \in BOOLEAN
    PROVE  /\ Commands(nbiot) \in Seq(Item)
           /\ Commands(nbiot) # <<>>
           /\ Commands(nbiot)[Len(Commands(nbiot))] = Must("QICSGP")
  <1>1. CASE nbiot = TRUE
    BY <1>1 DEF Commands, Item
  <1>2. CASE nbiot = FALSE
    BY <1>2 DEF Commands, Item
  <1> QED BY <1>1, <1>2

\* The other steps of the driver.
Acting ==
    \/ WakeUp \/ StartupFailed \/ ReadImei \/ NextApn \/ SendCommand \/ Configured \/ Published

\* The actions that send, power-cycle or report keep them.
LEMMA ActingTypes ==
    ASSUME TypeInv, Acting
    PROVE  TypeInv'
  <1> USE CounterBounds, GotoTypes DEF Configuring, Connecting, Publishing
  <1>1. i \in 0 .. MaxI /\ LinkOK /\ todo \in Seq(Item)
    BY DEF TypeInv, DriverOK, ToDo
  <1>2. CASE WakeUp
    <2>1. LinkOK'
      BY <1>1, <1>2, OtherTypes DEF WakeUp
    <2>2. MaxStartups - 1 \in 0 .. MaxStartups
      BY AttemptAssumption
    <2> QED BY <1>2, <2>1, <2>2 DEF WakeUp, TypeInv, DriverOK, ToDo, Places
  <1>3. CASE StartupFailed
    <2>1. LinkOK'
      BY <1>1, <1>3, OtherTypes DEF StartupFailed
    <2>2. max_attemps # 0 => max_attemps - 1 \in 0 .. MaxStartups
      BY AttemptAssumption DEF TypeInv, DriverOK
    <2>3. /\ max_attemps' \in 0 .. MaxStartups /\ i' \in 0 .. MaxI /\ pc' \in {"GPSOff", "RDY"}
          /\ UNCHANGED <<pdp_retry, todo, apn_index, mac, valid>>
      BY <1>1, <1>3, <2>2 DEF StartupFailed, TypeInv, DriverOK
    <2> QED BY <2>1, <2>3 DEF TypeInv, DriverOK, ToDo, Places
  <1>4. CASE ReadImei
    <2>1. LinkOK'
      <3>1. CASE rx # <<>> /\ rx' = Tail(rx) /\ UNCHANGED <<modem, history>>
        BY <1>1, <3>1, OtherTypes
      <3>2. CASE Read({})
        BY <1>1, <3>2, ReadTypes DEF ReadStep
      <3> QED BY <1>4, <3>1, <3>2 DEF ReadImei
    <2>2. /\ mac' \in {"imei", "else", "null"} /\ pc' \in {"CGSN_OK", "QGPS"} /\ i' = MAX_ATTEMPTS
          /\ UNCHANGED <<max_attemps, pdp_retry, todo, apn_index, valid>>
      BY <1>4 DEF ReadImei
    <2> QED BY <2>1, <2>2 DEF TypeInv, DriverOK, ToDo, Places
  <1>5. CASE NextApn
    <2>1. LinkOK'
      BY <1>1, <1>5, OtherTypes DEF NextApn
    <2>2. UNCHANGED <<max_attemps, i, pdp_retry, apn_index, mac, valid>>
      BY <1>5 DEF NextApn
    <2>3. CASE apn_index > Len(Nbiot)
      BY <1>5, <2>1, <2>2, <2>3 DEF NextApn, TypeInv, DriverOK, ToDo, Places
    <2>4. CASE ~ apn_index > Len(Nbiot)
      <3>1. pc' = "configure" /\ todo' = Commands(Nbiot[apn_index]) /\ apn_index \in 1 .. Len(Nbiot)
        BY <1>5, <2>4, AccessPoints DEF NextApn, TypeInv, DriverOK
      <3>2. todo' \in Seq(Item) /\ todo'[Len(todo')] = Must("QICSGP")
        BY <3>1, AccessPoints, CommandsShape
      <3>3. apn_index' <= Len(Nbiot)
        BY <2>2, <3>1, AccessPoints
      <3> QED BY <2>1, <2>2, <3>1, <3>2, <3>3 DEF TypeInv, DriverOK, ToDo, Places
    <2> QED BY <2>3, <2>4
  <1>6. CASE SendCommand
    <2>1. /\ todo # <<>> /\ Send(Head(todo).command) /\ Goto("configure_OK", 0)
          /\ apn_index \in 1 .. Len(Nbiot)
      BY <1>6, AccessPoints DEF SendCommand, TypeInv, Places, DriverOK
    <2>2. LinkOK'
      BY <1>1, <2>1, SendTypes
    <2>3. apn_index <= Len(Nbiot)
      BY <2>1, AccessPoints
    <2> QED BY <2>1, <2>2, <2>3 DEF TypeInv
  <1>7. CASE Configured
    <2>1. LinkOK' /\ Goto("COPS?", MAX_ATTEMPTS) /\ apn_index <= Len(Nbiot)
      BY <1>1, <1>7, OtherTypes DEF Configured, TypeInv, Places
    <2> QED BY <2>1 DEF TypeInv
  <1>8. CASE Published
    <2>1. LinkOK' /\ apn_index <= Len(Nbiot)
      BY <1>1, <1>8, OtherTypes DEF Published, TypeInv, Places
    <2> QED BY <1>8, <2>1, AbandonTypes DEF Published, TypeInv
  <1> QED BY <1>2, <1>3, <1>4, <1>5, <1>6, <1>7, <1>8 DEF Acting

\* The types are an inductive invariant.
LEMMA TypeStep ==
    ASSUME TypeInv, [Next]_vars
    PROVE  TypeInv'
  <1>1. CASE ModemStep \/ UNCHANGED vars
    <2>1. LinkOK'
      BY <1>1, OtherTypes DEF ModemStep, vars, TypeInv
    <2>2. UNCHANGED driver
      BY <1>1 DEF ModemStep, vars
    <2> QED BY <2>1, <2>2 DEF driver, TypeInv, DriverOK, ToDo, Places
  <1> QED BY <1>1, CommandingTypes, ReadingTypes, ActingTypes
          DEF Next, DriverStep, Done, Commanding, Reading, Acting

\* They hold at the start.
LEMMA TypeInit ==
    ASSUME Init
    PROVE  TypeInv
  <1>1. /\ 0 \in 0 .. MaxFaults /\ 0 \in 0 .. MaxNoise /\ 0 \in 0 .. MaxLate
        /\ 0 \in 0 .. MaxStartups /\ 0 \in 0 .. MaxPdpRetries /\ 1 \in 1 .. Len(Nbiot) + 1
        /\ 0 \in 0 .. Len(Nbiot) /\ <<>> \in Seq(Word) /\ <<>> \in Seq(Item)
    BY AttemptAssumption, ModemAssumption, AccessPoints, EmptySeq
  <1>2. LinkOK
    <2>1. rx = <<>> /\ DOMAIN rx = {}
      BY DEF Init
    <2>2. ClosedKnown
      BY <2>1 DEF ClosedKnown
    <2> QED BY <1>1, <2>2 DEF Init, Off, LinkOK, ModemOK, HistoryOK
  <1>3. DriverOK /\ ToDo /\ Places
    BY <1>1, CounterBounds DEF Init, DriverOK, ToDo, Places, Configuring, Connecting, Publishing
  <1> QED BY <1>2, <1>3 DEF TypeInv

\* The variables keep their types, for any numbers of attempts, faults, late
\* answers, unsolicited lines and access points.
THEOREM TypesKept == Spec => []TypeOK
  <1>1. TypeInv => TypeOK
    BY TypeParts DEF TypeInv
  <1> QED BY <1>1, TypeInit, TypeStep, PTL DEF Spec

------------------------------------------------------------------------------

(***************************************************************************)
(* The network a report goes out over.  While no answer is late, what is    *)
(* read belongs to the command before: when it is sent, there are only      *)
(* unsolicited lines, and after the OK of its answer again.                 *)
(***************************************************************************)

OnlyUrc == \A n \in DOMAIN rx : rx[n] \in Unasked

UrcAfterOK == \A m, n \in DOMAIN rx : rx[m] = "OK" /\ m < n => rx[n] \in Unasked

Commandable ==
    {"CGSN", "QGPS", "QGPSLOC", "QGPSEND", "apn", "configure", "COPS?", "COPS=", "QIACT",
     "QGPSLOC_again", "publish"}

Answerable ==
    {"IMEI", "CGSN_OK", "QGPS_OK", "position", "QGPSEND_OK", "configure_OK", "network",
     "COPS=_OK", "QIACT_OK", "position_again"}

\* The context has the access point meant from the last command of
\* setConnection on; connect asks for the technology, then activates it.
NetInv ==
    late = 0 =>
        /\ pc \in Commandable => OnlyUrc
        /\ pc \in Answerable => UrcAfterOK
        /\ pc \in Connecting \/ (pc = "configure" /\ todo = <<>>) => apn = apn_index
        /\ pc = "configure_OK" /\ Head(todo) = Must("QICSGP") /\ "OK" \in Got => apn = apn_index
        /\ pc = "network" => \A t \in Technologies \cap Got : act = t
        /\ pc \in {"QIACT", "QIACT_OK"} \cup Publishing =>
              closed \/ act = Technology(apn_index)
        /\ pc = "QIACT_OK" /\ "OK" \in Got => active = apn_index
        /\ pc \in Publishing => active = apn_index

\* After the OK there are unsolicited lines only.
LEMMA RecvClears ==
    ASSUME LinkOK, UrcAfterOK, Recv("OK")
    PROVE  OnlyUrc' /\ "OK" \in Got /\ UNCHANGED <<modem, late, closed>>
  <1> DEFINE k == First("OK")
  <1>1. /\ k \in 1 .. Len(rx) /\ rx[k] = "OK" /\ "OK" \in Got /\ rx' = SubSeq(rx, k + 1, Len(rx))
        /\ UNCHANGED <<modem, history>>
    BY FirstIs DEF Recv, LinkOK
  <1> HIDE DEF k
  <1>2. Dropped(k)
    BY <1>1, DropShape DEF LinkOK
  <1>3. ASSUME NEW n \in DOMAIN rx' PROVE rx'[n] \in Unasked
    <2>1. Len(rx) \in Nat /\ DOMAIN rx = 1 .. Len(rx) /\ DOMAIN rx' = 1 .. Len(rx) - k
          /\ rx'[n] = rx[n + k]
      BY <1>2 DEF Dropped, LinkOK
    <2>2. n + k \in DOMAIN rx /\ k \in DOMAIN rx /\ k < n + k
      BY <1>1, <2>1
    <2> QED BY <1>1, <2>1, <2>2 DEF UrcAfterOK
  <1> QED BY <1>1, <1>3 DEF OnlyUrc, history

\* A timeout before which all has come leaves nothing.
LEMMA ArriveClears ==
    ASSUME LinkOK, NEW k \in 0 .. Len(rx), Arrive(k), late' = 0
    PROVE  k = Len(rx) /\ rx' = <<>> /\ UNCHANGED <<modem, late, closed>>
  <1>1. late \in Nat /\ rx \in Seq(Word) /\ Len(rx) \in Nat
    BY ModemAssumption DEF LinkOK, HistoryOK
  <1>2. k = Len(rx) /\ late' = late
    BY <1>1 DEF Arrive
  <1>3. rx' = SubSeq(rx, Len(rx) + 1, Len(rx))
    BY <1>2 DEF Arrive
  <1>4. rx' = <<>>
    BY <1>1, <1>3, SubSeqEmpty
  <1> QED BY <1>2, <1>4 DEF Arrive

\* In time, a recv() that fails has seen every line,
LEMMA FailsClears ==
    ASSUME LinkOK, NEW line, RecvFails(line), late' = 0
    PROVE  rx' = <<>> /\ UNCHANGED <<modem, late, closed>>
  BY ArriveClears DEF RecvFails

\* reading until a timeout has,
LEMMA ReadClears ==
    ASSUME LinkOK, NEW lines, Read(lines), late' = 0
    PROVE  rx' = <<>> /\ lines = Got /\ UNCHANGED <<modem, late, closed>>
  <1>1. PICK k \in 0 .. Len(rx) : Arrive(k) /\ lines = {rx[n] : n \in 1 .. k}
    BY DEF Read
  <1>2. k = Len(rx) /\ rx' = <<>> /\ UNCHANGED <<modem, late, closed>>
    BY <1>1, ArriveClears
  <1>3. DOMAIN rx = 1 .. Len(rx)
    BY DEF LinkOK
  <1> QED BY <1>1, <1>2, <1>3 DEF Got

\* and a flush has.
LEMMA FlushClears ==
    ASSUME LinkOK, NEW line, Flush(line), late' = 0
    PROVE  rx' = <<>> /\ late' = late
  <1>1. First(line) \in 1 .. Len(rx)
    BY FirstIs DEF Flush, LinkOK
  <1>2. PICK k \in First(line) .. Len(rx) : Arrive(k)
    BY DEF Flush
  <1>3. k \in 0 .. Len(rx)
    BY <1>1 DEF LinkOK
  <1> QED BY <1>2, <1>3, ArriveClears

\* OK is the last line of an answer, but for that to AT+QPOWD.
LEMMA OKLast ==
    ASSUME NEW lines \in Replies, lines # <<"OK", "POWERED_DOWN">>,
           NEW n \in 1 .. Len(lines), lines[n] = "OK"
    PROVE  n = Len(lines)
  <1>1. /\ \A a : Len(<<a>>) = 1
        /\ \A a, b : Len(<<a, b>>) = 2 /\ <<a, b>>[1] = a
    OBVIOUS
  <1>2. \A t \in Technologies \cup {"none"} : t # "OK"
    BY DEF Technologies
  <1>3. lines \in {<<"OK">>, <<"ERROR">>} \/ \E a : a # "OK" /\ lines = <<a, "OK">>
    BY <1>2 DEF Replies
  <1>4. CASE lines \in {<<"OK">>, <<"ERROR">>}
    <2>1. Len(lines) = 1
      BY <1>1, <1>4
    <2> QED BY <2>1
  <1>5. CASE \E a : a # "OK" /\ lines = <<a, "OK">>
    BY <1>1, <1>5
  <1> QED BY <1>3, <1>4, <1>5

\* Only AT+QPOWD is answered with this.
LEMMA ReplyOfPowerDown ==
    ASSUME NEW command, command # "QPOWD", NEW lines, Accepts(command, lines)
    PROVE  lines # <<"OK", "POWERED_DOWN">>
  <1>1. /\ \A a : <<a>> # <<"OK", "POWERED_DOWN">>
        /\ \A a : <<a, "OK">> # <<"OK", "POWERED_DOWN">>
    <2>1. ASSUME NEW a PROVE <<a>> # <<"OK", "POWERED_DOWN">>
      <3>1. Len(<<a>>) = 1 /\ Len(<<"OK", "POWERED_DOWN">>) = 2
        OBVIOUS
      <3> QED BY <3>1
    <2>2. ASSUME NEW a PROVE <<a, "OK">> # <<"OK", "POWERED_DOWN">>
      OBVIOUS
    <2> QED BY <2>1, <2>2
  <1>2. \E a : lines = <<a>> \/ lines = <<a, "OK">>
    BY DEF Accepts
  <1> QED BY <1>1, <1>2

\* What is read after a command are its answer, ERROR if it is refused, and
\* unsolicited lines.
LEMMA SendFollows ==
    ASSUME LinkOK, OnlyUrc, NEW command, command # "QPOWD", Send(command)
    PROVE  /\ UrcAfterOK' /\ late' = late /\ closed' = closed
           /\ \/ \E lines \in Replies :
                    /\ Accepts(command, lines)
                    /\ \A line \in Got' : line \in Unasked \/ \E n \in DOMAIN lines : lines[n] = line
              \/ UNCHANGED modem /\ \A line \in Got' : line \in Unasked \cup {"ERROR"}
  <1>1. rx \in Seq(Word) /\ Len(rx) \in Nat /\ DOMAIN rx = 1 .. Len(rx)
    BY DEF LinkOK
  <1>2. ASSUME NEW lines \in Seq(Word), rx' = rx \o lines,
               \A n \in 1 .. Len(lines) : lines[n] = "OK" => n = Len(lines)
        PROVE  /\ UrcAfterOK'
               /\ \A line \in Got' : line \in Unasked \/ \E n \in DOMAIN lines : lines[n] = line
    <2> DEFINE s == rx \o lines
    <2>1. /\ DOMAIN s = 1 .. Len(rx) + Len(lines) /\ Len(lines) \in Nat
          /\ DOMAIN lines = 1 .. Len(lines)
          /\ \A n \in 1 .. Len(rx) + Len(lines) :
                s[n] = IF n <= Len(rx) THEN rx[n] ELSE lines[n - Len(rx)]
      BY <1>1, <1>2, ConcatProperties
    <2>2. rx' = s
      BY <1>2
    <2> HIDE DEF s
    <2>3. ASSUME NEW n \in DOMAIN s
          PROVE  \/ n <= Len(rx) /\ s[n] \in Unasked
                 \/ n > Len(rx) /\ n - Len(rx) \in DOMAIN lines /\ s[n] = lines[n - Len(rx)]
      <3>1. n \in 1 .. Len(rx) + Len(lines)
        BY <2>1
      <3>2. CASE n <= Len(rx)
        BY <1>1, <2>1, <3>1, <3>2 DEF OnlyUrc
      <3>3. CASE n > Len(rx)
        BY <1>1, <2>1, <3>1, <3>3
      <3> QED BY <1>1, <3>1, <3>2, <3>3
    <2>4. ASSUME NEW m \in DOMAIN s, NEW n \in DOMAIN s, s[m] = "OK", m < n PROVE FALSE
      <3>1. m > Len(rx) /\ m - Len(rx) \in DOMAIN lines /\ lines[m - Len(rx)] = "OK"
        BY <2>3, <2>4 DEF Unasked
      <3>2. m - Len(rx) = Len(lines)
        BY <1>2, <2>1, <3>1
      <3> QED BY <1>1, <2>1, <2>4, <3>2
    <2>5. UrcAfterOK'
      BY <2>2, <2>4 DEF UrcAfterOK
    <2>6. \A line \in Got' : line \in Unasked \/ \E n \in DOMAIN lines : lines[n] = line
      BY <2>2, <2>3 DEF Got
    <2> QED BY <2>5, <2>6
  <1>3. CASE \E lines \in Replies : Accepts(command, lines) /\ rx' = rx \o lines
    <2>1. PICK lines \in Replies : Accepts(command, lines) /\ rx' = rx \o lines
      BY <1>3
    <2>2. lines \in Seq(Word) /\ lines # <<"OK", "POWERED_DOWN">>
      <3>1. lines \in Seq(Word)
        BY ReplyShape DEF Plain
      <3>2. lines # <<"OK", "POWERED_DOWN">>
        BY <2>1, ReplyOfPowerDown
      <3> QED BY <3>1, <3>2
    <2>3. \A n \in 1 .. Len(lines) : lines[n] = "OK" => n = Len(lines)
      BY <2>2, OKLast
    <2> QED BY <1>2, <2>1, <2>2, <2>3 DEF Send
  <1>4. CASE \E lines \in Replies : Accepts(command, lines) /\ UNCHANGED rx
    <2>1. \A line \in Got' : line \in Unasked
      BY <1>4 DEF OnlyUrc, Got
    <2>2. UrcAfterOK'
      BY <1>4 DEF OnlyUrc, UrcAfterOK
    <2> QED BY <1>4, <2>1, <2>2 DEF Send
  <1>5. CASE UNCHANGED modem /\ rx' = Append(rx, "ERROR")
    <2> DEFINE e == <<"ERROR">>
    <2>1. e \in Seq(Word) /\ rx' = rx \o e /\ Len(e) = 1 /\ DOMAIN e = 1 .. 1 /\ e[1] = "ERROR"
      BY <1>1, <1>5 DEF Word
    <2> HIDE DEF e
    <2>2. \A n \in 1 .. Len(e) : e[n] # "OK"
      BY <2>1
    <2>3. /\ UrcAfterOK'
          /\ \A line \in Got' : line \in Unasked \/ \E n \in DOMAIN e : e[n] = line
      BY <1>2, <2>1, <2>2
    <2>4. \A line \in Got' : line \in Unasked \cup {"ERROR"}
      BY <2>1, <2>3
    <2> QED BY <1>5, <2>3, <2>4 DEF Send
  <1> QED BY <1>3, <1>4, <1>5 DEF Send

\* What the commands that matter here do, if they are not refused.
LEMMA AcceptsNetwork ==
    ASSUME NEW lines
    PROVE  /\ Accepts("COPS?", lines) => lines = <<act, "OK">> /\ UNCHANGED modem
           /\ Accepts("QICSGP", lines) => apn' = apn_index
           /\ Accepts("COPS=", lines) => apn' = apn
           /\ Accepts("QIACT", lines) =>
                 /\ act' = act /\ apn' = apn
                 /\ lines = <<"ERROR">> \/ (lines = <<"OK">> /\ active' = apn)
           /\ Accepts("QGPSLOC", lines) => UNCHANGED modem
  <1>1. Accepts("COPS?", lines) => lines = <<act, "OK">> /\ UNCHANGED modem
    BY DEF Accepts
  <1>2. Accepts("QICSGP", lines) => apn' = apn_index
    BY DEF Accepts
  <1>3. Accepts("COPS=", lines) => apn' = apn
    BY DEF Accepts, modem
  <1>4. Accepts("QIACT", lines) =>
                 /\ act' = act /\ apn' = apn
                 /\ lines = <<"ERROR">> \/ (lines = <<"OK">> /\ active' = apn)
    BY DEF Accepts, modem
  <1>5. Accepts("QGPSLOC", lines) => UNCHANGED modem
    BY DEF Accepts
  <1> QED BY <1>1, <1>2, <1>3, <1>4, <1>5

\* Nothing is said about the start-up and the shutdown.
LEMMA Elsewhere ==
    ASSUME pc' \notin Commandable \cup Answerable
    PROVE  NetInv'
  BY DEF NetInv, Commandable, Answerable, Connecting, Publishing

\* At the startup and at the end nothing is known of the network, and nothing has to be.
LEMMA StartAndEnd ==
    ASSUME \/ WakeUp \/ Ready \/ NotReady \/ SendEcho \/ EchoOK \/ SendRadioOff \/ LastAttempt
           \/ StartupFailed \/ WaitOn("RDY", "RDY") \/ WaitOn("ATE0_OK", "OK")
           \/ WaitOn("CFUN_OK", "OK")
           \/ SendGpsEnd \/ GpsEnd \/ SendPowerDown \/ PoweredDown
    PROVE  NetInv'
  <1>1. CASE WakeUp \/ Ready \/ NotReady \/ SendEcho \/ EchoOK \/ SendRadioOff
    BY <1>1, Elsewhere DEF WakeUp, Ready, NotReady, SendEcho, EchoOK, SendRadioOff, Command,
                           Awaited, Goto, Commandable, Answerable
  <1>2. CASE LastAttempt \/ StartupFailed
    <2>1. pc' \in {"failed", "GPSOff", "RDY"}
      BY <1>2 DEF LastAttempt, StartupFailed, Goto
    <2> QED BY <2>1, Elsewhere DEF Commandable, Answerable
  <1>3. CASE WaitOn("RDY", "RDY") \/ WaitOn("ATE0_OK", "OK") \/ WaitOn("CFUN_OK", "OK")
    <2>1. pc' \in {"RDY", "ATE0_OK", "CFUN_OK"}
      BY <1>3 DEF WaitOn, Goto
    <2> QED BY <2>1, Elsewhere DEF Commandable, Answerable
  <1>4. CASE SendGpsEnd \/ GpsEnd \/ SendPowerDown \/ PoweredDown
    <2>1. pc' \in {"GPSOff_OK", "shutdown", "POWERED_DOWN", "done"}
      BY <1>4 DEF SendGpsEnd, GpsEnd, SendPowerDown, PoweredDown, Command, Awaited, NotAwaited, Goto
    <2> QED BY <2>1, Elsewhere DEF Commandable, Answerable
  <1> QED BY <1>1, <1>2, <1>3, <1>4

\* Where nothing is known of the modem, its lines matter only.
Idle == {"CGSN", "IMEI", "CGSN_OK", "QGPS", "QGPS_OK", "QGPSLOC", "position", "QGPSEND",
         "QGPSEND_OK", "apn"}

\* Where the driver is idle, only the lines under way matter.
LEMMA IdleNet ==
    ASSUME pc' \in Idle,
           late' = 0 /\ pc' \in Commandable => OnlyUrc',
           late' = 0 /\ pc' \in Answerable => UrcAfterOK'
    PROVE  NetInv'
  BY DEF Idle, NetInv, Connecting, Publishing

\* Of the identity and the position the lines are read as well.
LEMMA ImeiNet ==
    ASSUME TypeInv, NetInv, late' = 0, Startup \/ SendCgsn \/ ReadImei \/ CgsnOK \/ NoMac
    PROVE  NetInv'
  <1>0. LinkOK
    BY DEF TypeInv
  <1>1. CASE Startup
    <2>1. pc' = "CGSN" /\ rx' = <<>>
      BY <1>0, <1>1, FlushClears DEF Startup, Goto
    <2>2. OnlyUrc'
      BY <2>1 DEF OnlyUrc
    <2> QED BY <2>1, <2>2, IdleNet DEF Idle, Answerable
  <1>2. CASE SendCgsn
    <2>1. pc = "CGSN" /\ pc' = "IMEI" /\ Send("CGSN") /\ late = 0
      BY <1>2 DEF SendCgsn, Command, Goto, Send
    <2>2. UrcAfterOK'
      BY <1>0, <2>1, SendFollows DEF NetInv, Commandable
    <2> QED BY <2>1, <2>2, IdleNet DEF Idle, Commandable
  <1>3. CASE ReadImei
    <2>1. pc = "IMEI"
      BY <1>3 DEF ReadImei
    <2>2. CASE rx # <<>> /\ rx' = Tail(rx) /\ pc' = "CGSN_OK" /\ UNCHANGED <<modem, history>>
      <3>1. UrcAfterOK
        BY <2>1, <2>2 DEF NetInv, history, Answerable
      <3> DEFINE t == Tail(rx)
      <3>2. /\ Len(rx) \in Nat /\ DOMAIN rx = 1 .. Len(rx) /\ DOMAIN t = 1 .. Len(rx) - 1
            /\ \A n \in 1 .. Len(rx) - 1 : t[n] = rx[n + 1]
        <4>1. rx \in Seq(Word) /\ rx # <<>>
          BY <1>0, <2>2 DEF LinkOK
        <4>2. /\ t \in Seq(Word) /\ Len(t) = Len(rx) - 1
              /\ \A n \in 1 .. Len(t) : t[n] = rx[n + 1]
          BY <4>1, HeadTailProperties
        <4> HIDE DEF t
        <4> QED BY <4>1, <4>2
      <3>3. rx' = t
        BY <2>2
      <3> HIDE DEF t
      <3>4. UrcAfterOK'
        BY <3>1, <3>2, <3>3 DEF UrcAfterOK
      <3> QED BY <2>2, <3>4, IdleNet DEF Idle, Commandable
    <2>3. CASE Read({}) /\ pc' = "QGPS"
      <3>1. rx' = <<>>
        BY <1>0, <2>3, ReadClears
      <3>2. OnlyUrc'
        BY <3>1 DEF OnlyUrc
      <3> QED BY <2>3, <3>2, IdleNet DEF Idle, Answerable
    <2> QED BY <1>3, <2>2, <2>3 DEF ReadImei
  <1>4. CASE CgsnOK \/ NoMac
    <2>1. pc = "CGSN_OK" /\ pc' = "QGPS" /\ (Recv("OK") \/ RecvFails("OK"))
      BY <1>4 DEF CgsnOK, NoMac, Awaited, Goto
    <2>2. OnlyUrc'
      <3>1. CASE Recv("OK")
        <4>1. UrcAfterOK
          BY <2>1, <3>1 DEF NetInv, Recv, history, Answerable
        <4> QED BY <1>0, <3>1, <4>1, RecvClears
      <3>2. CASE RecvFails("OK")
        BY <1>0, <3>2, FailsClears DEF OnlyUrc
      <3> QED BY <2>1, <3>1, <3>2
    <2> QED BY <2>1, <2>2, IdleNet DEF Idle, Answerable
  <1> QED BY <1>1, <1>2, <1>3, <1>4

\* recv, when the lines are those of one command.
LEMMA OneRecv ==
    ASSUME TypeInv, NetInv, late' = 0, pc \in Answerable, Recv("OK") \/ RecvFails("OK")
    PROVE  OnlyUrc' /\ UNCHANGED <<modem, late, closed>> /\ late = 0 /\ (Recv("OK") => "OK" \in Got)
  <1>0. LinkOK
    BY DEF TypeInv
  <1>1. CASE Recv("OK")
    <2>1. UrcAfterOK /\ late = 0
      BY <1>1 DEF NetInv, Recv, history
    <2> QED BY <1>0, <1>1, <2>1, RecvClears
  <1>2. CASE RecvFails("OK")
    <2>1. rx' = <<>> /\ UNCHANGED <<modem, late, closed>>
      BY <1>0, <1>2, FailsClears
    <2>2. OnlyUrc'
      BY <2>1 DEF OnlyUrc
    <2> QED BY <2>1, <2>2 DEF Recv
  <1> QED BY <1>1, <1>2

\* The steps of the GPS answer their commands.
LEMMA GpsNet ==
    ASSUME TypeInv, NetInv, late' = 0,
           SendGps \/ GpsOn \/ GpsNotOn \/ SendLocation \/ Position \/ SendGpsOff \/ GpsOff
    PROVE  NetInv'
  <1>0. LinkOK
    BY DEF TypeInv
  <1>1. CASE SendGps \/ SendLocation \/ SendGpsOff
    <2>1. PICK command \in {"QGPS", "QGPSLOC", "QGPSEND"} : Send(command)
      BY <1>1 DEF SendGps, SendLocation, SendGpsOff, Command
    <2>2. pc \in Commandable /\ pc' \in {"QGPS_OK", "position", "QGPSEND_OK"} /\ late = 0
      BY <1>1 DEF SendGps, SendLocation, SendGpsOff, Command, Goto, Send, Commandable
    <2>3. UrcAfterOK'
      BY <1>0, <2>1, <2>2, SendFollows DEF NetInv
    <2> QED BY <2>2, <2>3, IdleNet DEF Idle, Commandable
  <1>2. CASE GpsOn \/ GpsNotOn \/ GpsOff
    <2>1. /\ pc \in Answerable /\ pc' \in {"QGPSLOC", "apn", "QGPS"}
          /\ Recv("OK") \/ RecvFails("OK")
      BY <1>2 DEF GpsOn, GpsNotOn, GpsOff, Awaited, NotAwaited, Goto, Answerable
    <2>2. OnlyUrc'
      BY <2>1, OneRecv
    <2> QED BY <2>1, <2>2, IdleNet DEF Idle, Answerable
  <1>3. CASE Position
    <2>1. pc' \in {"QGPSEND", "QGPSLOC", "apn"} /\ \E lines : Read(lines)
      BY <1>3 DEF Position
    <2>2. OnlyUrc'
      BY <1>0, <2>1, ReadClears DEF OnlyUrc
    <2> QED BY <2>1, <2>2, IdleNet DEF Idle, Answerable
  <1> QED BY <1>1, <1>2, <1>3

\* The access point is set when setConnection has succeeded.
LEMMA ConfigureNet ==
    ASSUME TypeInv, NetInv, late' = 0,
           NextApn \/ SendCommand \/ CommandOK \/ CommandFails \/ Configured
    PROVE  NetInv'
  <1>0. LinkOK /\ todo \in Seq(Item)
    BY DEF TypeInv, ToDo
  <1>1. CASE NextApn
    <2>1. /\ pc = "apn" /\ UNCHANGED <<link, apn_index>>
      BY <1>1 DEF NextApn
    <2>2. OnlyUrc'
      BY <2>1 DEF NetInv, link, history, Commandable, OnlyUrc
    <2>3. CASE apn_index > Len(Nbiot)
      <3>1. pc' = "GPSOff"
        BY <1>1, <2>3 DEF NextApn
      <3> QED BY <3>1, Elsewhere DEF Commandable, Answerable
    <2>4. CASE ~ apn_index > Len(Nbiot)
      <3>1. pc' = "configure" /\ todo' = Commands(Nbiot[apn_index]) /\ apn_index \in 1 .. Len(Nbiot)
        BY <1>1, <2>4, AccessPoints DEF NextApn, TypeInv, DriverOK
      <3>2. todo' # <<>>
        BY <3>1, AccessPoints, CommandsShape
      <3> QED BY <2>2, <3>1, <3>2 DEF NetInv, Answerable, Connecting, Publishing
    <2> QED BY <2>3, <2>4
  <1>2. CASE SendCommand
    <2>1. /\ pc = "configure" /\ pc' = "configure_OK" /\ late = 0 /\ todo # <<>>
          /\ Send(Head(todo).command) /\ UNCHANGED <<todo, apn_index>>
      BY <1>2 DEF SendCommand, Goto, Send
    <2>2. Head(todo) \in Item
      BY <1>0, <2>1, HeadTailProperties
    <2>3. Head(todo).command # "QPOWD"
      BY <2>2 DEF Item, Try, Must
    <2>4. OnlyUrc
      BY <2>1 DEF NetInv, Commandable
    <2>5. UrcAfterOK'
      BY <1>0, <2>1, <2>3, <2>4, SendFollows
    <2>6. ASSUME Head(todo) = Must("QICSGP"), "OK" \in Got' PROVE apn' = apn_index
      <3>1. Head(todo).command = "QICSGP"
        BY <2>6 DEF Must
      <3>2. \E lines : Accepts("QICSGP", lines)
        <4>1. \/ \E lines \in Replies : Accepts("QICSGP", lines)
              \/ \A line \in Got' : line \in Unasked \cup {"ERROR"}
          BY <1>0, <2>1, <2>3, <2>4, <3>1, SendFollows
        <4>2. "OK" \notin Unasked \cup {"ERROR"}
          BY DEF Unasked
        <4> QED BY <2>6, <4>1, <4>2
      <3> QED BY <3>2, AcceptsNetwork
    <2> QED BY <2>1, <2>5, <2>6 DEF NetInv, Commandable, Connecting, Publishing
  <1>3. CASE CommandOK
    <2>1. /\ pc = "configure_OK" /\ pc' = "configure" /\ todo' = Tail(todo) /\ todo # <<>>
          /\ apn_index' = apn_index
      BY <1>3 DEF CommandOK, TypeInv, ToDo
    <2>2. Recv("OK") \/ (~ Head(todo).must /\ RecvFails("OK"))
      BY <1>3 DEF CommandOK
    <2>3. OnlyUrc' /\ UNCHANGED <<modem, late, closed>> /\ late = 0 /\ (Recv("OK") => "OK" \in Got)
      BY <2>1, <2>2, OneRecv DEF Answerable
    <2>4. ASSUME todo' = <<>> PROVE apn' = apn_index
      <3>1. Head(todo) = Must("QICSGP")
        <4>1. Len(Tail(todo)) = Len(todo) - 1 /\ Len(todo) \in Nat
          BY <1>0, <2>1, HeadTailProperties
        <4>2. Len(Tail(todo)) = 0
          BY <2>1, <2>4, EmptySeq
        <4>3. Len(todo) = 1
          BY <4>1, <4>2
        <4> QED BY <1>0, <2>1, <4>3 DEF TypeInv, ToDo
      <3>2. Head(todo).must
        BY <3>1 DEF Must
      <3>3. "OK" \in Got
        BY <2>2, <2>3, <3>2
      <3>4. apn = apn_index
        BY <2>1, <2>3, <3>1, <3>3 DEF NetInv
      <3> QED BY <2>3, <3>4 DEF modem
    <2> QED BY <2>1, <2>3, <2>4 DEF NetInv, Answerable, Connecting, Publishing
  <1>4. CASE CommandFails
    <2>1. pc = "configure_OK" /\ pc' = "apn" /\ RecvFails("OK")
      BY <1>4 DEF CommandFails, Abandon
    <2>2. OnlyUrc'
      BY <2>1, OneRecv DEF Answerable
    <2> QED BY <2>1, <2>2, IdleNet DEF Idle, Answerable
  <1>5. CASE Configured
    <2>1. /\ pc = "configure" /\ todo = <<>> /\ pc' = "COPS?" /\ UNCHANGED <<link, apn_index>>
      BY <1>5 DEF Configured, Goto
    <2>2. OnlyUrc' /\ apn' = apn_index
      BY <2>1 DEF NetInv, link, history, modem, Commandable, OnlyUrc
    <2> QED BY <2>1, <2>2 DEF NetInv, Answerable, Connecting, Publishing
  <1> QED BY <1>1, <1>2, <1>3, <1>4, <1>5

\* The technology is asked for.
LEMMA NetworkNet ==
    ASSUME TypeInv, NetInv, late' = 0,
           SendCops \/ NetworkRead \/ ChooseNetwork \/ NetworkChosen \/ NetworkRefused
    PROVE  NetInv'
  <1>0. LinkOK
    BY DEF TypeInv
  <1>1. CASE SendCops
    <2>1. /\ pc = "COPS?" /\ pc' = "network" /\ late = 0 /\ Send("COPS?") /\ apn_index' = apn_index
      BY <1>1 DEF SendCops, Command, Goto, Send
    <2>2. OnlyUrc /\ apn = apn_index
      BY <2>1 DEF NetInv, Commandable, Connecting
    <2>3. UrcAfterOK'
      BY <1>0, <2>1, <2>2, SendFollows
    <2>4. \/ \A line \in Got' : line \in Unasked \cup {"ERROR"}
          \/ \A line \in Got' : line \in Unasked \cup {act, "OK"}
      <3>1. \/ \E lines \in Replies :
                    /\ Accepts("COPS?", lines)
                    /\ \A line \in Got' : line \in Unasked \/ \E n \in DOMAIN lines : lines[n] = line
            \/ \A line \in Got' : line \in Unasked \cup {"ERROR"}
        BY <1>0, <2>1, <2>2, SendFollows
      <3>2. \A n \in DOMAIN <<act, "OK">> : <<act, "OK">>[n] \in {act, "OK"}
        OBVIOUS
      <3> QED BY <3>1, <3>2, AcceptsNetwork
    <2>5. UNCHANGED modem
      BY <1>0, <2>1, <2>2, SendFollows, AcceptsNetwork
    <2>6. \A t \in Technologies \cap Got' : act' = t
      BY <2>4, <2>5 DEF Technologies, Unasked, modem
    <2>7. apn' = apn
      BY <2>5 DEF modem
    <2> QED BY <2>1, <2>2, <2>3, <2>6, <2>7 DEF NetInv, Commandable, Publishing
  <1>2. CASE NetworkRead
    <2>1. PICK lines : /\ Read(lines)
                       /\ \/ Named(lines) /\ Goto("QIACT", 0)
                          \/ \E n : Goto("COPS?", n) \/ Goto("COPS=", n)
                          \/ Abandon
      BY <1>2 DEF NetworkRead
    <2>2. rx' = <<>> /\ lines = Got /\ UNCHANGED <<modem, late, closed>>
      BY <1>0, <2>1, ReadClears
    <2>3. OnlyUrc'
      BY <2>2 DEF OnlyUrc
    <2>4. pc = "network" /\ apn = apn_index /\ \A t \in Technologies \cap Got : act = t
      BY <1>2, <2>2 DEF NetworkRead, NetInv, Connecting
    <2>5. apn' = apn /\ act' = act
      BY <2>2 DEF modem
    <2>6. CASE Named(lines) /\ Goto("QIACT", 0)
      <3>1. closed \/ act = Technology(apn_index)
        <4>1. CASE Technology(apn_index) \in lines
          BY <2>2, <2>4, <4>1, TechnologyIs
        <4>2. CASE "closed" \in lines
          BY <1>0, <2>2, <4>2 DEF Got, LinkOK, ClosedKnown
        <4> QED BY <2>6, <4>1, <4>2 DEF Named
      <3>2. pc' = "QIACT" /\ apn_index' = apn_index
        BY <2>6 DEF Goto
      <3>3. Technology(apn_index)' = Technology(apn_index)
        BY <3>2 DEF Technology
      <3>4. closed' \/ act' = Technology(apn_index)'
        BY <2>2, <2>5, <3>1, <3>3
      <3> QED BY <2>3, <2>4, <2>5, <3>2, <3>4 DEF NetInv, Answerable, Publishing
    <2>7. CASE \E n : Goto("COPS?", n) \/ Goto("COPS=", n)
      <3>1. pc' \in {"COPS?", "COPS="} /\ apn_index' = apn_index
        BY <2>7 DEF Goto
      <3> QED BY <2>3, <2>4, <2>5, <3>1 DEF NetInv, Answerable, Publishing
    <2>8. CASE Abandon
      BY <2>3, <2>8, IdleNet DEF Abandon, Idle, Answerable
    <2> QED BY <2>1, <2>6, <2>7, <2>8
  <1>3. CASE ChooseNetwork
    <2>1. /\ pc = "COPS=" /\ pc' = "COPS=_OK" /\ late = 0 /\ Send("COPS=") /\ apn_index' = apn_index
      BY <1>3 DEF ChooseNetwork, Command, Goto, Send
    <2>2. OnlyUrc /\ apn = apn_index
      BY <2>1 DEF NetInv, Commandable, Connecting
    <2>3. UrcAfterOK'
      BY <1>0, <2>1, <2>2, SendFollows
    <2>4. apn' = apn
      BY <1>0, <2>1, <2>2, SendFollows, AcceptsNetwork DEF modem
    <2> QED BY <2>1, <2>2, <2>3, <2>4 DEF NetInv, Commandable, Publishing
  <1>4. CASE NetworkChosen
    <2>1. pc = "COPS=_OK" /\ pc' = "COPS?" /\ Recv("OK") /\ apn_index' = apn_index
      BY <1>4 DEF NetworkChosen, Awaited, Goto
    <2>2. OnlyUrc' /\ UNCHANGED <<modem, closed>> /\ late = 0
      BY <2>1, OneRecv DEF Answerable
    <2>3. apn' = apn_index
      BY <2>1, <2>2 DEF NetInv, Connecting, modem
    <2> QED BY <2>1, <2>2, <2>3 DEF NetInv, Answerable, Publishing
  <1>5. CASE NetworkRefused
    <2>1. pc = "COPS=_OK" /\ pc' = "apn" /\ RecvFails("OK")
      BY <1>5 DEF NetworkRefused, Abandon
    <2>2. OnlyUrc'
      BY <2>1, OneRecv DEF Answerable
    <2> QED BY <2>1, <2>2, IdleNet DEF Idle, Answerable
  <1> QED BY <1>1, <1>2, <1>3, <1>4, <1>5

\* The context is activated with its access point.
LEMMA ActivateNet ==
    ASSUME TypeInv, NetInv, late' = 0,
           Activate \/ Activated \/ ActivateAgain \/ WaitOn("QIACT_OK", "OK")
    PROVE  NetInv'
  <1>0. LinkOK /\ \A index : Technology(index)' = Technology(index)
    BY DEF TypeInv, Technology
  <1>1. CASE Activate
    <2>1. /\ pc = "QIACT" /\ pc' = "QIACT_OK" /\ late = 0 /\ Send("QIACT") /\ apn_index' = apn_index
      BY <1>1 DEF Activate, Command, Goto, Send
    <2>2. OnlyUrc /\ apn = apn_index /\ (closed \/ act = Technology(apn_index))
      BY <2>1 DEF NetInv, Commandable, Connecting
    <2>3. UrcAfterOK'
      BY <1>0, <2>1, <2>2, SendFollows
    <2>4. /\ act' = act /\ apn' = apn
          /\ \/ active' = apn
             \/ \A line \in Got' : line \in Unasked \cup {"ERROR"}
      <3>1. \/ \E lines \in Replies :
                    /\ Accepts("QIACT", lines)
                    /\ \A line \in Got' : line \in Unasked \/ \E n \in DOMAIN lines : lines[n] = line
            \/ UNCHANGED modem /\ \A line \in Got' : line \in Unasked \cup {"ERROR"}
        BY <1>0, <2>1, <2>2, SendFollows
      <3>2. \A n \in DOMAIN <<"ERROR">> : <<"ERROR">>[n] = "ERROR"
        OBVIOUS
      <3> QED BY <3>1, <3>2, AcceptsNetwork DEF modem
    <2>5. "OK" \in Got' => active' = apn_index'
      BY <2>1, <2>2, <2>4 DEF Unasked
    <2>6. closed' \/ act' = Technology(apn_index)'
      BY <1>0, <2>1, <2>2, <2>4 DEF Send
    <2> QED BY <1>0, <2>1, <2>2, <2>3, <2>4, <2>5, <2>6 DEF NetInv, Commandable, Publishing
  <1>2. ASSUME pc = "QIACT_OK", late = 0
        PROVE  /\ UrcAfterOK /\ apn = apn_index /\ (closed \/ act = Technology(apn_index))
               /\ "OK" \in Got => active = apn_index
    BY <1>2 DEF NetInv, Answerable, Connecting
  <1>3. CASE Activated
    <2>1. /\ pc = "QIACT_OK" /\ pc' \in {"publish", "QGPSLOC_again"} /\ Recv("OK")
          /\ apn_index' = apn_index
      BY <1>3 DEF Activated
    <2>2. OnlyUrc' /\ UNCHANGED <<modem, closed>> /\ late = 0 /\ "OK" \in Got
      BY <2>1, OneRecv DEF Answerable
    <2>3. active' = apn_index /\ (closed' \/ act' = Technology(apn_index))
      BY <1>2, <2>1, <2>2 DEF modem
    <2> QED BY <1>0, <2>1, <2>2, <2>3 DEF NetInv, Answerable, Connecting
  <1>4. CASE ActivateAgain
    <2>1. /\ pc = "QIACT_OK" /\ RecvFails("OK")
          /\ (pc' = "QIACT" /\ apn_index' = apn_index) \/ pc' = "apn"
      BY <1>4 DEF ActivateAgain
    <2>2. OnlyUrc' /\ UNCHANGED <<modem, closed>> /\ late = 0
      BY <2>1, OneRecv DEF Answerable
    <2>3. CASE pc' = "apn"
      BY <2>2, <2>3, IdleNet DEF Idle, Answerable
    <2>4. CASE pc' = "QIACT" /\ apn_index' = apn_index
      <3>1. apn' = apn_index /\ (closed' \/ act' = Technology(apn_index))
        BY <1>2, <2>1, <2>2 DEF modem
      <3> QED BY <1>0, <2>2, <2>4, <3>1 DEF NetInv, Answerable, Publishing
    <2> QED BY <2>1, <2>3, <2>4
  <1>5. CASE WaitOn("QIACT_OK", "OK")
    <2>1. pc = "QIACT_OK" /\ pc' = "QIACT_OK" /\ apn_index' = apn_index
      BY <1>5 DEF WaitOn, Goto
    <2>2. rx' = <<>> /\ UNCHANGED <<modem, late, closed>>
      <3>1. CASE "OK" \in Got
        <4>1. /\ First("OK") \in 1 .. Len(rx) /\ Arrive(First("OK") - 1) /\ Len(rx) \in Nat
          BY <1>0, <1>5, <3>1, FirstIs DEF WaitOn, LinkOK
        <4>2. First("OK") - 1 \in 0 .. Len(rx) /\ First("OK") - 1 # Len(rx)
          BY <4>1
        <4> QED BY <1>0, <4>1, <4>2, ArriveClears
      <3>2. CASE "OK" \notin Got
        <4>1. Arrive(Len(rx)) /\ Len(rx) \in 0 .. Len(rx)
          BY <1>0, <1>5, <3>2 DEF WaitOn, LinkOK
        <4> QED BY <1>0, <4>1, ArriveClears
      <3> QED BY <3>1, <3>2
    <2>3. UrcAfterOK' /\ Got' = {}
      BY <2>2 DEF UrcAfterOK, Got
    <2>4. apn' = apn_index /\ (closed' \/ act' = Technology(apn_index))
      BY <1>2, <2>1, <2>2 DEF modem
    <2> QED BY <1>0, <2>1, <2>3, <2>4 DEF NetInv, Commandable, Publishing
  <1> QED BY <1>1, <1>3, <1>4, <1>5

\* It stays as it is until the report is sent.
LEMMA PublishNet ==
    ASSUME TypeInv, NetInv, late' = 0, SendLocationAgain \/ PositionAgain \/ Published
    PROVE  NetInv'
  <1>0. LinkOK /\ \A index : Technology(index)' = Technology(index)
    BY DEF TypeInv, Technology
  <1>1. CASE SendLocationAgain
    <2>1. /\ pc = "QGPSLOC_again" /\ pc' = "position_again" /\ late = 0 /\ Send("QGPSLOC")
          /\ apn_index' = apn_index
      BY <1>1 DEF SendLocationAgain, Command, Goto, Send
    <2>2. OnlyUrc /\ active = apn_index /\ (closed \/ act = Technology(apn_index))
      BY <2>1 DEF NetInv, Commandable, Publishing
    <2>3. UrcAfterOK'
      BY <1>0, <2>1, <2>2, SendFollows
    <2>4. act' = act /\ active' = active
      BY <1>0, <2>1, <2>2, SendFollows, AcceptsNetwork DEF modem
    <2>5. closed' \/ act' = Technology(apn_index)'
      BY <1>0, <2>1, <2>2, <2>4 DEF Send
    <2> QED BY <1>0, <2>1, <2>2, <2>3, <2>4, <2>5 DEF NetInv, Commandable, Connecting
  <1>2. CASE PositionAgain
    <2>1. /\ pc = "position_again" /\ pc' = "publish" /\ apn_index' = apn_index
          /\ \E lines : Read(lines)
      BY <1>2 DEF PositionAgain
    <2>2. rx' = <<>> /\ UNCHANGED <<modem, late, closed>>
      BY <1>0, <2>1, ReadClears
    <2>3. OnlyUrc'
      BY <2>2 DEF OnlyUrc
    <2>4. active' = apn_index /\ (closed' \/ act' = Technology(apn_index))
      BY <2>1, <2>2 DEF NetInv, Publishing, modem
    <2> QED BY <1>0, <2>1, <2>3, <2>4 DEF NetInv, Answerable, Connecting
  <1>3. CASE Published
    <2>1. pc = "publish" /\ pc' \in {"GPSOff", "apn"} /\ UNCHANGED link
      BY <1>3 DEF Published, Goto, Abandon
    <2>2. OnlyUrc'
      BY <2>1 DEF NetInv, link, history, Commandable, OnlyUrc
    <2>3. CASE pc' = "GPSOff"
      BY <2>3, Elsewhere DEF Commandable, Answerable
    <2>4. CASE pc' = "apn"
      BY <2>2, <2>4, IdleNet DEF Idle, Answerable
    <2> QED BY <2>1, <2>3, <2>4
  <1> QED BY <1>1, <1>2, <1>3

\* The modem registers only when it is not registered, and what it says
\* unasked is no answer.
LEMMA ModemNet ==
    ASSUME TypeInv, NetInv, late' = 0, ModemStep \/ UNCHANGED vars
    PROVE  NetInv'
  <1>1. UNCHANGED <<pc, todo, apn_index, apn, active, late>> /\ late = 0
    BY DEF ModemStep, Registers, Unsolicited, vars, link, driver, modem, history
  <1>2a. closed => closed'
    BY DEF ModemStep, Registers, Unsolicited, vars, link, history
  <1>2. /\ Technology(apn_index)' = Technology(apn_index)
        /\ Technology(apn_index) # "none" /\ "none" \notin Technologies
    BY <1>1 DEF Technology, Technologies
  <1>3. CASE rx' = rx /\ (act = "none" \/ act' = act)
    <2>1. (OnlyUrc => OnlyUrc') /\ (UrcAfterOK => UrcAfterOK') /\ Got' = Got
      BY <1>3 DEF OnlyUrc, UrcAfterOK, Got
    <2>2. \A t \in Technologies : act = t => act' = t
      BY <1>2, <1>3
    <2>3. act = Technology(apn_index) => act' = Technology(apn_index)'
      BY <1>2, <1>3
    <2> QED BY <1>1, <1>2a, <2>1, <2>2, <2>3 DEF NetInv
  <1>4. ASSUME NEW u \in Unasked, rx' = Append(rx, u), act' = act PROVE NetInv'
    <2> DEFINE t == Append(rx, u)
    <2>1. /\ Len(rx) \in Nat /\ DOMAIN rx = 1 .. Len(rx) /\ DOMAIN t = 1 .. Len(rx) + 1
          /\ \A n \in 1 .. Len(rx) : t[n] = rx[n]
          /\ t[Len(rx) + 1] = u
      BY DEF TypeInv, LinkOK
    <2>2. rx' = t
      BY <1>4
    <2> HIDE DEF t
    <2>3. \A n \in DOMAIN t : t[n] \in Unasked \/ (n \in DOMAIN rx /\ t[n] = rx[n])
      BY <2>1
    <2>4. (OnlyUrc => OnlyUrc') /\ (UrcAfterOK => UrcAfterOK')
      <3>1. OnlyUrc => OnlyUrc'
        BY <2>2, <2>3 DEF OnlyUrc
      <3>2. ASSUME UrcAfterOK, NEW m \in DOMAIN t, NEW n \in DOMAIN t, t[m] = "OK", m < n
            PROVE  t[n] \in Unasked
        <4>1. m \in 1 .. Len(rx) /\ rx[m] = "OK"
          BY <2>1, <3>2
        <4>2. CASE n \in 1 .. Len(rx)
          BY <2>1, <3>2, <4>1, <4>2 DEF UrcAfterOK
        <4>3. CASE n = Len(rx) + 1
          BY <2>1, <4>3
        <4> QED BY <2>1, <4>2, <4>3
      <3> QED BY <2>2, <3>1, <3>2 DEF UrcAfterOK
    <2>5. \A line \in Got' : line \in Unasked \/ line \in Got
      BY <2>2, <2>3 DEF Got
    <2>6. "OK" \in Got' => "OK" \in Got
      BY <2>5 DEF Unasked
    <2>7. Technologies \cap Got' \subseteq Technologies \cap Got
      BY <2>5 DEF Technologies, Unasked
    <2> QED BY <1>1, <1>2, <1>2a, <1>4, <2>4, <2>6, <2>7 DEF NetInv
  <1>5. \/ rx' = rx /\ (act = "none" \/ act' = act)
        \/ \E u \in Unasked : rx' = Append(rx, u) /\ act' = act
    BY DEF ModemStep, Registers, Unsolicited, Unasked, vars, link, modem
  <1> QED BY <1>3, <1>4, <1>5

\* What is known of the network is inductive.
LEMMA NetStep ==
    ASSUME TypeInv, NetInv, [Next]_vars
    PROVE  NetInv'
  <1> SUFFICES ASSUME late' = 0 PROVE NetInv'
    BY DEF NetInv
  <1>1. CASE ModemStep \/ Done \/ UNCHANGED vars
    BY <1>1, ModemNet DEF Done
  <1>2. CASE DriverStep
    BY <1>2, StartAndEnd, ImeiNet, GpsNet, ConfigureNet, NetworkNet, ActivateNet, PublishNet
      DEF DriverStep, KeepWaiting
  <1> QED BY <1>1, <1>2 DEF Next

\* It holds at the start.
LEMMA NetInit ==
    ASSUME Init
    PROVE  NetInv
  BY DEF Init, NetInv, Commandable, Answerable, Connecting, Publishing

\* OnAskedNetwork of ModemStart, for any numbers of attempts, faults and
\* unsolicited lines and any list of access points: a report goes out over the
\* access point and the technology it was meant for, whichever commands were
\* refused or lost, unless an answer was late, and the technology also unless
\* the modem has told that a socket is closed (setConnection, connect).
THEOREM ReportsOverAskedNetwork == Spec => []OnAskedNetwork
  <1>1. NetInv => OnAskedNetwork
    BY DEF NetInv, OnAskedNetwork, Publishing
  <1> QED BY <1>1, TypeInit, TypeStep, NetInit, NetStep, PTL DEF Spec

=============================================================================
