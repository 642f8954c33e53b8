------------------------------ MODULE HttpSession ------------------------------
(***************************************************************************)
(* The use of one access point: HttpClient::HttpGet for the configuration   *)
(* if it is due, then HttpClient::HttpPost with the report, down to the     *)
(* commands BG96 exchanges with the modem.  pc names the command that is    *)
(* sent next or the answer that is waited for.                              *)
(*                                                                          *)
(* close answers -2 as true (BG96.cpp:826) and what it answers reaches _ids *)
(* only, which nothing reads; both are left out, as is the handle leaked by *)
(* the early returns of HttpPost and HttpGet.                               *)
(***************************************************************************)
EXTENDS AtLink, FiniteSets

VARIABLES
    pc,
    call,           \* "get" or "post"
    max_attempt,    \* connections to be tried after this one
    i,              \* the loop counter of the BG96 function
    _buf,           \* socket_openstream: the lines in its buffer
    ret,            \* where close returns to
    result          \* what the last call returned

driver == <<pc, call, max_attempt, i, _buf, ret, result>>
vars == <<link, driver>>

\* The parts a message is written in.
Message ==
    [get |-> <<"request", "eot">>,
     post |-> <<"header", "length", "report", "eot">>]

TypeOK ==
    /\ rx \in Seq(Line) /\ air \in Seq(Line)
    /\ taken \in Seq(Unit) /\ wire \in Seq(Seq(Unit))
    /\ sock \in {"closed", "open", "peer"} /\ room \in 0 .. 4
    /\ server \in {"idle", "asked", "data", "done"}
    /\ faults \in 0 .. MaxFaults /\ late \in BOOLEAN
    /\ pc \in {"QIOPEN", "QIOPEN_OK", "+QIOPEN", "QISEND?", "+QISEND", "QISEND", ">",
               "write", "SEND_OK", "wait", "+QIURC", "QIRD", "+QIRD", "read",
               "close", "close_+QIRD", "close_OK", "QICLOSE", "QICLOSE_OK",
               "QICLOSE_ERROR", "refused", "returned", "CEREG", "CEREG_OK", "CEREG?",
               "cell", "done"}
    /\ call \in {"get", "post"}
    /\ max_attempt \in 0 .. 2 /\ i \in 0 .. 4 /\ _buf \subseteq Line
    /\ ret \in {"refused", "wait", "+QIURC", "returned"} /\ result \in BOOLEAN

Init ==
    /\ LinkInit
    /\ \/ call = "get" /\ pc = "QIOPEN"
       \/ call = "post" /\ pc = "CEREG"
    /\ max_attempt = 2 /\ i = 0 /\ _buf = {} /\ ret = "returned" /\ result = FALSE

------------------------------------------------------------------------------

Goto(label) ==
    pc' = label /\ UNCHANGED <<call, max_attempt, i, _buf, ret, result>>

Loop(label, n) ==
    pc' = label /\ i' = n /\ UNCHANGED <<call, max_attempt, _buf, ret, result>>

Return(value) ==
    /\ pc' = "returned" /\ result' = value
    /\ UNCHANGED <<call, max_attempt, i, _buf, ret>>

Close(then) ==
    pc' = "close" /\ ret' = then /\ UNCHANGED <<call, max_attempt, i, _buf, result>>

(* BG96::open, called by socket_connect, and the loop around it.            *)

SendOpen ==
    pc = "QIOPEN" /\ Send("QIOPEN") /\ Goto("QIOPEN_OK")

OpenAccepted ==
    pc = "QIOPEN_OK" /\ Recv({"OK"}, "OK") /\ Goto("+QIOPEN")

Opened ==
    /\ pc = "+QIOPEN"
    /\ Recv(Refusals \cup {"+QIOPEN:0"}, "+QIOPEN:0")
    /\ Goto("QISEND?")

\* Mutant of OpenRefused: the socket is not closed.
OpenRefusedNoClose ==
    /\ pc = "+QIOPEN"
    /\ \E line \in Refusals : Recv(Refusals \cup {"+QIOPEN:0"}, line)
    /\ Goto("refused")

\* An error, be it that the socket is still open (563): it is closed.
OpenRefused ==
    /\ pc = "+QIOPEN"
    /\ \E line \in Refusals : Recv(Refusals \cup {"+QIOPEN:0"}, line)
    /\ Close("refused")

OpenFails ==
    \/ pc = "QIOPEN_OK" /\ RecvFails({"OK"}) /\ Goto("refused")
    \/ pc = "+QIOPEN" /\ RecvFails(Refusals \cup {"+QIOPEN:0"}) /\ Goto("refused")

\* Mutant of ConnectAgain: the last attempt is not recognised.
ConnectAgainUnbounded ==
    /\ pc = "refused"
    /\ pc' = "QIOPEN" /\ max_attempt' = max_attempt - 1
    /\ UNCHANGED <<link, call, i, _buf, ret, result>>

\* if (max_attempt-- <= 0) return false
ConnectAgain ==
    /\ pc = "refused"
    /\ IF max_attempt = 0 THEN Return(FALSE)
       ELSE /\ pc' = "QIOPEN" /\ max_attempt' = max_attempt - 1
            /\ UNCHANGED <<call, i, _buf, ret, result>>
    /\ UNCHANGED link

------------------------------------------------------------------------------
(* BG96::socket_openstream.                                                 *)

SendQuery ==
    /\ pc = "QISEND?"
    /\ Send("QISEND?")
    /\ pc' = "+QISEND" /\ i' = 3 /\ _buf' = {}
    /\ UNCHANGED <<call, max_attempt, ret, result>>

\* The lines that contain ",0".
Comma0 == {"+QISEND:0", "+QIOPEN:0", "+QIURC:recv", "+QIURC:closed"}

\* A short read leaves the end of the one before in the buffer.
Filled == IF rx = <<>> THEN {_buf} ELSE LET new == {rx[n] : n \in DOMAIN rx}
                                        IN  {new, new \cup _buf}

\* Mutant of ReadQuery: the attempts are not counted.
ReadQueryForever ==
    /\ pc = "+QISEND"
    /\ Read
    /\ _buf' \in Filled
    /\ pc' = CASE "OK" \in _buf' /\ _buf' \cap Comma0 # {} -> "QISEND"
               [] "OK" \in _buf' /\ _buf' \cap Comma0 = {} -> "returned"
               [] OTHER -> "+QISEND"
    /\ result' = FALSE
    /\ UNCHANGED <<call, max_attempt, i, ret>>

ReadQuery ==
    /\ pc = "+QISEND"
    /\ Read
    /\ _buf' \in Filled
    /\ IF "OK" \in _buf' /\ _buf' \cap Comma0 # {} THEN pc' = "QISEND" /\ i' = 3
       ELSE /\ i' = i - 1
            /\ pc' = IF "OK" \in _buf' \/ i = 1 THEN "returned" ELSE "+QISEND"
    /\ result' = FALSE
    /\ UNCHANGED <<call, max_attempt, ret>>

SendStream ==
    /\ pc = "QISEND"
    /\ Send(IF call = "get" THEN "QISEND_2" ELSE "QISEND_4")
    /\ Goto(">")

Prompted ==
    pc = ">" /\ Recv({">"}, ">") /\ Loop("write", 1)

\* Two seconds later the command is sent again.
NotPrompted ==
    /\ pc = ">" /\ RecvFails({">"})
    /\ IF i = 1 THEN Return(FALSE) ELSE Loop("QISEND", i - 1)

------------------------------------------------------------------------------
(* socket_writestream and socket_closestream.                               *)

AfterSend == IF call = "get" THEN "+QIURC" ELSE "wait"

\* Mutant of WritePart: the end of the message is not written.
WritePartShort ==
    /\ pc = "write"
    /\ Send(Message[call][i])
    /\ IF i < Len(Message[call]) - 1 THEN Loop("write", i + 1) ELSE Goto("SEND_OK")

WritePart ==
    /\ pc = "write"
    /\ Send(Message[call][i])
    /\ IF i < Len(Message[call]) THEN Loop("write", i + 1) ELSE Goto("SEND_OK")

SendOK ==
    pc = "SEND_OK" /\ Recv({"SEND_OK"}, "SEND_OK") /\ Goto(AfterSend)

\* The socket is closed, and the result ignored by HttpPost and HttpGet.
SendFails ==
    pc = "SEND_OK" /\ RecvFails({"SEND_OK"}) /\ Close(AfterSend)

\* Mutant of PostEnds: without an answer of the server the call has failed.
PostEndsUnanswered ==
    /\ pc = "wait"
    /\ result' = (server # "asked")
    /\ pc' = "close" /\ ret' = "returned"
    /\ UNCHANGED <<link, call, max_attempt, i, _buf>>

\* HttpPost: socket_close, return true.
PostEnds ==
    /\ pc = "wait"
    /\ result' = TRUE
    /\ pc' = "close" /\ ret' = "returned"
    /\ UNCHANGED <<link, call, max_attempt, i, _buf>>

------------------------------------------------------------------------------
(* The answer to HttpGet: socket_openreadstream and socket_readstream.      *)

Answered ==
    pc = "+QIURC" /\ Recv({"+QIURC:recv"}, "+QIURC:recv") /\ Goto("QIRD")

AskAmount ==
    pc = "QIRD" /\ Send("QIRD") /\ Goto("+QIRD")

AmountKnown ==
    pc = "+QIRD" /\ (\E line \in Amounts : Recv(Amounts, line)) /\ Goto("read")

NotAnswered ==
    \/ pc = "+QIURC" /\ RecvFails({"+QIURC:recv"}) /\ Return(FALSE)
    \/ pc = "+QIRD" /\ RecvFails(Amounts) /\ Return(FALSE)

\* The loop over socket_readstream: what a read gives has no "}".
ReadPart ==
    pc = "read" /\ ReadSome /\ Goto("read")

\* The loop ends with a read of "}", the end of the answer, or with silence.
GetEnds ==
    /\ pc = "read"
    /\ \/ ReadSome /\ \E n \in 1 .. Len(rx) - Len(rx') : rx[n] = "data"
       \/ rx = <<>> /\ Read
    /\ result' = TRUE
    /\ pc' = "close" /\ ret' = "returned"
    /\ UNCHANGED <<call, max_attempt, i, _buf>>

------------------------------------------------------------------------------
(* BG96::close.                                                             *)

FlushSocket ==
    pc = "close" /\ FlushAndSend("QIRD") /\ Goto("close_+QIRD")

AmountToFlush ==
    /\ pc = "close_+QIRD" /\ \E line \in Amounts : Recv(Amounts, line)
    /\ Goto("close_OK")

Flushed ==
    pc = "close_OK" /\ Recv({"OK"}, "OK") /\ Loop("QICLOSE", 2)

FlushFails ==
    \/ pc = "close_+QIRD" /\ RecvFails(Amounts) /\ Goto(ret)
    \/ pc = "close_OK" /\ RecvFails({"OK"}) /\ Goto(ret)

SendClose ==
    pc = "QICLOSE" /\ Send("QICLOSE") /\ Goto("QICLOSE_OK")

Closed ==
    pc = "QICLOSE_OK" /\ Recv({"OK"}, "OK") /\ Goto(ret)

CloseNotOK ==
    pc = "QICLOSE_OK" /\ RecvFails({"OK"}) /\ Goto("QICLOSE_ERROR")

CloseError ==
    pc = "QICLOSE_ERROR" /\ Recv({"ERROR"}, "ERROR") /\ Goto(ret)

CloseAgain ==
    /\ pc = "QICLOSE_ERROR" /\ RecvFails({"ERROR"})
    /\ IF i = 1 THEN Goto(ret) ELSE Loop("QICLOSE", i - 1)

------------------------------------------------------------------------------
(* App::Run between the two calls and after them.                           *)

GetReturns ==
    pc = "returned" /\ call = "get" /\ Goto("CEREG") /\ UNCHANGED link

\* App::GetCell, called by SendData: whether AT+CEREG=2 is answered with OK or
\* not, the cell is asked for, and what comes is read.
SendCell ==
    pc = "CEREG" /\ Send("CEREG") /\ Goto("CEREG_OK")

CellSet ==
    /\ pc = "CEREG_OK"
    /\ Recv({"OK"}, "OK") \/ RecvFails({"OK"})
    /\ Goto("CEREG?")

AskCell ==
    pc = "CEREG?" /\ Send("CEREG?") /\ Goto("cell")

\* The report's own failures are counted from here.
CellRead ==
    /\ pc = "cell"
    /\ late' = (late \/ air # <<>>)
    /\ rx' = <<>> /\ faults' = 0
    /\ pc' = "QIOPEN" /\ call' = "post" /\ max_attempt' = 2
    /\ UNCHANGED <<air, sock, room, taken, wire, server, i, _buf, ret, result>>

PostReturns ==
    pc = "returned" /\ call = "post" /\ Goto("done") /\ UNCHANGED link

------------------------------------------------------------------------------

ModemStep == (ServerAnswers \/ PeerCloses \/ Deliver) /\ UNCHANGED driver

DriverStep ==
    \/ SendOpen \/ OpenAccepted \/ Opened \/ OpenRefused \/ OpenFails \/ ConnectAgain
    \/ SendQuery \/ ReadQuery \/ SendStream \/ Prompted \/ NotPrompted
    \/ WritePart \/ SendOK \/ SendFails \/ PostEnds
    \/ Answered \/ AskAmount \/ AmountKnown \/ NotAnswered \/ ReadPart \/ GetEnds
    \/ FlushSocket \/ AmountToFlush \/ Flushed \/ FlushFails
    \/ SendClose \/ Closed \/ CloseNotOK \/ CloseError \/ CloseAgain
    \/ GetReturns \/ SendCell \/ CellSet \/ AskCell \/ CellRead \/ PostReturns

Next == DriverStep \/ ModemStep

Spec == Init /\ [][Next]_vars

\* The program runs, and what the modem has to say arrives.
FairSpec == Spec /\ WF_vars(DriverStep) /\ WF_vars(Deliver /\ UNCHANGED driver)

------------------------------------------------------------------------------

(***************************************************************************)
(* Properties                                                               *)
(***************************************************************************)

\* "May take more try if device is busy" (BG96.cpp:547): whatever the driver
\* tries again, what the modem hands to the network is a whole message.
PayloadIntact == \A n \in DOMAIN wire : wire[n] \in {Message.get, Message.post}

\* It is, as long as no answer comes later than socket_openstream waits.
IntactInTime == ~ late => PayloadIntact

Reports == {n \in DOMAIN wire : wire[n] = Message.post}

\* App::Run goes on to the next access point when HttpPost returns false
\* (app.cpp:401): the report has not been sent then, and never twice.
NotSentTwice ==
    /\ Cardinality(Reports) <= 1
    /\ pc = "done" /\ ~ result => Reports = {}

\* If nothing fails while the report is sent and no answer has been late, the
\* report is sent and the socket is closed after it, whatever failed for the
\* configuration before: a socket left open is found (563) and closed.
PostRecovers ==
    pc = "done" /\ faults = 0 /\ ~ late =>
        result /\ Reports # {} /\ sock = "closed"

\* HttpPost returns true for what App::Run records as sent: "previous message
\* lost" (cloudcomm.h:16) is for the others.
SentIfTrue == pc = "done" /\ result /\ ~ late => Reports # {}

\* Both calls return, whatever the modem answers or does not answer.
CallsEnd == <>(pc = "done")
=============================================================================
