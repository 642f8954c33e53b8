-------------------------------- MODULE AtLink --------------------------------
(***************************************************************************)
(* The command link to the modem: ATParser on this side, the socket and the *)
(* command interpreter of the BG96 on the other.                            *)
(*                                                                          *)
(* The parser reads lines; bytes it writes are taken by the modem in the    *)
(* order they were written.  After AT+QISEND=<id>,<n> the modem takes the   *)
(* next n bytes as payload, whatever they are.  Commands and the parts a    *)
(* message is written in are units of one size here.                        *)
(*                                                                          *)
(* The modem is modelled from the answers the driver waits for.             *)
(***************************************************************************)
EXTENDS Integers, Sequences

CONSTANT MaxFaults   \* how often modem, network and server fail at most

ASSUME LinkAssumption == MaxFaults \in Nat

VARIABLES
    rx,         \* lines received and not yet read
    air,        \* lines the modem has still to send
    sock,       \* socket 0 of the modem: "closed", "open", or left by the "peer"
    room,       \* units of payload the modem waits for; 0 in command mode
    taken,      \* those it has
    wire,       \* the messages it handed to the network
    server,     \* "idle", "asked", has "data" for us, or has "done"
    faults,     \* history: how often something failed
    late        \* history: the parser once gave up before the answer came

link == <<rx, air, sock, room, taken, wire, server, faults, late>>

Refusals == {"+QIOPEN:563", "+QIOPEN:566"}
Amounts == {"+QIRD:0", "+QIRD:1"}

Line ==
    {"OK", "ERROR", ">", "SEND_OK", "SEND_FAIL", "+QIOPEN:0",
     "+QISEND:0", "data", "cell", "+QIURC:recv", "+QIURC:closed"}
    \cup Refusals \cup Amounts

\* What the driver writes: commands, and the parts of a message.
Command ==
    {"QIOPEN", "QICLOSE", "QIRD", "QISEND?", "QISEND_2", "QISEND_4", "CEREG", "CEREG?"}
Part == {"header", "length", "report", "request", "eot"}
Unit == Command \cup Part

LinkInit ==
    /\ rx = <<>> /\ air = <<>>
    /\ sock = "closed" /\ room = 0 /\ taken = <<>>
    /\ wire = <<>> /\ server = "idle"
    /\ faults = 0 /\ late = FALSE

\* A failure, of which there are not too many.
Fails == faults < MaxFaults /\ faults' = faults + 1
Works == UNCHANGED faults

------------------------------------------------------------------------------
(* The modem (external).                                                    *)

Answer(lines) == air' = air \o lines

\* What a command does in command mode.  A part of a message is no command.
Execute(unit) ==
    \/ /\ unit = "QIOPEN" /\ sock = "closed"
       /\ \/ Answer(<<"OK", "+QIOPEN:0">>) /\ sock' = "open" /\ Works
          \/ Answer(<<"OK", "+QIOPEN:566">>) /\ UNCHANGED sock /\ Fails
          \/ Answer(<<"ERROR">>) /\ UNCHANGED sock /\ Fails
       /\ server' = "idle" /\ UNCHANGED room
    \/ /\ unit = "QIOPEN" /\ sock # "closed"
       /\ Answer(<<"OK", "+QIOPEN:563">>)
       /\ Works /\ UNCHANGED <<sock, server, room>>
    \/ /\ unit = "QICLOSE"
       /\ \/ Answer(<<"OK">>) /\ sock' = "closed" /\ server' = "idle" /\ Works
          \/ Answer(<<"ERROR">>) /\ UNCHANGED <<sock, server>> /\ Fails
       /\ UNCHANGED room
    \/ /\ unit = "QIRD" /\ sock # "closed" /\ server = "data"
       /\ Answer(<<"+QIRD:1", "data", "OK">>) /\ server' = "done"
       /\ Works /\ UNCHANGED <<sock, room>>
    \/ /\ unit = "QIRD" /\ sock # "closed" /\ server # "data"
       /\ Answer(<<"+QIRD:0", "OK">>)
       /\ Works /\ UNCHANGED <<sock, server, room>>
    \/ /\ unit = "QISEND?" /\ sock = "open"
       /\ Answer(<<"+QISEND:0", "OK">>)
       /\ Works /\ UNCHANGED <<sock, server, room>>
    \/ /\ unit \in {"QISEND_2", "QISEND_4"} /\ sock = "open"
       /\ \/ /\ Answer(<<">">>) /\ Works
             /\ room' = IF unit = "QISEND_2" THEN 2 ELSE 4
          \/ Answer(<<"ERROR">>) /\ Fails /\ UNCHANGED room
       /\ UNCHANGED <<sock, server>>
    \/ /\ \/ unit = "QIRD" /\ sock = "closed"
          \/ unit \in {"QISEND?", "QISEND_2", "QISEND_4"} /\ sock # "open"
       /\ Answer(<<"ERROR">>)
       /\ Works /\ UNCHANGED <<sock, server, room>>
    \/ /\ unit = "CEREG"
       /\ Answer(<<"OK">>)
       /\ Works /\ UNCHANGED <<sock, server, room>>
    \/ /\ unit = "CEREG?"
       /\ Answer(<<"cell", "OK">>)
       /\ Works /\ UNCHANGED <<sock, server, room>>
    \/ /\ unit \in Part
       /\ Answer(<<"ERROR">>)
       /\ Works /\ UNCHANGED <<sock, server, room>>

\* Payload; with the last unit the message is complete.
TakeUnit(unit) ==
    /\ room' = room - 1
    /\ UNCHANGED sock
    /\ \/ /\ room > 1
          /\ taken' = Append(taken, unit)
          /\ Works /\ UNCHANGED <<air, wire, server>>
       \/ /\ room = 1 /\ sock = "open"
          /\ taken' = <<>>
          /\ wire' = Append(wire, Append(taken, unit))
          /\ server' = "asked"
          /\ Answer(<<"SEND_OK">>) /\ Works
       \/ /\ room = 1
          /\ taken' = <<>>
          /\ Answer(<<"SEND_FAIL">>)
          /\ IF sock = "open" THEN Fails ELSE Works
          /\ UNCHANGED <<wire, server>>

\* The server's answer has arrived at the modem.
ServerAnswers ==
    /\ server = "asked" /\ sock = "open"
    /\ server' = "data"
    /\ Answer(<<"+QIURC:recv">>)
    /\ UNCHANGED <<rx, sock, room, taken, wire, faults, late>>

\* The connection is closed from the other side, as asked for (Connection:
\* close) after the answer, or too early.
PeerCloses ==
    /\ sock = "open"
    /\ sock' = "peer"
    /\ IF server \in {"data", "done"} THEN Works ELSE Fails
    /\ Answer(<<"+QIURC:closed">>)
    /\ UNCHANGED <<rx, room, taken, wire, server, late>>

\* A line arrives.
Deliver ==
    /\ air # <<>>
    /\ rx' = Append(rx, Head(air)) /\ air' = Tail(air)
    /\ UNCHANGED <<sock, room, taken, wire, server, faults, late>>

------------------------------------------------------------------------------
(* ATParser.                                                                *)

\* send and write: the unit is taken as payload or as a command.
Write(unit) ==
    \/ room = 0 /\ Execute(unit) /\ UNCHANGED <<taken, wire>>
    \/ room > 0 /\ TakeUnit(unit)

Send(unit) == Write(unit) /\ UNCHANGED <<rx, late>>

\* The modem has nothing to say any more, or is too late.
Silent ==
    \/ air = <<>> /\ Works /\ UNCHANGED late
    \/ air # <<>> /\ Fails /\ late' = TRUE

\* recv: lines that do not match are dropped; the first that does is this one.
Recv(pattern, line) ==
    /\ \E i \in 1 .. Len(rx) :
        /\ rx[i] = line /\ \A j \in 1 .. i - 1 : rx[j] \notin pattern
        /\ rx' = SubSeq(rx, i + 1, Len(rx))
    /\ UNCHANGED <<air, sock, room, taken, wire, server, faults, late>>

\* recv gives up: no line matched, all are dropped.
RecvFails(pattern) ==
    /\ \A i \in 1 .. Len(rx) : rx[i] \notin pattern
    /\ Silent
    /\ rx' = <<>>
    /\ UNCHANGED <<air, sock, room, taken, wire, server>>

\* read: whatever comes until there is silence.
Read ==
    /\ Silent
    /\ rx' = <<>>
    /\ UNCHANGED <<air, sock, room, taken, wire, server>>

\* A read that stops early.
ReadSome ==
    /\ \E n \in 1 .. Len(rx) : rx' = SubSeq(rx, n + 1, Len(rx))
    /\ UNCHANGED <<air, sock, room, taken, wire, server, faults, late>>

\* flush, then send.
FlushAndSend(unit) == Write(unit) /\ rx' = <<>> /\ UNCHANGED late
=============================================================================
