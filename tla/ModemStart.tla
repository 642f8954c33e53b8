------------------------------ MODULE ModemStart ------------------------------
(***************************************************************************)
(* The modem from its power-on to its shutdown, in a run of App::Run that   *)
(* reports: BG96Interface::init, the identity, GPS, and for each access     *)
(* point setConnection and connect (App::ConnectGsm).  What is sent over an *)
(* access point is HttpSession.                                             *)
(*                                                                          *)
(* The parser reads lines.  Waiting for one ends with it or, after the      *)
(* timeout, without it; whatever else has arrived by then is lost, and what *)
(* arrives later is read by the next wait.  The modem is modelled from the  *)
(* answers the driver waits for: a command has its effect and its answer,   *)
(* is refused, or its answer is lost.                                       *)
(***************************************************************************)
EXTENDS Integers, Sequences

CONSTANTS
    MAX_ATTEMPTS,   \* waits for one answer (8)
    MaxStartups,    \* attempts of init (5)
    MaxPdpRetries,  \* of connect (3)
    PdpWaits,       \* waits for OK after AT+QIACT=1, at least 5
    MaxFixes,       \* attempts to get a position
    Nbiot,          \* the access points of app.cpp:36 in turn: with NB-IoT or not
    MaxFaults,      \* refusals and lost lines
    MaxLate,        \* answers after the first timeout
    MaxNoise        \* lines of the modem that nobody asked for

ASSUME AttemptAssumption ==
    /\ MAX_ATTEMPTS \in Nat \ {0, 1} /\ MaxStartups \in Nat \ {0}
    /\ MaxPdpRetries \in Nat /\ PdpWaits \in Nat \ {0} /\ MaxFixes \in Nat \ {0}

ASSUME ModemAssumption ==
    /\ Nbiot \in Seq(BOOLEAN) /\ Nbiot # <<>>
    /\ MaxFaults \in Nat /\ MaxLate \in Nat /\ MaxNoise \in Nat

VARIABLES
    rx,         \* lines the modem sends that have not been read
    echo,       \* it repeats the commands it gets
    radio,      \* AT+CFUN
    mode,       \* nwscanmode: "any" or a technology
    act,        \* the technology it is registered with, or "none"
    apn,        \* the access point of its context, 0 for none
    active,     \* the access point its context is active with, or 0
    gps,        \* GNSS is on
    faults,     \* history: refusals and lost lines
    noise,      \* history: unsolicited lines
    late,       \* history: answers that came after the first timeout
    closed      \* history: the modem has told that a socket is closed

modem == <<echo, radio, mode, act, apn, active, gps>>
history == <<faults, noise, late, closed>>
link == <<rx, modem, history>>

VARIABLES
    pc,
    max_attemps,    \* of init
    i,              \* the counter of the innermost loop
    pdp_retry,      \* of connect
    todo,           \* setConnection: the commands still to be sent
    apn_index,      \* of App::Run, from 1
    mac,            \* mac_addr: "none" yet, of the "imei", of something "else", "null"
    valid           \* gps_res.valid

driver == <<pc, max_attemps, i, pdp_retry, todo, apn_index, mac, valid>>
vars == <<link, driver>>

Technologies == {"gsm", "nbiot"}
Technology(index) == IF Nbiot[index] THEN "nbiot" ELSE "gsm"

------------------------------------------------------------------------------
(* The modem (external).                                                    *)

\* It keeps the settings of the runs before: any.
Off == /\ echo = TRUE /\ radio = FALSE /\ mode \in Technologies \cup {"any"}
       /\ act = "none" /\ apn \in 0 .. Len(Nbiot) /\ active = 0 /\ gps = FALSE

Fails == faults < MaxFaults /\ faults' = faults + 1
Works == UNCHANGED faults

\* What the command does when it is accepted; <<>> if it is refused.
Accepts(command, lines) ==
    CASE command = "ATE0" ->
           echo' = FALSE /\ lines = <<"OK">>
           /\ UNCHANGED <<radio, mode, act, apn, active, gps>>
      [] command = "CFUN=0" ->
           radio' = FALSE /\ act' = "none" /\ active' = 0 /\ lines = <<"OK">>
           /\ UNCHANGED <<echo, mode, apn, gps>>
      [] command = "CFUN=1" ->
           radio' = TRUE /\ lines = <<"OK">>
           /\ UNCHANGED <<echo, mode, act, apn, active, gps>>
      [] command = "nwscanmode" ->
           mode' = Technology(apn_index) /\ lines = <<"OK">>
           /\ UNCHANGED <<echo, radio, act, apn, active, gps>>
      [] command = "QICSGP" ->
           apn' = apn_index /\ lines = <<"OK">>
           /\ UNCHANGED <<echo, radio, mode, act, active, gps>>
      [] command = "COPS?" ->
           lines = <<act, "OK">> /\ UNCHANGED modem
      [] command = "COPS=" /\ radio ->
           act' = Technology(apn_index) /\ active' \in {0, active} /\ lines = <<"OK">>
           /\ UNCHANGED <<echo, radio, mode, apn, gps>>
      [] command = "QIACT" /\ act # "none" /\ active = 0 ->
           active' = apn /\ lines = <<"OK">>
           /\ UNCHANGED <<echo, radio, mode, act, apn, gps>>
      [] command = "QGPS" /\ ~gps ->
           gps' = TRUE /\ lines = <<"OK">>
           /\ UNCHANGED <<echo, radio, mode, act, apn, active>>
      [] command = "QGPSEND" /\ gps ->
           gps' = FALSE /\ lines = <<"OK">>
           /\ UNCHANGED <<echo, radio, mode, act, apn, active>>
      [] command = "QGPSLOC" /\ gps ->
           lines \in {<<"position", "OK">>, <<"ERROR">>} /\ UNCHANGED modem
      [] command = "CGSN" ->
           lines = <<"IMEI", "OK">> /\ UNCHANGED modem
      [] command = "QPOWD" ->
           lines = <<"OK", "POWERED_DOWN">> /\ UNCHANGED modem
      [] command = "settings" ->
           lines = <<"OK">> /\ UNCHANGED modem
      [] OTHER ->
           lines = <<"ERROR">> /\ UNCHANGED modem

Replies == {<<"OK">>, <<"ERROR">>, <<"position", "OK">>, <<"IMEI", "OK">>,
            <<"OK", "POWERED_DOWN">>} \cup {<<t, "OK">> : t \in Technologies \cup {"none"}}

\* What the modem says by itself: "closed" is +QIURC: "closed",0, URC the rest.
Unasked == {"URC", "closed"}

Lines == {"RDY", "OK", "ERROR", "position", "IMEI", "POWERED_DOWN", "none"}
             \cup Unasked \cup Technologies

Send(command) ==
    /\ \/ \E lines \in Replies :
             Accepts(command, lines) /\ rx' = rx \o lines /\ Works
       \/ \E lines \in Replies :
             Accepts(command, lines) /\ UNCHANGED rx /\ Fails
       \/ UNCHANGED modem /\ rx' = Append(rx, "ERROR") /\ Fails
    /\ UNCHANGED <<noise, late, closed>>

\* The radio finds a network of the kind it may use.
Registers ==
    /\ radio /\ act = "none"
    /\ act' \in IF mode = "any" THEN Technologies ELSE {mode}
    /\ UNCHANGED <<rx, echo, radio, mode, apn, active, gps, history>>

\* A socket is closed only after one has been opened over an access point.
Unsolicited ==
    /\ pc \notin {"wakeup", "done"}
    /\ noise < MaxNoise /\ noise' = noise + 1
    /\ \/ rx' = Append(rx, "URC") /\ UNCHANGED closed
       \/ apn_index > 1 /\ rx' = Append(rx, "closed") /\ closed' = TRUE
    /\ UNCHANGED <<modem, faults, late>>

------------------------------------------------------------------------------
(* ATParser.                                                                *)

Got == {rx[n] : n \in DOMAIN rx}

\* The first k lines have arrived before a timeout.
Arrive(k) ==
    /\ rx' = SubSeq(rx, k + 1, Len(rx))
    /\ IF k = Len(rx) THEN UNCHANGED late ELSE late < MaxLate /\ late' = late + 1
    /\ UNCHANGED <<modem, faults, noise, closed>>

First(line) == CHOOSE n \in DOMAIN rx : rx[n] = line /\ \A m \in 1 .. n - 1 : rx[m] # line

\* recv: lines that do not match are dropped.
Recv(line) ==
    /\ line \in Got /\ rx' = SubSeq(rx, First(line) + 1, Len(rx))
    /\ UNCHANGED <<modem, history>>

\* recv gives up.
RecvFails(line) ==
    \E k \in 0 .. Len(rx) :
        Arrive(k) /\ \A n \in 1 .. k : rx[n] # line

\* read: what comes until there is silence.
Read(lines) ==
    \E k \in 0 .. Len(rx) :
        Arrive(k) /\ lines = {rx[n] : n \in 1 .. k}

\* flush, after the line is received.
Flush(line) ==
    line \in Got /\ \E k \in First(line) .. Len(rx) : Arrive(k)

------------------------------------------------------------------------------
(* Control.                                                                 *)

TypeOK ==
    /\ rx \in Seq(Lines)
    /\ echo \in BOOLEAN /\ radio \in BOOLEAN /\ gps \in BOOLEAN
    /\ mode \in Technologies \cup {"any"} /\ act \in Technologies \cup {"none"}
    /\ apn \in 0 .. Len(Nbiot) /\ active \in 0 .. Len(Nbiot)
    /\ faults \in 0 .. MaxFaults /\ noise \in 0 .. MaxNoise /\ late \in 0 .. MaxLate
    /\ closed \in BOOLEAN
    /\ max_attemps \in 0 .. MaxStartups /\ pdp_retry \in 0 .. MaxPdpRetries
    /\ i \in 0 .. MAX_ATTEMPTS + MaxFixes + PdpWaits + 2 * MaxPdpRetries
    /\ apn_index \in 1 .. Len(Nbiot) + 1
    /\ mac \in {"none", "imei", "else", "null"} /\ valid \in BOOLEAN

Init ==
    /\ rx = <<>> /\ Off
    /\ faults = 0 /\ noise = 0 /\ late = 0 /\ closed = FALSE
    /\ pc = "wakeup" /\ max_attemps = 0 /\ i = 0 /\ pdp_retry = 0 /\ todo = <<>>
    /\ apn_index = 1 /\ mac = "none" /\ valid = FALSE

\* Go on at label, with the loop counter n.
Goto(label, n) ==
    /\ pc' = label /\ i' = n
    /\ UNCHANGED <<max_attemps, pdp_retry, todo, apn_index, mac, valid>>

\* Send, then wait for OK at label.
Command(label, command, then, n) == pc = label /\ Send(command) /\ Goto(then, n)

\* The wait at label, and the wait that may be repeated.
Awaited(label, line, then, n) == pc = label /\ Recv(line) /\ Goto(then, n)
NotAwaited(label, line, then, n) == pc = label /\ RecvFails(line) /\ Goto(then, n)
WaitOn(label, line) ==
    /\ pc = label /\ i > 1
    /\ IF line \in Got
       THEN Arrive(First(line) - 1) /\ \E n \in 1 .. i - 1 : Goto(label, n)
       ELSE Arrive(Len(rx)) /\ Goto(label, i - 1)

------------------------------------------------------------------------------
(* BG96Interface::init and BG96::startup.                                   *)

\* hw_reset: what the modem had not sent yet is lost; it will say RDY.
PowerCycle ==
    /\ \E sent \in {<<>>, rx} :
          \/ rx' = Append(sent, "RDY") /\ Works
          \/ rx' = sent /\ Fails
    /\ echo' = TRUE /\ radio' = TRUE /\ act' = "none" /\ active' = 0 /\ gps' = FALSE
    /\ UNCHANGED <<mode, apn, noise, late, closed>>

WakeUp ==
    /\ pc = "wakeup" /\ PowerCycle
    /\ pc' = "RDY" /\ i' = MAX_ATTEMPTS /\ max_attemps' = MaxStartups - 1
    /\ UNCHANGED <<pdp_retry, todo, apn_index, mac, valid>>

\* waitBG96Ready
Ready == Awaited("RDY", "RDY", "ATE0", 0)
NotReady == pc = "RDY" /\ i = 1 /\ RecvFails("RDY") /\ Goto("failed", 0)

SendEcho == Command("ATE0", "ATE0", "ATE0_OK", MAX_ATTEMPTS)

EchoOK == pc = "ATE0_OK" /\ i > 1 /\ Recv("OK") /\ Goto("CFUN", 0)

SendRadioOff == Command("CFUN", "CFUN=0", "CFUN_OK", MAX_ATTEMPTS)

\* startup has succeeded; flush.
Startup ==
    /\ pc = "CFUN_OK" /\ i > 1 /\ Flush("OK") /\ Goto("CGSN", 0)

\* An OK in the last of the attempts is taken for none: max_att is 0.
LastAttempt ==
    /\ pc \in {"ATE0_OK", "CFUN_OK"} /\ i = 1
    /\ Recv("OK") \/ RecvFails("OK")
    /\ Goto("failed", 0)

\* Mutant of StartupFailed: the modem is never reset.
StartupFailedNoReset ==
    /\ pc = "failed"
    /\ IF max_attemps = 0 THEN pc' = "GPSOff" /\ UNCHANGED <<max_attemps, i>>
       ELSE pc' = "RDY" /\ max_attemps' = max_attemps - 1 /\ i' = MAX_ATTEMPTS
    /\ UNCHANGED <<link, pdp_retry, todo, apn_index, mac, valid>>

\* Mutant of StartupFailed: one attempt too many.
StartupFailedOnceMore ==
    /\ pc = "failed" /\ UNCHANGED link
    /\ pc' = "RDY" /\ max_attemps' = max_attemps - 1 /\ i' = MAX_ATTEMPTS
    /\ UNCHANGED <<pdp_retry, todo, apn_index, mac, valid>>

\* The next attempt of init, the second one after a reset.  App::Run ends
\* when there is none.
StartupFailed ==
    /\ pc = "failed"
    /\ IF max_attemps = 3 THEN PowerCycle ELSE UNCHANGED link
    /\ IF max_attemps = 0 THEN pc' = "GPSOff" /\ UNCHANGED <<max_attemps, i>>
       ELSE pc' = "RDY" /\ max_attemps' = max_attemps - 1 /\ i' = MAX_ATTEMPTS
    /\ UNCHANGED <<pdp_retry, todo, apn_index, mac, valid>>

------------------------------------------------------------------------------
(* getMACAddress: the first 16 characters that come after AT+CGSN.          *)

SendCgsn == Command("CGSN", "CGSN", "IMEI", 0)

\* Mutant of ReadImei: what comes after OK is read.
ReadImeiAfterOK ==
    /\ pc = "IMEI"
    /\ Recv("OK") \/ RecvFails("OK")
    /\ mac' = "null" /\ pc' = "QGPS" /\ i' = MAX_ATTEMPTS
    /\ UNCHANGED <<max_attemps, pdp_retry, todo, apn_index, valid>>

ReadImei ==
    /\ pc = "IMEI"
    /\ \/ /\ rx # <<>>
          /\ mac' = IF Head(rx) = "IMEI" THEN "imei" ELSE "else"
          /\ rx' = Tail(rx) /\ pc' = "CGSN_OK"
          /\ UNCHANGED <<modem, history>>
       \/ Read({}) /\ mac' = "null" /\ pc' = "QGPS"
    /\ i' = MAX_ATTEMPTS
    /\ UNCHANGED <<max_attemps, pdp_retry, todo, apn_index, valid>>

CgsnOK == Awaited("CGSN_OK", "OK", "QGPS", MAX_ATTEMPTS)

\* mac_addr is NULL, which App::Run goes on with.
NoMac ==
    /\ pc = "CGSN_OK" /\ RecvFails("OK")
    /\ mac' = "null" /\ pc' = "QGPS" /\ i' = MAX_ATTEMPTS
    /\ UNCHANGED <<max_attemps, pdp_retry, todo, apn_index, valid>>

------------------------------------------------------------------------------
(* setGPS, GetGps and GPSOff.                                               *)

SendGps == Command("QGPS", "QGPS", "QGPS_OK", i)
GpsOn == Awaited("QGPS_OK", "OK", "QGPSLOC", MaxFixes)
GpsNotOn ==
    /\ pc = "QGPS_OK" /\ RecvFails("OK")
    /\ IF i = 0 THEN Goto("apn", 0) ELSE Goto("QGPS", i - 1)

SendLocation == Command("QGPSLOC", "QGPSLOC", "position", i)

\* getGPS, with the first text that ends with OK; then GPSOff.
Position ==
    /\ pc = "position"
    /\ \E lines \in SUBSET Got :
          /\ Read(lines)
          /\ valid' = ("OK" \in lines)
          /\ pc' = IF valid' THEN "QGPSEND" ELSE IF i > 1 THEN "QGPSLOC" ELSE "apn"
    /\ i' = i - 1
    /\ UNCHANGED <<max_attemps, pdp_retry, todo, apn_index, mac>>

SendGpsOff == Command("QGPSEND", "QGPSEND", "QGPSEND_OK", 0)

GpsOff ==
    \/ Awaited("QGPSEND_OK", "OK", "apn", 0)
    \/ NotAwaited("QGPSEND_OK", "OK", "apn", 0)

------------------------------------------------------------------------------
(* BG96::setConnection.                                                     *)

\* A command, and whether a failure ends setConnection.
Try(command) == [command |-> command, must |-> FALSE]
Must(command) == [command |-> command, must |-> TRUE]

Commands(nbiot) ==
    <<Try("CFUN=0")>>
    \o (IF nbiot THEN <<Try("settings"), Try("nwscanmode"), Try("settings"), Try("settings"),
                        Try("settings")>>
        ELSE <<Try("nwscanmode")>>)
    \o <<Must("CFUN=1"), Must("QICSGP")>>

\* App::Run takes the next access point, if there is one.
NextApn ==
    /\ pc = "apn"
    /\ IF apn_index > Len(Nbiot)
       THEN pc' = "GPSOff" /\ UNCHANGED todo
       ELSE pc' = "configure" /\ todo' = Commands(Nbiot[apn_index])
    /\ UNCHANGED <<link, max_attemps, i, pdp_retry, apn_index, mac, valid>>

SendCommand ==
    /\ pc = "configure" /\ todo # <<>>
    /\ Send(Head(todo).command) /\ Goto("configure_OK", 0)

CommandOK ==
    /\ pc = "configure_OK"
    /\ \/ Recv("OK")
       \/ ~Head(todo).must /\ RecvFails("OK")
    /\ pc' = "configure" /\ todo' = Tail(todo)
    /\ UNCHANGED <<max_attemps, i, pdp_retry, apn_index, mac, valid>>

\* ConnectGsm returns false, or the report is not sent: the next access point.
Abandon ==
    /\ pc' = "apn" /\ todo' = <<>> /\ apn_index' = apn_index + 1
    /\ UNCHANGED <<max_attemps, i, pdp_retry, mac, valid>>

CommandFails ==
    /\ pc = "configure_OK" /\ Head(todo).must
    /\ RecvFails("OK") /\ Abandon

Configured ==
    /\ pc = "configure" /\ todo = <<>>
    /\ Goto("COPS?", MAX_ATTEMPTS) /\ UNCHANGED link

SendCops == Command("COPS?", "COPS?", "network", i)

\* strstr looks for ",0 (GSM) or ",9 in all that was read.
Named(lines) ==
    \/ Technology(apn_index) \in lines
    \/ Technology(apn_index) = "gsm" /\ "closed" \in lines

\* Mutant of NetworkRead: any network will do.
NetworkReadAny ==
    /\ pc = "network"
    /\ \E lines \in SUBSET Got :
          /\ Read(lines)
          /\ IF lines \cap Technologies # {} THEN Goto("QIACT", 0)
             ELSE IF i > 1 THEN Goto("COPS?", i - 1)
             ELSE IF i = 1 THEN Goto("COPS=", 0)
             ELSE Abandon

\* "Already connected", try again, or choose the network; with i = 0 it has
\* been chosen.
NetworkRead ==
    /\ pc = "network"
    /\ \E lines \in SUBSET Got :
          /\ Read(lines)
          /\ IF Named(lines) THEN Goto("QIACT", 0)
             ELSE IF i > 1 THEN Goto("COPS?", i - 1)
             ELSE IF i = 1 THEN Goto("COPS=", 0)
             ELSE Abandon

ChooseNetwork == Command("COPS=", "COPS=", "COPS=_OK", 0)
NetworkChosen == Awaited("COPS=_OK", "OK", "COPS?", 0)
NetworkRefused == pc = "COPS=_OK" /\ RecvFails("OK") /\ Abandon

------------------------------------------------------------------------------
(* BG96::connect.                                                           *)

Activate == Command("QIACT", "QIACT", "QIACT_OK", PdpWaits + 2 * pdp_retry)

Activated ==
    /\ pc = "QIACT_OK" /\ Recv("OK")
    /\ pc' = (IF valid THEN "publish" ELSE "QGPSLOC_again") /\ pdp_retry' = 0
    /\ UNCHANGED <<max_attemps, i, todo, apn_index, mac, valid>>

\* Mutant of ActivateAgain: the retries are not counted.
ActivateAgainForever ==
    /\ pc = "QIACT_OK" /\ i = 1 /\ RecvFails("OK")
    /\ Goto("QIACT", 0)

\* After pdp_retry > 3, "PDP not valid".
ActivateAgain ==
    /\ pc = "QIACT_OK" /\ i = 1 /\ RecvFails("OK")
    /\ IF pdp_retry < MaxPdpRetries
       THEN /\ pc' = "QIACT" /\ pdp_retry' = pdp_retry + 1
            /\ UNCHANGED <<max_attemps, i, todo, apn_index, mac, valid>>
       ELSE /\ pc' = "apn" /\ pdp_retry' = 0 /\ apn_index' = apn_index + 1
            /\ UNCHANGED <<max_attemps, i, todo, mac, valid>>

------------------------------------------------------------------------------
(* App::Run after ConnectGsm, and BG96::shutdown.                           *)

\* "Check the GPS once more": GetGps with one attempt.
SendLocationAgain == Command("QGPSLOC_again", "QGPSLOC", "position_again", 0)

PositionAgain ==
    /\ pc = "position_again" /\ pc' = "publish"
    /\ \E lines \in SUBSET Got : Read(lines) /\ valid' = ("OK" \in lines)
    /\ UNCHANGED <<max_attemps, i, pdp_retry, todo, apn_index, mac>>

\* SendData: sent, or not.
Published ==
    /\ pc = "publish" /\ UNCHANGED link
    /\ Goto("GPSOff", 0) \/ Abandon

SendGpsEnd == Command("GPSOff", "QGPSEND", "GPSOff_OK", 0)

GpsEnd ==
    \/ Awaited("GPSOff_OK", "OK", "shutdown", 0)
    \/ NotAwaited("GPSOff_OK", "OK", "shutdown", 0)

SendPowerDown == Command("shutdown", "QPOWD", "POWERED_DOWN", 0)

\* VBAT_3V8_EN = 0 in any case.
PoweredDown ==
    /\ pc = "POWERED_DOWN"
    /\ Recv("POWERED_DOWN") \/ RecvFails("POWERED_DOWN")
    /\ Goto("done", 0)

------------------------------------------------------------------------------

KeepWaiting ==
    \/ WaitOn("RDY", "RDY") \/ WaitOn("ATE0_OK", "OK") \/ WaitOn("CFUN_OK", "OK")
    \/ WaitOn("QIACT_OK", "OK")

DriverStep ==
    \/ WakeUp \/ Ready \/ NotReady \/ SendEcho \/ EchoOK \/ SendRadioOff \/ Startup
    \/ LastAttempt \/ StartupFailed \/ KeepWaiting
    \/ SendCgsn \/ ReadImei \/ CgsnOK \/ NoMac
    \/ SendGps \/ GpsOn \/ GpsNotOn \/ SendLocation \/ Position \/ SendGpsOff \/ GpsOff
    \/ NextApn \/ SendCommand \/ CommandOK \/ CommandFails \/ Configured
    \/ SendCops \/ NetworkRead \/ ChooseNetwork \/ NetworkChosen \/ NetworkRefused
    \/ Activate \/ Activated \/ ActivateAgain
    \/ SendLocationAgain \/ PositionAgain \/ Published \/ SendGpsEnd \/ GpsEnd \/ SendPowerDown \/ PoweredDown

ModemStep == (Registers \/ Unsolicited) /\ UNCHANGED driver

Done == pc = "done" /\ UNCHANGED vars

Next == DriverStep \/ ModemStep \/ Done

Spec == Init /\ [][Next]_vars

\* The program runs; nothing is assumed of the modem.
FairSpec == Spec /\ WF_vars(DriverStep)

------------------------------------------------------------------------------

(***************************************************************************)
(* Properties                                                               *)
(***************************************************************************)

Started == mac # "none" \/ pc \in {"CGSN", "IMEI", "CGSN_OK"}

\* init tells the truth.  It fails only if two lines were lost, refused or
\* late: one failure is survived, but a failed start-up costs the next one,
\* which waits for a RDY that has been, too, and only the second is followed by
\* a reset.  And when it has succeeded the modem does not repeat commands,
\* which the parser would take for answers, whatever was lost or late.
InitSound ==
    /\ pc = "GPSOff" /\ ~ Started => faults + late > 1
    /\ Started => ~ echo

\* A report goes out over the access point and the technology it was meant
\* for, whichever of the settings before were refused, unless an answer was
\* late: its OK is then taken for that of a later command.  The technology is
\* another one only if the modem has told that a socket is closed, which
\* strstr takes for a GSM network (BG96.cpp:176).
OnAskedNetwork ==
    pc = "publish" /\ late = 0 =>
        /\ active = apn_index
        /\ act = Technology(apn_index) \/ closed

\* A report goes out under the modem's identity.  It carries another one only
\* if a line came that nobody had asked for, which is taken for the IMEI, or an
\* answer was late, and none (NULL) only if one was lost, refused or late.
IdentityKnown ==
    pc = "publish" =>
        /\ mac = "imei" \/ mac = "else" \/ mac = "null"
        /\ mac = "else" => noise + late > 0
        /\ mac = "null" => faults + late > 0

\* The program reaches the shutdown, however the modem behaves.
RunEnds == <>(pc = "done")
=============================================================================
