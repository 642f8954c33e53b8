-------------------------------- MODULE Device --------------------------------
(***************************************************************************)
(* The tracker's duty cycle: App::Run (app/app.cpp) with AppState, the      *)
(* timing fields of Config, the alarm and the accelerometer interrupt that  *)
(* end standby, and the TIM3 watchdog.                                      *)
(*                                                                          *)
(* Every wake-up starts the program from its reset vector, App::Run decides *)
(* from the backup registers and the clock whether to report, and ends in   *)
(* StandBy().  What the program writes to the backup registers is kept by   *)
(* the next standby only (BackupRegs), so they are two copies here: hw, the *)
(* stored one, and regs, the one the running program reads and writes.      *)
(*                                                                          *)
(* The modem and the cloud are reduced to what App::Run sees of them: calls *)
(* that take time, succeed or fail.  GPS fixes change neither the flow of   *)
(* App::Run nor a register and are part of the time the calls take.         *)
(***************************************************************************)
EXTENDS Integers

CONSTANTS
    Minute,                       \* clock ticks in a minute (60)
    WAKEUP_INTERVAL_MIN_DEFAULT,  \* minutes (10)
    SEND_INTERVAL_MIN_DEFAULT,    \* minutes (30)
    RESET_WD,                     \* minutes (20)
    CONFIG_CHECK,                 \* ticks (CONFIG_CHECK_S, a day)
    WakeupRange,                  \* values of a 6-bit wakeup_time (64)
    IntervalRange,                \* values of a 10-bit send_interval_min (1024)
    apns_len,                     \* access points to try (2)
    CloudConfigs,                 \* <<wakeupTime, interruptTime>> the server may answer
    TailTime,                     \* ticks shutdown() and wait(1) take at most
    AlarmMayFail,                 \* HAL_RTC_SetAlarm_IT may refuse the alarm
    InitMayFail,                  \* the modem may not start
    ModemMayHang,                 \* the modem may keep App::Run beyond the watchdog
    PowerOnTimes,                 \* what the clock may show at the first power-up
    MaxTime                       \* horizon of the clock

ASSUME TimeAssumption ==
    /\ Minute \in Nat \ {0} /\ RESET_WD \in Nat /\ CONFIG_CHECK \in Nat
    /\ TailTime \in Nat /\ MaxTime \in Nat /\ PowerOnTimes \subseteq Nat

ASSUME ConfigAssumption ==
    /\ WakeupRange \in Nat \ {0} /\ IntervalRange \in Nat \ {0}
    /\ WAKEUP_INTERVAL_MIN_DEFAULT \in 1 .. WakeupRange - 1
    /\ SEND_INTERVAL_MIN_DEFAULT \in 1 .. IntervalRange - 1
    /\ CloudConfigs \subseteq Int \X Int

ASSUME FaultAssumption ==
    /\ apns_len \in Nat
    /\ AlarmMayFail \in BOOLEAN /\ InitMayFail \in BOOLEAN
    /\ ModemMayHang \in BOOLEAN

CHECK_STATES == {"NDEF", "SLEEP", "CHECKINGMOTION"}

AppStateData ==
    [state : CHECK_STATES, log_err_sent : BOOLEAN, last_wokeup_acc : BOOLEAN]

ConfigData ==
    [set : BOOLEAN, wakeup_time : 0 .. WakeupRange - 1,
     send_interval_min : 0 .. IntervalRange - 1]

Registers ==
    [LASTSEND_TIMESTAMP_REG : Nat, INMOTION_CHECK_TIME : Nat, STATE_REG : AppStateData,
     CONFIG_TIMESTAMP_REG : Nat, CONFIG_BITS : ConfigData]

\* The registers after the backup domain was without supply.
Erased ==
    [LASTSEND_TIMESTAMP_REG |-> 0, INMOTION_CHECK_TIME |-> 0,
     STATE_REG |-> [state |-> "NDEF", log_err_sent |-> FALSE,
                last_wokeup_acc |-> FALSE],
     CONFIG_TIMESTAMP_REG |-> 0,
     CONFIG_BITS |-> [set |-> FALSE, wakeup_time |-> 0,
                      send_interval_min |-> 0]]

\* The places of App::Run at which the modem may keep it waiting.
ModemPhases == {"init", "apn", "config", "publish"}

\* The places at which TIM3 runs.
Guarded == ModemPhases \cup {"boot", "alarm"}

\* What starts the program; a stale alarm is one an earlier run has set, after
\* the RTC refused the last.
Causes == {"power", "alarm", "stale", "acc"}

VARIABLES
    now,            \* the RTC
    hw,             \* the backup registers, as stored
    regs,           \* the backup registers, as the program reads them
    pc,             \* where App::Run is; "standby" when it is over
    since,          \* when this run began, its watchdog stopped, or its standby began
    state,          \* local variables of App::Run
    rtc_time,
    config_update,
    gps_data_send,
    apn_index,
    sent,
    alarmAt,        \* the time alarm A is set to
    accInt          \* the accelerometer's wake-up interrupt is enabled

VARIABLES           \* history, read by the properties only
    wakeCause,      \* what ended the last standby
    prevCause,      \* what ended the one before
    lastTry,        \* when App::Run last decided to report
    lost,           \* the last report was given up
    overdue,        \* the send interval found over since the last report sent
    refused         \* the RTC refused the last alarm

locals == <<state, rtc_time, config_update, gps_data_send, apn_index, sent>>
history == <<wakeCause, prevCause, lastTry, lost, overdue, refused>>
vars == <<now, hw, regs, pc, since, locals, alarmAt, accInt, history>>

TypeOK ==
    /\ now \in Nat /\ since \in Nat /\ alarmAt \in Nat
    /\ hw \in Registers /\ regs \in Registers
    /\ pc \in Guarded \cup {"shutdown", "off", "standby"}
    /\ state \in CHECK_STATES
    /\ rtc_time \in Nat /\ lastTry \in Nat /\ overdue \in Nat
    /\ apn_index \in 0 .. apns_len
    /\ config_update \in BOOLEAN /\ gps_data_send \in BOOLEAN
    /\ sent \in BOOLEAN /\ accInt \in BOOLEAN
    /\ lost \in BOOLEAN /\ refused \in BOOLEAN
    /\ wakeCause \in Causes /\ prevCause \in Causes

------------------------------------------------------------------------------

\* abs(now - t)
Elapsed(t) == IF now >= t THEN now - t ELSE t - now

\* Config::GetConfig: the defaults stand in for a configuration never set.
GetConfig(bits) ==
    IF bits.set THEN bits
    ELSE [set |-> TRUE, wakeup_time |-> WAKEUP_INTERVAL_MIN_DEFAULT,
          send_interval_min |-> SEND_INTERVAL_MIN_DEFAULT]

WakeupTicks(bits) == GetConfig(bits).wakeup_time * Minute
IntervalTicks(bits) == GetConfig(bits).send_interval_min * Minute

\* Mutant of deepsleep_wakeup: the wrong register.
deepsleep_wakeupOfCheck ==
    Elapsed(regs.INMOTION_CHECK_TIME) >= IntervalTicks(regs.CONFIG_BITS)

deepsleep_wakeup ==
    Elapsed(regs.LASTSEND_TIMESTAMP_REG) >= IntervalTicks(regs.CONFIG_BITS)

\* Mutant of wokenup: off by one.
wokenupInclusive ==
    Elapsed(regs.INMOTION_CHECK_TIME) <= WakeupTicks(regs.CONFIG_BITS)

wokenup ==
    Elapsed(regs.INMOTION_CHECK_TIME) < WakeupTicks(regs.CONFIG_BITS)

\* No run of the program sees the local variables of the one before.
LocalsGone ==
    /\ state' = "NDEF" /\ rtc_time' = 0 /\ config_update' = FALSE
    /\ gps_data_send' = FALSE /\ apn_index' = 0 /\ sent' = FALSE

\* The program starts: it reads the stored registers and TIM3 counts from 0.
Start ==
    /\ pc' = "boot"
    /\ since' = now
    /\ regs' = hw
    /\ LocalsGone
    /\ UNCHANGED <<now, hw, alarmAt>>

\* App::Run up to its first decision: the accelerometer interrupt is
\* disabled, the clock and the registers are read, GetConfig stores the
\* defaults if it has to, and the branch taken leaves the next state, the
\* flag last_wokeup_acc and whether to report.
Decide(next, acc, send) ==
    /\ pc = "boot"
    /\ pc' = IF send THEN "init" ELSE "alarm"
    /\ accInt' = FALSE
    /\ rtc_time' = now
    /\ state' = next
    /\ gps_data_send' = send
    /\ config_update' = \/ Elapsed(regs.CONFIG_TIMESTAMP_REG) >= CONFIG_CHECK
                        \/ regs.CONFIG_TIMESTAMP_REG = 0
    /\ regs' = [regs EXCEPT !.CONFIG_BITS = GetConfig(@),
                            !.STATE_REG.last_wokeup_acc = acc]
    /\ lastTry' = IF send THEN now ELSE lastTry
    /\ overdue' = IF deepsleep_wakeup THEN IntervalTicks(regs.CONFIG_BITS)
                                      ELSE overdue
    /\ UNCHANGED <<now, hw, since, apn_index, sent, alarmAt,
                   wakeCause, prevCause, lost, refused>>

\* Nothing was sent for a whole send interval: report.
DecideDeepsleep ==
    /\ deepsleep_wakeup
    /\ Decide(regs.STATE_REG.state, FALSE, TRUE)

\* The quiet period after a report is over: watch for motion again.
DecideSleep ==
    /\ ~ deepsleep_wakeup /\ regs.STATE_REG.state = "SLEEP"
    /\ ~ regs.STATE_REG.last_wokeup_acc
    /\ Decide("CHECKINGMOTION", FALSE, FALSE)

\* Mutant of DecideFollowUp: the flag is not cleared.
DecideFollowUpForever ==
    /\ ~ deepsleep_wakeup /\ regs.STATE_REG.state = "SLEEP"
    /\ regs.STATE_REG.last_wokeup_acc
    /\ Decide("SLEEP", TRUE, TRUE)

\* The report before was caused by motion: report once more.
DecideFollowUp ==
    /\ ~ deepsleep_wakeup /\ regs.STATE_REG.state = "SLEEP"
    /\ regs.STATE_REG.last_wokeup_acc
    /\ Decide("SLEEP", FALSE, TRUE)

\* Mutant of DecideMotion: the state stays.
DecideMotionStays ==
    /\ ~ deepsleep_wakeup /\ regs.STATE_REG.state = "CHECKINGMOTION"
    /\ wokenup
    /\ Decide("CHECKINGMOTION", TRUE, TRUE)

\* Woken up before the alarm can have been: motion.
DecideMotion ==
    /\ ~ deepsleep_wakeup /\ regs.STATE_REG.state = "CHECKINGMOTION"
    /\ wokenup
    /\ Decide("SLEEP", TRUE, TRUE)

DecideNoMotion ==
    /\ ~ deepsleep_wakeup /\ regs.STATE_REG.state = "CHECKINGMOTION"
    /\ ~ wokenup
    /\ Decide("CHECKINGMOTION", FALSE, FALSE)

\* The first start: report, then watch for motion.
DecideFirst ==
    /\ ~ deepsleep_wakeup /\ regs.STATE_REG.state = "NDEF"
    /\ Decide("CHECKINGMOTION", regs.STATE_REG.last_wokeup_acc, TRUE)

\* wakeup() and init() of the modem succeed; setGPS and GetGps, whatever they
\* return, lead to the loop over the access points, whose sent and apn_index
\* Start has set.
InitModem ==
    /\ pc = "init"
    /\ pc' = "apn"
    /\ UNCHANGED <<now, hw, regs, since, locals, alarmAt, accInt, history>>

\* init() fails: the report is given up.
InitFails ==
    /\ pc = "init" /\ InitMayFail
    /\ pc' = "alarm"
    /\ lost' = TRUE
    /\ UNCHANGED <<now, hw, regs, since, locals, alarmAt, accInt,
                   wakeCause, prevCause, lastTry, overdue, refused>>

ConnectGsm ==
    /\ pc = "apn" /\ ~ sent /\ apn_index < apns_len
    /\ pc' = IF config_update THEN "config" ELSE "publish"
    /\ UNCHANGED <<now, hw, regs, since, locals, alarmAt, accInt, history>>

ConnectFails ==
    /\ pc = "apn" /\ ~ sent /\ apn_index < apns_len
    /\ apn_index' = apn_index + 1
    /\ UNCHANGED <<now, hw, regs, pc, since, state, rtc_time, config_update,
                   gps_data_send, sent, alarmAt, accInt, history>>

\* Config::UpdateConfig's checks of the server's answer and its bit fields.
Accepted(answer) == answer[1] > 0 /\ answer[2] > 0

\* Mutant of Packed: the values are not cut to the bit fields.
PackedWide(answer) ==
    [set |-> TRUE, wakeup_time |-> answer[1], send_interval_min |-> answer[2]]

Packed(answer) ==
    [set |-> TRUE, wakeup_time |-> answer[1] % WakeupRange,
     send_interval_min |-> answer[2] % IntervalRange]

\* UpdateConfig keeps the configuration or stores an accepted answer; either
\* way the time of the update is written.
UpdateConfig ==
    /\ pc = "config"
    /\ pc' = "publish"
    /\ \E bits \in {regs.CONFIG_BITS}
                   \cup {Packed(a) : a \in {b \in CloudConfigs : Accepted(b)}} :
          regs' = [regs EXCEPT !.CONFIG_BITS = bits, !.CONFIG_TIMESTAMP_REG = now]
    /\ UNCHANGED <<now, hw, since, locals, alarmAt, accInt, history>>

\* SendData over the current access point.
SendData ==
    /\ pc = "publish"
    /\ pc' = "apn"
    /\ sent' \in BOOLEAN
    /\ apn_index' = apn_index + 1
    /\ UNCHANGED <<now, hw, regs, since, state, rtc_time, config_update,
                   gps_data_send, alarmAt, accInt, history>>

\* Mutant of RecordResult: a report that was lost is recorded like one sent.
RecordResultAlways ==
    /\ pc = "apn" /\ (sent \/ apn_index = apns_len)
    /\ pc' = "alarm"
    /\ regs' = [regs EXCEPT !.LASTSEND_TIMESTAMP_REG = now,
                            !.STATE_REG.log_err_sent = ~ sent]
    /\ lost' = ~ sent
    /\ overdue' = IF sent THEN 0 ELSE overdue
    /\ UNCHANGED <<now, hw, since, locals, alarmAt, accInt,
                   wakeCause, prevCause, lastTry, refused>>

\* After the loop: the time of a report that went out, and the loss of one
\* that did not, are written.
RecordResult ==
    /\ pc = "apn" /\ (sent \/ apn_index = apns_len)
    /\ pc' = "alarm"
    /\ regs' = [regs EXCEPT !.LASTSEND_TIMESTAMP_REG = IF sent THEN now ELSE @,
                            !.STATE_REG.log_err_sent = ~ sent]
    /\ lost' = ~ sent
    /\ overdue' = IF sent THEN 0 ELSE overdue
    /\ UNCHANGED <<now, hw, since, locals, alarmAt, accInt,
                   wakeCause, prevCause, lastTry, refused>>

\* Mutant of SetAlarm: no alarm while the accelerometer watches.
SetAlarmInSleepOnly ==
    /\ pc = "alarm"
    /\ pc' = "shutdown"
    /\ since' = now
    /\ alarmAt' = IF state = "CHECKINGMOTION" THEN alarmAt
                  ELSE now + WakeupTicks(regs.CONFIG_BITS)
    /\ refused' = FALSE
    /\ accInt' \in {FALSE, state = "CHECKINGMOTION"}
    /\ regs' = [regs EXCEPT !.CONFIG_BITS = GetConfig(@),
                            !.INMOTION_CHECK_TIME =
                               IF state = "CHECKINGMOTION" THEN rtc_time ELSE @]
    /\ UNCHANGED <<now, hw, locals, wakeCause, prevCause, lastTry, lost, overdue>>

\* SetAlarm, whose result is ignored, then the accelerometer for the state
\* reached (enabling its interrupt may fail, which is only logged), then
\* TimerDeinit.
SetAlarm ==
    /\ pc = "alarm"
    /\ pc' = "shutdown"
    /\ since' = now
    /\ \/ alarmAt' = now + WakeupTicks(regs.CONFIG_BITS) /\ refused' = FALSE
       \/ AlarmMayFail /\ UNCHANGED alarmAt /\ refused' = TRUE
    /\ accInt' \in {FALSE, state = "CHECKINGMOTION"}
    /\ regs' = [regs EXCEPT !.CONFIG_BITS = GetConfig(@),
                            !.INMOTION_CHECK_TIME =
                               IF state = "CHECKINGMOTION" THEN rtc_time ELSE @]
    /\ UNCHANGED <<now, hw, locals, wakeCause, prevCause, lastTry, lost, overdue>>

\* Mutant of Shutdown: the state is stored at once.
ShutdownWritesThrough ==
    /\ pc = "shutdown"
    /\ pc' = "off"
    /\ regs' = [regs EXCEPT !.STATE_REG.state = state]
    /\ hw' = [hw EXCEPT !.STATE_REG.state = state]
    /\ UNCHANGED <<now, since, locals, alarmAt, accInt, history>>

\* The modem is shut down and the state written.
Shutdown ==
    /\ pc = "shutdown"
    /\ pc' = "off"
    /\ regs' = [regs EXCEPT !.STATE_REG.state = state]
    /\ UNCHANGED <<now, hw, since, locals, alarmAt, accInt, history>>

\* StandBy() stores the registers and ends the run.
StandBy ==
    /\ pc = "off"
    /\ pc' = "standby"
    /\ since' = now
    /\ hw' = regs
    /\ LocalsGone
    /\ UNCHANGED <<now, regs, alarmAt, accInt, history>>

------------------------------------------------------------------------------

\* The alarm matches the clock once; it is missed if that happens before
\* standby begins.
AlarmDue == alarmAt > since /\ now = alarmAt

WakeUp(cause) ==
    /\ pc = "standby"
    /\ Start
    /\ wakeCause' = cause /\ prevCause' = wakeCause
    /\ UNCHANGED <<accInt, lastTry, lost, overdue, refused>>

WakeByAlarm == AlarmDue /\ WakeUp(IF refused THEN "stale" ELSE "alarm")

WakeByAcc == accInt /\ WakeUp("acc")

\* TIM3 interrupts once a minute; the one after the RESET_WD-th resets.
WatchdogTicks == (RESET_WD + 1) * Minute

\* M_TIM_USR_Handler resets the processor: nothing of this run is stored.
WatchdogReset ==
    /\ pc \in Guarded /\ ModemMayHang
    /\ now - since >= WatchdogTicks
    /\ Start
    /\ lost' = (lost \/ pc \in ModemPhases)
    /\ UNCHANGED <<accInt, wakeCause, prevCause, lastTry, overdue, refused>>

\* What lets time pass: the modem as long as the watchdog does, the shutdown,
\* and standby until its alarm.
MayWait ==
    \/ /\ pc \in ModemPhases \/ (pc = "alarm" /\ gps_data_send)
       /\ now - since < WatchdogTicks - (IF ModemMayHang THEN 0 ELSE 1)
    \/ pc \in {"shutdown", "off"} /\ now - since < TailTime
    \/ pc = "standby" /\ ~ AlarmDue

Tick ==
    /\ now < MaxTime
    /\ MayWait
    /\ now' = now + 1
    /\ UNCHANGED <<hw, regs, pc, since, locals, alarmAt, accInt, history>>

\* The observation ends.
Horizon == now = MaxTime /\ pc = "standby" /\ UNCHANGED vars

------------------------------------------------------------------------------

\* First power-up: registers erased, no alarm, and a clock that may run.
Init ==
    /\ now \in PowerOnTimes
    /\ hw = Erased /\ regs = Erased
    /\ pc = "boot"
    /\ since = now
    /\ state = "NDEF" /\ rtc_time = 0 /\ config_update = FALSE
    /\ gps_data_send = FALSE /\ apn_index = 0 /\ sent = FALSE
    /\ alarmAt = 0 /\ accInt = FALSE
    /\ wakeCause = "power" /\ prevCause = "power"
    /\ lastTry = now /\ lost = FALSE /\ overdue = 0 /\ refused = FALSE

DecideAny ==
    \/ DecideDeepsleep \/ DecideSleep \/ DecideFollowUp
    \/ DecideMotion \/ DecideNoMotion \/ DecideFirst

\* The steps App::Run takes by itself.
RunStep ==
    \/ DecideAny
    \/ InitModem \/ InitFails
    \/ ConnectGsm \/ ConnectFails \/ UpdateConfig \/ SendData \/ RecordResult
    \/ SetAlarm \/ Shutdown \/ StandBy

Next ==
    \/ RunStep
    \/ WakeByAlarm \/ WakeByAcc
    \/ WatchdogReset
    \/ Tick
    \/ Horizon

Spec == Init /\ [][Next]_vars

------------------------------------------------------------------------------

(***************************************************************************)
(* Properties                                                               *)
(***************************************************************************)

\* App::Run has no way to ask what woke it: it takes a wake-up less than
\* wakeup_time after the last check for motion (app.cpp:366).  A wake-up by
\* the alarm of this sleep never passes for one, not even when the check was
\* long before the alarm was set, the configuration changed in between, or
\* the watchdog made the program start over.  Nor does any start but one by
\* the accelerometer or by an alarm of an earlier run, the last one refused.
AlarmIsNotMotion ==
    pc = "boot" /\ regs.STATE_REG.state = "CHECKINGMOTION" /\ wokenup
        => wakeCause \in {"acc", "stale"}

\* The alarm that ends the sleep with this configuration may be past when
\* standby begins.  The bit field cuts an accepted wakeupTime of 64 to 0
\* (config.cpp:137), and nothing in App::Run looks at the result.
ShortSleep(bits) == WakeupTicks(bits) <= TailTime

\* The device sleeps for good in two cases only: the RTC refused the alarm
\* (app.cpp:427 ignores that), or the sleep is no longer than the shutdown
\* that runs after the alarm is set.  In every other standby an alarm is
\* still to come or the accelerometer watches, whatever failed, hung or was
\* reset before it.
StandbyHasWakeSource ==
    pc = "standby" =>
        alarmAt > since \/ accInt \/ refused \/ ShortSleep(hw.CONFIG_BITS)

\* "interruptTime - send data anyway after this timeout" (README.md:74): with
\* the sleeps in between and a run the watchdog cuts short, the time without
\* an attempt to report stays below the send interval, one sleep and one run.
\* It goes on only for a device that sleeps on after a refused alarm or a
\* sleep too short, and whatever wakes such a device up, its first decision
\* brings it back below the bound.
BoundedSilence ==
    \/ now - lastTry <= IntervalTicks(regs.CONFIG_BITS)
                          + WakeupTicks(regs.CONFIG_BITS) + WatchdogTicks
    \/ /\ pc \in {"shutdown", "off", "standby", "boot"}
       /\ refused \/ ShortSleep(regs.CONFIG_BITS)

\* A report the send interval called for is not forgotten: until one has gone
\* out, every later start of the program reports again, whether the modem did
\* not start, no access point took the message or the watchdog cut the run
\* short (app.cpp:344, 417), unless the server made the interval longer.
LostReportRetried ==
    [][ DecideAny /\ IntervalTicks(regs.CONFIG_BITS) <= overdue
          => gps_data_send' ]_vars

\* last_wokeup_acc asks for the second report after motion, and only the
\* SLEEP state reads it: it is never stored with another state, where it
\* would lie until some later report (app.cpp:358, 373).
FlagMeansSleep ==
    hw.STATE_REG.last_wokeup_acc => hw.STATE_REG.state = "SLEEP"

\* A device nobody moves saves its battery: if the last two standbys were
\* ended by the alarm set for them and this is not the first start, the modem
\* is switched on only when the send interval is over (app.cpp:351-379).
QuietDeviceSparesModem ==
    [][ DecideAny /\ gps_data_send'
        /\ wakeCause = "alarm" /\ prevCause = "alarm"
        /\ hw.STATE_REG.state # "NDEF"
          => deepsleep_wakeup ]_vars

\* The registers behave as the store BackupRegs implements.
Store ==
    INSTANCE BackupStore
    WITH Content <- Registers, committed <- hw, working <- regs,
         mode <- IF pc = "standby" THEN "asleep" ELSE "awake"

StoreSpec == Store!Spec

\* The error flag of a message: "1 bit previous message lost"
\* (cloudcomm.h:16), "if set then previous message lost" (README.md:58).
LossFlagTruthful ==
    pc = "publish" => (regs.STATE_REG.log_err_sent <=> lost)

\* "if the last woke up was by acc" (app_state.h:14): motion that woke up the
\* device is reported or, at least, remembered.
MotionNoticed ==
    pc = "off" /\ wakeCause = "acc"
        => gps_data_send \/ regs.STATE_REG.last_wokeup_acc
=============================================================================
