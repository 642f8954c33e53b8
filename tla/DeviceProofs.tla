----------------------------- MODULE DeviceProofs -----------------------------
(***************************************************************************)
(* Proofs about Device, for every configuration of its constants.           *)
(***************************************************************************)
EXTENDS Device, TLAPS

USE TimeAssumption, ConfigAssumption, FaultAssumption

------------------------------------------------------------------------------
(* The configuration word.                                                 *)

\* GetConfig returns a configuration that is set, and returns it unchanged
\* when it is read again.
LEMMA GetConfigType ==
  ASSUME NEW bits \in ConfigData
  PROVE  /\ GetConfig(bits) \in ConfigData
         /\ GetConfig(bits).set
         /\ GetConfig(GetConfig(bits)) = GetConfig(bits)
  BY DEF GetConfig, ConfigData

\* The times a configuration gives are numbers of ticks.
LEMMA TicksType ==
  ASSUME NEW bits \in ConfigData
  PROVE  /\ WakeupTicks(bits) \in Nat
         /\ IntervalTicks(bits) \in Nat
         /\ WakeupTicks(GetConfig(bits)) = WakeupTicks(bits)
         /\ IntervalTicks(GetConfig(bits)) = IntervalTicks(bits)
  <1>1. /\ GetConfig(bits).wakeup_time \in Nat
        /\ GetConfig(bits).send_interval_min \in Nat
    BY GetConfigType DEF ConfigData
  <1>2. Minute \in Nat
    OBVIOUS
  <1>3. \A m, n \in Nat : m * n \in Nat
    OBVIOUS
  <1> QED BY <1>1, <1>2, <1>3, GetConfigType DEF WakeupTicks, IntervalTicks

\* The bit fields keep any answer of the server in their range.
LEMMA PackedType == \A a \in CloudConfigs : Packed(a) \in ConfigData
  <1> SUFFICES ASSUME NEW a \in CloudConfigs
               PROVE  Packed(a) \in ConfigData
    OBVIOUS
  <1>1. a[1] \in Int /\ a[2] \in Int
    OBVIOUS
  <1>2. /\ a[1] % WakeupRange \in 0 .. WakeupRange - 1
        /\ a[2] % IntervalRange \in 0 .. IntervalRange - 1
    BY <1>1
  <1> QED BY <1>2 DEF Packed, ConfigData

\* The watchdog allows a run at least one tick.
LEMMA WatchdogType == WatchdogTicks \in Nat /\ WatchdogTicks >= 1
  <1>1. RESET_WD + 1 \in Nat \ {0} /\ Minute \in Nat \ {0}
    OBVIOUS
  <1>2. \A m, n \in Nat \ {0} : m * n \in Nat /\ m * n >= 1
    OBVIOUS
  <1> QED BY <1>1, <1>2 DEF WatchdogTicks

\* The registers with one of them replaced.
LEMMA RegistersExcept ==
  ASSUME NEW r \in Registers
  PROVE  /\ r = [LASTSEND_TIMESTAMP_REG |-> r.LASTSEND_TIMESTAMP_REG,
                 INMOTION_CHECK_TIME |-> r.INMOTION_CHECK_TIME,
                 STATE_REG |-> r.STATE_REG,
                 CONFIG_TIMESTAMP_REG |-> r.CONFIG_TIMESTAMP_REG,
                 CONFIG_BITS |-> r.CONFIG_BITS]
         /\ r.LASTSEND_TIMESTAMP_REG \in Nat /\ r.INMOTION_CHECK_TIME \in Nat
         /\ r.CONFIG_TIMESTAMP_REG \in Nat
         /\ r.STATE_REG \in AppStateData /\ r.CONFIG_BITS \in ConfigData
  BY DEF Registers

------------------------------------------------------------------------------
(* Types.                                                                  *)

\* The registers after the battery was gone are registers.
LEMMA ErasedType == Erased \in Registers
  BY DEF Erased, Registers, AppStateData, ConfigData, CHECK_STATES

\* In the loop over the access points the index is one of theirs.
LoopIndex == pc \in {"config", "publish"} => apn_index < apns_len

\* The program starts with typed variables, outside the loop.
LEMMA TypeInit == Init => TypeOK /\ LoopIndex
  <1> SUFFICES ASSUME Init
               PROVE  TypeOK /\ LoopIndex
    OBVIOUS
  <1>1. now \in Nat /\ since \in Nat /\ lastTry \in Nat
    BY DEF Init
  <1>2. 0 \in 0 .. apns_len
    OBVIOUS
  <1> QED BY <1>1, <1>2, ErasedType
          DEF Init, TypeOK, LoopIndex, Guarded, ModemPhases, CHECK_STATES, Causes

\* A decision writes the configuration and the flag, nothing else.
LEMMA DecideRegs ==
  ASSUME TypeOK,
         NEW next \in CHECK_STATES, NEW acc \in BOOLEAN, NEW send \in BOOLEAN,
         Decide(next, acc, send)
  PROVE  /\ regs' \in Registers
         /\ regs'.LASTSEND_TIMESTAMP_REG = regs.LASTSEND_TIMESTAMP_REG
         /\ regs'.INMOTION_CHECK_TIME = regs.INMOTION_CHECK_TIME
         /\ regs'.CONFIG_BITS = GetConfig(regs.CONFIG_BITS)
         /\ regs'.STATE_REG.state = regs.STATE_REG.state
         /\ regs'.STATE_REG.log_err_sent = regs.STATE_REG.log_err_sent
         /\ regs'.STATE_REG.last_wokeup_acc = acc
  <1>1. regs \in Registers
    BY DEF TypeOK
  <1>2. GetConfig(regs.CONFIG_BITS) \in ConfigData
    BY <1>1, GetConfigType DEF Registers
  <1>3. regs.STATE_REG \in AppStateData
    BY <1>1 DEF Registers
  <1>4. [regs.STATE_REG EXCEPT !.last_wokeup_acc = acc] \in AppStateData
    BY <1>3 DEF AppStateData
  <1> QED BY <1>1, <1>2, <1>3, <1>4 DEF Decide, Registers, AppStateData

\* A decision keeps the types.
LEMMA DecideType ==
  ASSUME TypeOK,
         NEW next \in CHECK_STATES, NEW acc \in BOOLEAN, NEW send \in BOOLEAN,
         Decide(next, acc, send)
  PROVE  TypeOK'
  <1>1. IntervalTicks(regs.CONFIG_BITS) \in Nat
    BY TicksType DEF TypeOK, Registers
  <1>2. overdue' \in Nat
    BY <1>1 DEF Decide, TypeOK
  <1> QED BY <1>2, DecideRegs DEF Decide, TypeOK, Guarded, ModemPhases

\* Each branch of the first decision is a decision.
LEMMA DecideCases ==
  ASSUME TypeOK, DecideAny
  PROVE  \E next \in CHECK_STATES, acc, send \in BOOLEAN : Decide(next, acc, send)
  <1>1. regs.STATE_REG.state \in CHECK_STATES /\ regs.STATE_REG.last_wokeup_acc \in BOOLEAN
    BY DEF TypeOK, Registers, AppStateData
  <1> QED BY <1>1 DEF DecideAny, DecideDeepsleep, DecideSleep, DecideFollowUp,
                   DecideMotion, DecideNoMotion, DecideFirst, CHECK_STATES

\* What the other steps of App::Run write to the registers.
LEMMA UpdateConfigRegs ==
  ASSUME TypeOK, UpdateConfig
  PROVE  /\ regs' \in Registers
         /\ regs'.LASTSEND_TIMESTAMP_REG = regs.LASTSEND_TIMESTAMP_REG
         /\ regs'.INMOTION_CHECK_TIME = regs.INMOTION_CHECK_TIME
         /\ regs'.STATE_REG = regs.STATE_REG
         /\ \/ regs'.CONFIG_BITS = regs.CONFIG_BITS
            \/ \E a \in CloudConfigs : Accepted(a) /\ regs'.CONFIG_BITS = Packed(a)
  <1>1. PICK bits \in {regs.CONFIG_BITS}
                        \cup {Packed(a) : a \in {b \in CloudConfigs : Accepted(b)}} :
          regs' = [regs EXCEPT !.CONFIG_BITS = bits, !.CONFIG_TIMESTAMP_REG = now]
    BY DEF UpdateConfig
  <1>2. regs \in Registers /\ now \in Nat
    BY DEF TypeOK
  <1>3. bits \in ConfigData
    BY <1>2, PackedType DEF Registers
  <1> QED BY <1>1, <1>2, <1>3 DEF Registers

\* The result of a report: its time and the flag of a lost one.
LEMMA RecordRegs ==
  ASSUME TypeOK, RecordResult
  PROVE  /\ regs' \in Registers
         /\ regs'.LASTSEND_TIMESTAMP_REG \in {now, regs.LASTSEND_TIMESTAMP_REG}
         /\ regs'.INMOTION_CHECK_TIME = regs.INMOTION_CHECK_TIME
         /\ regs'.CONFIG_BITS = regs.CONFIG_BITS
         /\ regs'.STATE_REG.state = regs.STATE_REG.state
         /\ regs'.STATE_REG.last_wokeup_acc = regs.STATE_REG.last_wokeup_acc
         /\ regs'.STATE_REG.log_err_sent = ~ sent
  <1>1. regs \in Registers /\ now \in Nat /\ sent \in BOOLEAN
    BY DEF TypeOK
  <1>2. regs.STATE_REG \in AppStateData
    BY <1>1 DEF Registers
  <1>3. [regs.STATE_REG EXCEPT !.log_err_sent = ~ sent] \in AppStateData
    BY <1>1, <1>2 DEF AppStateData
  <1> QED BY <1>1, <1>2, <1>3 DEF RecordResult, Registers, AppStateData

\* Setting the alarm writes the configuration in use, and after a check for motion
\* the time of it.
LEMMA SetAlarmRegs ==
  ASSUME TypeOK, SetAlarm
  PROVE  /\ regs' \in Registers
         /\ regs'.LASTSEND_TIMESTAMP_REG = regs.LASTSEND_TIMESTAMP_REG
         /\ state = "CHECKINGMOTION" => regs'.INMOTION_CHECK_TIME = rtc_time
         /\ state # "CHECKINGMOTION" =>
              regs'.INMOTION_CHECK_TIME = regs.INMOTION_CHECK_TIME
         /\ regs'.CONFIG_BITS = GetConfig(regs.CONFIG_BITS)
         /\ regs'.STATE_REG = regs.STATE_REG
  <1>1. regs \in Registers /\ rtc_time \in Nat
    BY DEF TypeOK
  <1>2. GetConfig(regs.CONFIG_BITS) \in ConfigData
    BY <1>1, GetConfigType DEF Registers
  <1> QED BY <1>1, <1>2 DEF SetAlarm, Registers

\* The shutdown writes the state and nothing else.
LEMMA ShutdownRegs ==
  ASSUME TypeOK, Shutdown
  PROVE  /\ regs' \in Registers
         /\ regs'.LASTSEND_TIMESTAMP_REG = regs.LASTSEND_TIMESTAMP_REG
         /\ regs'.INMOTION_CHECK_TIME = regs.INMOTION_CHECK_TIME
         /\ regs'.CONFIG_BITS = regs.CONFIG_BITS
         /\ regs'.STATE_REG.state = state
         /\ regs'.STATE_REG.last_wokeup_acc = regs.STATE_REG.last_wokeup_acc
         /\ regs'.STATE_REG.log_err_sent = regs.STATE_REG.log_err_sent
  <1>1. regs \in Registers /\ state \in CHECK_STATES
    BY DEF TypeOK
  <1>2. regs.STATE_REG \in AppStateData
    BY <1>1 DEF Registers
  <1>3. [regs.STATE_REG EXCEPT !.state = state] \in AppStateData
    BY <1>1, <1>2 DEF AppStateData
  <1> QED BY <1>1, <1>2, <1>3 DEF Shutdown, Registers, AppStateData

\* A start of the program.
LEMMA StartType ==
  ASSUME TypeOK, Start, wakeCause' \in Causes, prevCause' \in Causes,
         accInt' \in BOOLEAN, lastTry' = lastTry, lost' \in BOOLEAN,
         overdue' = overdue, refused' = refused
  PROVE  TypeOK' /\ LoopIndex'
  <1>1. 0 \in 0 .. apns_len
    OBVIOUS
  <1> QED BY <1>1 DEF TypeOK, LoopIndex, Start, LocalsGone, Guarded, ModemPhases,
                      CHECK_STATES

\* Every step keeps the types.
LEMMA TypeStep == TypeOK /\ LoopIndex /\ [Next]_vars => TypeOK' /\ LoopIndex'
  <1> SUFFICES ASSUME TypeOK, LoopIndex, [Next]_vars
               PROVE  TypeOK' /\ LoopIndex'
    OBVIOUS
  <1> USE DEF Guarded, ModemPhases, LoopIndex
  <1>1. CASE DecideAny
    <2>1. PICK next \in CHECK_STATES, acc \in BOOLEAN, send \in BOOLEAN :
             Decide(next, acc, send)
      BY <1>1, DecideCases
    <2>2. TypeOK'
      BY <2>1, DecideType
    <2> QED BY <2>1, <2>2 DEF Decide
  <1>2. CASE InitModem \/ InitFails
    BY <1>2 DEF InitModem, InitFails, TypeOK, locals, history
  <1>3. CASE ConnectGsm
    BY <1>3 DEF ConnectGsm, TypeOK, locals, history
  <1>4. CASE ConnectFails
    <2>1. apn_index' \in 0 .. apns_len
      BY <1>4 DEF ConnectFails, TypeOK
    <2> QED BY <1>4, <2>1 DEF ConnectFails, TypeOK, history
  <1>5. CASE UpdateConfig
    BY <1>5, UpdateConfigRegs DEF UpdateConfig, TypeOK, locals, history
  <1>6. CASE SendData
    <2>1. apn_index' \in 0 .. apns_len
      BY <1>6 DEF SendData, TypeOK
    <2> QED BY <1>6, <2>1 DEF SendData, TypeOK, history
  <1>7. CASE RecordResult
    BY <1>7, RecordRegs DEF RecordResult, TypeOK, locals
  <1>8. CASE SetAlarm
    <2>1. now + WakeupTicks(regs.CONFIG_BITS) \in Nat
      BY TicksType DEF TypeOK, Registers
    <2>2. alarmAt' \in Nat /\ accInt' \in BOOLEAN /\ refused' \in BOOLEAN
      BY <1>8, <2>1 DEF SetAlarm, TypeOK
    <2> QED BY <1>8, <2>2, SetAlarmRegs DEF SetAlarm, TypeOK, locals, history
  <1>9. CASE Shutdown
    BY <1>9, ShutdownRegs DEF Shutdown, TypeOK, locals, history
  <1>10. CASE StandBy
    <2>1. 0 \in 0 .. apns_len
      OBVIOUS
    <2> QED BY <1>10, <2>1 DEF StandBy, LocalsGone, TypeOK, history, CHECK_STATES
  <1>11. CASE WakeByAlarm \/ WakeByAcc
    BY <1>11, StartType DEF WakeByAlarm, WakeByAcc, WakeUp, TypeOK, Causes
  <1>12. CASE WatchdogReset
    <2>1. lost' \in BOOLEAN
      BY <1>12 DEF WatchdogReset, TypeOK
    <2> QED BY <1>12, <2>1, StartType DEF WatchdogReset, TypeOK
  <1>13. CASE Tick
    BY <1>13 DEF Tick, TypeOK, locals, history
  <1>14. CASE Horizon \/ UNCHANGED vars
    BY <1>14 DEF Horizon, vars, TypeOK, locals, history
  <1> QED
    BY <1>1, <1>2, <1>3, <1>4, <1>5, <1>6, <1>7, <1>8, <1>9, <1>10, <1>11,
       <1>12, <1>13, <1>14 DEF Next, RunStep

\* Every variable keeps its type, the packed configuration its bit fields and
\* the loop over the access points its range, through every run, reset and
\* sleep.
THEOREM TypeCorrect == Spec => []TypeOK
  <1>1. TypeOK /\ LoopIndex => TypeOK
    OBVIOUS
  <1> QED BY <1>1, TypeInit, TypeStep, PTL DEF Spec

------------------------------------------------------------------------------
(* The clock and the two copies of the registers, whatever fails.          *)

\* No time stamp lies in the future.
Past ==
  /\ since <= now /\ rtc_time <= now
  /\ regs.LASTSEND_TIMESTAMP_REG <= now /\ regs.INMOTION_CHECK_TIME <= now
  /\ hw.LASTSEND_TIMESTAMP_REG <= now /\ hw.INMOTION_CHECK_TIME <= now

\* A run begins and ends with both copies of the registers equal.
Copies ==
  /\ pc \in {"boot", "standby"} => regs = hw
  /\ pc = "off" => regs.STATE_REG.state = state
  /\ wakeCause = "power" /\ pc # "standby" => hw.STATE_REG.state = "NDEF"

ClockInv == TypeOK /\ LoopIndex /\ Past /\ Copies

\* It holds at first.
LEMMA ClockInit == Init => ClockInv
  <1> SUFFICES ASSUME Init
               PROVE  ClockInv
    OBVIOUS
  <1>1. TypeOK /\ LoopIndex
    BY TypeInit
  <1>2. Past
    BY <1>1 DEF Init, Past, Erased, TypeOK
  <1>3. Copies
    BY DEF Init, Copies, Erased
  <1> QED BY <1>1, <1>2, <1>3 DEF ClockInv

\* What the steps with the modem leave alone.
LEMMA ModemSteps ==
  ASSUME TypeOK,
         \/ InitModem \/ InitFails \/ ConnectGsm \/ ConnectFails
         \/ UpdateConfig \/ SendData \/ RecordResult
  PROVE  /\ now' = now /\ hw' = hw /\ since' = since /\ rtc_time' = rtc_time
         /\ pc \in ModemPhases /\ pc' \in ModemPhases \cup {"alarm"}
         /\ state' = state /\ gps_data_send' = gps_data_send
         /\ wakeCause' = wakeCause /\ prevCause' = prevCause
         /\ lastTry' = lastTry /\ refused' = refused
         /\ regs'.LASTSEND_TIMESTAMP_REG \in {now, regs.LASTSEND_TIMESTAMP_REG}
         /\ regs'.INMOTION_CHECK_TIME = regs.INMOTION_CHECK_TIME
         /\ regs'.STATE_REG.last_wokeup_acc = regs.STATE_REG.last_wokeup_acc
  <1>1. /\ now' = now /\ hw' = hw /\ since' = since /\ rtc_time' = rtc_time
        /\ pc \in ModemPhases /\ pc' \in ModemPhases \cup {"alarm"}
        /\ state' = state /\ gps_data_send' = gps_data_send
        /\ wakeCause' = wakeCause /\ prevCause' = prevCause
        /\ lastTry' = lastTry /\ refused' = refused
    BY DEF InitModem, InitFails, ConnectGsm, ConnectFails, UpdateConfig,
           SendData, RecordResult, locals, history, ModemPhases
  <1>2. /\ regs'.LASTSEND_TIMESTAMP_REG \in {now, regs.LASTSEND_TIMESTAMP_REG}
        /\ regs'.INMOTION_CHECK_TIME = regs.INMOTION_CHECK_TIME
        /\ regs'.STATE_REG.last_wokeup_acc = regs.STATE_REG.last_wokeup_acc
    BY UpdateConfigRegs, RecordRegs
       DEF InitModem, InitFails, ConnectGsm, ConnectFails, SendData
  <1> QED BY <1>1, <1>2

\* A start of the program.
LEMMA Starts ==
  ASSUME WakeByAlarm \/ WakeByAcc \/ WatchdogReset
  PROVE  /\ now' = now /\ hw' = hw /\ regs' = hw /\ since' = now
         /\ rtc_time' = 0 /\ pc' = "boot" /\ alarmAt' = alarmAt
         /\ lastTry' = lastTry /\ overdue' = overdue /\ refused' = refused
  BY DEF WakeByAlarm, WakeByAcc, WakeUp, WatchdogReset, Start, LocalsGone

\* Every step keeps it, whatever fails, hangs or is refused.
LEMMA ClockStep == ClockInv /\ [Next]_vars => ClockInv'
  <1> SUFFICES ASSUME ClockInv, [Next]_vars
               PROVE  Past' /\ Copies'
    BY TypeStep DEF ClockInv
  <1> USE DEF ClockInv
  <1>1. CASE DecideAny
    <2>1. PICK next \in CHECK_STATES, acc \in BOOLEAN, send \in BOOLEAN :
             Decide(next, acc, send)
      BY <1>1, DecideCases
    <2>2. /\ now' = now /\ hw' = hw /\ since' = since /\ rtc_time' = now
          /\ pc' \in {"init", "alarm"} /\ pc = "boot" /\ wakeCause' = wakeCause
      BY <2>1 DEF Decide
    <2>3. /\ regs'.LASTSEND_TIMESTAMP_REG = regs.LASTSEND_TIMESTAMP_REG
          /\ regs'.INMOTION_CHECK_TIME = regs.INMOTION_CHECK_TIME
      BY <2>1, DecideRegs
    <2> QED BY <2>2, <2>3 DEF Past, Copies, TypeOK
  <1>2. CASE \/ InitModem \/ InitFails \/ ConnectGsm \/ ConnectFails
             \/ UpdateConfig \/ SendData \/ RecordResult
    <2>1. Past'
      BY <1>2, ModemSteps DEF Past, TypeOK
    <2> QED BY <1>2, <2>1, ModemSteps DEF Copies, ModemPhases
  <1>3. CASE SetAlarm
    <2>1. /\ now' = now /\ hw' = hw /\ since' = now /\ rtc_time' = rtc_time
          /\ pc = "alarm" /\ pc' = "shutdown" /\ wakeCause' = wakeCause
      BY <1>3 DEF SetAlarm, locals
    <2>2. Past'
      BY <1>3, <2>1, SetAlarmRegs DEF Past, TypeOK
    <2> QED BY <2>1, <2>2 DEF Copies
  <1>4. CASE Shutdown
    <2>1. /\ now' = now /\ hw' = hw /\ since' = since /\ rtc_time' = rtc_time
          /\ pc = "shutdown" /\ pc' = "off" /\ state' = state
          /\ wakeCause' = wakeCause
      BY <1>4 DEF Shutdown, locals, history
    <2> QED BY <1>4, <2>1, ShutdownRegs DEF Past, Copies
  <1>5. CASE StandBy
    <2>1. /\ now' = now /\ hw' = regs /\ regs' = regs /\ since' = now
          /\ rtc_time' = 0 /\ pc = "off" /\ pc' = "standby"
      BY <1>5 DEF StandBy, LocalsGone
    <2> QED BY <2>1 DEF Past, Copies, TypeOK
  <1>6. CASE WakeByAlarm \/ WakeByAcc \/ WatchdogReset
    <2>1. Past'
      BY <1>6, Starts DEF Past, TypeOK
    <2>2. CASE WakeByAlarm \/ WakeByAcc
      <3>1. wakeCause' \in {"alarm", "stale", "acc"}
        BY <2>2 DEF WakeByAlarm, WakeByAcc, WakeUp
      <3> QED BY <1>6, <2>1, <3>1, Starts DEF Copies
    <2>3. CASE WatchdogReset
      <3>1. wakeCause' = wakeCause /\ pc # "standby"
        BY <2>3 DEF WatchdogReset, Guarded, ModemPhases
      <3> QED BY <1>6, <2>1, <3>1, Starts DEF Copies
    <2> QED BY <1>6, <2>2, <2>3
  <1>7. CASE Tick
    <2>1. now' = now + 1 /\ UNCHANGED <<hw, regs, pc, since, state, rtc_time, wakeCause>>
      BY <1>7 DEF Tick, locals, history
    <2> QED BY <2>1 DEF Past, Copies, TypeOK, Registers
  <1>8. CASE Horizon \/ UNCHANGED vars
    BY <1>8 DEF Horizon, vars, locals, history, Past, Copies
  <1> QED BY <1>1, <1>2, <1>3, <1>4, <1>5, <1>6, <1>7, <1>8 DEF Next, RunStep

------------------------------------------------------------------------------
(* Why a wake-up by the alarm never passes for motion.                     *)

\* An alarm the RTC accepted is a full wakeup_time after the stored check for
\* motion, or later; so is a run such an alarm began.
MotionClock ==
  /\ pc \in {"shutdown", "off"} /\ state = "CHECKINGMOTION" /\ ~ refused =>
       alarmAt >= regs.INMOTION_CHECK_TIME + WakeupTicks(regs.CONFIG_BITS)
  /\ pc = "standby" /\ hw.STATE_REG.state = "CHECKINGMOTION" /\ ~ refused =>
       alarmAt >= hw.INMOTION_CHECK_TIME + WakeupTicks(hw.CONFIG_BITS)
  /\ pc # "standby" /\ wakeCause = "alarm"
     /\ hw.STATE_REG.state = "CHECKINGMOTION" =>
       now >= hw.INMOTION_CHECK_TIME + WakeupTicks(hw.CONFIG_BITS)

\* What App::Run takes for motion.
Moved == {"acc", "stale"}

\* last_wokeup_acc goes with the state SLEEP and with a wake-up by the
\* accelerometer or what passes for it.
Flags ==
  /\ hw.STATE_REG.last_wokeup_acc =>
       /\ hw.STATE_REG.state = "SLEEP"
       /\ (IF pc = "standby" THEN wakeCause ELSE prevCause) \in Moved
  /\ pc \notin {"boot", "standby"} /\ regs.STATE_REG.last_wokeup_acc =>
       state = "SLEEP" /\ wakeCause \in Moved

MotionInv == ClockInv /\ MotionClock /\ Flags

\* The invariant holds at first.
LEMMA MotionInit == Init => MotionInv
  <1> SUFFICES ASSUME Init
               PROVE  MotionInv
    OBVIOUS
  <1>1. MotionClock /\ Flags
    BY DEF Init, MotionClock, Flags, Erased
  <1> QED BY <1>1, ClockInit DEF MotionInv

\* At the first decision of a run no other cause than the accelerometer
\* leads into the branch for motion.
LEMMA MotionImpliesAcc == MotionInv => AlarmIsNotMotion
  <1> SUFFICES ASSUME MotionInv, pc = "boot",
                      regs.STATE_REG.state = "CHECKINGMOTION",
                      wakeCause \notin Moved
               PROVE  ~ wokenup
    BY DEF AlarmIsNotMotion, Moved
  <1> USE DEF MotionInv, ClockInv
  <1>1. regs = hw /\ wakeCause = "alarm"
    BY DEF Copies, TypeOK, Causes, Moved
  <1>2. now >= regs.INMOTION_CHECK_TIME + WakeupTicks(regs.CONFIG_BITS)
    BY <1>1 DEF MotionClock
  <1>3. /\ now \in Nat /\ regs.INMOTION_CHECK_TIME \in Nat
        /\ WakeupTicks(regs.CONFIG_BITS) \in Nat
    BY TicksType DEF TypeOK, Registers
  <1>4. Elapsed(regs.INMOTION_CHECK_TIME) = now - regs.INMOTION_CHECK_TIME
    BY <1>3 DEF Elapsed, Past
  <1> QED BY <1>2, <1>3, <1>4 DEF wokenup

\* A decision keeps what the registers say of the last check.
LEMMA MotionDecide ==
  ASSUME MotionInv, DecideAny
  PROVE  MotionClock' /\ Flags'
  <1> USE DEF MotionInv, ClockInv
  <1>1. PICK next \in CHECK_STATES, acc \in BOOLEAN, send \in BOOLEAN :
          /\ Decide(next, acc, send)
          /\ acc => next = "SLEEP" /\ wakeCause \in Moved
    <2>1. /\ regs.STATE_REG.state \in CHECK_STATES
          /\ regs.STATE_REG.last_wokeup_acc \in BOOLEAN
      BY DEF TypeOK, Registers, AppStateData
    <2>2. pc = "boot" /\ regs = hw
      BY DEF DecideAny, DecideDeepsleep, DecideSleep, DecideFollowUp,
             DecideMotion, DecideNoMotion, DecideFirst, Decide, Copies
    <2>3. CASE DecideMotion
      <3>1. wakeCause \in Moved
        BY <2>2, <2>3, MotionImpliesAcc DEF AlarmIsNotMotion, DecideMotion, Moved
      <3> QED BY <2>3, <3>1 DEF DecideMotion, CHECK_STATES
    <2>4. CASE DecideFirst
      <3>1. ~ regs.STATE_REG.last_wokeup_acc
        BY <2>2, <2>4 DEF DecideFirst, Flags
      <3> QED BY <2>1, <2>4, <3>1 DEF DecideFirst, CHECK_STATES
    <2>5. CASE DecideDeepsleep \/ DecideSleep \/ DecideFollowUp \/ DecideNoMotion
      BY <2>1, <2>5 DEF DecideDeepsleep, DecideSleep, DecideFollowUp,
                        DecideNoMotion, CHECK_STATES
    <2> QED BY <2>3, <2>4, <2>5 DEF DecideAny
  <1>2. /\ regs'.LASTSEND_TIMESTAMP_REG = regs.LASTSEND_TIMESTAMP_REG
        /\ regs'.INMOTION_CHECK_TIME = regs.INMOTION_CHECK_TIME
        /\ regs'.STATE_REG.last_wokeup_acc = acc
    BY <1>1, DecideRegs
  <1>3. /\ now' = now /\ hw' = hw /\ since' = since /\ rtc_time' = now
        /\ pc = "boot" /\ pc' \in {"init", "alarm"} /\ state' = next
        /\ wakeCause' = wakeCause /\ prevCause' = prevCause
    BY <1>1 DEF Decide
  <1>4. MotionClock'
    BY <1>3 DEF MotionClock
  <1>5. Flags'
    BY <1>1, <1>2, <1>3 DEF Flags
  <1> QED BY <1>4, <1>5

\* Setting the alarm: accepted, it is a full wakeup_time after this run began.
LEMMA MotionSetAlarm ==
  ASSUME MotionInv, SetAlarm
  PROVE  MotionClock' /\ Flags'
  <1> USE DEF MotionInv, ClockInv
  <1>1. /\ now' = now /\ hw' = hw /\ since' = now /\ rtc_time' = rtc_time
        /\ pc = "alarm" /\ pc' = "shutdown" /\ state' = state
        /\ wakeCause' = wakeCause /\ prevCause' = prevCause
        /\ ~ refused' => alarmAt' = now + WakeupTicks(regs.CONFIG_BITS)
    BY DEF SetAlarm, locals
  <1>2. /\ now \in Nat /\ rtc_time \in Nat /\ regs.CONFIG_BITS \in ConfigData
        /\ rtc_time <= now
    BY DEF TypeOK, Registers, Past
  <1>3. WakeupTicks(regs'.CONFIG_BITS) = WakeupTicks(regs.CONFIG_BITS)
        /\ WakeupTicks(regs.CONFIG_BITS) \in Nat
    BY <1>2, SetAlarmRegs, TicksType
  <1>4. MotionClock'
    BY <1>1, <1>2, <1>3, SetAlarmRegs DEF MotionClock
  <1>5. Flags'
    BY <1>1, SetAlarmRegs DEF Flags
  <1> QED BY <1>4, <1>5

\* So does the shutdown.
LEMMA MotionShutdown ==
  ASSUME MotionInv, Shutdown
  PROVE  MotionClock' /\ Flags'
  <1> USE DEF MotionInv, ClockInv
  <1>1. /\ now' = now /\ hw' = hw /\ since' = since /\ rtc_time' = rtc_time
        /\ pc = "shutdown" /\ pc' = "off" /\ state' = state
        /\ wakeCause' = wakeCause /\ prevCause' = prevCause
        /\ alarmAt' = alarmAt /\ refused' = refused
    BY DEF Shutdown, locals, history
  <1> QED BY <1>1, ShutdownRegs DEF MotionClock, Flags

\* Standby stores it.
LEMMA MotionStandBy ==
  ASSUME MotionInv, StandBy
  PROVE  MotionClock' /\ Flags'
  <1> USE DEF MotionInv, ClockInv
  <1>1. /\ now' = now /\ hw' = regs /\ regs' = regs /\ since' = now
        /\ rtc_time' = 0 /\ pc = "off" /\ pc' = "standby"
        /\ wakeCause' = wakeCause /\ prevCause' = prevCause
        /\ alarmAt' = alarmAt /\ refused' = refused
    BY DEF StandBy, LocalsGone, history
  <1>2. MotionClock'
    BY <1>1 DEF MotionClock, Copies
  <1>3. Flags'
    BY <1>1 DEF Flags, Copies
  <1> QED BY <1>2, <1>3

\* Waking up: the alarm comes a full wakeup_time after the stored check.
LEMMA MotionWakeUp ==
  ASSUME MotionInv, WakeByAlarm \/ WakeByAcc
  PROVE  MotionClock' /\ Flags'
  <1> USE DEF MotionInv, ClockInv
  <1>1. /\ now' = now /\ hw' = hw /\ regs' = hw /\ since' = now
        /\ rtc_time' = 0 /\ pc = "standby" /\ pc' = "boot"
        /\ prevCause' = wakeCause
        /\ alarmAt' = alarmAt
        /\ \/ wakeCause' \in Moved
           \/ wakeCause' = "alarm" /\ now = alarmAt /\ ~ refused
    BY DEF Moved, WakeByAlarm, WakeByAcc, WakeUp, Start, LocalsGone, AlarmDue
  <1>2. MotionClock'
    BY <1>1 DEF MotionClock, Moved
  <1>3. Flags'
    BY <1>1 DEF Flags
  <1> QED BY <1>2, <1>3

\* A reset goes back to what was stored.
LEMMA MotionReset ==
  ASSUME MotionInv, WatchdogReset
  PROVE  MotionClock' /\ Flags'
  <1> USE DEF MotionInv, ClockInv
  <1>1. /\ now' = now /\ hw' = hw /\ regs' = hw /\ since' = now
        /\ rtc_time' = 0 /\ pc # "standby" /\ pc' = "boot"
        /\ wakeCause' = wakeCause /\ prevCause' = prevCause
    BY DEF WatchdogReset, Start, LocalsGone, Guarded, ModemPhases
  <1>2. MotionClock'
    BY <1>1 DEF MotionClock
  <1>3. Flags'
    BY <1>1 DEF Flags
  <1> QED BY <1>2, <1>3

\* The steps with the modem write neither the check's time nor the flag.
LEMMA MotionModem ==
  ASSUME MotionInv,
         \/ InitModem \/ InitFails \/ ConnectGsm \/ ConnectFails
         \/ UpdateConfig \/ SendData \/ RecordResult
  PROVE  MotionClock' /\ Flags'
  <1> USE DEF MotionInv, ClockInv
  <1>1. MotionClock'
    BY ModemSteps DEF MotionClock, ModemPhases
  <1>2. Flags'
    BY ModemSteps DEF Flags, ModemPhases
  <1> QED BY <1>1, <1>2

\* Every step keeps it.
LEMMA MotionStep == MotionInv /\ [Next]_vars => MotionInv'
  <1> SUFFICES ASSUME MotionInv, [Next]_vars
               PROVE  MotionClock' /\ Flags'
    BY ClockStep DEF MotionInv
  <1>1. CASE DecideAny
    BY <1>1, MotionDecide
  <1>2. CASE \/ InitModem \/ InitFails \/ ConnectGsm \/ ConnectFails
             \/ UpdateConfig \/ SendData \/ RecordResult
    BY <1>2, MotionModem
  <1>3. CASE SetAlarm
    BY <1>3, MotionSetAlarm
  <1>4. CASE Shutdown
    BY <1>4, MotionShutdown
  <1>5. CASE StandBy
    BY <1>5, MotionStandBy
  <1>6. CASE WakeByAlarm \/ WakeByAcc
    BY <1>6, MotionWakeUp
  <1>7. CASE WatchdogReset
    BY <1>7, MotionReset
  <1>8. CASE Tick
    <2>1. now' = now + 1 /\ UNCHANGED <<hw, regs, pc, since, state, rtc_time,
                                        alarmAt, wakeCause, prevCause, refused>>
      BY <1>8 DEF Tick, locals, history
    <2>2. TypeOK /\ WakeupTicks(hw.CONFIG_BITS) \in Nat
      BY TicksType DEF MotionInv, ClockInv, TypeOK, Registers
    <2>3. Flags'
      BY <2>1 DEF MotionInv, Flags
    <2>4. MotionClock'
      BY <2>1, <2>2 DEF MotionInv, MotionClock, TypeOK, Registers
    <2> QED BY <2>3, <2>4
  <1>9. CASE Horizon \/ UNCHANGED vars
    BY <1>9 DEF Horizon, vars, locals, history, MotionInv, MotionClock, Flags
  <1> QED BY <1>1, <1>2, <1>3, <1>4, <1>5, <1>6, <1>7, <1>8, <1>9
          DEF Next, RunStep

\* A wake-up by the alarm is never classified as motion, for all times,
\* configurations and resets, unless the RTC refused the last alarm and what
\* came is an earlier one.
THEOREM AlarmNeverMistaken == Spec => []AlarmIsNotMotion
  BY MotionStep, MotionInit, MotionImpliesAcc, PTL DEF Spec

\* The flag that asks for a second report is stored with the state that
\* answers it.
THEOREM FlagStored == Spec => []FlagMeansSleep
  <1>1. MotionInv => FlagMeansSleep
    BY DEF MotionInv, Flags, FlagMeansSleep
  <1> QED BY <1>1, MotionStep, MotionInit, PTL DEF Spec

\* After two sleeps ended by their alarms a run reports only because the send
\* interval is over: no motion, and no second report either.
THEOREM QuietSpared == Spec => QuietDeviceSparesModem
  <1>1. MotionInv /\ [Next]_vars =>
          [ DecideAny /\ gps_data_send'
            /\ wakeCause = "alarm" /\ prevCause = "alarm"
            /\ hw.STATE_REG.state # "NDEF"
              => deepsleep_wakeup ]_vars
    <2> SUFFICES ASSUME MotionInv, DecideAny, gps_data_send',
                        wakeCause = "alarm", prevCause = "alarm",
                        hw.STATE_REG.state # "NDEF"
                 PROVE  deepsleep_wakeup
      OBVIOUS
    <2>1. pc = "boot" /\ regs = hw
      BY DEF DecideAny, DecideDeepsleep, DecideSleep, DecideFollowUp,
             DecideMotion, DecideNoMotion, DecideFirst, Decide, MotionInv,
             ClockInv, Copies
    <2>2. ~ DecideFollowUp
      BY <2>1 DEF DecideFollowUp, MotionInv, Flags, Moved
    <2>3. ~ DecideMotion
      BY <2>1, MotionImpliesAcc DEF DecideMotion, AlarmIsNotMotion, Moved
    <2>4. ~ DecideFirst
      BY <2>1 DEF DecideFirst
    <2>5. ~ DecideSleep /\ ~ DecideNoMotion
      BY DEF DecideSleep, DecideNoMotion, Decide
    <2> QED BY <2>2, <2>3, <2>4, <2>5 DEF DecideAny, DecideDeepsleep
  <1> QED BY <1>1, MotionStep, MotionInit, PTL DEF Spec, QuietDeviceSparesModem

------------------------------------------------------------------------------
(* The registers behave as the store BackupRegs implements.                *)

\* The registers start as the abstract store does.
LEMMA StoreInit == Init => Store!Init
  BY DEF Init, Store!Init

\* Every step is one of the abstract store, or leaves it alone.
LEMMA StoreStep == TypeOK /\ TypeOK' /\ [Next]_vars => [Store!Next]_(Store!vars)
  <1> SUFFICES ASSUME TypeOK, TypeOK', [Next]_vars
               PROVE  [Store!Next]_(Store!vars)
    OBVIOUS
  <1>1. ASSUME hw' = hw, pc # "standby", pc' # "standby"
        PROVE  Store!Write
    BY <1>1 DEF TypeOK, Store!Write
  <1>2. CASE DecideAny
    <2>1. PICK next \in CHECK_STATES, acc \in BOOLEAN, send \in BOOLEAN :
             Decide(next, acc, send)
      BY <1>2, DecideCases
    <2>2. hw' = hw /\ pc = "boot" /\ pc' \in {"init", "alarm"}
      BY <2>1 DEF Decide
    <2> QED BY <1>1, <2>2 DEF Store!Next
  <1>3. CASE \/ InitModem \/ InitFails \/ ConnectGsm \/ ConnectFails
             \/ UpdateConfig \/ SendData \/ RecordResult \/ SetAlarm \/ Shutdown
    <2>1. hw' = hw /\ pc # "standby" /\ pc' # "standby"
      BY <1>3 DEF InitModem, InitFails, ConnectGsm, ConnectFails,
                  UpdateConfig, SendData, RecordResult, SetAlarm, Shutdown
    <2> QED BY <1>1, <2>1 DEF Store!Next
  <1>4. CASE StandBy
    BY <1>4 DEF StandBy, Store!Next, Store!Commit
  <1>5. CASE WakeByAlarm \/ WakeByAcc \/ WatchdogReset
    BY <1>5 DEF WakeByAlarm, WakeByAcc, WakeUp, WatchdogReset, Start,
                Store!Next, Store!Restart
  <1>6. CASE Tick \/ Horizon \/ UNCHANGED vars
    BY <1>6 DEF Tick, Horizon, vars, Store!vars
  <1> QED BY <1>2, <1>3, <1>4, <1>5, <1>6 DEF Next, RunStep, Store!Next

\* App::Run uses the registers as the store allows: it writes only its own
\* copy, and only standby commits it.
THEOREM UsesStore == Spec => StoreSpec
  <1>1. TypeOK /\ LoopIndex /\ [Next]_vars => [Store!Next]_(Store!vars)
    BY TypeStep, StoreStep
  <1> QED BY <1>1, TypeInit, TypeStep, StoreInit, PTL DEF Spec, StoreSpec, Store!Spec

------------------------------------------------------------------------------
(* Why a lost report is tried again.                                       *)

\* Both copies of LASTSEND_TIMESTAMP_REG are as far back as the send interval
\* was when a decision found it over.
OverdueInv ==
  /\ ClockInv
  /\ regs.LASTSEND_TIMESTAMP_REG + overdue <= now
  /\ hw.LASTSEND_TIMESTAMP_REG + overdue <= now

\* Every step keeps it: only a report that went out moves the time of the last
\* one, and a reset goes back to an older time.
LEMMA OverdueStep == OverdueInv /\ [Next]_vars => OverdueInv'
  <1> SUFFICES ASSUME OverdueInv, [Next]_vars
               PROVE  /\ regs'.LASTSEND_TIMESTAMP_REG + overdue' <= now'
                      /\ hw'.LASTSEND_TIMESTAMP_REG + overdue' <= now'
    BY ClockStep DEF OverdueInv
  <1> USE DEF OverdueInv, ClockInv
  <1>0. /\ now \in Nat /\ overdue \in Nat
        /\ regs.LASTSEND_TIMESTAMP_REG \in Nat
        /\ hw.LASTSEND_TIMESTAMP_REG \in Nat
        /\ IntervalTicks(regs.CONFIG_BITS) \in Nat
    BY TicksType DEF TypeOK, Registers
  <1>1. CASE DecideAny
    <2>1. PICK next \in CHECK_STATES, acc \in BOOLEAN, send \in BOOLEAN :
             Decide(next, acc, send)
      BY <1>1, DecideCases
    <2>2. /\ now' = now /\ hw' = hw /\ hw = regs
          /\ regs'.LASTSEND_TIMESTAMP_REG = regs.LASTSEND_TIMESTAMP_REG
          /\ overdue' = IF deepsleep_wakeup THEN IntervalTicks(regs.CONFIG_BITS)
                                            ELSE overdue
      BY <2>1, DecideRegs DEF Decide, Copies
    <2>3. deepsleep_wakeup =>
            regs.LASTSEND_TIMESTAMP_REG + IntervalTicks(regs.CONFIG_BITS) <= now
      BY <1>0 DEF deepsleep_wakeup, Elapsed, Past
    <2> QED BY <2>2, <2>3
  <1>2. CASE InitModem \/ InitFails \/ ConnectGsm \/ ConnectFails \/ SendData
    BY <1>2 DEF InitModem, InitFails, ConnectGsm, ConnectFails, SendData, history
  <1>3. CASE UpdateConfig
    BY <1>3, UpdateConfigRegs DEF UpdateConfig, history
  <1>4. CASE RecordResult
    <2>1. now' = now /\ hw' = hw /\ overdue' = IF sent THEN 0 ELSE overdue
      BY <1>4 DEF RecordResult
    <2>2. regs'.LASTSEND_TIMESTAMP_REG =
            IF sent THEN now ELSE regs.LASTSEND_TIMESTAMP_REG
      BY <1>4 DEF RecordResult, TypeOK, Registers
    <2>3. hw.LASTSEND_TIMESTAMP_REG <= now
      BY DEF Past
    <2>4. CASE sent
      BY <1>0, <2>1, <2>2, <2>3, <2>4
    <2>5. CASE ~ sent
      BY <2>1, <2>2, <2>5
    <2> QED BY <2>4, <2>5
  <1>5. CASE SetAlarm
    BY <1>5, SetAlarmRegs DEF SetAlarm
  <1>6. CASE Shutdown
    BY <1>6, ShutdownRegs DEF Shutdown, history
  <1>7. CASE StandBy
    BY <1>7 DEF StandBy, history
  <1>8. CASE WakeByAlarm \/ WakeByAcc \/ WatchdogReset
    BY <1>8, Starts
  <1>9. CASE Tick
    <2>1. now' = now + 1 /\ UNCHANGED <<hw, regs, overdue>>
      BY <1>9 DEF Tick, history
    <2> QED BY <1>0, <2>1
  <1>10. CASE Horizon \/ UNCHANGED vars
    BY <1>10 DEF Horizon, vars, history
  <1> QED BY <1>1, <1>2, <1>3, <1>4, <1>5, <1>6, <1>7, <1>8, <1>9, <1>10
          DEF Next, RunStep

\* Until a report has gone out, every start reports again, unless the server
\* made the send interval longer: no failure of the modem, no refused alarm
\* and no reset makes the device forget it.
THEOREM LostRetried == Spec => LostReportRetried
  <1>1. Init => OverdueInv
    <2> SUFFICES ASSUME Init
                 PROVE  OverdueInv
      OBVIOUS
    <2>1. /\ regs.LASTSEND_TIMESTAMP_REG = 0 /\ hw.LASTSEND_TIMESTAMP_REG = 0
          /\ overdue = 0 /\ now \in Nat
      BY ClockInit DEF Init, Erased
    <2> QED BY <2>1, ClockInit DEF OverdueInv
  <1>2. OverdueInv /\ [Next]_vars => OverdueInv'
    BY OverdueStep
  <1>3. OverdueInv /\ [Next]_vars =>
          [ DecideAny /\ IntervalTicks(regs.CONFIG_BITS) <= overdue
              => gps_data_send' ]_vars
    <2> SUFFICES ASSUME OverdueInv, DecideAny,
                        IntervalTicks(regs.CONFIG_BITS) <= overdue
                 PROVE  gps_data_send'
      OBVIOUS
    <2>1. /\ now \in Nat /\ overdue \in Nat
          /\ regs.LASTSEND_TIMESTAMP_REG \in Nat
          /\ IntervalTicks(regs.CONFIG_BITS) \in Nat
          /\ regs.LASTSEND_TIMESTAMP_REG + overdue <= now
      BY TicksType DEF OverdueInv, ClockInv, TypeOK, Registers
    <2>2. Elapsed(regs.LASTSEND_TIMESTAMP_REG) >= IntervalTicks(regs.CONFIG_BITS)
      BY <2>1 DEF Elapsed
    <2>3. DecideDeepsleep
      BY <2>2 DEF DecideAny, deepsleep_wakeup, DecideSleep, DecideFollowUp,
                  DecideMotion, DecideNoMotion, DecideFirst
    <2> QED BY <2>3 DEF DecideDeepsleep, Decide
  <1> QED BY <1>1, <1>2, <1>3, PTL DEF Spec, LostReportRetried

------------------------------------------------------------------------------
(* How long the device may stay silent, and which standbys may not end.    *)

\* The time by which the next attempt to report has begun.
Deadline ==
  lastTry + IntervalTicks(regs.CONFIG_BITS) + WakeupTicks(regs.CONFIG_BITS)
    + WatchdogTicks

\* The run or the sleep under way has no alarm that is sure to come.
NoAlarm == refused \/ ShortSleep(regs.CONFIG_BITS)

\* A report recorded belongs to the last attempt or to one before it.
Recorded ==
  /\ lastTry <= now
  /\ regs.LASTSEND_TIMESTAMP_REG <= lastTry + WatchdogTicks
  /\ hw.LASTSEND_TIMESTAMP_REG <= lastTry + WatchdogTicks

\* A run that reports is over within the watchdog's time; one that does not
\* takes no time and has found the send interval not over.
Running ==
  /\ pc = "boot" => since = now
  /\ pc \in ModemPhases => gps_data_send
  /\ pc \in ModemPhases \/ (pc = "alarm" /\ gps_data_send) =>
       lastTry = since /\ now - since <= WatchdogTicks
  /\ pc = "alarm" /\ ~ gps_data_send =>
       /\ since = now
       /\ now - regs.LASTSEND_TIMESTAMP_REG < IntervalTicks(regs.CONFIG_BITS)

\* An alarm the RTC accepted comes before the deadline, and after the shutdown
\* unless the sleep is too short for that.
Sleeping ==
  /\ pc \in {"shutdown", "off"} =>
       /\ now - since <= TailTime
       /\ since + WakeupTicks(regs.CONFIG_BITS) <= Deadline
       /\ ~ refused => alarmAt = since + WakeupTicks(regs.CONFIG_BITS)
  /\ pc = "standby" /\ ~ NoAlarm =>
       since < alarmAt /\ now <= alarmAt /\ alarmAt <= Deadline

\* The deadline is only passed without an alarm, and then until the next
\* decision.
InTime ==
  \/ now <= Deadline
  \/ pc \in {"shutdown", "off", "standby", "boot"} /\ NoAlarm

SilenceInv == ClockInv /\ Recorded /\ Running /\ Sleeping /\ InTime

------------------------------------------------------------------------------

\* The numbers the inequalities below are about.
LEMMA Numbers ==
  ASSUME TypeOK
  PROVE  /\ now \in Nat /\ since \in Nat /\ lastTry \in Nat /\ alarmAt \in Nat
         /\ WakeupTicks(regs.CONFIG_BITS) \in Nat
         /\ IntervalTicks(regs.CONFIG_BITS) \in Nat
         /\ WakeupTicks(hw.CONFIG_BITS) \in Nat
         /\ IntervalTicks(hw.CONFIG_BITS) \in Nat
         /\ regs.LASTSEND_TIMESTAMP_REG \in Nat
         /\ hw.LASTSEND_TIMESTAMP_REG \in Nat
         /\ WatchdogTicks \in Nat /\ TailTime \in Nat
  <1>1. regs \in Registers /\ hw \in Registers
    BY DEF TypeOK
  <1>2. regs.CONFIG_BITS \in ConfigData /\ hw.CONFIG_BITS \in ConfigData
    BY <1>1, RegistersExcept
  <1>3. /\ regs.LASTSEND_TIMESTAMP_REG \in Nat
        /\ hw.LASTSEND_TIMESTAMP_REG \in Nat
    BY <1>1, RegistersExcept
  <1>4. /\ WakeupTicks(regs.CONFIG_BITS) \in Nat
        /\ IntervalTicks(regs.CONFIG_BITS) \in Nat
        /\ WakeupTicks(hw.CONFIG_BITS) \in Nat
        /\ IntervalTicks(hw.CONFIG_BITS) \in Nat
    BY <1>2, TicksType
  <1> QED BY <1>3, <1>4, WatchdogType, TimeAssumption DEF TypeOK

\* The invariant holds at first.
LEMMA SilenceInit == Init => SilenceInv
  <1> SUFFICES ASSUME Init
               PROVE  SilenceInv
    OBVIOUS
  <1>1. ClockInv /\ TypeOK
    BY ClockInit DEF ClockInv
  <1>2. Recorded /\ Running /\ Sleeping
    BY <1>1, Numbers DEF Init, Erased, Recorded, Running, Sleeping, ModemPhases
  <1>3. now <= Deadline
    BY <1>1, Numbers DEF Init, Deadline
  <1> QED BY <1>1, <1>2, <1>3 DEF SilenceInv, InTime

\* A step that lets no time pass and changes neither the last attempt nor
\* the configuration leaves the deadline alone.
LEMMA SameDeadline ==
  ASSUME TypeOK, lastTry' = lastTry,
         \/ regs'.CONFIG_BITS = regs.CONFIG_BITS
         \/ regs'.CONFIG_BITS = GetConfig(regs.CONFIG_BITS)
  PROVE  /\ WakeupTicks(regs'.CONFIG_BITS) = WakeupTicks(regs.CONFIG_BITS)
         /\ IntervalTicks(regs'.CONFIG_BITS) = IntervalTicks(regs.CONFIG_BITS)
         /\ Deadline' = Deadline
  <1>1. regs.CONFIG_BITS \in ConfigData
    BY DEF TypeOK, Registers
  <1>2. /\ WakeupTicks(regs'.CONFIG_BITS) = WakeupTicks(regs.CONFIG_BITS)
        /\ IntervalTicks(regs'.CONFIG_BITS) = IntervalTicks(regs.CONFIG_BITS)
    BY <1>1, TicksType
  <1> QED BY <1>2 DEF Deadline

\* A decision takes no time and sets no alarm.
LEMMA SilenceDecide ==
  ASSUME SilenceInv, DecideAny
  PROVE  Recorded' /\ Running' /\ Sleeping' /\ InTime'
  <1> USE DEF SilenceInv, ClockInv
  <1>1. PICK next \in CHECK_STATES, acc \in BOOLEAN, send \in BOOLEAN :
          /\ Decide(next, acc, send)
          /\ ~ send => ~ deepsleep_wakeup
    <2>1. /\ regs.STATE_REG.state \in CHECK_STATES
          /\ regs.STATE_REG.last_wokeup_acc \in BOOLEAN
      BY DEF TypeOK, Registers, AppStateData
    <2> QED BY <2>1 DEF DecideAny, DecideDeepsleep, DecideSleep, DecideFollowUp,
                     DecideMotion, DecideNoMotion, DecideFirst, CHECK_STATES
  <1>2. /\ regs' \in Registers
        /\ regs'.LASTSEND_TIMESTAMP_REG = regs.LASTSEND_TIMESTAMP_REG
        /\ regs'.CONFIG_BITS = GetConfig(regs.CONFIG_BITS)
    BY <1>1, DecideRegs
  <1>3. /\ now' = now /\ hw' = hw /\ since' = since /\ pc = "boot" /\ since = now
        /\ pc' = IF send THEN "init" ELSE "alarm"
        /\ gps_data_send' = send
        /\ lastTry' = IF send THEN now ELSE lastTry
    BY <1>1 DEF Decide, Running
  <1>4. /\ WakeupTicks(regs'.CONFIG_BITS) = WakeupTicks(regs.CONFIG_BITS)
        /\ IntervalTicks(regs'.CONFIG_BITS) = IntervalTicks(regs.CONFIG_BITS)
    BY <1>2, TicksType DEF TypeOK, Registers
  <1>5. Recorded'
    BY <1>2, <1>3, Numbers DEF Recorded, Past
  <1>6. ~ send => now - regs.LASTSEND_TIMESTAMP_REG < IntervalTicks(regs.CONFIG_BITS)
    BY <1>1, Numbers DEF deepsleep_wakeup, Elapsed, Past
  <1>7. Running'
    BY <1>2, <1>3, <1>4, <1>6, Numbers DEF Running, ModemPhases
  <1>8. Sleeping'
    BY <1>3 DEF Sleeping
  <1>9. (now <= Deadline)'
    <2>1. CASE send
      BY <1>3, <1>4, <2>1, Numbers DEF Deadline
    <2>2. CASE ~ send
      <3>1. now <= Deadline
        BY <1>6, <2>2, Numbers DEF Recorded, Deadline
      <3> QED BY <1>3, <1>4, <2>2, <3>1 DEF Deadline
    <2> QED BY <2>1, <2>2
  <1> QED BY <1>5, <1>7, <1>8, <1>9 DEF InTime

\* The modem's steps: a new configuration and a recorded report come within
\* the watchdog's time after the attempt began.
LEMMA SilenceModem ==
  ASSUME SilenceInv, TypeOK',
         \/ InitModem \/ InitFails \/ ConnectGsm \/ ConnectFails
         \/ UpdateConfig \/ SendData \/ RecordResult
  PROVE  Recorded' /\ Running' /\ Sleeping' /\ InTime'
  <1> USE DEF SilenceInv, ClockInv
  <1>1. /\ now' = now /\ hw' = hw /\ since' = since /\ lastTry' = lastTry
        /\ gps_data_send' = gps_data_send
        /\ pc \in ModemPhases /\ pc' \in ModemPhases \cup {"alarm"}
        /\ regs'.LASTSEND_TIMESTAMP_REG \in {now, regs.LASTSEND_TIMESTAMP_REG}
    BY ModemSteps
  <1>2. gps_data_send /\ lastTry = since /\ now - since <= WatchdogTicks
    BY <1>1 DEF Running
  <1>3. WakeupTicks(regs'.CONFIG_BITS) \in Nat /\ IntervalTicks(regs'.CONFIG_BITS) \in Nat
    BY TicksType DEF TypeOK, Registers
  <1>4. Recorded'
    BY <1>1, <1>2, Numbers DEF Recorded
  <1>5. Running'
    BY <1>1, <1>2 DEF Running, ModemPhases
  <1>6. Sleeping'
    BY <1>1 DEF Sleeping, ModemPhases
  <1>7. (now <= Deadline)'
    BY <1>1, <1>2, <1>3, Numbers DEF Deadline
  <1> QED BY <1>4, <1>5, <1>6, <1>7 DEF InTime

\* The alarm is set before the deadline, if the RTC accepts it.
LEMMA SilenceSetAlarm ==
  ASSUME SilenceInv, SetAlarm
  PROVE  Recorded' /\ Running' /\ Sleeping' /\ InTime'
  <1> USE DEF SilenceInv, ClockInv
  <1>1. /\ now' = now /\ hw' = hw /\ since' = now /\ lastTry' = lastTry
        /\ pc = "alarm" /\ pc' = "shutdown"
        /\ ~ refused' => alarmAt' = now + WakeupTicks(regs.CONFIG_BITS)
    BY DEF SetAlarm
  <1>2. /\ regs'.LASTSEND_TIMESTAMP_REG = regs.LASTSEND_TIMESTAMP_REG
        /\ regs'.CONFIG_BITS = GetConfig(regs.CONFIG_BITS)
    BY SetAlarmRegs
  <1>3. /\ WakeupTicks(regs'.CONFIG_BITS) = WakeupTicks(regs.CONFIG_BITS)
        /\ Deadline' = Deadline
    BY <1>1, <1>2, SameDeadline
  <1>4. Recorded' /\ Running'
    BY <1>1, <1>2, <1>3 DEF Recorded, Running, ModemPhases
  <1>5. now + WakeupTicks(regs.CONFIG_BITS) <= Deadline
    <2>1. CASE gps_data_send
      BY <1>1, <2>1, Numbers DEF Running, Deadline
    <2>2. CASE ~ gps_data_send
      BY <1>1, <2>2, Numbers DEF Running, Recorded, Deadline
    <2> QED BY <2>1, <2>2
  <1>6. Sleeping'
    BY <1>1, <1>3, <1>5, Numbers DEF Sleeping
  <1>7. (now <= Deadline)'
    BY <1>1, <1>3 DEF InTime
  <1> QED BY <1>4, <1>6, <1>7 DEF InTime

\* The end of a run keeps both.
LEMMA SilenceEnd ==
  ASSUME SilenceInv, Shutdown \/ StandBy
  PROVE  Recorded' /\ Running' /\ Sleeping' /\ InTime'
  <1> USE DEF SilenceInv, ClockInv
  <1>1. CASE Shutdown
    <2>1. /\ now' = now /\ hw' = hw /\ since' = since /\ lastTry' = lastTry
          /\ pc = "shutdown" /\ pc' = "off" /\ alarmAt' = alarmAt
          /\ refused' = refused
      BY <1>1 DEF Shutdown, history
    <2>2. /\ regs'.LASTSEND_TIMESTAMP_REG = regs.LASTSEND_TIMESTAMP_REG
          /\ regs'.CONFIG_BITS = regs.CONFIG_BITS
      BY <1>1, ShutdownRegs
    <2>3. Deadline' = Deadline
      BY <2>1, <2>2, SameDeadline
    <2>4. NoAlarm' = NoAlarm
      BY <2>1, <2>2 DEF NoAlarm, ShortSleep
    <2>5. Recorded' /\ Running'
      BY <2>1, <2>2 DEF Recorded, Running, ModemPhases
    <2>6. Sleeping'
      BY <2>1, <2>2, <2>3 DEF Sleeping
    <2> QED BY <2>1, <2>3, <2>4, <2>5, <2>6 DEF InTime
  <1>2. CASE StandBy
    <2>1. /\ now' = now /\ hw' = regs /\ regs' = regs /\ since' = now
          /\ lastTry' = lastTry /\ pc = "off" /\ pc' = "standby"
          /\ alarmAt' = alarmAt /\ refused' = refused
      BY <1>2 DEF StandBy, history
    <2>2. Deadline' = Deadline /\ NoAlarm' = NoAlarm
      BY <2>1 DEF Deadline, NoAlarm, ShortSleep
    <2>3. Recorded' /\ Running'
      BY <2>1 DEF Recorded, Running, ModemPhases
    <2>4. ~ NoAlarm => now < alarmAt /\ alarmAt <= Deadline
      BY <2>1, Numbers DEF Sleeping, NoAlarm, ShortSleep
    <2>5. Sleeping'
      BY <2>1, <2>2, <2>4, Numbers DEF Sleeping
    <2> QED BY <2>1, <2>2, <2>3, <2>5 DEF InTime
  <1> QED BY <1>1, <1>2

\* A start of the program, out of standby or by the watchdog.
LEMMA SilenceStart ==
  ASSUME SilenceInv, WakeByAlarm \/ WakeByAcc \/ WatchdogReset
  PROVE  Recorded' /\ Running' /\ Sleeping' /\ InTime'
  <1> USE DEF SilenceInv, ClockInv
  <1>1. /\ now' = now /\ hw' = hw /\ regs' = hw /\ since' = now
        /\ lastTry' = lastTry /\ pc' = "boot" /\ refused' = refused
    BY Starts
  <1>2. Recorded' /\ Running' /\ Sleeping'
    BY <1>1 DEF Recorded, Running, Sleeping, ModemPhases
  <1>3. CASE WakeByAlarm \/ WakeByAcc
    <2>1. pc = "standby" /\ regs = hw
      BY <1>3 DEF WakeByAlarm, WakeByAcc, WakeUp, Copies
    <2>2. Deadline' = Deadline /\ NoAlarm' = NoAlarm
      BY <1>1, <2>1 DEF Deadline, NoAlarm, ShortSleep
    <2> QED BY <1>1, <1>2, <2>1, <2>2 DEF InTime
  <1>4. CASE WatchdogReset
    <2>1. /\ pc \in ModemPhases \cup {"boot", "alarm"}
          /\ now - since >= WatchdogTicks
      BY <1>4 DEF WatchdogReset, Guarded
    <2>2. since # now
      BY <2>1, Numbers, WatchdogType
    <2>3. lastTry = since /\ now - since <= WatchdogTicks
      BY <2>1, <2>2 DEF Running, TypeOK
    <2>4. now <= lastTry + IntervalTicks(hw.CONFIG_BITS)
                   + WakeupTicks(hw.CONFIG_BITS) + WatchdogTicks
      BY <2>3, Numbers
    <2> QED BY <1>1, <1>2, <2>4 DEF InTime, Deadline
  <1> QED BY <1>3, <1>4

\* Time passes while the watchdog, the shutdown or the alarm still waits.
LEMMA SilenceTick ==
  ASSUME SilenceInv, Tick
  PROVE  Recorded' /\ Running' /\ Sleeping' /\ InTime'
  <1> USE DEF SilenceInv, ClockInv
  <1>1. /\ now' = now + 1 /\ hw' = hw /\ regs' = regs /\ since' = since
        /\ pc' = pc /\ lastTry' = lastTry /\ alarmAt' = alarmAt
        /\ gps_data_send' = gps_data_send /\ refused' = refused /\ MayWait
    BY DEF Tick, locals, history
  <1>2. Deadline' = Deadline /\ NoAlarm' = NoAlarm
    BY <1>1 DEF Deadline, NoAlarm, ShortSleep
  <1>3. Recorded'
    BY <1>1, Numbers DEF Recorded
  <1>4. CASE pc \in ModemPhases \/ (pc = "alarm" /\ gps_data_send)
    <2>1. now - since < WatchdogTicks
      BY <1>1, <1>4, Numbers DEF MayWait, ModemPhases
    <2>2. Running'
      BY <1>1, <1>4, <2>1, Numbers DEF Running, ModemPhases
    <2>3. Sleeping'
      BY <1>1, <1>4 DEF Sleeping, ModemPhases
    <2>4. now + 1 <= Deadline
      BY <1>4, <2>1, Numbers DEF Running, Deadline
    <2> QED BY <1>1, <1>2, <1>3, <2>2, <2>3, <2>4 DEF InTime
  <1>5. CASE pc \in {"shutdown", "off"}
    <2>1. now - since < TailTime
      BY <1>1, <1>5 DEF MayWait, ModemPhases
    <2>2. Running'
      BY <1>1, <1>5 DEF Running, ModemPhases
    <2>3. Sleeping'
      BY <1>1, <1>2, <1>5, <2>1, Numbers DEF Sleeping
    <2>4. ~ NoAlarm => now + 1 <= Deadline
      BY <1>5, <2>1, Numbers DEF Sleeping, NoAlarm, ShortSleep, Deadline
    <2> QED BY <1>1, <1>2, <1>3, <1>5, <2>2, <2>3, <2>4 DEF InTime
  <1>6. CASE pc = "standby"
    <2>1. ~ NoAlarm => now < alarmAt
      BY <1>1, <1>6, Numbers DEF MayWait, AlarmDue, Sleeping, ModemPhases
    <2>2. Running'
      BY <1>1, <1>6 DEF Running, ModemPhases
    <2>3. Sleeping'
      BY <1>1, <1>2, <1>6, <2>1, Numbers DEF Sleeping
    <2>4. ~ NoAlarm => now + 1 <= Deadline
      BY <1>6, <2>1, Numbers DEF Sleeping, Deadline
    <2> QED BY <1>1, <1>2, <1>3, <1>6, <2>2, <2>3, <2>4 DEF InTime
  <1> QED BY <1>1, <1>4, <1>5, <1>6 DEF MayWait

\* Every step keeps the bounds.
LEMMA SilenceStep == SilenceInv /\ [Next]_vars => SilenceInv'
  <1> SUFFICES ASSUME SilenceInv, [Next]_vars
               PROVE  SilenceInv'
    OBVIOUS
  <1>1. ClockInv'
    BY ClockStep DEF SilenceInv
  <1> SUFFICES Recorded' /\ Running' /\ Sleeping' /\ InTime'
    BY <1>1 DEF SilenceInv
  <1>2. CASE DecideAny
    BY <1>2, SilenceDecide
  <1>3. CASE \/ InitModem \/ InitFails \/ ConnectGsm \/ ConnectFails
             \/ UpdateConfig \/ SendData \/ RecordResult
    BY <1>1, <1>3, SilenceModem DEF ClockInv
  <1>4. CASE SetAlarm
    BY <1>4, SilenceSetAlarm
  <1>5. CASE Shutdown \/ StandBy
    BY <1>5, SilenceEnd
  <1>6. CASE WakeByAlarm \/ WakeByAcc \/ WatchdogReset
    BY <1>6, SilenceStart
  <1>7. CASE Tick
    BY <1>7, SilenceTick
  <1>8. CASE Horizon \/ UNCHANGED vars
    <2>1. UNCHANGED vars
      BY <1>8 DEF Horizon
    <2> QED BY <2>1 DEF vars, locals, history, SilenceInv, Recorded, Running,
                        Sleeping, InTime, NoAlarm, ShortSleep, Deadline
  <1> QED BY <1>2, <1>3, <1>4, <1>5, <1>6, <1>7, <1>8 DEF Next, RunStep

\* No attempt to report is further back than the send interval, one sleep and
\* the watchdog's time, whatever the modem, the server and the motion do, but
\* in a run, a sleep or a start behind a refused alarm or with a sleep no
\* longer than the shutdown.
THEOREM SilenceBounded == Spec => []BoundedSilence
  <1>1. SilenceInv => BoundedSilence
    BY Numbers DEF SilenceInv, ClockInv, InTime, NoAlarm, Deadline, BoundedSilence
  <1> QED BY <1>1, SilenceInit, SilenceStep, PTL DEF Spec

\* Every standby begins with a wake-up to come, but after a refused alarm or
\* with a sleep no longer than the shutdown.
THEOREM AlwaysWokenUp == Spec => []StandbyHasWakeSource
  <1>1. SilenceInv => StandbyHasWakeSource
    BY Numbers DEF SilenceInv, ClockInv, Copies, Sleeping, NoAlarm,
                   StandbyHasWakeSource
  <1> QED BY <1>1, SilenceInit, SilenceStep, PTL DEF Spec
=============================================================================
