---------------------------- MODULE Accelerometer ----------------------------
(***************************************************************************)
(* The accelerometer as App uses it: AccInit and AccDisableInt when the     *)
(* program starts, AccDeinit or AccEnableInt before standby (app/app.cpp).  *)
(* App looks at no result, the bus may fail, the watchdog may start the     *)
(* program again at any moment, and the device keeps its settings           *)
(* meanwhile.  How often it wakes the tracker up is Device, whose variable  *)
(* accInt is Active("wake_up") here.                                        *)
(***************************************************************************)
EXTENDS Lsm6dslSensor

CONSTANT Thresholds     \* what config_.GetConfig().bits.acc_threshold may be

ASSUME ThresholdAssumption == Thresholds \subseteq 0 .. 63

VARIABLES
    phase,      \* where App::Run is
    plan,       \* the calls it has still to make there
    state,      \* its local variable, once it has decided
    threshold,  \* acc_threshold, when it was used last
    ctrl6_g,    \* the register 0x15 of the device: bit 4 and one other
    tmp,        \* AccEnableInt's local byte
    before      \* history: failures before this run of the program

appVars == <<phase, plan, state, threshold, ctrl6_g, tmp, before>>
allVars == <<sensorVars, appVars>>

CHECK_STATES == {"NDEF", "SLEEP", "CHECKINGMOTION"}
Phases == {"start", "run", "sleep", "arm", "write", "off", "standby"}

LowPower == 4
Bits == {4, 5}

AccInit ==
    <<<<"init">>, <<"enable", "x">>, <<"enable_temp">>, <<"disable_detection", "tilt">>,
      <<"disable_detection", "free_fall">>>>

AccDeinit == <<<<"disable", "g">>, <<"disable", "x">>>>

\* Mutant of AccEnableInt: the threshold before the detection.
AccEnableIntEarly(thr) ==
    <<<<"set_threshold", "wake_up", thr>>, <<"enable_detection", "wake_up", 1>>,
      <<"set_odr", "x", 26>>>>

AccEnableInt(thr) ==
    <<<<"enable_detection", "wake_up", 1>>, <<"set_threshold", "wake_up", thr>>,
      <<"set_odr", "x", 26>>>>

\* Mutant of AccDisableInt: what has never been enabled is not disabled.
AccDisableIntWakeUp == <<<<"disable_detection", "wake_up">>>>

AccDisableInt ==
    <<<<"disable_detection", "wake_up">>, <<"disable_detection", "tilt">>,
      <<"disable_detection", "free_fall">>>>

AppTypeOK ==
    /\ SensorTypeOK
    /\ phase \in Phases /\ state \in CHECK_STATES /\ threshold \in Thresholds
    /\ phase \in {"run", "write", "off", "standby"} => plan = <<>> /\ call = <<>>
    /\ ctrl6_g \subseteq Bits /\ tmp \subseteq Bits
    /\ before \in 0 .. faults

AppInit ==
    /\ SensorInit
    /\ phase = "start" /\ plan = AccInit \o AccDisableInt
    /\ state = "NDEF" /\ threshold \in Thresholds
    /\ ctrl6_g = {} /\ tmp = {} /\ before = 0

------------------------------------------------------------------------------

NextCall ==
    /\ plan # <<>> /\ Call(Head(plan))
    /\ plan' = Tail(plan)
    /\ UNCHANGED <<phase, state, threshold, ctrl6_g, tmp, before>>

InCall == (Step \/ Return) /\ UNCHANGED appVars

Finished == plan = <<>> /\ call = <<>>

\* The accelerometer is initialised and App::Run goes about its business.
Started ==
    /\ phase = "start" /\ Finished
    /\ phase' = "run"
    /\ UNCHANGED <<sensorVars, plan, state, threshold, ctrl6_g, tmp, before>>

\* Mutant of Decide: nobody makes the calls.
DecideDeinit ==
    /\ phase = "run"
    /\ state' \in CHECK_STATES /\ threshold' \in Thresholds
    /\ CASE state' = "SLEEP" -> phase' = "off" /\ plan' = AccDeinit
         [] state' = "CHECKINGMOTION" -> phase' = "arm" /\ plan' = AccEnableInt(threshold')
         [] OTHER -> phase' = "off" /\ plan' = <<>>
    /\ UNCHANGED <<sensorVars, ctrl6_g, tmp, before>>

\* App::Run knows the next state, and the configuration is up to date.
Decide ==
    /\ phase = "run"
    /\ state' \in CHECK_STATES /\ threshold' \in Thresholds
    /\ CASE state' = "SLEEP" -> phase' = "sleep" /\ plan' = AccDeinit
         [] state' = "CHECKINGMOTION" -> phase' = "arm" /\ plan' = AccEnableInt(threshold')
         [] OTHER -> phase' = "off" /\ plan' = <<>>
    /\ UNCHANGED <<sensorVars, ctrl6_g, tmp, before>>

\* read_reg(0x15, &tmp), whose failure leaves tmp uninitialised.
ReadReg ==
    /\ phase = "arm" /\ Finished
    /\ \/ tmp' = ctrl6_g /\ UNCHANGED faults
       \/ faults < MaxFaults /\ faults' = faults + 1 /\ tmp' \in SUBSET Bits
    /\ phase' = "write"
    /\ UNCHANGED <<device, object, astray, asked, sure>>
    /\ UNCHANGED <<plan, state, threshold, ctrl6_g, before>>

\* tmp |= (1<<4), write_reg(0x15, tmp), and then TimerDeinit.
WriteReg ==
    /\ phase = "write"
    /\ ctrl6_g' = tmp \cup {LowPower}
    /\ phase' = "off" /\ tmp' = {}
    /\ UNCHANGED <<sensorVars, plan, state, threshold, before>>

WriteRegFails ==
    /\ phase = "write" /\ faults < MaxFaults
    /\ faults' = faults + 1
    /\ ctrl6_g' \in {ctrl6_g, tmp \cup {LowPower}}
    /\ phase' = "off" /\ tmp' = {}
    /\ UNCHANGED <<device, object, astray, asked, sure>>
    /\ UNCHANGED <<plan, state, threshold, before>>

\* TimerDeinit, if the accelerometer is to sleep.
SleepEnds ==
    /\ phase = "sleep" /\ Finished
    /\ phase' = "off"
    /\ UNCHANGED <<sensorVars, plan, state, threshold, ctrl6_g, tmp, before>>

\* shutdown() of the modem and SetState are not about the accelerometer.
StandBy ==
    /\ phase = "off"
    /\ phase' = "standby"
    /\ UNCHANGED <<sensorVars, plan, state, threshold, ctrl6_g, tmp, before>>

\* The program starts from its beginning, after a standby or a reset.
Start ==
    /\ phase' = "start" /\ plan' = AccInit \o AccDisableInt
    /\ tmp' = {} /\ before' = faults'
    /\ UNCHANGED <<state, threshold, ctrl6_g>>

WakeUp == phase = "standby" /\ NewObject /\ UNCHANGED faults /\ Start

\* The watchdog, until TimerDeinit has switched it off.
WatchdogReset == phase \notin {"off", "standby"} /\ Reset /\ Start

AppNext ==
    \/ NextCall \/ InCall
    \/ Started \/ Decide \/ SleepEnds
    \/ ReadReg \/ WriteReg \/ WriteRegFails
    \/ StandBy \/ WakeUp \/ WatchdogReset

AppSpec == AppInit /\ [][AppNext]_allVars

------------------------------------------------------------------------------

(***************************************************************************)
(* Properties                                                               *)
(***************************************************************************)

\* Accesses that failed since the program started.
Failures == faults - before

\* Motion can wake the tracker only when App asked for it: while the program
\* works, and in a standby in another state than CHECKINGMOTION, the
\* interrupt of an earlier standby is off, even if two accesses of this run
\* fail (three are needed: the interrupts are switched off three times).
SilentUnlessArmed ==
    /\ Failures <= 2
    /\ \/ phase \in {"run", "sleep"}
       \/ phase \in {"off", "standby"} /\ state # "CHECKINGMOTION"
    => ~ Active("wake_up")

\* If no access of this run failed, the tracker stands by as it should,
\* whatever runs before have left behind: in CHECKINGMOTION with the detection
\* on, at 26 Hz, in low-power mode and with the threshold of the configuration;
\* in SLEEP with both sensors off.
ReadyForStandby ==
    phase = "standby" /\ Failures = 0 =>
        /\ state = "CHECKINGMOTION" =>
              /\ Active("wake_up") /\ regs.WUEvOnInt1
              /\ regs.ODR_XL = 26 /\ regs.WK_THS = threshold /\ LowPower \in ctrl6_g
        /\ state = "SLEEP" => regs.ODR_XL = 0 /\ regs.ODR_G = 0
=============================================================================
