---------------------------- MODULE Lsm6dslSensor ----------------------------
(***************************************************************************)
(* The class LSM6DSLSensor: its functions as the sequences of register      *)
(* accesses they make, over a bus on which each may fail.  A function ends  *)
(* with 1 at the first failure it looks at, and what it has written by then *)
(* stays.  SensorUse calls them in any order, Accelerometer as App does.    *)
(*                                                                          *)
(* That writing a field changes nothing else is Lsm6dslDriver; the fields   *)
(* have the names they have there.  The registers of the pedometer's        *)
(* threshold are on a second page: while it is open, accesses to the        *)
(* registers of the first go astray and are acknowledged all the same.      *)
(***************************************************************************)
EXTENDS Integers, Sequences

CONSTANT MaxFaults      \* accesses that fail, and resets

ASSUME MaxFaultsAssumption == MaxFaults \in Nat

VARIABLES
    regs,       \* the device's settings; they outlive the processor
    page,       \* the register page that is open
    call,       \* the call in progress, <<function, arguments>>, or <<>>
    todo,       \* what it has still to do
    failed,     \* it has met an error
    _is_enabled,    \* _x_is_enabled and _g_is_enabled; 2 is a value but 0 and 1
    _last_odr,      \* _x_last_odr and _g_last_odr
    faults,     \* history: how many there were
    astray,     \* history: the second page was open when the call began
    asked,      \* history: the rates asked for
    sure        \* history: the sensors whose rate no failure has left unclear

device == <<regs, page>>
object == <<call, todo, failed, _is_enabled, _last_odr>>
sensorVars == <<device, object, faults, astray, asked, sure>>

Sensors == {"x", "g"}
Pins == {1, 2}

------------------------------------------------------------------------------
(* Rates: a rate asked for is rounded up to one the device has.             *)

Rates == {13, 26, 52, 104, 208, 416, 833, 1660, 3330, 6660}

\* Mutant of Rounded.
NotRounded(odr) == odr

Rounded(odr) ==
    IF odr > 3330 THEN 6660
    ELSE CHOOSE r \in Rates : odr <= r /\ \A q \in Rates : odr <= q => r <= q

ODR == [x |-> "ODR_XL", g |-> "ODR_G"]

------------------------------------------------------------------------------
(* What a function does, one access after the other.                        *)

W(field, to) == [do |-> "W", field |-> field, to |-> to]

\* set_x_odr and set_g_odr
SetOdr(s, odr) == [do |-> "set_odr", sensor |-> s, to |-> Rounded(odr)]

\* get_x_odr and get_g_odr, into _last_odr
GetOdr(s) == [do |-> "get_odr", sensor |-> s]

\* W_EmbeddedAccess and the accesses to the second page, whose errors
\* W_PedoThreshold does not look at.
Page(to) == [do |-> "page", to |-> to]
PedoThs(thr) == [do |-> "embedded", thr |-> thr]

set_x_fs(fs) == <<W("FS_XL", fs)>>

set_g_fs(fs) ==
    IF fs = 125 THEN <<W("FS_125", TRUE)>>
    ELSE <<W("FS_125", FALSE), W("FS_G", fs)>>

init ==
    <<W("IF_Addr_Incr", TRUE), W("BDU", TRUE), W("FIFO_MODE", 0), W("ODR_XL", 0)>>
    \o set_x_fs(2) \o <<W("ODR_G", 0)>> \o set_g_fs(2000)

enable(s) ==
    IF _is_enabled[s] = 1 THEN <<>> ELSE <<W(ODR[s], Rounded(_last_odr[s]))>>

\* Mutant of disable: the rate is not stored.
disableNotStored(s) == IF _is_enabled[s] = 0 THEN <<>> ELSE <<W(ODR[s], 0)>>

disable(s) == IF _is_enabled[s] = 0 THEN <<>> ELSE <<GetOdr(s), W(ODR[s], 0)>>

set_pedometer_threshold(thr) == <<Page("embedded"), PedoThs(thr), Page("main")>>

\* The pin is 1 or 2; each detection can be routed to both.
On(route, pin) == <<W(route[pin], TRUE)>>

Off(route) == <<W(route[1], FALSE), W(route[2], FALSE)>>

Route == [free_fall |-> <<"FFEvOnInt1", "FFEvOnInt2">>,
          wake_up |-> <<"WUEvOnInt1", "WUEvOnInt2">>,
          tilt |-> <<"TiltEvOnInt1", "TiltEvOnInt2">>,
          single_tap |-> <<"SingleTapOnInt1", "SingleTapOnInt2">>,
          double_tap |-> <<"TapEvOnInt1", "TapEvOnInt2">>,
          orientation |-> <<"SixDEvOnInt1", "SixDEvOnInt2">>,
          pedometer |-> <<"STEP_DET_on_INT1">>]

enable_free_fall_detection(pin) ==
    <<SetOdr("x", 416), W("FS_XL", 2), W("FF_Duration", 6), W("WAKE_DUR", 0),
      W("TIMER_HR", 0), W("SLEEP_DUR", 0), W("FF_THS", 312), W("BASIC_INT", TRUE)>>
    \o On(Route.free_fall, pin)

disable_free_fall_detection ==
    Off(Route.free_fall)
    \o <<W("BASIC_INT", FALSE), W("FF_Duration", 0), W("FF_THS", 156)>>

enable_pedometer ==
    <<SetOdr("x", 26)>> \o set_x_fs(2) \o set_pedometer_threshold(23)
    \o <<W("FUNC_EN", TRUE), W("PEDO", TRUE), W("STEP_DET_on_INT1", TRUE)>>

disable_pedometer ==
    <<W("STEP_DET_on_INT1", FALSE), W("PEDO", FALSE), W("FUNC_EN", FALSE)>>
    \o set_pedometer_threshold(0)

reset_step_counter == <<W("PedoStepReset", TRUE), W("PedoStepReset", FALSE)>>

enable_tilt_detection(pin) ==
    <<SetOdr("x", 26)>> \o set_x_fs(2)
    \o <<W("FUNC_EN", TRUE), W("TILT", TRUE)>> \o On(Route.tilt, pin)

\* Mutant of disable_tilt_detection: the wrong interrupts are switched off.
disable_tilt_detectionBasic ==
    Off(Route.tilt) \o <<W("TILT", FALSE), W("BASIC_INT", FALSE)>>

disable_tilt_detection ==
    Off(Route.tilt) \o <<W("TILT", FALSE), W("FUNC_EN", FALSE)>>

\* Mutant of enable_wake_up_detection: the interrupts stay switched off.
enable_wake_up_detectionNoInt(pin) ==
    <<SetOdr("x", 416)>> \o set_x_fs(2)
    \o <<W("WAKE_DUR", 0), W("WK_THS", 2)>> \o On(Route.wake_up, pin)

enable_wake_up_detection(pin) ==
    <<SetOdr("x", 416)>> \o set_x_fs(2)
    \o <<W("WAKE_DUR", 0), W("WK_THS", 2), W("BASIC_INT", TRUE)>> \o On(Route.wake_up, pin)

disable_wake_up_detection ==
    Off(Route.wake_up)
    \o <<W("BASIC_INT", FALSE), W("WAKE_DUR", 0), W("WK_THS", 0)>>

TapAxes(on) == <<W("TAP_X_EN", on), W("TAP_Y_EN", on), W("TAP_Z_EN", on)>>
TapAxesOff == <<W("TAP_Z_EN", FALSE), W("TAP_Y_EN", FALSE), W("TAP_X_EN", FALSE)>>

enable_single_tap_detection(pin) ==
    <<SetOdr("x", 416)>> \o set_x_fs(2) \o TapAxes(TRUE)
    \o <<W("TAP_THS", 8), W("SHOCK_Duration", 2), W("QUIET_Duration", 1),
         W("BASIC_INT", TRUE)>>
    \o On(Route.single_tap, pin)

disable_single_tap_detection ==
    Off(Route.single_tap)
    \o <<W("BASIC_INT", FALSE), W("TAP_THS", 0), W("SHOCK_Duration", 0),
         W("QUIET_Duration", 0)>>
    \o TapAxesOff

enable_double_tap_detection(pin) ==
    <<SetOdr("x", 416)>> \o set_x_fs(2) \o TapAxes(TRUE)
    \o <<W("TAP_THS", 8), W("SHOCK_Duration", 3), W("QUIET_Duration", 3), W("DUR", 8),
         W("SINGLE_DOUBLE_TAP_EV", TRUE), W("BASIC_INT", TRUE)>>
    \o On(Route.double_tap, pin)

disable_double_tap_detection ==
    Off(Route.double_tap)
    \o <<W("BASIC_INT", FALSE), W("TAP_THS", 0), W("SHOCK_Duration", 0),
         W("QUIET_Duration", 0), W("DUR", 0), W("SINGLE_DOUBLE_TAP_EV", FALSE)>>
    \o TapAxesOff

enable_6d_orientation(pin) ==
    <<SetOdr("x", 416)>> \o set_x_fs(2)
    \o <<W("SIXD_THS", 60), W("BASIC_INT", TRUE)>> \o On(Route.orientation, pin)

disable_6d_orientation ==
    Off(Route.orientation) \o <<W("BASIC_INT", FALSE), W("SIXD_THS", 80)>>

\* set_free_fall_threshold, set_pedometer_threshold, ...
Threshold ==
    [free_fall |-> "FF_THS", wake_up |-> "WK_THS", tap |-> "TAP_THS",
     tap_shock |-> "SHOCK_Duration", tap_quiet |-> "QUIET_Duration", tap_duration |-> "DUR"]

set_threshold(of, thr) ==
    IF of = "pedometer" THEN set_pedometer_threshold(thr) ELSE <<W(Threshold[of], thr)>>

enable_temp == <<W("DRDY_TEMP_on_INT2", TRUE)>>

Detections == DOMAIN Route

enable_detection(d, pin) ==
    CASE d = "free_fall" -> enable_free_fall_detection(pin)
      [] d = "wake_up" -> enable_wake_up_detection(pin)
      [] d = "tilt" -> enable_tilt_detection(pin)
      [] d = "single_tap" -> enable_single_tap_detection(pin)
      [] d = "double_tap" -> enable_double_tap_detection(pin)
      [] d = "orientation" -> enable_6d_orientation(pin)
      [] d = "pedometer" -> enable_pedometer

disable_detection(d) ==
    CASE d = "free_fall" -> disable_free_fall_detection
      [] d = "wake_up" -> disable_wake_up_detection
      [] d = "tilt" -> disable_tilt_detection
      [] d = "single_tap" -> disable_single_tap_detection
      [] d = "double_tap" -> disable_double_tap_detection
      [] d = "orientation" -> disable_6d_orientation
      [] d = "pedometer" -> disable_pedometer

Function(c) ==
    CASE c[1] = "init" -> init
      [] c[1] = "enable" -> enable(c[2])
      [] c[1] = "disable" -> disable(c[2])
      [] c[1] = "set_odr" -> <<SetOdr(c[2], c[3])>>
      [] c[1] = "enable_detection" -> enable_detection(c[2], c[3])
      [] c[1] = "disable_detection" -> disable_detection(c[2])
      [] c[1] = "set_threshold" -> set_threshold(c[2], c[3])
      [] c[1] = "set_x_fs" -> set_x_fs(c[2])
      [] c[1] = "set_g_fs" -> set_g_fs(c[2])
      [] c[1] = "reset_step_counter" -> reset_step_counter
      [] c[1] = "enable_temp" -> enable_temp

\* The calls there are.  The pedometer has no choice of pins.
Calls ==
    {<<"init">>, <<"reset_step_counter">>, <<"enable_temp">>}
    \cup ({"enable", "disable"} \X Sensors)
    \cup ({"set_odr"} \X Sensors \X Nat)
    \cup ({"enable_detection"} \X Detections \X Pins)
    \cup ({"disable_detection"} \X Detections)
    \cup ({"set_threshold"} \X (DOMAIN Threshold \cup {"pedometer"}) \X Nat)
    \cup ({"set_x_fs", "set_g_fs"} \X Nat)

------------------------------------------------------------------------------
(* The state.                                                               *)

Switches ==
    {"IF_Addr_Incr", "BDU", "FS_125", "BASIC_INT", "FUNC_EN", "PEDO", "TILT",
     "PedoStepReset", "TAP_X_EN", "TAP_Y_EN", "TAP_Z_EN", "SINGLE_DOUBLE_TAP_EV",
     "DRDY_TEMP_on_INT2"} \cup UNION {{Route[d][i] : i \in DOMAIN Route[d]} : d \in Detections}

Numbers ==
    {"ODR_XL", "ODR_G", "FS_XL", "FS_G", "FIFO_MODE", "WAKE_DUR", "TIMER_HR", "SLEEP_DUR",
     "FF_Duration", "SIXD_THS", "PEDO_THS"} \cup {Threshold[t] : t \in DOMAIN Threshold}

\* After power-on.
Defaults == [f \in Switches \cup Numbers |-> IF f \in Switches THEN FALSE ELSE 0]

\* What get_odr makes of a byte of the other page, and what may be in an
\* object before init: representatives.
StrayRates == {-1, 0, 6660}

\* The rates are fields of their own kind.
RateFields == {ODR[s] : s \in Sensors}

Accesses ==
    [do : {"W"}, field : Switches, to : BOOLEAN]
    \cup [do : {"W"}, field : Numbers \ RateFields, to : Nat]
    \cup [do : {"W"}, field : RateFields, to : Rates \cup {0}]
    \cup [do : {"set_odr"}, sensor : Sensors, to : Rates]
    \cup [do : {"get_odr"}, sensor : Sensors]
    \cup [do : {"page"}, to : {"main", "embedded"}]
    \cup [do : {"embedded"}, thr : Nat]

SensorTypeOK ==
    /\ DOMAIN regs = Switches \cup Numbers
    /\ \A f \in Switches : regs[f] \in BOOLEAN
    /\ \A f \in Numbers : regs[f] \in Nat
    /\ \A s \in Sensors : regs[ODR[s]] \in Rates \cup {0}
    /\ page \in {"main", "embedded"}
    /\ call \in Calls \cup {<<>>} /\ todo \in Seq(Accesses)
    /\ failed \in BOOLEAN /\ (call = <<>> => todo = <<>> /\ ~failed /\ ~astray)
    /\ _is_enabled \in [Sensors -> 0 .. 2]
    /\ _last_odr \in [Sensors -> Rates \cup StrayRates]
    /\ faults \in 0 .. MaxFaults
    /\ astray \in BOOLEAN
    /\ asked \in [Sensors -> Rates] /\ sure \subseteq Sensors

\* The two sensors do not depend on each other: they start alike.
Uninitialised(values) == {[s \in Sensors |-> v] : v \in values}

SensorInit ==
    /\ regs = Defaults /\ page = "main"
    /\ call = <<>> /\ todo = <<>> /\ failed = FALSE
    /\ _is_enabled \in Uninitialised(0 .. 2) /\ _last_odr \in Uninitialised(StrayRates)
    /\ faults = 0 /\ astray = FALSE
    /\ asked = [s \in Sensors |-> 104] /\ sure = {}

------------------------------------------------------------------------------
(* Steps.                                                                   *)

Call(c) ==
    /\ call = <<>>
    /\ call' = c /\ todo' = Function(c)
    /\ astray' = (page # "main")
    /\ UNCHANGED <<device, failed, _is_enabled, _last_odr, faults, asked, sure>>

step == Head(todo)
Running == todo # <<>>

\* Whether the access writes the sensor's rate.
Writes(s) ==
    \/ step.do = "W" /\ step.field = ODR[s]
    \/ step.do = "set_odr" /\ step.sensor = s /\ _is_enabled[s] = 1

IsWrite == \/ step.do = "W" \/ \E s \in Sensors : Writes(s)

Written == IF step.do = "W" THEN step.field ELSE ODR[step.sensor]

\* The byte reaches the device.
Arrives ==
    regs' = IF page = "main" THEN [regs EXCEPT ![Written] = step.to] ELSE regs

\* A rate that went astray, or that init has begun to change, is unclear.
Unclear == {s \in Sensors : Writes(s) /\ (page # "main" \/ call[1] = "init")}

Asks == IF step.do = "set_odr" THEN [asked EXCEPT ![step.sensor] = step.to] ELSE asked

Next1 == todo' = Tail(todo)

Write ==
    /\ Running /\ IsWrite
    /\ Arrives /\ Next1
    /\ sure' = sure \ Unclear /\ asked' = Asks
    /\ UNCHANGED <<page, call, failed, _is_enabled, _last_odr, faults, astray>>

\* The function ends with 1; the byte may have reached the device.
WriteFails ==
    /\ Running /\ IsWrite /\ faults < MaxFaults
    /\ \/ UNCHANGED <<regs, sure>>
       \/ Arrives /\ sure' = {s \in sure : ~Writes(s)}
    /\ todo' = <<>> /\ failed' = TRUE /\ faults' = faults + 1
    /\ UNCHANGED <<page, call, _is_enabled, _last_odr, astray, asked>>

\* set_odr_when_disabled
SetLastOdr ==
    /\ Running /\ ~IsWrite /\ step.do = "set_odr"
    /\ _last_odr' = [_last_odr EXCEPT ![step.sensor] = step.to]
    /\ asked' = Asks /\ Next1
    /\ UNCHANGED <<device, call, failed, _is_enabled, faults, astray, sure>>

\* get_odr; a byte that is no rate makes it fail with -1.
ReadOdr ==
    /\ Running /\ step.do = "get_odr"
    /\ LET s == step.sensor IN
       \E rate \in IF page = "main" THEN {regs[ODR[s]]} ELSE StrayRates :
          /\ _last_odr' = [_last_odr EXCEPT ![s] = rate]
          /\ failed' = (rate = -1)
          /\ todo' = IF rate = -1 THEN <<>> ELSE Tail(todo)
          /\ sure' = IF page = "main" THEN sure ELSE sure \ {s}
    /\ UNCHANGED <<device, call, _is_enabled, faults, astray, asked>>

ReadOdrFails ==
    /\ Running /\ step.do = "get_odr" /\ faults < MaxFaults
    /\ todo' = <<>> /\ failed' = TRUE /\ faults' = faults + 1
    /\ UNCHANGED <<device, call, _is_enabled, _last_odr, astray, asked, sure>>

\* W_PedoThreshold goes on whether its accesses fail or not.
PageStep ==
    /\ Running /\ step.do \in {"page", "embedded"}
    /\ \/ /\ step.do = "page" /\ page' = step.to /\ UNCHANGED <<regs, faults>>
       \/ /\ step.do = "embedded" /\ UNCHANGED <<page, faults>>
          /\ regs' = IF page = "main" THEN regs ELSE [regs EXCEPT !.PEDO_THS = step.thr]
       \/ /\ faults < MaxFaults /\ faults' = faults + 1
          /\ UNCHANGED device
    /\ Next1
    /\ UNCHANGED <<call, failed, _is_enabled, _last_odr, astray, asked, sure>>

Step == Write \/ WriteFails \/ SetLastOdr \/ ReadOdr \/ ReadOdrFails \/ PageStep

\* What a function returns after its last access: 0 or 1.  enable_temp returns
\* MEMS_SUCCESS, 1, or MEMS_ERROR, 0, as they are.
Result == IF (call[1] = "enable_temp") = failed THEN 0 ELSE 1

\* What it sets then.
Return ==
    /\ call # <<>> /\ ~Running
    /\ call' = <<>> /\ failed' = FALSE /\ astray' = FALSE
    /\ _is_enabled' =
          IF failed THEN _is_enabled
          ELSE CASE call[1] = "enable" -> [_is_enabled EXCEPT ![call[2]] = 1]
                 [] call[1] = "disable" -> [_is_enabled EXCEPT ![call[2]] = 0]
                 [] call[1] = "init" -> [s \in Sensors |-> 0]
                 [] OTHER -> _is_enabled
    /\ IF call[1] = "init" /\ ~failed
       THEN /\ _last_odr' = [s \in Sensors |-> 104]
            /\ asked' = [s \in Sensors |-> 104]
            /\ sure' = IF page = "main" THEN Sensors ELSE {}
       ELSE UNCHANGED <<_last_odr, asked, sure>>
    /\ UNCHANGED <<device, todo, faults>>

\* The processor starts again, the device does not.  There is a new object,
\* whose constructor sets none of its variables.
NewObject ==
    /\ call' = <<>> /\ todo' = <<>> /\ failed' = FALSE
    /\ _is_enabled' \in Uninitialised(0 .. 2) /\ _last_odr' \in Uninitialised(StrayRates)
    /\ astray' = FALSE /\ sure' = {}
    /\ UNCHANGED <<device, asked>>

Reset == faults < MaxFaults /\ faults' = faults + 1 /\ NewObject

------------------------------------------------------------------------------
(* What the settings mean.                                                  *)

\* The detections of a group share a switch, which each of them sets and
\* clears.
FunctionGroup == {"tilt", "pedometer"}
Switch(d) == IF d \in FunctionGroup THEN "FUNC_EN" ELSE "BASIC_INT"

\* The switches that a detection has of its own.
Own(d) ==
    CASE d = "tilt" -> {"TILT"}
      [] d = "pedometer" -> {"PEDO"}
      [] d \in {"single_tap", "double_tap"} -> {"TAP_X_EN", "TAP_Y_EN", "TAP_Z_EN"}
      [] OTHER -> {}

\* An event of the kind d raises a pin.
Active(d) ==
    /\ regs.ODR_XL # 0
    /\ \A f \in Own(d) \cup {Switch(d)} : regs[f]
    /\ \E i \in DOMAIN Route[d] : regs[Route[d][i]]
=============================================================================
