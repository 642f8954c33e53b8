------------------------------ MODULE SensorUse ------------------------------
(***************************************************************************)
(* The functions of LSM6DSLSensor called in any order, with failures of the *)
(* bus and resets at any moment: which detections of events reach a pin of  *)
(* the device, and at which rate it samples.                                *)
(***************************************************************************)
EXTENDS Lsm6dslSensor

CONSTANT Focuses    \* the sets of calls to look at

ASSUME FocusesAssumption == \A f \in Focuses : f \subseteq Calls

VARIABLE focus      \* the calls this behaviour makes

vars == <<focus, sensorVars>>

TypeOK == SensorTypeOK /\ focus \in Focuses

Init == SensorInit /\ focus \in Focuses

Next ==
    /\ \/ \E c \in focus : Call(c)
       \/ Step \/ Return \/ Reset
    /\ UNCHANGED focus

Spec == Init /\ [][Next]_vars

------------------------------------------------------------------------------

(***************************************************************************)
(* Properties                                                               *)
(***************************************************************************)

\* A detection is silenced only by init, by switching the accelerometer off
\* or by disabling a detection of its group: enabling another one, a change
\* of rate or a failure on the way leaves it active.
OnlyItsGroup ==
    [][\A d \in Detections :
          Active(d) /\ ~Active(d)' =>
              \/ call = <<"init">> \/ call = <<"disable", "x">>
              \/ call[1] = "disable_detection" /\ Switch(call[2]) = Switch(d)]_vars

\* A detection whose enabling is answered with 0 is active if the
\* accelerometer is.  W_PedoThreshold is the exception: it may leave the other
\* page open and return success, and what follows goes astray.
EnabledIsActive ==
    /\ call # <<>> /\ ~Running /\ call[1] = "enable_detection" /\ Result = 0
    /\ ~astray /\ page = "main"
    /\ "x" \in sure /\ _is_enabled["x"] = 1
    => Active(call[2])

\* Between calls, whatever was switched on and off and asked for in between,
\* a sensor that is on samples at the rate asked for last, and one that is
\* off will.  A failure that reached the device, a failed init and a reset
\* make it unclear, until init succeeds.
RateKept ==
    call = <<>> => \A s \in sure :
        /\ _is_enabled[s] = 1 => regs[ODR[s]] = asked[s]
        /\ _is_enabled[s] # 1 => _last_odr[s] = asked[s] /\ regs[ODR[s]] = 0
=============================================================================
