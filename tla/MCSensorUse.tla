----------------------------- MODULE MCSensorUse -----------------------------
(***************************************************************************)
(* SensorUse for TLC: two detections at a time, or the rates, or the other  *)
(* functions.                                                               *)
(***************************************************************************)
EXTENDS SensorUse

\* Enabling and disabling a detection, on one pin.
Pin(d) == IF d \in {"free_fall", "tilt", "double_tap"} THEN 2 ELSE 1
DetectionCalls(d) == {<<"enable_detection", d, Pin(d)>>, <<"disable_detection", d>>}

Power == {<<"init">>, <<"enable", "x">>}

MCFocuses ==
    {Power \cup UNION {DetectionCalls(d) : d \in pair} :
        pair \in {{d, e} : d, e \in Detections}}
    \cup {{<<"init">>, <<"enable", s>>, <<"disable", s>>, <<"set_odr", s, 30>>,
           <<"set_odr", s, 5000>>} : s \in Sensors}
    \cup {{<<"enable_temp">>, <<"reset_step_counter">>, <<"set_x_fs", 4>>, <<"set_g_fs", 125>>,
           <<"set_g_fs", 500>>, <<"set_threshold", "pedometer", 7>>,
           <<"set_threshold", "tap_duration", 4>>}}
=============================================================================
