CONSTANTS
    Minute = 1
    WAKEUP_INTERVAL_MIN_DEFAULT = 2
    SEND_INTERVAL_MIN_DEFAULT = 4
    RESET_WD = 1
    CONFIG_CHECK = 6
    WakeupRange = 4
    IntervalRange = 8
    apns_len = 1
    CloudConfigs <- const_Configs
    TailTime = 1
    AlarmMayFail = FALSE
    InitMayFail = FALSE
    ModemMayHang = FALSE
    PowerOnTimes <- const_PowerOn
    MaxTime = 12
SPECIFICATION Spec
INVARIANTS
    MotionNoticed
