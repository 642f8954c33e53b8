CONSTANTS
    Minute = 1
    WAKEUP_INTERVAL_MIN_DEFAULT = 2
    SEND_INTERVAL_MIN_DEFAULT = 4
    RESET_WD = 1
    CONFIG_CHECK = 6
    WakeupRange = 4
    IntervalRange = 8
    apns_len = 2
    CloudConfigs <- const_Configs
    TailTime = 1
    AlarmMayFail = TRUE
    InitMayFail = TRUE
    ModemMayHang = TRUE
    PowerOnTimes <- const_PowerOn
    MaxTime = 10
SPECIFICATION Spec
INVARIANTS
    TypeOK
    AlarmIsNotMotion
    FlagMeansSleep
    StandbyHasWakeSource
    BoundedSilence
PROPERTIES
    QuietDeviceSparesModem
    LostReportRetried
    StoreSpec
