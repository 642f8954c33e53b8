--------------------------- MODULE Lsm6dslFields ---------------------------
(***************************************************************************)
(* The fields of the LSM6DSL's registers, as LSM6DSL_acc_gyro_driver.c      *)
(* reads and writes them: each definition stands for the pair of functions  *)
(* LSM6DSL_ACC_GYRO_W_<name> and LSM6DSL_ACC_GYRO_R_<name> and gives the     *)
(* register and the bits of the mask that both use.  A name that begins     *)
(* with a digit, 6D, begins with SixD here.                                 *)
(*                                                                          *)
(* What the functions do with a field is Lsm6dslDriver.  Two pairs of names *)
(* have the same mask, so they are one field here as they are on the bus:   *)
(* RoundingOnStatusRegisters and ROUNDING_STATUS, InComposit and            *)
(* LowPassFiltSel_XL.                                                       *)
(***************************************************************************)
EXTENDS Integers, Sequences

\* A field is a sequence of pieces, the bits first .. last of a register.
Field(reg, first, last) == <<[reg |-> reg, bits |-> first .. last]>>

------------------------------------------------------------------------------
(* Settings.                                                                *)

BDU == Field("CTRL3_C", 6, 6)
BLE == Field("CTRL3_C", 1, 1)
SW_RESET == Field("CTRL3_C", 0, 0)
IF_Addr_Incr == Field("CTRL3_C", 2, 2)
SPI_Mode == Field("CTRL3_C", 3, 3)
PadSel == Field("CTRL3_C", 4, 4)
INT_ACT_LEVEL == Field("CTRL3_C", 5, 5)
BOOT == Field("CTRL3_C", 7, 7)

FS_XL == Field("CTRL1_XL", 2, 3)
ODR_XL == Field("CTRL1_XL", 4, 7)
BW_SEL == Field("CTRL1_XL", 1, 1)

FS_G == Field("CTRL2_G", 2, 3)
ODR_G == Field("CTRL2_G", 4, 7)
FS_125 == Field("CTRL2_G", 1, 1)

EmbeddedAccess == Field("FUNC_CFG_ACCESS", 7, 7)

SYNC_RES_RATIO == Field("SENSOR_RES_RATIO", 0, 1)

Stamping_Time_Frame == Field("SENSOR_SYNC_TIME", 0, 7)

FIFO_Watermark == Field("FIFO_CTRL1", 0, 7) \o Field("FIFO_CTRL2", 0, 2)

FIFO_TEMP == Field("FIFO_CTRL2", 3, 3)
TIM_PEDO_FIFO_Write_En == Field("FIFO_CTRL2", 6, 6)
TIM_PEDO_FIFO_En == Field("FIFO_CTRL2", 7, 7)

DEC_FIFO_XL == Field("FIFO_CTRL3", 0, 2)
DEC_FIFO_G == Field("FIFO_CTRL3", 3, 5)

DEC_FIFO_DS3 == Field("FIFO_CTRL4", 0, 2)
DEC_FIFO_DS4 == Field("FIFO_CTRL4", 3, 5)
HI_DATA_ONLY == Field("FIFO_CTRL4", 6, 6)
STOP_ON_FTH == Field("FIFO_CTRL4", 7, 7)

FIFO_MODE == Field("FIFO_CTRL5", 0, 2)
ODR_FIFO == Field("FIFO_CTRL5", 3, 6)

DRDY_PULSE == Field("DRDY_PULSE_CFG_G", 7, 7)

DRDY_XL_on_INT1 == Field("INT1_CTRL", 0, 0)
DRDY_G_on_INT1 == Field("INT1_CTRL", 1, 1)
BOOT_on_INT1 == Field("INT1_CTRL", 2, 2)
FIFO_TSHLD_on_INT1 == Field("INT1_CTRL", 3, 3)
OVERRUN_on_INT1 == Field("INT1_CTRL", 4, 4)
FULL_FLAG_on_INT1 == Field("INT1_CTRL", 5, 5)
SIGN_MOT_on_INT1 == Field("INT1_CTRL", 6, 6)
STEP_DET_on_INT1 == Field("INT1_CTRL", 7, 7)

DRDY_XL_on_INT2 == Field("INT2_CTRL", 0, 0)
DRDY_G_on_INT2 == Field("INT2_CTRL", 1, 1)
DRDY_TEMP_on_INT2 == Field("INT2_CTRL", 2, 2)
FIFO_TSHLD_on_INT2 == Field("INT2_CTRL", 3, 3)
OVERRUN_on_INT2 == Field("INT2_CTRL", 4, 4)
FULL_FLAG_on_INT2 == Field("INT2_CTRL", 5, 5)
STEP_COUNT_OV_on_INT2 == Field("INT2_CTRL", 6, 6)
STEP_DELTA_on_INT2 == Field("INT2_CTRL", 7, 7)

LPF1_SEL_G == Field("CTRL4_C", 1, 1)
I2C_DISABLE == Field("CTRL4_C", 2, 2)
DRDY_MSK == Field("CTRL4_C", 3, 3)
INT2_ON_INT1 == Field("CTRL4_C", 5, 5)
SleepMode_G == Field("CTRL4_C", 6, 6)

SelfTest_XL == Field("CTRL5_C", 0, 1)
SelfTest_G == Field("CTRL5_C", 2, 3)
DEN_Polarity == Field("CTRL5_C", 4, 4)
CircularBurstMode == Field("CTRL5_C", 5, 7)

LP_BW_G == Field("CTRL6_G", 0, 1)
UserOffsetWeight == Field("CTRL6_G", 3, 3)
LowPower_XL == Field("CTRL6_G", 4, 4)
DEN_LVL2_EN == Field("CTRL6_G", 5, 5)
DEN_LVL_EN == Field("CTRL6_G", 6, 6)
ExternalTrigger == Field("CTRL6_G", 7, 7)

HPM_G == Field("CTRL7_G", 4, 5)
RoundingOnStatusRegisters == Field("CTRL7_G", 2, 2)
HPFilter_En == Field("CTRL7_G", 6, 6)
LP_Mode == Field("CTRL7_G", 7, 7)
ROUNDING_STATUS == Field("CTRL7_G", 2, 2)
HP_G_RST == Field("CTRL7_G", 3, 3)

InComposit == Field("CTRL8_XL", 7, 7)
HPfilterReference == Field("CTRL8_XL", 4, 4)
HPCF_XL == Field("CTRL8_XL", 5, 6)
LowPassFiltSel_XL == Field("CTRL8_XL", 7, 7)
LOW_PASS_ON_6D == Field("CTRL8_XL", 0, 0)
HP_SLOPE_XL == Field("CTRL8_XL", 2, 2)

SOFT == Field("CTRL9_XL", 2, 2)

SignifcantMotion == Field("CTRL10_C", 0, 0)
PedoStepReset == Field("CTRL10_C", 1, 1)
TILT == Field("CTRL10_C", 3, 3)
PEDO == Field("CTRL10_C", 4, 4)
TIMER == Field("CTRL10_C", 5, 5)
FUNC_EN == Field("CTRL10_C", 2, 2)

I2C_MASTER_Enable == Field("MASTER_CONFIG", 0, 0)
IronCorrection_EN == Field("MASTER_CONFIG", 1, 1)
PASS_THRU_MODE == Field("MASTER_CONFIG", 2, 2)
PULL_UP_EN == Field("MASTER_CONFIG", 3, 3)
SensorHUB_Trigger_Sel == Field("MASTER_CONFIG", 4, 4)
DATA_VAL_SEL_FIFO == Field("MASTER_CONFIG", 6, 6)
DRDY_ON_INT1 == Field("MASTER_CONFIG", 7, 7)

LIR == Field("TAP_CFG1", 0, 0)
TAP_Z_EN == Field("TAP_CFG1", 1, 1)
TAP_Y_EN == Field("TAP_CFG1", 2, 2)
TAP_X_EN == Field("TAP_CFG1", 3, 3)
SLOPE_FDS == Field("TAP_CFG1", 4, 4)
BASIC_INT == Field("TAP_CFG1", 7, 7)

TAP_THS == Field("TAP_THS_6D", 0, 4)
SIXD_THS == Field("TAP_THS_6D", 5, 6)
D4D == Field("TAP_THS_6D", 7, 7)

SHOCK_Duration == Field("INT_DUR2", 0, 1)
QUIET_Duration == Field("INT_DUR2", 2, 3)
DUR == Field("INT_DUR2", 4, 7)

WK_THS == Field("WAKE_UP_THS", 0, 5)
SINGLE_DOUBLE_TAP_EV == Field("WAKE_UP_THS", 7, 7)

SLEEP_DUR == Field("WAKE_UP_DUR", 0, 3)
TIMER_HR == Field("WAKE_UP_DUR", 4, 4)
WAKE_DUR == Field("WAKE_UP_DUR", 5, 6)

FF_THS == Field("FREE_FALL", 0, 2)
FF_Duration == Field("FREE_FALL", 3, 7) \o Field("WAKE_UP_DUR", 7, 7)

TimerEvRouteInt1 == Field("MD1_CFG", 0, 0)
TiltEvOnInt1 == Field("MD1_CFG", 1, 1)
SixDEvOnInt1 == Field("MD1_CFG", 2, 2)
TapEvOnInt1 == Field("MD1_CFG", 3, 3)
FFEvOnInt1 == Field("MD1_CFG", 4, 4)
WUEvOnInt1 == Field("MD1_CFG", 5, 5)
SingleTapOnInt1 == Field("MD1_CFG", 6, 6)
SleepEvOnInt1 == Field("MD1_CFG", 7, 7)

MagCorrection_Int2 == Field("MD2_CFG", 0, 0)
TiltEvOnInt2 == Field("MD2_CFG", 1, 1)
SixDEvOnInt2 == Field("MD2_CFG", 2, 2)
TapEvOnInt2 == Field("MD2_CFG", 3, 3)
FFEvOnInt2 == Field("MD2_CFG", 4, 4)
WUEvOnInt2 == Field("MD2_CFG", 5, 5)
SingleTapOnInt2 == Field("MD2_CFG", 6, 6)
SleepEvOnInt2 == Field("MD2_CFG", 7, 7)

------------------------------------------------------------------------------
(* Statuses: there is only the function that reads them.                   *)

WHO_AM_I == Field("WHO_AM_I_REG", 0, 7)

Z_WU == Field("WAKE_UP_SRC", 0, 0)
Y_WU == Field("WAKE_UP_SRC", 1, 1)
X_WU == Field("WAKE_UP_SRC", 2, 2)
WU_EV_STATUS == Field("WAKE_UP_SRC", 3, 3)
SLEEP_EV_STATUS == Field("WAKE_UP_SRC", 4, 4)
FF_EV_STATUS == Field("WAKE_UP_SRC", 5, 5)

Z_TAP == Field("TAP_SRC", 0, 0)
Y_TAP == Field("TAP_SRC", 1, 1)
X_TAP == Field("TAP_SRC", 2, 2)
TAP_SIGN == Field("TAP_SRC", 3, 3)
DOUBLE_TAP_EV_STATUS == Field("TAP_SRC", 4, 4)
SINGLE_TAP_EV_STATUS == Field("TAP_SRC", 5, 5)
TAP_EV_STATUS == Field("TAP_SRC", 6, 6)

DSD_XL == Field("D6D_SRC", 0, 0)
DSD_XH == Field("D6D_SRC", 1, 1)
DSD_YL == Field("D6D_SRC", 2, 2)
DSD_YH == Field("D6D_SRC", 3, 3)
DSD_ZL == Field("D6D_SRC", 4, 4)
DSD_ZH == Field("D6D_SRC", 5, 5)
D6D_EV_STATUS == Field("D6D_SRC", 6, 6)

XLDA == Field("STATUS_REG", 0, 0)
GDA == Field("STATUS_REG", 1, 1)
TDA == Field("STATUS_REG", 2, 2)

FIFONumOfEntries == Field("FIFO_STATUS1", 0, 7) \o Field("FIFO_STATUS2", 0, 3)

FIFOEmpty == Field("FIFO_STATUS2", 4, 4)
FIFOFull == Field("FIFO_STATUS2", 5, 5)
OVERRUN == Field("FIFO_STATUS2", 6, 6)
WaterMark == Field("FIFO_STATUS2", 7, 7)

FIFOPattern == Field("FIFO_STATUS3", 0, 7) \o Field("FIFO_STATUS4", 0, 1)

SENS_HUB_END == Field("FUNC_SRC", 0, 0)
SOFT_IRON_END == Field("FUNC_SRC", 1, 1)
HardIron == Field("FUNC_SRC", 2, 2)
STEP_OVERFLOW == Field("FUNC_SRC", 3, 3)
STEP_COUNT_DELTA == Field("FUNC_SRC", 7, 7)
PEDO_EV_STATUS == Field("FUNC_SRC", 4, 4)
TILT_EV_STATUS == Field("FUNC_SRC", 5, 5)
SIGN_MOT_EV_STATUS == Field("FUNC_SRC", 6, 6)

------------------------------------------------------------------------------

SettingFields == {
    BDU, FS_XL, ODR_XL, FS_G, ODR_G, FS_125, BW_SEL, BLE, EmbeddedAccess,
    SYNC_RES_RATIO, Stamping_Time_Frame, FIFO_Watermark, FIFO_TEMP,
    TIM_PEDO_FIFO_Write_En, TIM_PEDO_FIFO_En, DEC_FIFO_XL, DEC_FIFO_G,
    DEC_FIFO_DS3, DEC_FIFO_DS4, HI_DATA_ONLY, STOP_ON_FTH, FIFO_MODE,
    ODR_FIFO, DRDY_PULSE, DRDY_XL_on_INT1, DRDY_G_on_INT1, BOOT_on_INT1,
    FIFO_TSHLD_on_INT1, OVERRUN_on_INT1, FULL_FLAG_on_INT1, SIGN_MOT_on_INT1,
    STEP_DET_on_INT1, DRDY_XL_on_INT2, DRDY_G_on_INT2, DRDY_TEMP_on_INT2,
    FIFO_TSHLD_on_INT2, OVERRUN_on_INT2, FULL_FLAG_on_INT2,
    STEP_COUNT_OV_on_INT2, STEP_DELTA_on_INT2, SW_RESET, IF_Addr_Incr,
    SPI_Mode, PadSel, INT_ACT_LEVEL, BOOT, LPF1_SEL_G, I2C_DISABLE, DRDY_MSK,
    INT2_ON_INT1, SleepMode_G, SelfTest_XL, SelfTest_G, DEN_Polarity,
    CircularBurstMode, LP_BW_G, UserOffsetWeight, LowPower_XL, DEN_LVL2_EN,
    DEN_LVL_EN, ExternalTrigger, HPM_G, RoundingOnStatusRegisters,
    HPFilter_En, LP_Mode, ROUNDING_STATUS, HP_G_RST, InComposit,
    HPfilterReference, HPCF_XL, LowPassFiltSel_XL, LOW_PASS_ON_6D,
    HP_SLOPE_XL, SOFT, SignifcantMotion, PedoStepReset, TILT, PEDO, TIMER,
    FUNC_EN, I2C_MASTER_Enable, IronCorrection_EN, PASS_THRU_MODE, PULL_UP_EN,
    SensorHUB_Trigger_Sel, DATA_VAL_SEL_FIFO, DRDY_ON_INT1, LIR, TAP_Z_EN,
    TAP_Y_EN, TAP_X_EN, SLOPE_FDS, BASIC_INT, TAP_THS, SIXD_THS, D4D,
    SHOCK_Duration, QUIET_Duration, DUR, WK_THS, SINGLE_DOUBLE_TAP_EV,
    SLEEP_DUR, TIMER_HR, WAKE_DUR, FF_THS, FF_Duration, TimerEvRouteInt1,
    TiltEvOnInt1, SixDEvOnInt1, TapEvOnInt1, FFEvOnInt1, WUEvOnInt1,
    SingleTapOnInt1, SleepEvOnInt1, MagCorrection_Int2, TiltEvOnInt2,
    SixDEvOnInt2, TapEvOnInt2, FFEvOnInt2, WUEvOnInt2, SingleTapOnInt2,
    SleepEvOnInt2}

StatusFields == {
    WHO_AM_I, Z_WU, Y_WU, X_WU, WU_EV_STATUS, SLEEP_EV_STATUS, FF_EV_STATUS,
    Z_TAP, Y_TAP, X_TAP, TAP_SIGN, DOUBLE_TAP_EV_STATUS, SINGLE_TAP_EV_STATUS,
    TAP_EV_STATUS, DSD_XL, DSD_XH, DSD_YL, DSD_YH, DSD_ZL, DSD_ZH,
    D6D_EV_STATUS, XLDA, GDA, TDA, FIFONumOfEntries, FIFOEmpty, FIFOFull,
    OVERRUN, WaterMark, FIFOPattern, SENS_HUB_END, SOFT_IRON_END, HardIron,
    STEP_OVERFLOW, STEP_COUNT_DELTA, PEDO_EV_STATUS, TILT_EV_STATUS,
    SIGN_MOT_EV_STATUS}
=============================================================================
