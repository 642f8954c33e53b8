# Formal model of the NB-IoT GPS asset tracker

The tracker sleeps in the standby mode of an STM32, is woken up by an alarm of
the RTC or by the accelerometer, decides whether to report its position, reports
over a BG96 modem and sleeps again. This directory models its program in TLA+:
the modules are checked with TLC on small instances, and the properties of the
core are proved with TLAPS for every value of the constants.

All paths below are relative to `src/`; `NbIotBG96/` stands for
`system/dev/network/NbIotBG96/`, `LSM6DSL/` for `system/sensors/LSM6DSL/`.

## The system

| Part | State | Operations | Interacts with |
|---|---|---|---|
| Duty cycle, `app/app.cpp` (`App::Run`) | locals of one run; TIM3 watchdog | decide, start modem, try access points, record, set alarm, shut down, standby | everything below |
| Application state, `app/app_state.*` | `STATE_REG`: state, flag of the last wake-up, flag of a lost report | getters and setters of bit fields | backup registers |
| Configuration, `app/config/*` | `CONFIG_BITS`, `CONFIG_TIMESTAMP_REG` | `GetConfig` (stores defaults), `UpdateConfig` (from the cloud, daily) | backup registers, HTTP |
| Backup registers and standby, `system/dev/stm32_sleep.*` | cache, changed flags, ten 16-bit hardware registers | read, write, `SetAlarm`, `StandBy` (flush, then standby) | hardware |
| Message, `app/comm/httpcomm.*` | none | `Publish`, `GetConfig` | HTTP |
| HTTP exchange, `system/network/protocols/http/httpclient.*` | one socket per call | `HttpPost`, `HttpGet` | modem driver |
| Modem driver, `NbIotBG96/BG96fInterface.cpp`, `BG96/BG96.cpp` | socket flags, `_ids`; the modem: echo, radio, network, context, GNSS | start-up, registration, sockets and streams, GPS, power | AT parser |
| AT parser, `BG96/ATParser/ATParser.*` | line buffer, time-out | `send`, `recv`, `read`, `write`, `flush` | serial port |
| Serial port, `BG96/ATParser/BufferedSerial/*` | two rings | `putc` .. `write`, `getc`, interrupts `rxIrq`, `txIrq` | UART |
| Register driver, `LSM6DSL/LSM6DSL_acc_gyro_driver.*` | none; the registers of the device | `W_` and `R_` functions, a pair for each field of a register | I2C |
| Sensor, `LSM6DSL/LSM6DSLSensor.*` | which sensors are on, their rates while off | switch on and off, rates, ranges, detections of events | register driver, `App` |

There is one thread. What makes the program hard to test is elsewhere:

- **Restarts.** Every standby ends in a reset, and the watchdog may reset a run
  at any point before its shutdown. Whatever a later run needs must have reached the backup
  registers, which happens in `StandBy` only.
- **Guessing.** The program cannot ask what woke it up; it concludes it from
  the time since its last check. The configuration that gives the limits may
  change in between.
- **Time.** The watchdog bounds a run, the alarm bounds a sleep, the send
  interval bounds the silence; they are set at different moments.
- **Interrupts.** Both rings of the serial port are shared with a handler.
- **A slow or failing modem.** Answers are matched to commands by their order
  and a time-out only; commands are repeated; early returns leave sockets open.
- **A sensor that outlives the program.** A reset does not reach the
  accelerometer: the interrupt of an earlier run is on when the next one starts.
  Every setting is a read-modify-write over a bus whose errors `App` ignores, and
  detections of events share switches.

## Modules

| Module | Models | Kind |
|---|---|---|
| `BackupStore` | what the registers promise: a write is kept by the next standby, a reset loses what was not kept | abstract |
| `BackupRegs` | `STM32Sleep`: cache, flags, the flush register half by register half | implements `BackupStore` |
| `Device` | `App::Run`, `AppState`, `Config`, alarm, accelerometer interrupt, watchdog | uses `BackupStore` |
| `ByteFifo` | what a direction of the serial port promises: a queue | abstract |
| `MyBuffer` | the ring | operators |
| `SerialTx`, `SerialRx` | the two directions of `BufferedSerial`, memory access by memory access | implement `ByteFifo`, within limits |
| `AtLink` | `ATParser` on whole lines, and the modem it talks to | operators and the modem's actions |
| `HttpSession` | `HttpGet` and `HttpPost` over `BG96Interface` and `BG96` | extends `AtLink` |
| `ModemStart` | a reporting run's modem from power-on to shutdown: `init`, identity, GPS, `setConnection`, `connect` | what `HttpSession` and `Device` presuppose |
| `Lsm6dslFields` | registers and masks of 122 settings and 38 statuses | data |
| `FieldStore` | what the register driver promises: settings are kept apart | abstract |
| `Lsm6dslDriver` | every `W_` and `R_` function, transfer by transfer | implements `FieldStore` |
| `Lsm6dslSensor` | the functions of `LSM6DSLSensor` as sequences of accesses that may fail | operators and actions |
| `SensorUse` | those functions called in any order | extends `Lsm6dslSensor` |
| `Accelerometer` | those functions as `App` calls them, over standbys and resets | extends `Lsm6dslSensor` |
| `BackupRegsProofs`, `DeviceProofs`, `SerialTxProofs`, `SerialRxProofs`, `HttpSessionProofs`, `ModemStartProofs`, `Lsm6dslDriverProofs`, `SensorProofs` (about `SensorUse` and `Accelerometer`) | theorems | proofs |
| `MCBackupRegs`, `MCDevice`, `MCSerialTx`, `MCSerialRx`, `MCModemStart`, `MCLsm6dslDriver`, `MCSensorUse`, `MCAccelerometer` | values for TLC | configuration |

How they fit together: `App::Run` reads and writes registers as `BackupStore`
allows (`StoreSpec` of `Device`), and `BackupRegs` implements `BackupStore`
(`StoreSpec` of `BackupRegs`), so `Device` may treat the registers as two copies
of which standby copies one onto the other. `Device` sees of the modem calls
that take time and succeed or fail; `HttpSession` shows what a call does and
that it returns. `AtLink` assumes that the serial port is a queue of lines,
which `SerialTx` and `SerialRx` show as far as it is true. `ModemStart` is what
comes before and after the exchange in a run that reports: its place `publish` is
where `HttpSession` starts, and its `radio`, `act` and `active` are what
`HttpSession` takes for granted. `Device` has one bit of the accelerometer,
`accInt`, the interrupt that wakes it up; `Accelerometer` shows when that bit
(`Active("wake_up")`) is what `App` wants, which rests on the functions of
`Lsm6dslSensor`, which treat a field as a variable of its own, as `Lsm6dslDriver`
shows they may.

### BackupRegs

`rtc_write_backup_reg`, `StandBy` and the four steps of its loop are actions of
their own (`SkipUnchanged`, `FlushHigh`, `FlushLow`, `EnterSTANDBYMode`).
`SystemReset`, the watchdog's, comes while the program runs but not within the
loop: `App::Run` switches the watchdog off before it calls `StandBy`. `WakeUp`
and `SystemReset` run the constructor, after which the cache, uninitialised in
the code, holds anything. A word is a function from bits to booleans; shifts and masks are
selections of bits. `before` is history, what the hardware held when `StandBy` was
called: `FlushProgress` says of every hardware register at every step what it
holds, the ones the loop has not reached and the ones nobody wrote included.

### Device

`pc` names the place in `App::Run`. Each branch of the decision is an action
(`DecideDeepsleep` .. `DecideFirst`), then come `InitModem` or `InitFails`, per
access point `ConnectGsm` or `ConnectFails`, `UpdateConfig`, `SendData`, after
the loop `RecordResult`, and for all branches `SetAlarm`, `Shutdown`, `StandBy`.
The hardware is `WakeByAlarm`, `WakeByAcc`, `WatchdogReset` and `Tick`.

Abstractions: fixes, voltage, temperature, cell and the text of a message are
data no decision depends on; waiting for a GPS fix is part of the time the modem
takes. `setGPS` and its error flag go with it. Switching the accelerometer's
interrupt off is assumed to work; switching it on may fail (the result is only
logged). `AccInit`, `accThreshold` and `gpsFixTimeout` decide nothing.
`shutdown()` and `wait(1)` take up to `TailTime`.

History the program does not see: `wakeCause` and `prevCause`, what ended the last
two standbys (`stale` is an alarm of an earlier run that comes after the RTC refused
the last one), `lastTry`, `lost`, `overdue` (the send interval found over since the
last report sent) and `refused` (the RTC refused the last alarm). `ShortSleep` is a
configuration whose sleep is over before the shutdown may be: the bit field makes
0 of an accepted `wakeupTime` of 64.

### SerialTx and SerialRx

`put` is taken apart where the interrupt can see the difference: index read,
byte stored, index incremented, index wrapped (`PutBegin` .. `PutWrap`). `_wloc`
is volatile and `_buf` is not, so the compiler may store the byte after the
index (`LateStore`). `putc`, `puts`, `write` and `printf` differ in the number of
bytes before `prime`, which is free. `prime` is four steps; `txIrq` is run by the
program or by the interrupt (`Running`). The transmitter has a data register of
one byte; bytes the receiver's hardware loses by itself are left out, and so is
the destructor, which nothing calls.

### AtLink and HttpSession

A line is one element of a queue. `air` holds lines the modem has still to send,
`rx` those the parser can read. `Recv(pattern, line)` drops what comes before the
first matching line, `RecvFails` drops everything after a time-out, `Read` takes
what there is, which is how `vrecv` and `read` work on whole lines. A time-out
comes when the modem has nothing more to say; when it comes earlier, that is a
failure and `late` records it. The modem takes written units as commands, or, in
data mode (`room > 0`), as payload whatever they are. Commands and the parts of a
message are units of one size. It is modelled from the answers the driver waits
for, and every failing answer, a server that closes early and a late answer count
as a failure, of which there are at most `MaxFaults` before the report and as
many for it. Reads are not cut at 64 bytes.

`HttpSession` has one access point: the configuration, if due, then
`GetCell` (`AT+CEREG=2` and its OK, `AT+CEREG?` and one read: `SendCell` ..
`CellRead`) and the report; registering with the next access point switches the
modem's radio off, which closes its sockets. A read in the loop of `HttpGet` takes
any lines that are there (`ReadPart`); the loop ends with the one that has the
closing brace, `data`, or with nothing left to read (`GetEnds`).

### ModemStart

`pc` names the command to be sent next or the answer waited for; the loops of the
code (`max_attemps`, `i`, `pdp_retry`) keep their counters. `rx` holds the lines
the modem has sent or will send: a wait that ends without its line has seen the
first `k` of them (`Arrive`), and what it had not seen comes late (`late`).
`Recv`, `RecvFails`, `Read` and `Flush` are the parser's ways of waiting on whole
lines. Of the modem there is what a decision or a property depends on: echo,
radio, scan mode, the network, the context's access point and whether it is
active, GNSS. `Send` lets it accept a command, lose the answer, or refuse it.
The settings that survive power-off (scan mode, access point) start with any
value. What the modem sends by itself (`Unsolicited`) is `URC` or, once an access
point has been used, `closed`, that is `+QIURC: "closed",0`, in which `strstr`
finds the `,0` of GSM (`Named`); `closed` is also the history that it was sent.

`StartupFailed` resets the modem once (`max_attemps = 3`), `LastAttempt` is the
OK that is taken for a failure because `max_att` is 0 after it. `WaitOn`, a wait
that is repeated in a loop, may consume several attempts in one step.
`Commands` lists what `setConnection` sends for either technology, and which
failures end it. A failure of `init` goes on to GPS off and the shutdown, as
`App::Run` does. The rounds of `GetGps` are bounded by `MaxFixes` for
`gpsFixTimeout`.

Abstractions: durations, the text of answers but for what is looked for in it,
voltage and cell information, the parameters of the NB-IoT settings (`settings`).
`Published` lets the report succeed or fail. A refused command has no effect.

### Register driver

A byte is the set of its bits, a field a sequence of pieces (register, bits);
`Lsm6dslFields` has one line for each pair of `W_` and `R_` functions.
`CallW`, `ReadByte`, `WriteByte` and `ReturnW` are the steps of a writer, whose
value `Masked` is `(value & ~MASK) | newValue`; `CallR`, `GetPiece` and `ReturnR`
those of a reader. A transfer may fail, in which case a written byte may have
arrived or not, the watchdog may reset the processor within a function
(`Reset`), and the device changes its status registers as it likes
(`StatusChanges`). The writers that shift and mask a number and those that take
an enumeration are alike here; that an enumeration's values lie within the mask
was compared by reading them.

### Lsm6dslSensor, SensorUse, Accelerometer

Each function is a sequence of accesses (`init`, `enable_wake_up_detection` and
so on), in the order of the code; `Write`, `WriteFails`, `SetLastOdr`, `ReadOdr`,
`ReadOdrFails` and `PageStep` are the accesses, `Return` what is set after the
last one. An access that fails ends the function with 1. `W_PedoThreshold` opens
the second register page and does not look at errors: with the page left open,
later settings are acknowledged and lost. `NewObject` is the constructor, which
sets neither `_x_is_enabled` nor the rates; uninitialised values are any
(`Uninitialised`). Rates are numbers, other settings the values the class writes.
`Active(d)` is the device's own logic, from the meaning the settings have.

`SensorUse` calls the functions in any order. `Accelerometer` has App's
sequences (`AccInit`, `AccDeinit`, `AccEnableInt`, `AccDisableInt`) as `plan`,
the direct access to register 0x15 (`ReadReg`, `WriteReg`), whose failing read
leaves an uninitialised byte to be written, and standby, wake-up and watchdog. It
is about the settings, not the time: `Decide` chooses any state `App::Run` may
have decided on. Its `AppInit`, `AppNext`, `AppSpec` and `AppTypeOK` are named
apart from those of `SensorUse` so that `SensorProofs` can use the lemmas about
`Lsm6dslSensor` for both.

## Runs

| Run | Question | Instance | Result |
|---|---|---|---|
| `backup_regs` | Does what was written survive standby, register half by register half, whichever registers were written and whatever the cache held? Does the flush end? | 2 registers of 2 halves of 1 bit | holds |
| `device` | Is a wake-up classified correctly, is there always a next wake-up, is the silence bounded, is a quiet device's modem left off, is a lost report tried again? | 2 access points, clock to 10 ticks, two start times, modem that does not start, fails or hangs, alarms that may be refused, configurations accepted, cut (one to 0) and refused | holds |
| `device_late_motion` | Is motion always noticed? | 1 access point, clock to 12, no faults | violated |
| `device_loss_flag` | Does a message say whether the one before was lost? | 1 access point, clock to 12, modem that may not start | violated |
| `serial_tx` | Is there always somebody to send what is in the ring, and does it leave in order? | ring of 4 places, 2 values of a byte, interrupt anywhere | holds |
| `serial_rx` | Is the receiving ring a queue, and `readable` right? | ring of 5 places, up to 3 unread bytes | holds |
| `http_session` | Do the calls end, is a message sent whole and at most once, does a report recover from an earlier failure? | up to 3 failures per call, late answers included | holds, but for what late answers break |
| `http_send_fails` | Does `true` mean sent? | 1 failure | violated |
| `modem_start` | Does the start-up survive a failure, does a report go out over the network and under the identity it is meant to, does the run end? | the code's numbers of attempts, 2 access points, 2 refusals or losses, 2 late answers, 1 unsolicited line, `closed` among them | holds, as far as answers are in time |
| `acc_fields` | Do the settings disturb each other, and is a field read as it was? | all 160 fields, each alone with all its registers, 4 contents of a byte | holds |
| `acc_detections` | Is a detection answered with 0 active, what silences it, is a rate kept? | any two detections, the rates of one sensor, the other functions; 1 failure or reset | holds |
| `accelerometer` | Does motion wake the tracker only if asked to, is it armed when it stands by? | 3 failures or resets, 2 thresholds | holds |

Why the bounds are enough. `BackupRegs` treats registers alike and halves
as vectors of independent bits: two of each show every order, and a mixed-up
half or register is visible. `Device` needs a send interval of
several sleeps, motion in different phases of it, the second report, and a
change of configuration: with a default sleep of 2, an interval of 4 and a watchdog
of 2 ticks, 10 ticks hold a watchdog reset, three complete sleeps, a report under a
new configuration and a silence beyond the bound of 8. The server may answer a sleep that
the bit field cuts to 3 or to 0 ticks (`WakeupRange = 4`), or one that is refused.
All exceptions the properties name (an alarm of an earlier run, a refused alarm,
a sleep cut to 0) are reached; what lies beyond is covered by the proofs, which do
not bound the clock. `MaxTime` is the only bound of the model itself (`Tick`,
`Horizon`). A ring of 4 or 5 places wraps within a few bytes, and
`Backlog = Size - 2` is all a ring without a check for overrun can hold: with
one byte more it looks empty (the hazard at `MyBuffer.h:159`). Three failures
allow the longest chain of retries of `HttpSession`, three connections.
`ModemStart` has the code's own numbers of attempts but for the fixes; the
start-up fails for good with two failures, which `MaxFaults` and `MaxLate` allow,
and one late OK is enough to shift all answers. `Lsm6dslDriver` calls a function
at a time on any contents, so a field with its registers is a complete instance
of it, and the four contents tell each bit of a byte from its neighbours.
`SensorUse` needs two detections for one to silence another, and `Accelerometer`
three failures for the claim that two are survived, with as many standbys as one
likes: none of the two bounds their number.

Deadlock is checked in all runs but those of `HttpSession`, which ends with the
return of `HttpPost`; `ModemStart` ends with `Done`.

### Fairness

`Device` has none: its properties say what may not happen. That a run comes to its
end is shown where it is decided, in the modem's calls (`CallsEnd`, `RunEnds` of
`ModemStart` for both access points) and in the flush. `BackupRegs`: of the steps
of the flush. `SerialTx`: of a program that has begun to write, of the handler, of the transmitter and of the delivery of an enabled interrupt, which
the hardware keeps pending. `PutBegin` is not fair: nobody has to write.
`HttpSession`: of the program, whose waits all have time-outs, and of the
delivery of what the modem has sent; the modem and the server owe no answer.
`ModemStart`: of `DriverStep`, the program, only: every wait has a time-out.

### Disagreements between code and text

- `device_late_motion`: the check's time is taken at the start of a run and the
  alarm set at its end. Motion in the difference is taken for the alarm.
- `device_loss_flag`: `SetLogErrSent` is called only after a successful `init`
  (`app/app.cpp:420`). A report given up because the modem did not start is not
  flagged in the next message, against "1 bit previous message lost"
  (`app/comm/cloudcomm.h:16`) and `README.md:58`. It is tried again all the same
  (`LostReportRetried`).
- `http_send_fails`: `HttpPost` returns true although `SEND OK` did not come.

### Known limits

What the properties that hold except, or say only under a condition:

- Two ways to sleep for good: `App::Run` ignores a `SetAlarm` the RTC refuses
  (`app/app.cpp:427`), and a `wakeupTime` of 64, which `config.cpp:137` accepts, is
  cut to 0, so that the alarm may be past before standby begins, though `config.h:14`
  says "6 bits  minutes (1 - 63)". `StandbyHasWakeSource` and `BoundedSilence` name
  these two (`refused`, `ShortSleep`) and show that there is no third.
- After a refused alarm, one of an earlier run may come early and pass for motion
  (`AlarmIsNotMotion` excepts the cause `stale`).
- `put` preempted: between `_wloc++` and `_wloc %= (_size-1)` the index is one past
  the end; an interrupt there sends the stale ring (`FifoUnlessPreempted`).
- A late prompt: `AT+QISEND` repeated after 500 ms becomes payload if the prompt
  of the first was on its way (`IntactInTime`).
- A late answer to the call for the configuration may be taken for one to the report
  (`PostRecovers` excepts late answers).
- A late OK: `setConnection` takes any OK for its own, so that a command that was
  refused passes for accepted (`OnAskedNetwork` excepts `late > 0`).
- `+QIURC: "closed",0` read with the answer to `AT+COPS?` passes for a GSM network
  (`BG96.cpp:176`): once such a line was sent, `OnAskedNetwork` is about the
  access point only.
- The first 16 characters after `AT+CGSN` are the identity, a result code the
  modem sends by itself included, and without an answer it is NULL
  (`IdentityKnown`).
- Two failures at the start-up are too many: `init` resets the modem after the
  second failed attempt only, each attempt waits for a `RDY` that comes once per
  reset, and an OK to the last try counts as none (`InitSound`).
- `W_PedoThreshold` may leave the second register page open and report success
  (`EnabledIsActive`, `RateKept`).
- `R_FIFONumOfEntries` and `R_FIFOPattern` put together bytes of two moments
  (`ReadNotTorn`); the program does not call them.
- Detections of one group switch each other off (`OnlyItsGroup`): `App` uses one
  of each group only.
- A failed `init` of the accelerometer leaves uninitialised flags by which
  `enable_x` and `disable_x` decide (`RateKept`).
- No property covers the handle of `socket_open` that early returns do not delete
  (`httpclient.cpp:35`), the configuration that is asked for again over the second
  access point (`app.cpp:402`), a `close` that answers -2 (`BG96.cpp:826`), or the
  hazards of `PROJECT.json` that have none.

## Proofs

The theorems hold for every value of the constants that satisfies the named
assumptions of the modules. What they add is named here.

**`BackupRegsProofs`.** `TypeCorrect`, `FlushInvariant`, `NothingLost`
and `Refinement` (`Spec => StoreSpec`). The inductive invariant `IInv` adds to
the types what every hardware register holds at each step of the flush
(`FlushProgress`): its half of a register that was written and passed, the upper
half for the one in progress, and otherwise what `StandBy` found; with it every step
of the flush is a stutter of `BackupStore`, and the last one is its commit.
The facts about bits are three lemmas (`HalvesType`, `JoinType`, `JoinSplit`).

**`DeviceProofs`.** `TypeCorrect`; `AlarmNeverMistaken`, `FlagStored` and
`QuietSpared` from `MotionInv`; `UsesStore`; `LostRetried`. None has a hypothesis
on alarms, the modem or the configurations.
`AlarmIsNotMotion` is not inductive: it speaks of the moment after the wake-up,
but depends on what was stored one standby before. `MotionInv` says for each
place of `App::Run` which time of the check the registers hold, that an alarm the
RTC accepted is later than that time by a sleep of the stored configuration, and
that the flag and the state belong together.
`LostRetried` (`LostReportRetried`) comes from `OverdueInv`: while a report is
owed, neither copy of the registers has a time of the last report that is less
than `overdue` ago, however often a reset goes back to the stored one.

`SilenceBounded` and `AlwaysWokenUp` (`StandbyHasWakeSource`) come from
`SilenceInv`, which bounds for each place of `App::Run` how long ago the run, the
shutdown or the sleep began, and places an accepted alarm of a sleep longer than
the shutdown between the end of the shutdown and the deadline. A refused alarm and
such a short sleep are in the statements, not assumed away: only behind one of
them is the deadline passed, and only until the next decision.

**`SerialTxProofs`.** `TypeCorrect`, `Handed` (`NoStrandedByte`),
`NoContention` (`OneSender`) and `QueueUnlessPreempted` (`FifoUnlessPreempted`),
for every size of ring, with the interrupt
anywhere. `NoStrandedByte` speaks of the program at rest only; the invariant
`Handover` says who owns the transmitter at each step of `prime` and `txIrq`: the
handler runs only with its interrupt enabled, `prime` keeps it disabled from
detaching to attaching, and a byte on its way out has somebody to send the next.
That the index is wrapped needs the range of a remainder (`RemainderRange`).
The queue needs a ring that is not overrun (`NoOverrun`) and `QueueInv`: within an
undisturbed `put` the handler does not run, the index in the ring is the one that
was read, or one more before it is wrapped, and there is room. A byte then enters
the queue at the later of its two steps, the store of the byte and that of the
index, whichever the compiler puts last (`PutQueues`); `UnwrappedAppends` and
`WrapMovesNothing` are about the moment when the index is past the end, which
the remainder hides from `Content` unless the read index is 0 then: a full ring.

**`SerialRxProofs`.** `TypeCorrect`, `ReadableRight` (`ReadableIffUnread`) and
`Refinement` (`FifoSpec`), for every size of ring as long as it is not overrun
(`NoOverrun`, that is `Backlog <= Size - 2`): with one byte more the ring looks
empty. The invariant says that the history counts the places between the indices
(`Indices`). The remainders go first: `Length` and `WrapValue` replace them by
cases, after which `PutAppends`, `GetTakesHead` and `WrapStutters` are about the
places of an array; `FreePlace` is what makes it a queue, the place the interrupt
writes is none still to be read. (`SerialTxProofs` has these lemmas, too: at
`Size - 2` bytes both directions are at their limit.)

**`ModemStartProofs`.** `StartsSoundly` (`InitSound`), for any numbers of attempts,
failures, late answers and unsolicited lines, as long as `init` gets to its reset
(`EnoughStartups`; it has five attempts). `InitSound` speaks of the end of `init`
and is far from inductive. `EchoKnown` says what may still be on its way: a modem
that repeats commands has sent no OK since its RDY, so an OK that ends a start-up
is the answer of one that has stopped. `FailuresCounted` is the count: the first
start-up and the first after the reset have their line on its way as long as the
modem has not failed since, and any other follows a failure (`Allowed`,
`Expected`). One lemma per action of the start-up preserves them; the steps after
it need only that failures are never forgotten and echo is never switched on
(`LaterStep`).

`ReportsIdentity` (`IdentityKnown`) is proved on top of the above. Without late
or unsolicited lines nothing is left after the flush of the start-up, so what is taken for the IMEI is the IMEI or a refusal, which no OK
follows (`Undisturbed`); without failures an OK is on its way until it is received
(`Unharmed`).

`TypesKept` (`TypeOK`) is not by itself inductive: that a command is left to take
and an access point to try follows from what `setConnection` has still to do
(`ToDo`) and from the place (`Places`). `ReportsOverAskedNetwork`
(`OnAskedNetwork`), for any list of access points and any failures, comes from
`NetInv`: while no answer is late, every command is sent when only unsolicited
lines are on their way (`OnlyUrc`) and after the OK of its answer only such lines
follow (`UrcAfterOK`), so an OK that is read belongs to the command before it; hence
the context has the access point asked for from the last command of
`setConnection` on, the one that must not fail, the technology from the answer
to `AT+COPS?` or the OK of `AT+COPS=` unless a socket was said to be closed
(`ClosedKnown`: such a line is on its way only if `closed`), and the context in use
from the OK of `AT+QIACT`.

**`HttpSessionProofs`.** `TypeCorrect` (`TypeOK`), `ReportedOnce`
(`NotSentTwice`), `SentWhole` (`IntactInTime`) and `ReportRecovers`
(`PostRecovers`), for any number of failures and with late answers. Each has an
invariant of its own over `TypeInv`:

- `HeaderInv` for `NotSentTwice`. A property of what the modem has handed to the
  network cannot be inductive, as a message half written will be handed over
  later. The header of a message is written at one place, and `Unsent` names the
  places before it; there no header is with the modem or the network, and after it
  the driver never comes back to them.
- `IntactInv` for `IntactInTime`. The modem waits for payload only if its prompt
  is on its way, once, or was read and the parts are being written (`InStep`).
  Without `late` a repeated `AT+QISEND` finds a modem that has sent no prompt.
- `RecoverInv` for `PostRecovers`. As long as nothing fails in the report, what is
  on its way is at each place what the driver waits for, besides unsolicited
  lines (`Carries`), and a socket that an earlier call left open is met with 563 at
  the first attempt only (`Connecting`).

**`Lsm6dslDriverProofs`.** `TypeCorrect`, `Refinement` (`Spec => StoreSpec`) and
`ReadsWhole` (`ReadNotTorn`), for any fields whose masks do not overlap
(`PieceAssumption`, `MaskAssumption`; TLC evaluates them for `Lsm6dslFields`).
For the refinement `IInv` adds that the byte in a writer's hands is what the
register still holds, so that writing it back changes the piece only
(`WrittenBack`, `Untouched`). For the readers `RInv` says that the pieces read
are those the field had at one moment that is in `seen` (`ReadSoFar`).

**`SensorProofs`.** About `SensorUse`, for any sets of calls
(`FocusesAssumption`) and failures (`MaxFaultsAssumption`): `UseTypeCorrect`
(`TypeOK`), `RatesAreKept` (`RateKept`), `EnabledDetects` (`EnabledIsActive`) and
the action property `SilencedByItsGroup` (`OnlyItsGroup`).

- `RateInv`: the rate asked for is in the register while the sensor is on, in the
  object while it is off, and on its way while the sensor is being switched
  (`Kept`). It needs what each function has still to do about rates (`TodoShape`),
  that `init` has cleared a rate or will (`InitSets`), and that the first error ends
  a function (`EndsAtError`).
- `EnableInv`: while a detection is being enabled, each switch it needs is on or
  will be switched on, and the pages come before what is written on them.
- `GroupInv`: an access that will switch off what a detection needs belongs to the
  disabling of its own group.

About `Accelerometer`, for any thresholds of the configuration's field
(`ThresholdAssumption`): `AppTypeCorrect` (`AppTypeOK`), `SilentWhileWorking`
(`SilentUnlessArmed`) and `ReadyToStandBy` (`ReadyForStandby`).

- `PlanInv`: what `App` has still to call is the rest of the sequence it is in.
- `AppTodo`: none of those calls opens the second register page, and at the start
  they only switch interrupts off.
- `SilentInv`: if interrupts are on while the program starts, the failures so far,
  the attempts left to switch them off and the one under way are three at least.
  The property counts failures only and says nothing of the start.
- `ReadyInv`: without a failure each setting of `AccInit`, `AccDeinit` and
  `AccEnableInt` is made once its call has passed (`Past`), whatever the device held
  before. It uses `RateInv` for the rates, which `init` makes known.

Only model-checked: liveness (`RunEnds` of `ModemStart`, `FlushTerminates`,
`Drains`, `CallsEnd`), which needs fairness and ENABLED and is beyond the prover. Every
safety property of the runs that hold is stated by a theorem.

## Plan

In this order, the most important first:

1. done: `BackupStore`, `BackupRegs`, `Device`, their proofs.
2. done: `SerialTx`, `SerialRx`; `AtLink`, `HttpSession`.
3. done: `ModemStart`; the accelerometer from its registers to `App`
   (`Lsm6dslFields`, `FieldStore`, `Lsm6dslDriver`, `Lsm6dslSensor`, `SensorUse`,
   `Accelerometer`).
4. done: the proofs of every safety property the runs check, `SensorProofs`,
   `HttpSessionProofs` and the sending ring as a queue last.

Further work, not begun: a sequence of access points in `HttpSession`, and the
outcome of a call as an abstract specification that `Device` uses (`SendData`,
`UpdateConfig`) and `HttpSession` implements, with the refinement proved from
`HeaderInv` and `RecoverInv`; pure algorithms against reference definitions (the
reassembly of the configuration in `HttpGet`, `UpdateConfig`'s search for its
values, the matching of `vrecv`).

## Not modelled

Of the accelerometer: the functions that only read and convert data (axes,
temperature, sensitivity, event and orientation status, step counter, the range
in use), the register driver's multi-byte `Get_` functions, the coefficients of
its sensor hub, and the SPI variant of the bus; none changes what is modelled, and
the program uses only `get_temp` of them. `Watchdog`
(`system/dev/watchdog.*`), which the program does not use; MQTT, which it does
not instantiate; parsing of GPS fixes and of the configuration's text (data, see
the plan); logging; `main`, which only calls `App::Run`; drivers under mbed and
the HAL, modelled from their use as external where a module needs them. The
interfaces of the vendored sensor library that nothing here implements
(`ST_INTERFACES`, the stepper motor among them) have no behaviour.
