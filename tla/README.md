# climate-node in TLA+

A verification project for the firmware in this repository: a dew-point
controller for an anti-condensation heater, with a Modbus RTU interface, on an
STM32F103. It models the control automaton and what surrounds it (crash
isolation, configuration, diagnostics, scheduler, watchdog, interrupts, Modbus,
UART, sensors, logger), checks the models with TLC and proves most of the safety
properties with TLAPS.

## 1. Inventory

All paths below are relative to the repository's root.

| Part | Source | State it keeps | Operations | Correct when |
|------|--------|----------------|------------|--------------|
| Control automaton | `src/core/controller.c` | configuration, filter, streaks, relay request, state, crash counter, brown-out flag | `ctrl_init`, `ctrl_init_extended`, `ctrl_update`, `ctrl_force_emergency_shutdown` | the heater is requested only in RUN, by the hysteresis; every run of bad samples becomes a fault and every fault can end |
| Moving average | `src/core/filter.c` | ring, running sum | `ma_init`, `ma_update` | it is the mean of the latest five samples |
| Dew point | `src/core/dewpoint.c` | none (table) | `dewpoint_calc_cd` | no overflow, no failure in range, follows temperature and humidity |
| Crash isolation | `controller.c`, `platform_stm32f1.c`, `main_mcu.c` | backup register, reset flags | start-up | three watchdog resets in a row lock the heater, and nothing else does |
| Application | `src/app/app.c` | configuration, sampling grid, remembered relay, tickets | `app_init`, `app_task`, `app_update_config`, tickets | the pin follows the automaton; a configuration that was written is in force |
| Storage | `src/service/storage.c` | two flash slots | load, validate, save | an erased or damaged slot falls back to the next and then to the defaults |
| Scheduler | `src/app/scheduler.c` | periods and due times | register, run once | a fixed cadence through clock wraps; nobody starves |
| Superloop, watchdog | `src/app/main_mcu.c` | tickets, watchdog counter | loop | no node whose loop turns is reset |
| Modbus request path | `src/service/modbus_server.c`, `modbus.c`, `main_mcu.c` | event, parsed request, DMA ring | interrupt callback, task | every request that arrives in one piece is answered, by its own answer, which is true; nothing is written that was not asked for; a damaged frame is refused |
| UART, RS-485 | `src/bsp/stm32f1/uart.c` | DMA positions, transceiver direction | IDLE interrupt, send, completion interrupt | every byte arrives once and in order; the bus is driven exactly while sending |
| Start-up | `src/bsp/stm32f1/startup_stm32f103.c` | vector table | | each handler is reached by its interrupt |
| Diagnostics | `src/core/diagnostics.c` | counters | record | every fault the automaton falls into is counted once |
| Logger | `src/service/logger.c` | character ring | write, task | a bounded queue: in order, losses counted, lines cut only at their ends |
| Registers | `src/service/modbus_regs.c`, `main_mcu.c` | copy of the application's values | synchronise, read, write | one answer shows one instant; signs and refusals |
| Sensors | `src/driver/` | step counter | read | what was measured is accepted if and only if it is good, undistorted |
| Host runner | `src/app/main_host.c`, `src/platform/host/` | flash mock, clock | | demonstration; it never writes a configuration |

**How they interact.** `main_mcu.c` runs a cooperative superloop: the scheduler
calls the control task (`app_task` -> sensor -> `ctrl_update` -> relay pin), the
logger and the Modbus task; a watchdog is fed when the control and the Modbus
task have both left a ticket in one iteration. Interrupts run between any two
instructions of a task: the millisecond tick, the IDLE interrupt of the UART
(which parses a frame in place, in the DMA buffer, and leaves an event for the
Modbus task), the transmit-complete interrupt (which turns the transceiver
round) and the supply-voltage interrupt (which forces the automaton into SAFE
and the relay pin to its safe position). A Modbus write replaces a field of the
configuration, saves it and re-initialises the automaton. A reset leaves flags
from which start-up derives a cause, and a crash counter in a backup register.

**What is hard.** The brown-out interrupt inside the sampling task; the mailbox
between interrupt and task; counters of eight bits; a 32-bit clock that wraps;
two time grids that must meet for the watchdog to be fed; crash counting over
resets of different causes; four copies of one relay (wanted, remembered,
reported, pin) and three of one configuration. `PROJECT.json` lists each of these hazards
with its line and the properties that watch over it.

## 2. Modules

| Module | Models | State and actions |
|--------|--------|-------------------|
| `SampleTypes` | the sample of `types.h` and what the controller accepts | |
| `Controller` | `controller.c` | the fields of `controller_t`, `backup` (BKP_DR1), `relay_pin`. One action per path of `ctrl_update`: `RefuseWhenLocked`, `RejectSample`, `AwaitRecovery`, `WarmUp`, `MathFault`, `Regulate`; one per branch of `ctrl_init_extended`; `CtrlInit`; `CtrlForceEmergencyShutdown` |
| `SampleDebounce` | abstract: what fault debouncing promises, on the sequence of samples | |
| `ControllerDebounce` | `Controller` with a history of its samples, mapped to `SampleDebounce` | the actions of `Controller`; `taken` is the history |
| `FaultIsolation` | `Controller` under sequences of resets with their hardware flags | `CrashReset`, `OtherReset`, `Running`; `in_row` and `only_crashes` remember the past for the properties, `since_power_on` bounds it |
| `ControllerProofs` | theorems about `Controller`, `ControllerDebounce` and `FaultIsolation` | |
| `Storage` | `storage.c` and the firmware's flash, as operators | |
| `ClimateApp` | `Controller` + `Storage` in `app.c`, in the firmware, with Modbus writes | `Start`, `Sampling`, `ModbusWrite`; `written` remembers, for a property, that a write was accepted since the start |
| `NodeDiagnostics` | `ClimateApp` with `diagnostics.c` beside it | `NodeStart`, `ControlTask` (a sample and its record), `Intervention` (a write, which nobody records); `entered` counts the faults the automaton falls into, `missed` says that one was over before a sample could show it |
| `NodeProofs` | theorems about `NodeDiagnostics` | |
| `Scheduler` | `scheduler.c` on a clock modulo `ClockMod` | a pass is one step per task, ticks in between |
| `Cadence` | abstract: the scheduler without a clock that wraps | |
| `SchedulerProofs` | theorems about `Scheduler` | |
| `Superloop` | `main_mcu.c` in time: the control grid, the sampling grid, tickets, watchdog | `ControlTask`, `CommTask`, `FeedAndSleep`, `WakeUp`, `Elapse`, `Hang`, `WatchdogReset` |
| `SuperloopProofs` | theorem about `Superloop` | |
| `Emergency` | `app_task` and `ctrl_update` broken up at every access shared with the brown-out interrupt | one action per store or load |
| `EmergencyProofs` | theorems about `Emergency` | |
| `Interrupts` | the vector table | `Raise`, `Take`, `Return` |
| `Registers` | `modbus_regs.c`, as operators on a register map | |
| `ModbusMailbox` | interrupt callback, `modbus_task`, the ring, the registers, one master | one action per shared access of the task (`Poll`, `TestAgain`, `SyncRegisters`, `RespondToRead`, `RespondToOther`, `ApplyWrite`, `RespondToWrite`, `ClearEvent`), `IdleInterrupt`, the application (`Elapse`, `Measure`) and the master (`Ask`, `Broadcast`, `Retry`, `Answered`, `GiveUp`); `instants`, `orderly` and `torn` remember the past for the properties |
| `MailboxProofs` | theorems about `ModbusMailbox` | |
| `ModbusFrame` | CRC, parsing and building of frames, as operators; a line that turns bits round | `Flip` |
| `UartRx`, `UartTx` | reception and transmission in `uart.c` | hardware steps are actions of their own |
| `Uart` | the two on one bus: the transceiver hears only while it does not drive, one interrupt waits for the other | `Hear`, `ServeIdle`, `Send` |
| `UartProofs` | theorems about `Uart` | |
| `Sensors` | SHT31, stub and mock behind the sensor port, up to the sample that `ctrl_update` is given | `ReadSht31`, `ReadStub`, `ReadMock`, `Forget` |
| `Logger` | `logger.c` between the tasks that log and the platform | `BeginLine`, `WriteChar`, `LoggerTask`, `Flush` |
| `CharFifo` | abstract: a bounded queue that counts what it drops | |
| `DewPoint` | `dewpoint.c` as operators, on air that gets damper or warmer | |
| `CDivision` | the truncating division of C | |
| `MovingAverage`, `SlidingWindow` | `filter.c` and the window it implements | |
| `PartsProofs` | theorems about `Logger`, `MovingAverage`, `Sensors`, `DewPoint` and `ModbusFrame` | |

`MC*` modules give the constants that a configuration file cannot express; `MCParts`
puts five parts that share nothing side by side, and each behaviour moves one of them.
In several modules a definition marked "Mutant" stands in front of the one it
varies: the definition as a plausible bug would have it. No specification uses
them; each exists to show that a property would notice that bug, and
`PROJECT.json` pairs it with the run and the property.

**Abstractions.** `Controller` reduces the filter to its number of samples and
the temperature and dew point to their difference, chosen freely at each
decision; `MathFault` is possible at any decision although `DewPoint` shows it
unreachable from accepted samples. Statistics that nothing reads back
(`sample_count`, `fault_count`, the Modbus counters) are left out, and so are the
counters of `NodeDiagnostics` other than `fault_events`. `Storage`
keeps of an image only whether it validates. `ClimateApp` has no brown-outs: the
supply-voltage interrupt falls into the functions of `app.c` and `controller.c`, between any
two of their stores, and what it leaves behind there is the subject of `Emergency`,
which breaks these functions up; in `ClimateApp` they are single steps, as they are for one
another in the superloop. (As built, the interrupt is not reached at all: `Interrupts`.)
`Controller`, which has the shutdown among its operations, takes it between two
updates; `Emergency` does not. `ClimateApp` is the firmware only: on the host nothing calls
`app_update_config`, and `main_host.c:140` erases the flash before it is read.
`ModbusMailbox` counts the ring in words of four bytes, half a request, and keeps of a frame the
function and one word for each four bytes of it. As 256 is a multiple of 8, no frame
reaches across the edge as long as all are requests of eight bytes; a frame of another
length, of the same master or for another node, shifts the ones behind it until one
does, and that one is refused in two parts (`Received`). Frames whose length is not a
multiple of four shift the ring by less than a word; that adds ways to be torn and no new
outcome. `OTHER` is a frame for this node of an unsupported function; frames of functions
3 and 6 with a wrong length, which the parser refuses in the same place, are not apart from it. Positions byte by
byte are in `UartRx`, what the parser makes of bytes in `ModbusFrame`, where a
byte is the set of its bits. A character of `Logger` is the number of its line and its
place in it. Every
module except `Interrupts` takes the interrupt handlers to be reached as their
names say; `Interrupts` shows which ones are not.

## 3. What the runs check

Runs that pass:

| Run | Question | Bounds and why they are enough |
|-----|----------|--------------------------------|
| `controller` | Do the safety invariants hold under any order of samples, re-initialisations, resets and brown-outs; do good samples lead to RUN; do wrapping counters implement debouncing on the samples themselves? | The firmware's filter size; streak counters modulo 5, so that they wrap within a few samples, with thresholds 1, 2, 3 and 4, the largest; a history as long as the largest threshold; margins on both sides of each threshold; one sample per reason for refusal. TLAPS removes these bounds for the safety part |
| `isolation` | When does crash isolation lock, and what repays it? | Seven crashes, below the wrap of the counter: enough for the lock, its persistence and repayment twice. Two properties are about behaviours with no other causes than watchdog and power-on |
| `climate` | Does the pin follow, is what was written in force, is every fault counted? | A filter of two samples; writes that narrow, invert and order the margins, change the period and are refused; flash erased, damaged, and with either slot in use; restarts from every cause at any time; a count of fault events modulo 3, which wraps |
| `scheduler` | Cadence through wraps; starvation | A clock of 5 bits, so that wraps are frequent against periods 3 and 5; a pass or gap longer than a period |
| `superloop` | Is a turning loop always fed in time? | Periods scaled by 100 (boot period 10, timeout 20), in two regimes: every written period up to the boot period with an iteration per unit; stalls of 9 units with the boot period |
| `emergency` | What does a brown-out inside the task or a configuration write lead to? | Every store and load apart, stores of one path in any order, brown-outs and writes as often as they come |
| `mailbox` | Are requests kept, are answers true, is only written what was asked? | Words of two bits, so that the clock carries from its low to its high register; a ring of four words, room for two requests, enough to confuse one with the next, and frames of one to three words, so that requests begin at every word and reach across the edge; reads of three registers across the carry, of none, beyond the map and of both margins; writes to a read-only register, of a negative margin, of the refused period and of one that would be negative if it were signed; a patient master with and without foreign traffic and with builds that read the event once or twice, an impatient one alone with the node |
| `uart` | Bytes across the edge of the ring, direction of the transceiver | Ring of 8, frames of 2, 3 and 7 bytes: every alignment. A frame arrives in one step, so a transmission may begin before and after it, also before its interrupt, but not within it. Lengths of an answer, a frame and a logger chunk |
| `parts` | Dew point: overflow, failure, monotonicity? Filter: a window? Sensors: is accepted what is good? Logger: a queue? Frames: is damage found? | Dew point: the whole range in steps of 0.5 degC and 0.5 %, its ends and those of the table included. Filter: size 5 and the extreme temperatures, with a value whose mean truncates. Sensors: the SHT31's words in steps of 0.25 degC with both sides of every limit; 64 reads of stub and mock, beyond the stub's cycle of 21 and the mock's faults; their counter wraps after them, and the stub's product with it before its remainder is taken. Logger: a ring of 5 and chunks of 2, lines shorter and longer than the ring, three lines. Frames: two requests with checksums from outside and three answers, every combination of up to three flipped bits. TLC's integers are 32 bits wide and report overflow. Each part comes to its end, so this run does not look for deadlock |

Runs that find a violation: each shows where the code does not do what the
repository's documents or comments say. `PROJECT.json` (findings) quotes both sides.

| Run | What it shows |
|-----|---------------|
| `climate_safe_mode` | a Modbus write ends the permanent Safe Mode |
| `superloop_long_period` | a sample period above the boot period makes the watchdog reset a healthy node |
| `interrupts_tick` | the first system tick ends in the default handler, an endless loop |

**Conditions that the passing properties state, and what lies behind them.** Where a
property of a passing run has a condition, the behaviour outside the condition
is a difference between code and documents or comments of its own:

- `LockNeedsThreeInRow` and `RunForgives` exclude resets of other causes than
  watchdog and power-on. Such a reset clears the crash counter in RAM only
  (`controller.c:136`), and RUN repays the register only if the counter in RAM is
  not zero: crashes that are not consecutive (README.md:67) add up and lock the
  node. A cold start that leaves PINRSTF set is taken for such a reset
  (`platform_stm32f1.c:89-90`).
- `ThreeInRowLock` is checked below the counter's wrap: the 256th watchdog reset in
  a row takes the counter to 0 and unlocks the node.
- `WrittenConfigInForce` says of the time before the first write that the defaults are in
  force whatever the registers report: `main_mcu.c:280` initialises the automaton again from
  the defaults, so that the firmware starts with those instead of the stored
  configuration ("Init controller with loaded config", `app.c:20`). After a write it is
  about ordered margins: others are accepted and reported, and the default margins are in
  force. The firmware's save writes nothing (`platform_stm32f1.c:272-277`) and reports
  success, so that what was written is gone with the next start.
- `SafeFromTheNextRun` and `BrownOutSettles` speak of the next run of the task, a
  sample period later, and not of "microseconds" (README.md:66): a task that is
  interrupted between its copy of `relay_on` (`app.c:119`) and the output (`app.c:122`)
  switches the heater on again. They also exclude configuration writes after the
  brown-out, which clear `power_is_dying`.
- `PinAwaitsSample` allows the pin to be on while `relay_on` is off: from a configuration
  write until the next sample, when register 0x0003 reports `relay_on` and not the
  heater.
- `NoRequestIsLost` excludes foreign traffic and builds that load `srv.event` twice:
  `modbus_task` clears the event some instructions after it has tested it
  (`main_mcu.c:253`), and a request that arrives in between is dropped, although
  `main_mcu.c:328-329` promises that it is picked up. It also excludes requests that reached
  across the edge of the ring (see `NothingLostOrReordered` below), which are dropped even
  with no other traffic. It includes a master that
  repeats its request: a copy may be cleared with the original, but then the
  original's answer is under way.
- `AnswersAreTrue` and `WritesAreAsked` are about *orderly* masters: those that wait for the
  answer or a timeout, and impatient ones as long as they repeat the same request. One
  that drops its request and asks something else of a node that has not come to
  rest can have the words of the new request taken for those of the old: the
  task reads `srv.request` and the ring once more after it has chosen the function,
  so that a read's words are written to a register. A broadcast is answered like any
  request; a master that leaves the turnaround delay is not
  disturbed by that.
- `AnswersAreTrue` lets a read show values of any one instant since the request. The
  uptime itself is 0 or falls when the clock wraps after 49.7 days
  (`diagnostics.c:81-92`).
- `FaultsAreCounted` allows one fault to be missing, the lock of a start by the crash
  isolation: `diag_init` comes after it and the first sample may be a second away. A write
  before that sample ends the lock, and it is never counted. Brown-outs, which lock
  behind the back of the diagnostics too, are not part of this model.
- `LinesCutOnlyAtEnd` is about the host. On the STM32 `platform_write` ignores that the
  channel is busy (`platform_stm32f1.c:237`), and the chunk it was given is gone,
  uncounted by `logger_dropped_chars`.
- `OnlyGoodDataIsAccepted` takes a transfer to succeed or to fail. The two CRC bytes of the
  SHT31 are read and not looked at (`sensor_sht31.c:52`), so noise on the I2C bus is
  accepted as long as it is in range. The humidity check at line 85 is never true.
- `DamagedFramesAreRefused` is for three flipped bits in frames of at most eight bytes; a
  CRC of 16 bits promises no more than that without naming the pattern.
- `OnlyHangsAreReset` excludes stalls of two units or more *together with* a shortened
  period: the gap between two feedings can then reach twice the boot period, which
  is the nominal timeout.
- `NothingLostOrReordered` lets a frame arrive in two chunks. The position in the DMA
  buffer is not reset between frames, so every frame longer than a byte is torn at its
  edge sooner or later, contrary to `uart.c:195-196`; the parser refuses both
  parts. A burst of exactly 256 bytes is never delivered.

### Fairness

- `ControllerDebounce`: weak fairness of `HUpdate`, because the superloop samples as long
  as the processor runs; `beat` makes a call that changes nothing a step, so that
  automaton and hypothesis can speak of it. Good samples are a hypothesis of the property itself
  (`HealthySensorReachesRun`), not an assumption of the specification.
- `Scheduler`: the loop keeps calling `sched_run_once`, and ticks keep coming.
- `Emergency`: the task runs again and again. `Uart`: the hardware sends, and the
  interrupt of channel 4 is served.
- `Interrupts`: the processor takes pending exceptions and executes handlers.

The other specifications state no fairness and are checked for safety only.

## 4. What is proved

`ControllerProofs` proves, for every set of configurations, samples and margins,
every filter size and every counter width above 3 (`ConstantsAssumption`):

- `TypeCorrect`: the type invariant, which includes that `ctrl_init` repairs
  every configuration (lemma `SanitisedIsSane`);
- `RelaySafety`, `HysteresisCorrect`, `FaultsAreAnswered`,
  `RecoveryCountBounded`: the four safety invariants.

The invariants are proved together, as `SafetyInv` under `TypeOK`: none of them is
inductive alone. A bad sample below the threshold leaves the state and the relay
as they are, so it keeps `RunFollowsHysteresis` only because the filter is known to
be full; `FaultsAreAnswered` is re-established by a step that leaves a fault
because good samples cut the streak; and a refused update keeps the relay safe
because `DyingMeansSafe`, the fifth part, has a dying automaton in SAFE whenever an update
begins. The proof has a case for
every action, with a lemma for the initialisers and one for `ctrl_update`, which
`NodeProofs` uses again.

`EveryGoodSampleCounts` is the part of `HealthySensorReachesRun` that needs no fairness:
`GoodSamplesNeeded` counts the samples that confirm the end of a fault and those that fill
the filter; every good one lowers it by exactly one until it is zero, in RUN or
SAFE, and it is never more than `recovery_threshold + MA_FILTER_SIZE - 1`. The count of good
samples does not wrap on the way, because `OkStreakOnlyInFault` keeps it below the threshold.

`StreaksDebounce` is the refinement of `SampleDebounce`, for every history at least as long
as the largest value of a counter (`HistoryAssumption`). `StreakInv` says where a counter
is the exact length of its streak: the bad one outside SENSOR_FAULT and the good one inside
it. Elsewhere it may wrap, and `SafetyInv` shows that no wrap happens where it counts.

About `FaultIsolation` the same module proves, for every filter size, counter width and set of resets,
under the hypothesis that there are fewer watchdog resets between two recognised
power-ons than the crash counter has values (`MaxCrashes < UINT8_MOD`; with more, the
counter wraps and the lock opens):

- `ThreeCrashesLock`: three watchdog resets in a row lock the output;
- `CrashesAreNotForgotten`: outside RUN the register remembers every crash in a row;
- `NothingElseLocks`: with no other causes than watchdog and power-on, nothing less
  locks it;
- `RunRepaysCrashes`: and RUN leaves no crash in the register.

The strengthening, `IsolationInv`, relates four counts: the crashes in a row, the
register, its copy in RAM (equal to it, or cleared by a reset of another cause) and
the crashes since the power-on, which bound the register away from its wrap.

`NodeProofs` first shows that the application may be reasoned about with the automaton's
lemmas: `NodeTypes` is its type invariant, and `AutomatonIsSafeInNode` says that the
safety invariants of `Controller` about samples and decisions hold inside the application too, for a filter of any
size, although a Modbus write there replaces the configuration of a running automaton
and what the flash hands over is sanitised first. `EmbeddedInv` is the conjunction.

It then proves, for every set of samples, margins, stored images and writes and, but for
the last, a filter of any size: `PinIsBehindByOneSample`, `PinFollowsTask`, `WrittenConfigIsInForce`
and `FaultsCounted`. Three invariants carry them. `HeaterInv` says what the sampling task relies
on when it compares with `relay_prev` and not with the pin: the two agree whenever the task
is not running, and where the automaton disagrees with them, its filter is empty.
`ConfigInv` carries the slots, the copy in memory and the one in force, with the period that
must not be zero. `CountInv` says that a fault nobody has seen is the state SAFE, which no
sample ends, and that where the diagnostics still see a fault that is over, the automaton
has just been initialised (`Fresh`), so that no single sample makes a fault of it. A filter of one
sample would break that (`Smoothed`; the firmware has five): the first sample after a write could
end in MATH_FAULT, which the diagnostics would take for the fault before the write.

`SchedulerProofs` proves for every (even) clock width, set of periods and bounds on
silence under `SchedulerAssumption` that the scheduler implements `Cadence`
(`SchedulerKeepsCadence`) and `TasksAreDueInTime`. Its invariant, `SchedInv`, is stated with
distances round the clock: a due time is at most a period ahead of it and not
further behind than the longest gap and pass, hence within half the clock's range,
where signed comparison tells before from after.

`MailboxProofs` proves for every set of frames, ring and word size `RequestsAreKept`,
`OnlyAskedIsWritten` and `OnlyTruthIsAnswered`. For the first, `PlaceInv` says that a patient master's request
is in one place at a time, on the line, in the event, with the task or in the
transmitter, and `KeptInv` that a request still waited for is in at least one of
them, however many copies there are. Where one was torn by the edge, `torn` says so, which takes the first promise back
and no other. For the second, `OneInv` says that nothing
lands in the ring while the task serves a patient master's request, and `DataInv` that what an orderly
master asked for is what lies where the request points, which for requests of two words
includes that they all begin at even or all at odd places (`Aligned`), so that a repetition falls on the
words of the original or beside them. For the third, `TaskInv` adds that
the registers the task has copied are those of an instant since the master
asked (`CopiedInTime`) and that a write about to be echoed has been carried out (`Obeyed`).

`UartProofs` proves `DriverStaysOn`, `BusIsFreeAfterwards` (the part of `BusIsReleased` that is an
invariant) and, for frames shorter than the buffer (`ShorterThanBuffer`),
`FramesAreDelivered`. `TxInv` ties the direction to the channel and its pending interrupt;
`RxInv` says at which positions the bytes of the frame lie that the next IDLE
interrupt will hand over, modulo the size of the buffer.

`EmergencyProofs` proves, for either safe position of the heater and any number of
brown-outs and configuration writes:

- `EmergencyTypes`: the type invariant;
- `HeaterIsRemembered`: a heater that is on is one that the task knows of;
- `SafeAfterBrownOut`: from the end of the first run of the task that begins after a
  brown-out, output and decision are at the safe position.

`EmergencyInv` says why the last holds: a run that begins after the brown-out takes the
locked path, so all that it has still to store and all that it has read is the
safe position (`LockedRun`). When its comparison finds nothing to drive, the output is
safe because of `HeaterIsRemembered`, which is why the two are proved together.

`SuperloopProofs` proves `TurningLoopsAreFed`: whatever periods are written and whenever, the
watchdog does not reset a node whose loop turns. The hypothesis, `Feedable`, is about the
regimes: no written period is longer than the boot period, no stall skips a control
grid point, and the timeout allows for a grid point without a sample unless there is
none, because the loop turns in every unit of time or the period never changes. Both regimes
of the run satisfy it. `LoopInv` bounds the time that is left to feed: the age of the
watchdog, the way to the grid point at which the sample is due and a stall are together at
most the timeout. `SampleDue` says which grid point that is, the next one or, where there is
time for it, the one after.

`PartsProofs` is about the parts that nothing interrupts. They compute with recursive
functions, and the prover knows no induction whose claim is an operator; so the module begins
with induction over a *set* of numbers (`SetInduction`, from the least element that a
well-founded order gives), which needs no such claim.

- Logger: `LoggerIsFifo`, that the indices stay in the buffer (`LoggerStaysInBuffer`)
  and `LinesKeepTheirBeginning`, for every size of ring and chunk and all lengths of
  lines. `RingInv`: the head is where the ring ends when it is counted from the tail.
  `PrintedInv` speaks of what is printed followed by what waits in the ring, which a
  chunk that is taken does not change: unless the ring is full, its last character
  is just before the next one to write.
- Filter: `FilterIsWindow` is the refinement of `SlidingWindow`, for every size and all inputs. `FilterInv`
  says that the slots hold the last samples in order, the oldest at the index to be
  overwritten next, and that `sum` is their sum. Sums of windows that lose their first
  element and gain a last one are compared by induction.
- Sensors: `GoodDataOnly` proves `OnlyGoodDataIsAccepted` for all 2^32 pairs of words of the SHT31 and any
  number of reads of stub and mock.
- Dew point: `DewPointNeverFails`, `SaturatedAirIsAtItsDewPoint` and `DewPointFollowsTheAir`, in steps of
  any size and with any table that `DewPointAssumption` admits: never falling, within the
  range of the logarithms it is generated from and zero at its end. The first needs that
  the denominator keeps away from zero; the last, that rounding, interpolation and
  clamping are each monotone and that the sections of the table meet.
- Frames: `DamageIsNoticed`, for every set of requests that the node takes when they arrive whole
  (`MasterIsSound`; TLC finds those of the run to be so) and up to three flipped bits. It
  rests on the algebra of the register. Turns are linear over exclusive or and lose nothing
  (`ShiftedIsLinear`), so two registers differ after a frame by what the flipped bits leave in them
  (`ApartStep`), and a valid frame takes the register to zero (`ValidCrcLeavesZero`). One or three bits
  leave an odd number of ones, because the polynomial has three (`OddNoiseShows`). Two bits cancel
  only if a one is back at its place after as many turns as lie between them, and in less
  than 64 turns it is not (`BitDoesNotReturn`).

Only model-checked is liveness, which the prover does not handle: `HealthySensorReachesRun`
(but for `EveryGoodSampleCounts`), `NoTaskStarves`, `BrownOutSettles` and the second half of `BusIsReleased`. Every other
property of a passing run is proved, within the hypotheses named above.

## 5. Not modelled

The byte-polled path of `modbus_server_task` (used by tests only), the logger's level
and its formatting of numbers, the statistics that nothing decides on, clock and
GPIO set-up, the copying of `.data`, and the host demonstration with its flash mock. A hung task is ended by the watchdog's own
oscillator; no property says so, because nothing in the code can prevent it once nobody feeds, and
that nobody does is the guard of `FeedAndSleep`. What a save that fails leaves behind
(`app.c:77-80`: new values reported, old ones in force) is not modelled either, as the
firmware's cannot fail. `PROJECT.json` gives the reason at each component.

Further differences between documents and code that no run states: the vector
table has no entry for the supply-voltage interrupt (README.md:66) and for DMA
channel 4 (README.md:63) either, and `g_app_controller`, on which `PVD_IRQHandler` works,
is defined nowhere; answers are sent by DMA from an array in a stack frame that
has been left by then (`main_mcu.c:185`, against the warning at `uart.h:35`), and so
are the logger's chunks; the state diagram has `MATH_FAULT --> SAFE_MODE` where the code
recovers from MATH_FAULT like from a sensor fault, and `SENSOR_FAULT --> RUN` where the filter
keeps samples from before the fault; `handle_modbus_request` can answer an
unsupported function, but the parser never lets one through; a broadcast is answered;
`mock_sensor.c` announces that its bad samples at steps 20 to 24 trigger a sensor fault, but the
host program ends after a handful of samples. An answer that is refused because the
channel is busy is dropped like a chunk of the log (`main_mcu.c:185`).

## 6. Plan

In order; the first six stages are done.

1. The core: `Controller` with its proofs, `ControllerDebounce`, `FaultIsolation`,
   `ClimateApp`.
2. Its environment: `Scheduler`, `Superloop`, `Emergency`, `Interrupts`,
   `ModbusMailbox`, `Uart` with `UartRx` and `UartTx`, `DewPoint`, `MovingAverage`.
3. The remaining services: `Registers`, `ModbusFrame`, `NodeDiagnostics`, `Logger`,
   `Sensors`, an impatient master in `ModbusMailbox`.
4. Proofs about the application, the mailbox, the UART, the scheduler's refinement
   and the logger's.
5. Proofs of the step simulation of `ControllerDebounce` and of `LinesCutOnlyAtEnd`.
6. Proofs about the watchdog's timing, the automaton inside the application and
   what the parts compute: filter, sensors, dew point, checksum.
7. A control loop in which the real filter and the real dew point refine the free
   margin of `Controller`; what the lemmas that need few hypotheses say beyond the
   runs, such as damage in frames longer than eight bytes.
