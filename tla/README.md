# A TLA+ model of LaserControl

LaserControl drives the three serial devices of a laser calibration system: a
SureLite laser, a motorised attenuator and an Ophir power meter. This directory
holds TLA+ modules for the drivers, the transport they share, the serial library
below it and the interactive program on top of them, TLC configurations that
check them, and machine-checked proofs about the laser driver, its refinement
and the serial library.

`PROJECT.json` lists every component, run, mutant, finding, hazard and theorem,
and the source lines each definition stands for.

## The system

| part | code | state | operations |
|---|---|---|---|
| serial library | `src/serial.cc`, `src/impl/unix.cc` | `fd_`, `is_open_`, `port_`, the read and the write mutex | `open`, `close`, `setPort`, the setters, the reads, `write`, the flushes |
| transport | `src/Device.cpp` over the serial library | the port, the input buffer | `write_cmd`, `read_cmd`, `read_lines`, `reset_connection` |
| laser | `src/Laser.cpp` | `m_is_firing`, `m_prescale`, `m_pump_hv`, `m_rate`, `m_qswitch` | nine methods, each one command line (two for `single_shot`) |
| attenuator | `src/Attenuator.cpp` | `m_position`, `m_motor_state`, `m_offset`, the cached settings | movements, redefinitions of the counter, setters, queries |
| power meter | `src/PowerMeter.cpp` | `m_cmd_mutex`, `m_range`, `m_wavelength`, `m_e_threshold`, tables of options | some forty methods, each one or two calls of `send_cmd` |
| program | `apps/serial_manager.cpp` | the three pointers, the `g_ignore_*` flags | map the devices, run commands, unmap |
| simulators | `src/*Sim.cpp` | the same members, no link | the same interface |

The drivers talk to their units over a line that can fail in several ways, and
all of them answer a failure in the same style: a short write is followed by
close, open and one more write; a read that timed out by close, open and one
more read, without sending the query again; then an exception. `serial_manager`
catches exceptions while it maps the devices and while it runs a command, and
lets them through while it unmaps.

What is hard here: a retry after a write of which an unknown part went out;
answers that come late; members that cache what the unit is set to; a motor
that moves while the driver is between two steps; a mutex held over one
exchange where a method needs two; a library in which some calls lock and some
do not; answers that a timeout cut in the middle, parsed all the same; and
leaving the program, on every path, with the laser stopped.

## Modules

* **Device** is the transport. `port` is the state of `SerialImpl` (`stale`:
  `::close` failed, `is_open_` stays true and nothing works from then on), `rx`
  the answer lines not yet read, `frag` the unterminated prefix that a failed
  write left in the line buffer of the unit. Its operators are the possible
  outcomes of `write_cmd` (complete, short, exception), `reset_connection` and
  the reads. The constant `Faults` says which failures can happen: `open`,
  `close`, `short`, `write`, `read`, `mute` (the unit sends no answer) and
  `late` (an answer arrives after a flush or a timeout).
* **Laser** extends it with the driver and the unit. `call` is the method in
  progress: its stage in the retry pattern and the lines still to be written.
  `unit` is what the laser is set to, `cache` what the members say. `ran`,
  `acked` and `garbled` are history variables for the properties.
* **Attenuator** extends Device with the driver and the controller. A method is
  up to three exchanges: `refresh` (`refresh_position` and the check that the
  motor is at rest), the `command`, and `poll` (`get_position`, in a loop with
  `wait`). `MotorStep` moves the motor between any two steps of the driver.
  Positions are small integers and the calibration curve is the identity on
  them: only the offset arithmetic matters to the properties.
* **PowerMeter** extends Device with the driver, the instrument and several
  client threads. An exchange is `Acquire`, write and read under the mutex; the
  `Parse...` actions are what the methods do with the answer once the mutex has
  been released, one for each way the code reads an answer.
* **SerialManager** extends Laser with the program. The laser is driven step by
  step; of the other two devices only what decides the program's course is
  kept (does a call fail, can the destructor close the port).
* **LaserSim** is the laser simulator, in which every method takes effect at
  once. **LaserRefinement** instantiates it with the members of Laser, and the
  shutter of the unit for `m_shutter_state`: the simulator is the abstract
  specification of the driver, and the retries, resets and failures of the
  driver are steps that change nothing in it.
* **SerialPort** is one `serial::Serial` object shared by threads, one step for
  each system call. `call[t]` is where thread t is (waiting for a mutex, between
  `::close` and the assignments after it, in `select`, ...) and what it has read
  or written. `opened` are the descriptors of the process, `input` and `output`
  the kernel's buffers of each port. Bytes are numbered, so that a read or a
  line in which one is missing shows. `disturbed` marks a call during which
  another thread called the unlocked `open` or `close`. One thread, the
  `Owner`, opens, closes and changes the port: for two the code promises nothing.
* **Answers** is the text. A unit's answer is a sequence of characters, read
  one at a time by `readline` or `readlines`; a timeout can come in front of any
  of them, and a reset before the second read loses any number of them. The
  string is appended to by the second read, as in the code. Nine methods then
  parse it with `substr`, `trim`, `tokenize_string` and `stol`, each of which
  may throw; members are assigned one by one. The other modules have answers
  that arrive whole or not at all.
* **MCLaser, MCAttenuator, MCPowerMeter, MCSerialManager, MCSerialPort,
  MCAnswers** give the constants their values for TLC.
* **LaserProofs** and **LaserRefinementProofs** hold the theorems about Laser and
  LaserRefinement. Those about SerialPort are in five modules: **SerialPortTypes**
  (types), **SerialPortLocks** (who holds which mutex), **SerialPortInput** (the
  open port and its unread bytes), **SerialPortReads** (what a reader gets) and
  **SerialPortFds** (descriptors).

Device is the view the drivers have of SerialPort: one thread at a time uses the
object (the drivers have one thread, or hold `m_cmd_mutex`), and a line is read or
written as a whole. That a flush before a command finds no output of the command
before it (`WriteFull`) rests on the sleeps between commands.

The units themselves (`Receive`, `Execute`, `MotorStep`, `Measure`, ...) are not
in the repository, and neither are the kernel and the standard library. They are
modelled from what the code sends, expects and parses, and are marked external
in the map: a unit carries out a complete line, ignores a line glued to a
fragment, echoes or answers, and does nothing else; its answers have the format
that the comments of the drivers quote. The kernel hands out the lowest free
descriptor, releases it even when `::close` reports a failure, and drops the input
of a port when its last descriptor is closed.

Operators named `X_Something` next to an operator `X` are mutants: the way a
plausible mistake would change `X`. Every property is shown to fail for one.

## Runs that pass

| run | what it shows |
|---|---|
| `laser` | All faults but `late`, calls with arguments on both sides of every range check. `AtMostOnce`: the retries never make the unit carry out a command twice. `OutcomeIsTrue`: an exception means that the command was not carried out. `CacheMatchesUnit`: once set, a member agrees with the unit through any failures. `AnswerIsOwn`: a query returns its own answer. `SingleShotUndivided`: SS arrives with the division at 000. `CallEnds`: the retries are bounded. `ImplementsSim`: to a client the driver is the simulator, each method taking effect once, at once and with the value the simulator gives it, or not at all. |
| `manager` | `SafeExit`: when main returns after it had a laser, the laser is stopped and closed. `StopsBeforeClosing`: in that order. `PromptHasInstances`: whatever failed while mapping, no command meets a null pointer. `ErrorEnds`: a command that throws ends the program. |
| `attenuator_motion` | Movements, stops, homing and everything that redefines the counter. `MovesFromRest`: a command that needs the motor at rest finds it so. `WaitedMoveArrives`: with `wait`, the motor is at rest, at the target, and the position returned is right. `FrameKept` and `TransmissionLands`: the offset keeps track of the counter, a transmission lands where it was calibrated, and `go_home` repairs what a hard stop or a failed `set_zero` broke. |
| `attenuator_settings` | `SettingsMatchUnit`: cached settings agree with the controller modulo the cut to a byte; `m_resolution`, assigned first, may be ahead. `CallEnds`: every call ends, the polling loop of `get_position` included. |
| `power_meter_shared` | Two threads. `AnswerIsOwn`: each parses the answer to its own last command. `ReportIsTrue`: what a method reports is what its last exchange left. `SendEnds`: the mutex is given back. |
| `power_meter_client` | One client and every way of reading an answer, with values accepted, refused and cut to 16 bits: `ReportIsTrue`, `MembersFollowUnit`, and `ReadOnce`: each measurement is handed out at most once. |
| `serial_port` | Two threads, two ports, every failure of open, configuration and close. `ReadUndivided`: what a read gets is one piece of what one unit sent. `WriteUndivided`: a unit that gets the end of a line got the rest of it just before. `SelectsOnDescriptor`: no call waits on descriptor -1. `DescriptorsAccounted`: only a configuration that fails in `open` loses a descriptor. `WriteLockReturns`, `ReadLockReturns`: the mutexes are given back, and no two calls wait for each other. No deadlock. |
| `answers` | Nine methods, every cut and every loss. `WholeIsExact`: an answer that arrives in full is understood. `CutOnlyShortens`: timeouts can only take digits off the end of a number or entries off the end of a table; this is as much as holds, since `read_cmd` accepts cut lines and takes off two more characters: a position of -104 can be read as -1, a security code of 06 as 0. `FlagsTrue`: the average flag and the motor state, which other methods rely on, are right or the method throws, even when bytes were lost. |

The history variable `excused` of Attenuator names what makes the counter and
the offset disagree for a reason the driver cannot repair by itself: a garbled
command, a hard stop or a controller reset that loses the position (`lost`), and
a `set_zero` away from zero (`zeroed`, see below). Homing ends the last two.
Three more properties name an excuse, each for what the code does not handle:
`leaked` in SerialPort (`open` keeps the descriptor when `reconfigurePort` throws),
`disturbed` (`open` and `close` take no lock), and in `WholeIsExact` the second read of
`get_shot_count`, whose result is never converted, and the two tables that are
filled once, from an answer that may have been cut.

## Runs that find a disagreement

Each of these checks one sentence of a header, a comment or an error message;
the finding of the same name in `PROJECT.json` quotes it.

| run | what happens |
|---|---|
| `manager_terminated` | `fire_stop` throws in `unmap_devices`: the shutter stays open and the laser fires on. |
| `attenuator_zero` | `set_zero` adds the position to the offset where `set_current_position` would subtract it. |
| `attenuator_late_answer` | A late status says "at rest", and a second movement starts while the motor moves. |
| `power_meter_twice` | Two threads in `read_average` get the same average. |

## Bounds

* Calls: each run has a set of calls, made in any order and any number of
  times. The arguments are on both sides of each range check, on both sides of
  each rounding, and one above a byte or 16 bits where the code cuts.
* `MaxPending` bounds the unread lines; it is at least twice what one command is
  answered with where answers may be late, so that an old and a new answer can
  meet. `Len(rx)` never needs more otherwise, since each write flushes.
* `MaxPos` bounds positions and offsets. A call that would leave the bound is
  not made (`Bounded`); 1 is enough for a motor between two positions, a counter
  that disagrees with the position, and offsets of both signs.
* `MaxShots` bounds measurements: one new measurement is enough to be read twice.
* Two threads suffice for the mutex properties: each compares one thread's
  answer with what one other thread sent.
* SerialPort: lines of two bytes, room for one byte in the kernel, so that a line
  can be cut between its bytes and a writer has to wait; three bytes from one
  unit, a line and the start of the next; two descriptors, so that one lost
  descriptor still lets the port open and a second one does not. The three uses
  split the calls into readers, writers, and a writer whose port is reset;
  the theorems cover all other combinations for the properties proved.
* Answers: two sets of units, one with a single digit in each field and one with
  several, a position and a range of either sign, options that begin with digits.
  Two calls, since the second finds the table of the first; one for
  `refresh_status`, whose members depend on the last call and on how far each
  earlier one came.

## Fairness

Every wait of the drivers has a timeout, so a method that has been called goes
on: weak fairness of the driver's steps (`LaserStep`, `DriverStep`,
`ThreadStep(t)`, `ManagerStep`). In SerialPort every system call of a thread returns
(`select` has a timeout) and the line drains (`Transmit`), or `tcdrain` would wait for
ever; `ReadLockReturns` leaves out the case that others keep the write mutex so
busy that `setPort` or `flush` never gets it. In Attenuator the motor, once started, gets to
its goal: weak fairness of `MotorStep`. Nothing is assumed about clients, about
which thread gets the mutex (so a thread may wait for it for ever, and
`SendEnds` only says that its holder gives it back), or about faults ever
ceasing. `manager` and `answers` allow the system to stop: the program ends, or
waits at the prompt, and the client has made its calls.

## What is proved

For every set of calls, every state in which the unit is found, every bound and
every combination of faults:

* `TypeCorrect`: `TypeOK` is inductive as it stands. It includes that the script
  is not empty while a method runs, which all other proofs need.
* `CacheCorrect`: `CacheMatchesUnit` is inductive relative to it; only
  `WriteDone` changes a cache or the unit, and it changes both by one value.
* `AtMostOnceCorrect`, `OutcomeCorrect`: neither is inductive, since they do not
  say what has been sent while the method still runs. `RetryInv` adds that in
  every stage before a complete write (`Underway`), no command still in the
  script has been carried out, and that the script has one of three shapes. A
  short write keeps this because it never holds the terminator, a complete one
  because the method leaves these stages or moves to the next command.
* `SingleShotCorrect`: from the same invariant, whose third shape says that
  PD 000 is ahead of SS, and whose second that it has been carried out.
* `AnswerCorrect`, assuming `"late" \notin Faults`: `OwnLines` says that what is
  pending while a query reads is nothing, the complaint about a garbled line, or
  exactly the answer to that query, and that nothing is pending after a reset.
  The assumption is needed: an answer that arrives after the flush of the next
  command is read as the answer to that command.

* `Implements`, assuming that the shutter is closed in every state the unit can be
  found in: Laser implements LaserSim. `ScriptInv` says that what is still to be
  written comes from the call in progress, so that the complete write, the only
  step that is not a stutter, is the method of that call with the value it was
  given. The assumption is needed because the driver does not know the shutter
  it finds and the simulator starts with it closed.

For every number of threads and ports, every use, line length and buffer size,
and every combination of faults, about SerialPort:

* `LocksCorrect`: a call past its locks holds the mutexes it needs. `LockInv` says
  which mutex is held at which place of which operation, and that each place
  belongs to the operations that can be there.
* `ReadCorrect`: by itself `ReadUndivided` does not say why the next byte fits. Two
  more invariants do: the unread input of a port is the last bytes its unit sent
  (`InputInv`), and the byte that an undisturbed reader got last is the one right
  before those, on the port behind `fd_` (`LastInv`). That this port stays the same
  is the lemma `NobodyCuts`: a step that closes or opens it under a reader either
  needs the read mutex or disturbs the reader. `ClosedInv` (a port nobody has open
  has no input) keeps `InputInv` over a close.
* `SelectCorrect`: from `OpenInv`, by which an undisturbed call in `select` has the port open.
* `DescriptorsCorrect`: `FdInv` follows the descriptor through `close`, the gap before the
  members are assigned, `open` and the configuration; `OwnerInv` says that only one
  thread is ever in those places.

The assumptions are `DeviceAssumption`, `LaserAssumption` and `SerialAssumption`, on the
types of the constants and the single owner; TLC evaluates them in every run.

Model-checked only: `WriteUndivided`; everything about the attenuator, the power
meter and the program; Answers, whose operators are recursive; and all liveness
properties (fairness and `ENABLED` are outside what the prover can do).

## Not modelled

* The text of commands, and of the answers that Answers does not parse: they are
  handed on as they are, or read with the same few operators.
* Late bytes of an old answer in front of a new one: Device has late lines,
  Answers starts each query with an empty line.
* The contents of termios, the byte times, and the modem lines and breaks, which
  the object keeps no record of.
* `AttenuatorSim` and `PowerMeterSim`. The first is not what Attenuator implements:
  its `set_current_position` does not change the position it reports and nothing
  moves between two calls. The second returns fixed values.
* Port enumeration, the formatting utilities, the Windows back end, the
  deprecated I2C code, the examples and the two unfinished programs: input and
  output without state.
* Attenuator and Laser used by several threads: they have no mutex and nothing
  says that they may be.

## Plan

1. Attenuator and power meter at the prompt of SerialManager, so that the three
   devices share one shutdown.
2. Device shown to be an abstraction of SerialPort for one thread.
3. Proofs: `WriteUndivided`; `SafeExit` from the invariants of Laser; mutual exclusion
   and `AnswerIsOwn` of PowerMeter for any number of threads; `MovesFromRest` and
   `FrameKept` of Attenuator for any `MaxPos`.
