----------------------------- MODULE Attenuator -----------------------------
(***************************************************************************)
(* The attenuator driver (src/Attenuator.cpp) and the stepper-motor        *)
(* controller it drives.  The motor moves on its own while the driver is   *)
(* between two of its steps.                                               *)
(*                                                                         *)
(* A method is up to three exchanges with the controller: "refresh"        *)
(* (refresh_position, before anything that needs the motor at rest), the   *)
(* "command" itself, and "poll" (get_position, once or until it stops).    *)
(***************************************************************************)
EXTENDS Device

CONSTANTS
    Calls,    \* the method calls a client makes in this run
    MaxPos    \* bound: positions, counters and offsets in -MaxPos .. MaxPos

VARIABLES
    unit,           \* the controller: motor, goal, phys, counter, settings
    m_position,     \* the members of class Attenuator
    m_motor_state,
    m_offset,
    cache,          \* m_resolution, the two currents, acceleration, ...
    call,           \* the method call in progress, or the last one
    base,           \* history: counter - phys in the frame of m_offset = 0
    excused,        \* history: what has parted the driver from the controller
    ahead           \* history: m_resolution was assigned and "r" not yet sent

attenuatorVars == <<unit, m_position, m_motor_state, m_offset, cache, call,
                    base, excused, ahead>>
vars == <<deviceVars, attenuatorVars>>

-----------------------------------------------------------------------------
Stopped == 0
Running == 3   \* stands for Accelerating, Decelerating and Running

Pos == -MaxPos .. MaxPos

Settings == {"r", "ws", "wm", "a", "d", "s"}
Moves == {"move", "go", "set_transmission"}
\* The methods that refuse to act unless the motor is at rest.
AtRest == Moves \cup {"set_current_position", "set_zero", "go_home"}
Setters == {"set_resolution", "set_idle_current", "set_moving_current",
            "set_acceleration", "set_deceleration", "set_max_speed"}
Queries == {"refresh_status", "get_status_raw", "get_serial_number"}
Methods == AtRest \cup Setters \cup Queries \cup
           {"stop", "get_position", "save_settings", "reset_controller", "set_serial_number"}

CallSet == [op : Methods, arg : Int, wait : BOOLEAN]

ASSUME AttenuatorAssumption ==
    /\ Calls \subseteq CallSet
    /\ MaxPos \in Nat

Cmd(n, v) == [n |-> n, v |-> v]

\* The calibrated step of a transmission in [0.0, 1.0] is a number in
\* 0 .. MaxPos here; other arguments of set_transmission are out of range.
TransmissionInRange(t) == t \in 0 .. MaxPos

\* Mutant: the offset is forgotten.
trans_to_steps_NoOffset(t) == t

trans_to_steps(t) == t + m_offset

\* The setting a setter changes, and its command letters.
SettingOf(op) ==
    CASE op = "set_resolution"     -> "r"
      [] op = "set_idle_current"   -> "ws"
      [] op = "set_moving_current" -> "wm"
      [] op = "set_acceleration"   -> "a"
      [] op = "set_deceleration"   -> "d"
      [] op = "set_max_speed"      -> "s"

\* The value on the line: sixteenth steps are 6, all but the speed and the
\* resolution are cut to a byte.
Written(n, v) ==
    CASE n = "r" -> IF v = 16 THEN 6 ELSE v
      [] n = "s" -> v
      [] OTHER   -> v % 256

CommandOf(c) ==
    CASE c.op = "move"                   -> Cmd("m", c.arg)
      [] c.op = "go"                     -> Cmd("g", c.arg)
      [] c.op = "set_transmission"       -> Cmd("g", trans_to_steps(c.arg))
      [] c.op = "set_current_position"   -> Cmd("i", c.arg)
      [] c.op = "set_zero"               -> Cmd("h", 0)
      [] c.op = "go_home"                -> Cmd("zp", 0)
      [] c.op = "stop"                   -> Cmd(IF c.arg = 1 THEN "b" ELSE "st", 0)
      [] c.op \in Setters                -> Cmd(SettingOf(c.op), Written(SettingOf(c.op), c.arg))
      [] c.op = "refresh_status"         -> Cmd("pc", 0)
      [] c.op = "get_status_raw"         -> Cmd("p", 0)
      [] c.op = "get_serial_number"      -> Cmd("n", 0)
      [] c.op = "save_settings"          -> Cmd("ss", 0)
      [] c.op = "reset_controller"       -> Cmd("j", 0)
      [] c.op = "set_serial_number"      -> Cmd("sn", 0)

-----------------------------------------------------------------------------
\* The controller at the other end of the line.

\* One step towards the goal, or the end of the movement.  Homing ends at the
\* hardware zero, where the counter is reset.
MotorStep ==
    /\ unit.motor = Running
    /\ LET left == IF unit.homing THEN -unit.phys ELSE unit.goal - unit.counter
           dir  == IF left > 0 THEN 1 ELSE -1
       IN  unit' = IF left # 0
                   THEN [unit EXCEPT !.phys = @ + dir, !.counter = @ + dir]
                   ELSE [unit EXCEPT !.motor = Stopped, !.homing = FALSE,
                                     !.counter = IF unit.homing THEN 0 ELSE @]
    /\ UNCHANGED <<deviceVars, m_position, m_motor_state, m_offset, cache, call,
                   base, excused, ahead>>

StartTo(u, goal) == [u EXCEPT !.motor = Running, !.goal = goal, !.homing = FALSE]
Halt(u) == [u EXCEPT !.goal = u.counter, !.homing = FALSE]

\* The states the controller can be in after carrying out a command.
Execute(u, c) ==
    CASE c.n = "m"  -> {StartTo(u, u.counter + c.v)}
      [] c.n = "g"  -> {StartTo(u, c.v)}
      [] c.n = "zp" -> {[u EXCEPT !.motor = Running, !.homing = TRUE]}
      [] c.n = "i"  -> {[u EXCEPT !.counter = c.v]}
      [] c.n = "h"  -> {[u EXCEPT !.counter = 0]}
      [] c.n = "st" -> {Halt(u)}
      [] c.n = "b"  -> {[Halt(u) EXCEPT !.motor = Stopped, !.phys = p] :
                            p \in {u.phys} \cup {q \in {u.phys + 1} : u.motor = Running}}
      [] c.n = "j"  -> {[Halt(u) EXCEPT !.motor = Stopped, !.counter = n] :
                            n \in {0, u.counter}}
      [] c.n \in Settings -> {[u EXCEPT !.set[c.n] = c.v]}
      [] OTHER      -> {u}

\* What makes the controller's counter worthless, or the driver unaware; all
\* but a garbled command is over once go_home is carried out.
Excuse(u, c) ==
    CASE frag                                 -> {"garbled"}
      [] c.n = "j"                            -> {"lost"}
      [] c.n \in {"st", "b"} /\ u.homing       -> {"lost"}
      [] c.n = "b" /\ u.motor = Running       -> {"lost"}
      [] OTHER                                -> {}

\* Every command is echoed; "o" and "pc" carry the state of the controller.
Line(n, u) ==
    CASE n = "o"  -> [of |-> n, motor |-> u.motor, pos |-> u.counter, set |-> << >>]
      [] n = "pc" -> [of |-> n, motor |-> u.motor, pos |-> 0, set |-> u.set]
      [] OTHER    -> [of |-> n, motor |-> Stopped, pos |-> 0, set |-> << >>]

-----------------------------------------------------------------------------
Resting == {"idle", "returned", "thrown"}
InCall == call.stage \notin Resting
Goto(stage) == call' = [call EXCEPT !.stage = stage]
Enter(step) == call' = [call EXCEPT !.step = step, !.stage = "write"]

\* The line the current exchange sends.
current == IF call.step = "command" THEN CommandOf(call) ELSE Cmd("o", 0)

\* The state the constructor leaves, after refresh_status and refresh_position.
Init ==
    /\ DeviceInit
    /\ \E n \in {0, 1} :
        unit = [motor |-> Stopped, goal |-> n, homing |-> FALSE, phys |-> 0, counter |-> n,
                set |-> [r |-> 2, ws |-> 10, wm |-> 100, a |-> 0, d |-> 0, s |-> 59000]]
    /\ m_position = unit.counter
    /\ m_motor_state = unit.motor
    /\ m_offset = 0
    /\ cache = unit.set
    /\ call = [op |-> "get_position", arg |-> 0, wait |-> FALSE,
               step |-> "poll", stage |-> "idle", out |-> 0, given |-> FALSE]
    /\ base = unit.counter - unit.phys
    /\ excused = {}
    /\ ahead = FALSE

\* Calls whose effect would leave the bound, once the movement under way has
\* ended, are not made.
Bounded(c) ==
    LET ended == IF unit.motor = Stopped THEN unit.counter ELSE IF unit.homing THEN 0 ELSE unit.goal
        phys  == IF unit.homing THEN 0 ELSE unit.phys + ended - unit.counter
        to    == CASE c.op = "move"             -> ended + c.arg
                   [] c.op = "go"               -> c.arg
                   [] c.op = "set_transmission" -> trans_to_steps(c.arg)
                   [] OTHER                     -> ended
    IN  CASE c.op \in Moves -> to \in Pos /\ phys + to - ended \in Pos
          [] c.op = "go_home" -> ended - phys \in Pos
          [] c.op = "stop" -> unit.phys < MaxPos
          [] c.op = "set_zero" -> m_offset + ended \in Pos
          [] c.op = "set_current_position" -> m_offset + c.arg - ended \in Pos
          [] OTHER -> TRUE

\* Mutant: every setter assigns its member before it sends the command.
AssignedFirst_All == Setters

\* The setters that assign their member before they send the command.
AssignedFirst == {"set_resolution"}

\* A client calls a method.  A transmission out of range throws at once.
Invoke(c) ==
    /\ ~InCall
    /\ LET refused == c.op = "set_transmission" /\ ~TransmissionInRange(c.arg)
       IN  /\ refused \/ Bounded(c)
           /\ call' = [op |-> c.op, arg |-> c.arg, wait |-> c.wait, out |-> 0, given |-> FALSE,
                    step |-> IF c.op \in AtRest THEN "refresh"
                             ELSE IF c.op = "get_position" THEN "poll" ELSE "command",
                    stage |-> IF refused THEN "thrown" ELSE "write"]
    /\ cache' = IF c.op \in AssignedFirst
                THEN [cache EXCEPT ![SettingOf(c.op)] = c.arg] ELSE cache
    /\ ahead' = (ahead \/ c.op = "set_resolution")
    /\ UNCHANGED <<deviceVars, unit, m_position, m_motor_state, m_offset, base, excused>>

\* Mutant: set_current_position counts the difference the wrong way round.
OffsetAfter_Sign == IF call.op = "set_current_position"
                    THEN m_offset + (m_position - call.arg) ELSE m_offset

\* m_offset once the command is out.
OffsetAfter ==
    CASE call.op = "set_current_position" -> m_offset + (call.arg - m_position)
      [] call.op = "go_home"              -> 0
      [] OTHER                            -> m_offset

\* What the method does once its command is out: the offset or the cached
\* setting, then the wait, the answer, or the return.
AfterCommand ==
    /\ m_offset' = OffsetAfter
    /\ cache' = IF call.op \in Setters \ {"set_resolution"}
                THEN [cache EXCEPT ![SettingOf(call.op)] = call.arg] ELSE cache
    /\ ahead' = (ahead /\ call.op # "set_resolution")
    /\ \/ call.op \in Queries /\ Goto("read")
       \/ call.op \in Moves /\ call.wait /\ Enter("poll")
       \/ call.op \notin Queries /\ ~(call.op \in Moves /\ call.wait) /\ Goto("returned")

WriteDone ==
    /\ call.stage \in {"write", "rewrite"}
    /\ unit' \in IF frag THEN {unit} ELSE Execute(unit, current)
    /\ \/ WriteFull(<<Line(IF frag THEN "?" ELSE current.n, unit)>>)
       \/ "mute" \in Faults /\ WriteFull(<< >>)
    /\ excused' = Excuse(unit, current) \cup
           IF current.n = "zp" THEN excused \cap {"garbled"} ELSE excused
    /\ base' = IF current.n = "zp" THEN 0 ELSE base
    /\ \/ call.step = "command" /\ AfterCommand
       \/ call.step # "command" /\ Goto("read") /\ UNCHANGED <<m_offset, cache, ahead>>
    /\ UNCHANGED <<m_position, m_motor_state>>

\* Mutant: the retries go on for ever.
WriteFailed_Forever ==
    /\ call.stage \in {"write", "rewrite"} /\ Goto("reset")
    /\ WriteShort
    /\ UNCHANGED <<unit, m_position, m_motor_state, m_offset, cache, base, excused, ahead>>

\* write_cmd was short: reset and repeat once; then every method throws.
WriteFailed ==
    /\ \/ call.stage = "write" /\ Goto("reset")
       \/ call.stage = "rewrite" /\ Goto("thrown")
    /\ WriteShort
    /\ UNCHANGED <<unit, m_position, m_motor_state, m_offset, cache, base, excused, ahead>>

Reset ==
    /\ \/ call.stage = "reset" /\ Goto("rewrite")
       \/ call.stage = "reset_read" /\ Goto("reread")
    /\ ResetOk
    /\ UNCHANGED <<unit, m_position, m_motor_state, m_offset, cache, base, excused, ahead>>

\* read_cmd got nothing: reset and read again, without sending again.
ReadTimeout ==
    /\ \/ call.stage = "read" /\ Goto("reset_read")
       \/ call.stage = "reread" /\ Goto("thrown")
    /\ ReadLines(0)
    /\ UNCHANGED <<unit, m_position, m_motor_state, m_offset, cache, base, excused, ahead>>

Reading == call.stage \in {"read", "reread"} /\ ReadLine

\* The number get_position reads as the position; the position is assigned
\* before the status is checked, so an answer to "pc" leaves its own second
\* field there and then throws.
PositionIn(line) == IF line.of = "o" THEN line.pos ELSE line.motor

\* Mutants: the two fields are swapped; the state of the motor is not checked;
\* the loop of get_position looks once.
StatusIn_Swapped(line) == line.pos
MayGo_Unchecked(line) == line.of = "o"
Settled_Once(line) == TRUE

\* The motor state in an answer to "o", the check of the methods that need the
\* motor at rest, and the end of the loop of get_position.
StatusIn(line) == line.motor
MayGo(line) == line.of = "o" /\ StatusIn(line) = Stopped
Settled(line) == ~call.wait \/ line.motor = Stopped

\* refresh_position into m_position and m_motor_state; then the check that
\* the motor is at rest.  set_zero changes m_offset before it sends "h".
ReadRefresh ==
    /\ call.step = "refresh"
    /\ Reading
    /\ LET line == Head(rx) IN
        /\ m_position' = IF line.of \in {"o", "pc"} THEN PositionIn(line) ELSE m_position
        /\ m_motor_state' = IF line.of = "o" THEN StatusIn(line) ELSE m_motor_state
        /\ \/ MayGo(line) /\ Enter("command")
           \/ ~MayGo(line) /\ Goto("thrown")
        /\ m_offset' = IF call.op = "set_zero" /\ MayGo(line)
                       THEN m_offset + line.pos ELSE m_offset
        /\ excused' = IF m_offset' # m_offset THEN excused \cup {"zeroed"} ELSE excused
    /\ UNCHANGED <<unit, cache, base, ahead>>

\* get_position into the caller's variable; with wait, again until it stops.
ReadPoll ==
    /\ call.step = "poll"
    /\ Reading
    /\ LET line == Head(rx)
           given == line.of \in {"o", "pc"}
       IN  call' = [call EXCEPT !.given = @ \/ given,
                        !.out = IF given THEN PositionIn(line) ELSE @,
                        !.stage = IF line.of # "o" THEN "thrown"
                                  ELSE IF Settled(line) THEN "returned" ELSE "write"]
    /\ UNCHANGED <<unit, m_position, m_motor_state, m_offset, cache, base, excused, ahead>>

\* refresh_status takes every setting from an answer to "pc" and throws on
\* any other; the two text queries take whatever line comes.
ReadQuery ==
    /\ call.step = "command"
    /\ Reading
    /\ LET line == Head(rx) IN
        \/ /\ call.op = "refresh_status" /\ line.of = "pc"
           /\ m_motor_state' = line.motor /\ cache' = line.set /\ ahead' = FALSE
           /\ Goto("returned")
        \/ /\ call.op = "refresh_status" /\ line.of # "pc"
           /\ Goto("thrown") /\ UNCHANGED <<m_motor_state, cache, ahead>>
        \/ /\ call.op # "refresh_status"
           /\ Goto("returned") /\ UNCHANGED <<m_motor_state, cache, ahead>>
    /\ UNCHANGED <<unit, m_position, m_offset, base, excused>>

Throw ==
    /\ \/ call.stage \in {"write", "rewrite"} /\ WriteThrow
       \/ call.stage \in {"reset", "reset_read"} /\ ResetThrow
       \/ call.stage \in {"read", "reread"} /\ ReadThrow
    /\ Goto("thrown")
    /\ UNCHANGED <<unit, m_position, m_motor_state, m_offset, cache, base, excused, ahead>>

DriverStep == WriteDone \/ WriteFailed \/ Reset \/ ReadTimeout
              \/ ReadRefresh \/ ReadPoll \/ ReadQuery \/ Throw

Next == (\E c \in Calls : Invoke(c)) \/ DriverStep \/ MotorStep

Spec == Init /\ [][Next]_vars

\* Every wait of the driver has a timeout, and a running motor gets there.
FairSpec == Spec /\ WF_vars(DriverStep) /\ WF_vars(MotorStep)

-----------------------------------------------------------------------------
\* Types of the driver's members, the controller and the link.
TypeOK ==
    /\ port \in PortStates
    /\ frag \in BOOLEAN
    /\ Len(rx) <= MaxPending
    /\ unit.motor \in {Stopped, Running}
    /\ unit.goal \in Int /\ unit.homing \in BOOLEAN
    /\ unit.phys \in Int /\ unit.counter \in Int
    /\ unit.set \in [Settings -> Int]
    /\ m_position \in Int /\ m_offset \in Int
    /\ m_motor_state \in {Stopped, Running}
    /\ cache \in [Settings -> Int]
    /\ call.op \in Methods /\ call.out \in Int /\ call.given \in BOOLEAN
    /\ excused \subseteq {"garbled", "lost", "zeroed"}
    /\ ahead \in BOOLEAN

\* move, go, set_current_position, set_zero and go_home reach the controller
\* only while its motor is at rest: the state the driver checked still holds
\* when its command arrives ("Can't move motor until it is in a stopped").
MovesFromRest ==
    [][(WriteDone /\ call.step = "command" /\ call.op \in AtRest /\ ~frag)
            => unit.motor = Stopped]_vars

\* When move or go with wait returns, the motor is at rest at the requested
\* place and the position handed back is where it is.
WaitedMoveArrives ==
    (call.stage = "returned" /\ call.op \in {"move", "go"} /\ call.wait /\ excused = {}) =>
        /\ unit.motor = Stopped
        /\ call.out = unit.counter
        /\ unit.counter = IF call.op = "go" THEN call.arg ELSE m_position + call.arg

\* m_offset is the distance between the counter and the frame the calibration
\* was made in, through every redefinition of the counter, failed or not, and
\* go_home restores it whatever was done to the counter before.
FrameKept ==
    (excused = {} /\ ~unit.homing) =>
        unit.counter - m_offset = unit.phys + base

\* set_transmission with wait leaves the plate where that transmission is,
\* whatever was done to the counter before: trans_to_steps adds the offset
\* that set_current_position and go_home maintain.
TransmissionLands ==
    (call.stage = "returned" /\ call.op = "set_transmission" /\ call.wait /\ excused = {}) =>
        unit.phys + base = call.arg

\* The same after set_zero: whoever redefines the counter is to "set the
\* offset to the difference" (comment in set_current_position).
TransmissionLandsAfterZero ==
    (call.stage = "returned" /\ call.op = "set_transmission" /\ call.wait
        /\ excused \subseteq {"zeroed"}) =>
        unit.phys + base = call.arg

get_resolution(v) == IF v = 6 THEN 16 ELSE v

\* The cached settings are those of the controller, modulo the cut to a byte,
\* whichever setters failed; only m_resolution, assigned before the command
\* goes out, is ahead of the controller while or after set_resolution fails.
SettingsMatchUnit ==
    excused = {} =>
        /\ \A n \in Settings \ {"r"} : unit.set[n] = Written(n, cache[n])
        /\ ahead \/ get_resolution(unit.set["r"]) = get_resolution(cache["r"])

\* Every call returns or throws: the loop of get_position with wait ends
\* once the motor has stopped.
CallEnds == InCall ~> ~InCall
=============================================================================
