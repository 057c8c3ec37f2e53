----------------------------- MODULE PowerMeter -----------------------------
(***************************************************************************)
(* The power meter driver (src/PowerMeter.cpp) and the instrument, with    *)
(* several client threads.  Every exchange is one call of send_cmd, which  *)
(* holds m_cmd_mutex from the write to the answer; what a method does with *)
(* the answer, and the choice of its next command, happens outside.        *)
(***************************************************************************)
EXTENDS Device

CONSTANTS
    Threads,    \* the client threads that share the driver
    Calls,      \* the method calls they make in this run
    Found,      \* the settings the instrument may have when the driver starts
    Legal,      \* the values the instrument accepts for a setting
    MaxShots    \* bound: measurements of each kind

VARIABLES
    unit,           \* the instrument: settings, newest measurements, flags
    lock,           \* m_cmd_mutex: the thread that holds it, or "none"
    call,           \* per thread, the method call in progress or the last one
    m_range,        \* the members of class PowerMeter
    m_wavelength,
    m_e_threshold,
    filled,         \* which of the tables of options have been filled
    seen,           \* history: per thread, the setting its last command left
    taken           \* history: how often each measurement was handed out

members == <<m_range, m_wavelength, m_e_threshold, filled>>
vars == <<deviceVars, unit, lock, call, members, seen, taken>>

-----------------------------------------------------------------------------
\* The command of each method that sends one.
CommandOf == [
    set_range |-> "WN", write_range |-> "WN", wavelength |-> "WL",
    set_wavelength |-> "WL", wavelength_index |-> "WI",
    average_query |-> "AQ", bc20_sensor_mode |-> "BQ", diffuser_query |-> "DQ",
    filter_query |-> "FQ", mains_frequency |-> "MA", energy_threshold |-> "ET",
    measurement_mode |-> "MM", pulse_length |-> "PL",
    user_threshold |-> "UT", query_user_threshold |-> "UT",
    force_energy |-> "FE", force_power |-> "FP", force_exposure |-> "FX",
    inst_config |-> "IC", reset |-> "RE",
    energy_flag |-> "EF", energy_ready |-> "ER", get_average_flag |-> "AF",
    read_energy |-> "EF", read_average |-> "AF",
    send_energy |-> "SE", send_average |-> "SG", send_power |-> "SP",
    send_max |-> "SX", get_range |-> "RN", get_all_ranges |-> "AR", max_freq |-> "MF",
    send_frequency |-> "SF", exposure_energy |-> "EE",
    send_units |-> "SI", head_info |-> "HI", head_type |-> "HT", inst_info |-> "II",
    version |-> "VE", get_all_wavelengths |-> "AW"]

\* Methods that answer from a member, without asking the instrument.
Members == {"get_range_fast", "get_wavelength", "get_e_threshold"}
Methods == DOMAIN CommandOf \cup Members

\* success = (first byte is '*')
Confirmed == {"set_range", "write_range", "wavelength", "set_wavelength", "wavelength_index",
              "force_energy", "force_power", "force_exposure", "inst_config"}
\* The answer carries the setting in place, whether it was changed or not.
Reported == {"average_query", "bc20_sensor_mode", "diffuser_query", "filter_query",
             "mains_frequency", "energy_threshold"}
\* A question when the argument is 0.
ZeroAsks == Reported \cup {"measurement_mode", "pulse_length"}
\* '?' is answered with zeros.
Lenient == {"send_frequency", "exposure_energy"}
Text == {"reset", "send_units", "head_info", "head_type", "inst_info", "version",
         "get_all_wavelengths"}
Readings == {"read_energy", "read_average"}

Settings == {"WN", "WL", "WI", "AQ", "BQ", "DQ", "FQ", "MA", "ET", "MM", "PL", "UT"}
ForcedMode == [FE |-> 3, FP |-> 2, FX |-> 4]
Kinds == {"E", "G"}   \* single energies and averages
KindOf == [read_energy |-> "E", read_average |-> "G"]
ValueCommand == [E |-> "SE", G |-> "SG"]

CallSet == [op : Methods, arg : Int]

ASSUME PowerMeterAssumption ==
    /\ "none" \notin Threads
    /\ Calls \subseteq CallSet
    /\ Found \subseteq [Settings -> Int]
    /\ Legal \subseteq Int
    /\ MaxShots \in Nat

Ask(n) == [n |-> n, set |-> FALSE, v |-> 0]

\* Both wavelength setters send a uint16_t.
SentValue(c) == IF CommandOf[c.op] = "WL" THEN c.arg % 65536 ELSE c.arg

SendOf(c) ==
    LET n == CommandOf[c.op] IN
    IF n \in Settings /\ c.op # "query_user_threshold" /\ ~(c.op \in ZeroAsks /\ c.arg = 0)
    THEN [n |-> n, set |-> TRUE, v |-> SentValue(c)]
    ELSE Ask(n)

\* write_range sends its command twice.
Script(c) == IF c.op = "write_range" THEN <<SendOf(c), SendOf(c)>> ELSE <<SendOf(c)>>

-----------------------------------------------------------------------------
\* The instrument.

\* A laser pulse is measured, or an average computed.
Measure(k) ==
    /\ unit.shot[k] < MaxShots
    /\ unit' = [unit EXCEPT !.shot[k] = @ + 1, !.fresh[k] = TRUE]
    /\ UNCHANGED <<deviceVars, lock, call, members, seen, taken>>

\* The states after a command, each with whether the answer starts with '*'.
Execute(u, c) ==
    CASE c.set /\ c.v \in Legal      -> {[u |-> [u EXCEPT !.set[c.n] = c.v], ok |-> TRUE]}
      [] c.set /\ c.v \notin Legal   -> {[u |-> u, ok |-> FALSE]}
      [] c.n \in DOMAIN ForcedMode   -> {[u |-> [u EXCEPT !.set["MM"] = ForcedMode[c.n]], ok |-> TRUE],
                                         [u |-> u, ok |-> FALSE]}
      [] c.n = "SE"                  -> {[u |-> [u EXCEPT !.fresh["E"] = FALSE], ok |-> TRUE]}
      [] c.n = "SG"                  -> {[u |-> [u EXCEPT !.fresh["G"] = FALSE], ok |-> TRUE]}
      [] c.n = "RE"                  -> {[u |-> [u EXCEPT !.set = s], ok |-> TRUE] : s \in Found}
      [] c.n \in {"SF", "EE", "IC"}  -> {[u |-> u, ok |-> b] : b \in BOOLEAN}
      [] OTHER                       -> {[u |-> u, ok |-> TRUE]}

\* Whether a number follows the first byte; a successful "UT v" may come
\* without the three numbers.
Numbered(c, ok) ==
    CASE c.n \in {"AQ", "BQ", "DQ", "FQ", "MA", "ET"} -> {TRUE}
      [] c.n = "MM"                 -> {~c.set}
      [] c.n = "PL"                 -> {~c.set \/ ~ok}
      [] c.n = "UT" /\ c.set        -> IF ok THEN {TRUE, FALSE} ELSE {FALSE}
      [] c.n \in {"SF", "EE"}       -> {ok}
      [] c.n \in {"UT", "EF", "ER", "AF", "SE", "SG", "SP", "SX", "RN", "AR", "MF"} -> {TRUE}
      [] OTHER                      -> {FALSE}

Number(u, n) ==
    CASE n \in Settings     -> u.set[n]
      [] n \in {"RN", "AR"} -> u.set["WN"]
      [] n = "EF"           -> IF u.fresh["E"] THEN 1 ELSE 0
      [] n = "AF"           -> IF u.fresh["G"] THEN 1 ELSE 0
      [] n = "SE"           -> u.shot["E"]
      [] n = "SG"           -> u.shot["G"]
      [] OTHER              -> 0

Replies(t, c, u, ok) ==
    {[who |-> t, n |-> c.n, ok |-> ok, num |-> b, val |-> Number(u, c.n)] : b \in Numbered(c, ok)}
GarbledReply(t) == [who |-> t, n |-> "?", ok |-> FALSE, num |-> FALSE, val |-> 0]

\* The setting a command is about, as its caller is told it.
Left(u, c) == u.set[IF c.n \in Settings THEN c.n ELSE "MM"]

-----------------------------------------------------------------------------
Resting == {"idle", "returned", "thrown"}
Inside == {"write", "reset", "rewrite", "read", "reset_read", "reread"}
Stages == Resting \cup Inside \cup {"lock", "parse"}

InCall(t) == call[t].stage \notin Resting
head(t) == Head(call[t].todo)

Goto(t, stage) == call' = [call EXCEPT ![t].stage = stage]
End(t, stage, out) ==
    call' = [call EXCEPT ![t].stage = stage, ![t].out = out, ![t].todo = << >>, ![t].rr = << >>]
Return(t, out) == End(t, "returned", out)
Raise(t) == End(t, "thrown", 0)
\* The method goes on with another command; write_range keeps its string rr.
Follow(t, todo, rr) ==
    call' = [call EXCEPT ![t].stage = "lock", ![t].todo = todo, ![t].rr = rr]

Init ==
    /\ DeviceInit
    /\ \E s \in Found :
        unit = [set |-> s, shot |-> [k \in Kinds |-> 0], fresh |-> [k \in Kinds |-> FALSE]]
    /\ lock = "none"
    /\ call = [t \in Threads |-> [op |-> "get_range_fast", arg |-> 0, todo |-> << >>,
                                  stage |-> "idle", rr |-> << >>, out |-> 0]]
    /\ m_range = 2
    /\ m_wavelength = 266
    /\ m_e_threshold = 1
    /\ filled = {}
    /\ seen = [t \in Threads |-> 0]
    /\ taken = [k \in Kinds |-> [i \in 0 .. MaxShots |-> 0]]

Member(op) ==
    CASE op = "get_range_fast"  -> m_range
      [] op = "get_wavelength"  -> m_wavelength
      [] op = "get_e_threshold" -> m_e_threshold

\* A thread calls a method.
Invoke(t, c) ==
    /\ ~InCall(t)
    /\ call' = [call EXCEPT ![t] =
                  [op |-> c.op, arg |-> c.arg, rr |-> << >>,
                   todo |-> IF c.op \in Members THEN << >> ELSE Script(c),
                   stage |-> IF c.op \in Members THEN "returned" ELSE "lock",
                   out |-> IF c.op \in Members THEN Member(c.op) ELSE 0]]
    /\ UNCHANGED <<deviceVars, unit, lock, members, seen, taken>>

\* Mutant: send_cmd does not take the mutex.
Acquire_NoLock(t) ==
    /\ call[t].stage = "lock"
    /\ Goto(t, "write")
    /\ UNCHANGED <<deviceVars, unit, lock, members, seen, taken>>

\* send_cmd takes m_cmd_mutex.
Acquire(t) ==
    /\ call[t].stage = "lock"
    /\ lock = "none"
    /\ lock' = t
    /\ Goto(t, "write")
    /\ UNCHANGED <<deviceVars, unit, members, seen, taken>>

WriteDone(t) ==
    /\ call[t].stage \in {"write", "rewrite"}
    /\ \/ /\ frag
          /\ WriteFull(<<GarbledReply(t)>>) \/ ("mute" \in Faults /\ WriteFull(<< >>))
          /\ UNCHANGED <<unit, seen>>
       \/ /\ ~frag
          /\ \E e \in Execute(unit, head(t)) :
                /\ unit' = e.u
                /\ \/ \E r \in Replies(t, head(t), e.u, e.ok) : WriteFull(<<r>>)
                   \/ "mute" \in Faults /\ WriteFull(<< >>)
          /\ seen' = [seen EXCEPT ![t] = Left(unit', head(t))]
    /\ Goto(t, "read")
    /\ UNCHANGED <<lock, members, taken>>

\* Mutants: the result of send_cmd is not looked at; the mutex is not released
\* when send_cmd fails.
SendFails_Ignored(t) == lock' = "none" /\ Goto(t, "parse")
SendFails_KeepsLock(t) == UNCHANGED lock /\ Raise(t)

\* send_cmd returns false: every method throws, but the first of write_range's
\* two calls, whose result is not looked at.
SendFails(t) ==
    /\ lock' = "none"
    /\ IF Len(call[t].todo) > 1
       THEN Follow(t, Tail(call[t].todo), call[t].rr)
       ELSE Raise(t)

WriteFailed(t) ==
    /\ \/ call[t].stage = "write" /\ Goto(t, "reset") /\ UNCHANGED lock
       \/ call[t].stage = "rewrite" /\ SendFails(t)
    /\ WriteShort
    /\ UNCHANGED <<unit, members, seen, taken>>

Reset(t) ==
    /\ \/ call[t].stage = "reset" /\ Goto(t, "rewrite")
       \/ call[t].stage = "reset_read" /\ Goto(t, "reread")
    /\ ResetOk
    /\ UNCHANGED <<unit, lock, members, seen, taken>>

\* read_cmd got nothing: reset and read again, without sending again.
ReadTimeout(t) ==
    /\ \/ call[t].stage = "read" /\ Goto(t, "reset_read") /\ UNCHANGED lock
       \/ call[t].stage = "reread" /\ SendFails(t)
    /\ ReadLines(0)
    /\ UNCHANGED <<unit, members, seen, taken>>

\* read_cmd appends the answer to the string and send_cmd releases the mutex.
Read(t) ==
    /\ call[t].stage \in {"read", "reread"}
    /\ ReadLine
    /\ call' = [call EXCEPT ![t].stage = "parse", ![t].rr = Append(@, Head(rx))]
    /\ lock' = "none"
    /\ UNCHANGED <<unit, members, seen, taken>>

\* An exception leaves send_cmd; the lock_guard releases the mutex.
Throw(t) ==
    /\ \/ call[t].stage \in {"write", "rewrite"} /\ WriteThrow
       \/ call[t].stage \in {"reset", "reset_read"} /\ ResetThrow
       \/ call[t].stage \in {"read", "reread"} /\ ReadThrow
    /\ Raise(t)
    /\ lock' = "none"
    /\ UNCHANGED <<unit, members, seen, taken>>

-----------------------------------------------------------------------------
\* What the methods do with the answer r, after the mutex was released.

\* std::stoul and its kin on the answer: a number, or an exception.
Convert(t, r) == IF r.num THEN Return(t, r.val) ELSE Raise(t)

\* Mutants: a refusal is taken for a success; an old measurement for a new one.
Accepted_Always(r) == TRUE
IsNew_Always(r) == r.num

\* The first byte of the answer, and the flag of EF and AF.
Accepted(r) == r.ok
IsNew(r) == r.num /\ r.val = 1

\* write_range looks at the first byte of both answers put together.
ParseConfirmed(t) ==
    LET ok == Accepted(Head(call[t].rr)) IN
    /\ IF Len(call[t].todo) > 1
       THEN Follow(t, Tail(call[t].todo), call[t].rr)
       ELSE Return(t, IF ok THEN 1 ELSE 0)
    /\ m_wavelength' = IF call[t].op = "set_wavelength" /\ ok
                       THEN call[t].arg % 65536 ELSE m_wavelength
    /\ UNCHANGED <<m_range, m_e_threshold, filled, taken>>

\* A refused threshold is answered with m_e_threshold; an accepted one whose
\* answer has no numbers is asked for.
ParseThreshold(t, r) ==
    LET setting == call[t].op = "user_threshold" /\ head(t).set IN
    /\ CASE setting /\ ~Accepted(r)          -> Return(t, m_e_threshold)
         [] setting /\ Accepted(r) /\ ~r.num -> Follow(t, <<Ask("UT")>>, << >>)
         [] OTHER                            -> Convert(t, r)
    /\ m_e_threshold' = IF r.num THEN r.val ELSE m_e_threshold
    /\ filled' = IF r.num THEN filled \cup {"threshold_ranges"} ELSE filled
    /\ UNCHANGED <<m_range, m_wavelength, taken>>

\* measurement_mode and pulse_length: a success means the argument is set; a
\* refused mode is asked for, a refused length is in the answer.
ParseMode(t, r) ==
    /\ CASE head(t).set /\ Accepted(r) -> Return(t, call[t].arg)
         [] head(t).set /\ ~Accepted(r) /\ call[t].op = "measurement_mode" ->
                Follow(t, <<Ask("MM")>>, << >>)
         [] OTHER -> Convert(t, r)
    /\ filled' = IF call[t].op = "pulse_length" /\ ~head(t).set /\ r.num
                 THEN filled \cup {"pulse_lengths"} ELSE filled
    /\ UNCHANGED <<m_range, m_wavelength, m_e_threshold, taken>>

\* read_energy and read_average: the value is asked for only if the flag says
\* that it is new.
ParseReading(t, r) ==
    LET k == KindOf[call[t].op]
        flag == head(t).n # ValueCommand[k]
    IN
    /\ IF flag /\ IsNew(r)
       THEN Follow(t, <<Ask(ValueCommand[k])>>, << >>)
       ELSE Convert(t, r)
    /\ taken' = IF ~flag /\ r.num THEN [taken EXCEPT ![k][r.val] = @ + 1] ELSE taken
    /\ UNCHANGED members

\* The other methods: a number, zeros for '?', or the text as it comes.
ParseQuery(t, r) ==
    /\ IF call[t].op \in Text \/ (call[t].op \in Lenient /\ ~Accepted(r))
       THEN Return(t, 0) ELSE Convert(t, r)
    /\ m_e_threshold' = IF call[t].op = "energy_threshold" /\ r.num THEN r.val ELSE m_e_threshold
    /\ filled' = filled \cup CASE call[t].op = "average_query" /\ r.num  -> {"ave_windows"}
                               [] call[t].op = "get_all_ranges" /\ r.num -> {"ranges"}
                               [] OTHER -> {}
    /\ UNCHANGED <<m_range, m_wavelength, taken>>

Parse(t) ==
    /\ call[t].stage = "parse"
    /\ LET r == call[t].rr[Len(call[t].rr)]
           op == call[t].op
       IN  \/ op \in Confirmed /\ ParseConfirmed(t)
           \/ op \in {"user_threshold", "query_user_threshold"} /\ ParseThreshold(t, r)
           \/ op \in {"measurement_mode", "pulse_length"} /\ ParseMode(t, r)
           \/ op \in Readings /\ ParseReading(t, r)
           \/ op \notin Confirmed \cup Readings \cup
                  {"user_threshold", "query_user_threshold", "measurement_mode", "pulse_length"}
              /\ ParseQuery(t, r)
    /\ UNCHANGED <<deviceVars, unit, lock, seen>>

ThreadStep(t) ==
    \/ Acquire(t) \/ WriteDone(t) \/ WriteFailed(t) \/ Reset(t)
    \/ ReadTimeout(t) \/ Read(t) \/ Throw(t) \/ Parse(t)

Next ==
    \/ \E t \in Threads, c \in Calls : Invoke(t, c)
    \/ \E t \in Threads : ThreadStep(t)
    \/ \E k \in Kinds : Measure(k)

Spec == Init /\ [][Next]_vars

\* A thread that can go on does: every wait but that for the mutex has a
\* timeout.  Nothing is assumed about who gets the mutex.
FairSpec == Spec /\ \A t \in Threads : WF_vars(ThreadStep(t))

-----------------------------------------------------------------------------
\* Types of the driver's members, the mutex, the calls and the instrument.
TypeOK ==
    /\ port \in PortStates
    /\ frag \in BOOLEAN
    /\ lock \in Threads \cup {"none"}
    /\ unit.set \in [Settings -> Int]
    /\ unit.shot \in [Kinds -> 0 .. MaxShots]
    /\ unit.fresh \in [Kinds -> BOOLEAN]
    /\ \A t \in Threads :
        /\ call[t].stage \in Stages
        /\ call[t].op \in Methods
        /\ call[t].out \in Int
        /\ InCall(t) => call[t].todo # << >>
        /\ call[t].stage = "parse" => call[t].rr # << >>
    /\ m_range \in Int /\ m_wavelength \in 0 .. 65535 /\ m_e_threshold \in Int
    /\ filled \subseteq {"ranges", "pulse_lengths", "ave_windows", "threshold_ranges"}

\* The answer a thread parses is the instrument's answer to that thread's
\* last command, however the threads interleave and whatever is lost or
\* repeated: send_cmd holds m_cmd_mutex from the write to the answer.
AnswerIsOwn ==
    \A t \in Threads : call[t].stage = "parse" =>
        LET r == call[t].rr[Len(call[t].rr)] IN
        r.who = t /\ r.n \in {head(t).n, "?"}

\* The calls whose result says what the instrument is set to.
Telling(c) ==
    \/ c.op \in Reported \cup {"measurement_mode", "pulse_length", "query_user_threshold"}
    \/ c.op \in {"set_range", "write_range", "wavelength", "set_wavelength",
                 "wavelength_index"} /\ c.out = 1

\* What a method reports is what its last exchange left the instrument at: a
\* setter that reports success has set its argument, and a method that
\* returns a setting returns the one in place, on every path through the
\* retries, the refusals and the second command.
ReportIsTrue ==
    \A t \in Threads : (call[t].stage = "returned" /\ Telling(call[t])) =>
        seen[t] = IF call[t].op \in Confirmed THEN SentValue(call[t]) ELSE call[t].out

\* "NOTE: Use with $AF to ensure reading each average only once"
\* (include/PowerMeter.hh): read_energy and read_average, which combine the
\* flag with the value, hand each measurement out at most once.
ReadOnce == \A k \in Kinds : \A i \in 1 .. MaxShots : taken[k][i] <= 1

\* With one client thread, m_wavelength and m_e_threshold only ever change to
\* what the instrument is set to at that moment: the wavelength, or whichever
\* of its two thresholds the command was about.
MembersFollowUnit ==
    [][/\ m_wavelength' # m_wavelength => m_wavelength' = unit.set["WL"]
       /\ m_e_threshold' # m_e_threshold =>
            \E t \in Threads : call[t].stage = "parse" /\ m_e_threshold' = unit.set[head(t).n]]_vars

\* send_cmd gives the mutex back: every retry in it is bounded.
SendEnds == \A t \in Threads : lock = t ~> lock # t
=============================================================================
