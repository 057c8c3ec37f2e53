-------------------------------- MODULE Laser --------------------------------
(***************************************************************************)
(* The SureLite laser driver (src/Laser.cpp) and the laser unit it drives. *)
(*                                                                         *)
(* A method sends one command line, or two (single_shot).  Each command is *)
(* sent by the same pattern: write; if the write was short, reset the      *)
(* connection and write once more; if that was short too, throw.  Queries  *)
(* then read the answer, with one reset and one more read.                 *)
(***************************************************************************)
EXTENDS Device

CONSTANTS
    Calls,        \* the method calls a client makes in this run
    UnitSettings  \* the settings the unit may have when the driver starts

VARIABLES
    unit,    \* what the laser unit is set to, per setting command
    cache,   \* m_is_firing, m_prescale, m_pump_hv, m_rate, m_qswitch
    call,    \* the method call in progress, or the last one
    answer,  \* the line security or get_shot_count returned, if any
    ran,     \* history: times the unit carried out each command in this call
    acked,   \* history: the settings that a method has set successfully
    garbled  \* history: a command was glued to a fragment and lost

laserVars == <<unit, cache, call, answer, ran, acked, garbled>>
vars == <<deviceVars, laserVars>>

-----------------------------------------------------------------------------
Cached == {"ST", "PD", "VA", "RR", "QS"}
Settings == Cached \cup {"SH"}
Queries == {"SE", "SC"}
Commands == Settings \cup Queries \cup {"SS"}

Methods == {"shutter", "fire", "set_prescale", "set_pump_voltage",
            "single_shot", "get_shot_count", "security",
            "set_repetition_rate", "set_qswitch"}

CallSet == [op : Methods, arg : Int]

ASSUME LaserAssumption ==
    /\ Calls \subseteq CallSet
    /\ UnitSettings \subseteq [Settings -> Int]

Cmd(n, v) == [n |-> n, v |-> v]
CommandLines == [n : Commands, v : Int]

\* Voltages are in V (the argument is in kV), rates in 1/100 Hz.
MaxPumpHV == 1300
MaxPrescale == 99
MaxQSwitch == 999

AtMost(limit, v) == IF v > limit THEN limit ELSE v

\* The command a method sends.
CommandOf == [shutter |-> "SH", fire |-> "ST", set_prescale |-> "PD",
              set_pump_voltage |-> "VA", get_shot_count |-> "SC", security |-> "SE",
              set_repetition_rate |-> "RR", set_qswitch |-> "QS"]

\* Mutant: the arguments are sent as they come.
ValueOf_Uncapped(c) == c.arg

\* The value in it.
ValueOf(c) ==
    CASE c.op = "set_prescale" -> AtMost(MaxPrescale, c.arg)
      [] c.op = "set_qswitch"  -> AtMost(MaxQSwitch, c.arg)
      [] OTHER                 -> c.arg

\* Mutant: single_shot does not set the pulse division first.
Script_NoDivision(c) == IF c.op = "single_shot" THEN <<Cmd("SS", 0)>>
                        ELSE <<Cmd(CommandOf[c.op], ValueOf(c))>>

\* The command lines of a method, in order.
Script(c) == IF c.op = "single_shot" THEN <<Cmd("PD", 0), Cmd("SS", 0)>>
             ELSE <<Cmd(CommandOf[c.op], ValueOf(c))>>

\* The value as the command line carries it: "VA" has two decimals of a kV,
\* "RR" one decimal of a Hz.
Written(n, v) == IF n \in {"VA", "RR"} THEN (v + 5) \div 10 ELSE v

\* The unit echoes every line and answers a query with one more line.
Line(n, part) == [of |-> n, part |-> part]
Lines == [of : Commands \cup {"?"}, part : {"echo", "value"}]
Answers(n) == IF n \in Queries THEN <<Line(n, "echo"), Line(n, "value")>>
                               ELSE <<Line(n, "echo")>>
NoAnswer == [of |-> "?", part |-> "value"]

-----------------------------------------------------------------------------
Resting == {"idle", "returned", "thrown"}
Stages == Resting \cup {"write", "reset", "rewrite", "read", "reset_read", "reread"}

InCall == call.stage \notin Resting
head == Head(call.todo)

\* Mutant: the command is gone when it is needed again.
Goto_Forgets(stage) == call' = [stage |-> stage, todo |-> << >>]

Goto(stage) == call' = [call EXCEPT !.stage = stage]

\* The constructor's members; it asks the unit nothing, so the unit's settings
\* are unknown to it.
LaserInit ==
    /\ unit \in UnitSettings
    /\ cache = [ST |-> 0, PD |-> 0, VA |-> 1100, RR |-> 1000, QS |-> 170]
    /\ call = [stage |-> "idle", todo |-> << >>]
    /\ answer = NoAnswer
    /\ ran = [n \in Commands |-> 0]
    /\ acked = {}
    /\ garbled = FALSE

Init == DeviceInit /\ LaserInit

\* A client calls a method; a pump voltage out of range is refused before
\* anything is sent.
Invoke(c) ==
    /\ ~InCall
    /\ call' = IF c.op = "set_pump_voltage" /\ (c.arg > MaxPumpHV \/ c.arg < 0)
               THEN [stage |-> "thrown", todo |-> << >>]
               ELSE [stage |-> "write", todo |-> Script(c)]
    /\ answer' = NoAnswer
    /\ ran' = [n \in Commands |-> 0]
    /\ UNCHANGED <<deviceVars, unit, cache, acked, garbled>>

\* What the unit does with the complete line the write put out: the command,
\* or nothing when a fragment was in front of it.
Receive(c) ==
    /\ unit' = IF ~frag /\ c.n \in Settings
               THEN [unit EXCEPT ![c.n] = Written(c.n, c.v)] ELSE unit
    /\ ran' = IF frag THEN ran ELSE [ran EXCEPT ![c.n] = @ + 1]
    /\ garbled' = (garbled \/ frag)

Reply(c) == IF frag THEN <<Line("?", "echo")>> ELSE Answers(c.n)

\* The write succeeds: the member caching the setting is assigned, and the
\* method goes on to read, to its next command, or returns.
WriteDone ==
    /\ call.stage \in {"write", "rewrite"}
    /\ \/ WriteFull(Reply(head))
       \/ "mute" \in Faults /\ WriteFull(<< >>)
    /\ Receive(head)
    /\ cache' = IF head.n \in Cached THEN [cache EXCEPT ![head.n] = head.v] ELSE cache
    /\ acked' = IF head.n \in Settings THEN acked \cup {head.n} ELSE acked
    /\ \/ head.n \in Queries /\ Goto("read")
       \/ head.n \notin Queries /\ Tail(call.todo) = << >> /\ Goto("returned")
       \/ head.n \notin Queries /\ Tail(call.todo) # << >>
          /\ call' = [stage |-> "write", todo |-> Tail(call.todo)]
    /\ UNCHANGED answer

\* Where a method goes when write_cmd was short: it retries once after a
\* reset, then throws.  get_shot_count does not look at the result and reads.
ShortStage ==
    \/ call.stage = "write" /\ head.n # "SC" /\ Goto("reset")
    \/ call.stage = "write" /\ head.n = "SC" /\ Goto("read")
    \/ call.stage = "rewrite" /\ Goto("thrown")

\* Mutants: the member is assigned although the write failed; the line was
\* out although the write counts as failed; the retries go on for ever.
WriteFailed_Assigns ==
    /\ ShortStage
    /\ WriteShort
    /\ cache' = IF head.n \in Cached THEN [cache EXCEPT ![head.n] = head.v] ELSE cache
    /\ UNCHANGED <<unit, answer, ran, acked, garbled>>

WriteFailed_Sent ==
    /\ ShortStage
    /\ WriteShort
    /\ Receive(head)
    /\ UNCHANGED <<cache, answer, acked>>

WriteFailed_Forever ==
    /\ call.stage \in {"write", "rewrite"} /\ Goto("reset")
    /\ WriteShort
    /\ UNCHANGED <<unit, cache, answer, ran, acked, garbled>>

WriteFailed ==
    /\ ShortStage
    /\ WriteShort
    /\ UNCHANGED <<unit, cache, answer, ran, acked, garbled>>

Reset ==
    /\ \/ call.stage = "reset" /\ Goto("rewrite")
       \/ call.stage = "reset_read" /\ Goto("reread")
    /\ ResetOk
    /\ UNCHANGED <<unit, cache, answer, ran, acked, garbled>>

\* security takes the second of exactly two lines, or after a reset the
\* second of however many there are (lines.at throws when there is one);
\* get_shot_count takes the only line or the second, and converts it (stoul
\* throws on an echo); after a reset it converts the empty string.
Chosen(k) ==
    CASE call.stage = "read" /\ head.n = "SE"   -> IF k = 2 THEN {2} ELSE {}
      [] call.stage = "reread" /\ head.n = "SE" -> IF k >= 2 THEN {2} ELSE {}
      [] call.stage = "read" /\ head.n = "SC"   ->
            {i \in {AtMost(2, k)} : rx[i].part = "value"}
      [] OTHER                                  -> {}

Read(k) ==
    /\ call.stage \in {"read", "reread"}
    /\ ReadLines(k)
    /\ \/ k = 0 /\ call.stage = "read" /\ Goto("reset_read") /\ UNCHANGED answer
       \/ k = 0 /\ call.stage = "reread" /\ Goto("thrown") /\ UNCHANGED answer
       \/ k > 0 /\ Chosen(k) = {} /\ Goto("thrown") /\ UNCHANGED answer
       \/ k > 0 /\ \E i \in Chosen(k) : answer' = rx[i] /\ Goto("returned")
    /\ UNCHANGED <<unit, cache, ran, acked, garbled>>

\* An exception of the serial library leaves the method.
Throw ==
    /\ \/ call.stage \in {"write", "rewrite"} /\ WriteThrow
       \/ call.stage \in {"reset", "reset_read"} /\ ResetThrow
       \/ call.stage \in {"read", "reread"} /\ ReadThrow
    /\ Goto("thrown")
    /\ UNCHANGED <<unit, cache, answer, ran, acked, garbled>>

LaserStep == WriteDone \/ WriteFailed \/ Reset \/ (\E k \in 0 .. Len(rx) : Read(k)) \/ Throw

Next == (\E c \in Calls : Invoke(c)) \/ LaserStep

Spec == Init /\ [][Next]_vars

\* A method runs to its end: every wait in it has a timeout.
FairSpec == Spec /\ WF_vars(LaserStep)

-----------------------------------------------------------------------------
\* Types of the driver's members, the unit's settings and the link.
TypeOK ==
    /\ port \in PortStates
    /\ frag \in BOOLEAN
    /\ rx \in Seq(Lines)
    /\ unit \in [Settings -> Int]
    /\ cache \in [Cached -> Int]
    /\ call \in [stage : Stages, todo : Seq(CommandLines)]
    /\ InCall => call.todo # << >>
    /\ answer \in Lines
    /\ ran \in [Commands -> Nat]
    /\ acked \subseteq Settings
    /\ garbled \in BOOLEAN

\* Every member that caches a setting (m_is_firing, m_prescale, m_pump_hv,
\* m_rate, m_qswitch) agrees with the unit from the first successful setter
\* on, whichever setters failed since, at both attempts or in the reset: the
\* members are assigned only once the command is out.  Only a command glued
\* to a fragment breaks it.
CacheMatchesUnit ==
    ~garbled => \A n \in acked \cap Cached : unit[n] = Written(n, cache[n])

\* However often a method resets and writes again, the unit carries out each
\* of its commands at most once: a short write never holds the terminator.
AtMostOnce == \A n \in Commands : ran[n] <= 1

\* How a method ends tells what the unit did: a setter (or single_shot) that
\* throws has not had the command that failed carried out, and one that
\* returns has, unless a fragment garbled it.
OutcomeIsTrue ==
    (call.todo # << >> /\ head.n \notin Queries) =>
        /\ call.stage = "thrown" => ran[head.n] = 0
        /\ call.stage = "returned" => garbled \/ ran[head.n] = 1

\* The line that security or get_shot_count returns is the unit's answer to
\* that query, not an echo and not the answer to an earlier query.
AnswerIsOwn ==
    (call.stage = "returned" /\ head.n \in Queries) =>
        answer = Line(head.n, "value")

\* The unit takes a single shot only with the pulse division at 000, because
\* single_shot sends "PD 000" first; a garbled "PD 000" is the one exception.
SingleShotUndivided ==
    [][ran'["SS"] > ran["SS"] => garbled \/ unit["PD"] = 0]_vars

\* Every method call returns or throws: the retries are bounded.
CallEnds == InCall ~> ~InCall
=============================================================================
