----------------------- MODULE LaserRefinementProofs -----------------------
(***************************************************************************)
(* Laser implements LaserSim, for every set of calls, every bound and      *)
(* every combination of link faults.                                       *)
(***************************************************************************)
EXTENDS LaserRefinement, LaserProofs

\* A call that the range check of set_pump_voltage lets through.
Accepted(c) == ~(c.op = "set_pump_voltage" /\ (c.arg > MaxPumpHV \/ c.arg < 0))

\* A command line that sets something is the first line of an accepted call.
FromCall(h) == h.n \in Settings => \E c \in Calls : Accepted(c) /\ h = Head(Script(c))

\* Whatever is still to be written, now or after a reset, comes from a call.
ScriptInv == \A i \in 1 .. Len(call.todo) : FromCall(call.todo[i])

\* The lines of a method come from its call; the second one of single_shot is
\* not a setting.
LEMMA ScriptFromCall ==
    ASSUME NEW c \in Calls, Accepted(c)
    PROVE  \A i \in 1 .. Len(Script(c)) : FromCall(Script(c)[i])
<1>1. CASE c.op = "single_shot"
    <2>1. Script(c) = <<Cmd("PD", 0), Cmd("SS", 0)>>
        BY <1>1 DEF Script
    <2>2. FromCall(Script(c)[1])
        BY <2>1 DEF FromCall
    <2>3. FromCall(Script(c)[2])
        BY <2>1 DEF FromCall, Cmd, Settings, Cached
    <2> QED
        BY <2>1, <2>2, <2>3
<1>2. CASE c.op # "single_shot"
    <2>1. Script(c) = <<Cmd(CommandOf[c.op], ValueOf(c))>>
        BY <1>2 DEF Script
    <2>2. FromCall(Script(c)[1])
        BY <2>1 DEF FromCall
    <2> QED
        BY <2>1, <2>2
<1> QED
    BY <1>1, <1>2

\* ScriptInv is kept: a script is replaced by its tail or by that of a new call.
LEMMA ScriptStep ==
    ASSUME TypeOK, ScriptInv, [Next]_vars
    PROVE  ScriptInv'
<1>1. CASE \E c \in Calls : Invoke(c)
    <2>1. PICK c \in Calls : Invoke(c)
        BY <1>1
    <2>2. CASE Accepted(c)
        <3>1. call'.todo = Script(c)
            BY <2>1, <2>2 DEF Invoke, Accepted
        <3> QED
            BY <2>2, <3>1, ScriptFromCall DEF ScriptInv
    <2>3. CASE ~Accepted(c)
        <3>1. call'.todo = << >>
            BY <2>1, <2>3 DEF Invoke, Accepted
        <3> QED
            BY <3>1 DEF ScriptInv
    <2> QED
        BY <2>2, <2>3
<1>2. CASE call'.todo = call.todo
    BY <1>2 DEF ScriptInv
<1>3. CASE InCall /\ call'.todo = Tail(call.todo)
    <2>1. call.todo \in Seq(CommandLines) /\ call.todo # << >>
        BY <1>3 DEF TypeOK
    <2>2. /\ Len(Tail(call.todo)) = Len(call.todo) - 1
          /\ \A i \in 1 .. Len(Tail(call.todo)) : Tail(call.todo)[i] = call.todo[i + 1]
        BY <2>1
    <2>3. Len(call.todo) \in Nat
        BY <2>1
    <2>4. SUFFICES ASSUME NEW i \in 1 .. Len(Tail(call.todo))
                   PROVE  FromCall(Tail(call.todo)[i])
        BY <1>3 DEF ScriptInv
    <2> QED
        BY <2>2, <2>3 DEF ScriptInv
<1>4. ASSUME NEW s, Goto(s) PROVE call'.todo = call.todo
    BY <1>4 DEF Goto, TypeOK
<1>5. CASE WriteDone
    <2>1. InCall
        BY <1>5 DEF WriteDone, InCall, Resting
    <2>2. \/ Goto("read") \/ Goto("returned")
          \/ call' = [stage |-> "write", todo |-> Tail(call.todo)]
        BY <1>5 DEF WriteDone
    <2>3. call'.todo = call.todo \/ call'.todo = Tail(call.todo)
        BY <2>2 DEF Goto, TypeOK
    <2> QED
        BY <1>2, <1>3, <2>1, <2>3
<1>6. CASE WriteFailed \/ Reset \/ (\E k \in 0 .. Len(rx) : Read(k)) \/ Throw
    BY <1>2, <1>4, <1>6 DEF WriteFailed, ShortStage, Reset, Read, Throw
<1>7. CASE UNCHANGED vars
    BY <1>2, <1>7 DEF vars, laserVars
<1> QED
    BY <1>1, <1>5, <1>6, <1>7 DEF Next, LaserStep

-----------------------------------------------------------------------------
\* The value that a setter writes is the one the simulator assigns.
LEMMA SentValue ==
    ASSUME NEW c \in Calls, Accepted(c), NEW h, h = Head(Script(c)), h.n \in Settings
    PROVE  \/ c.op = "shutter" /\ h.n = "SH" /\ h.v = c.arg
           \/ c.op = "fire" /\ h.n = "ST" /\ h.v = c.arg
           \/ c.op = "set_prescale" /\ h.n = "PD" /\ h.v = Sim!Capped(c.arg, 99)
           \/ c.op = "single_shot" /\ h.n = "PD" /\ h.v = Sim!Capped(0, 99)
           \/ c.op = "set_pump_voltage" /\ h.n = "VA" /\ h.v = c.arg /\ c.arg <= 1300 /\ c.arg >= 0
           \/ c.op = "set_repetition_rate" /\ h.n = "RR" /\ h.v = c.arg
           \/ c.op = "set_qswitch" /\ h.n = "QS" /\ h.v = Sim!Capped(c.arg, 999)
<1>1. c.op \in Methods /\ c.arg \in Int
    BY LaserAssumption DEF CallSet
<1>2. CASE c.op = "single_shot"
    BY <1>2 DEF Script, Cmd, Sim!Capped
<1>3. CASE c.op # "single_shot"
    <2>1. h = Cmd(CommandOf[c.op], ValueOf(c))
        BY <1>3 DEF Script
    <2> QED
        BY <1>1, <1>3, <2>1 DEF Cmd, CommandOf, ValueOf, AtMost, Accepted, Methods,
           MaxPrescale, MaxQSwitch, MaxPumpHV, Settings, Cached, Sim!Capped
<1> QED
    BY <1>2, <1>3

\* A complete write is one method of the simulator, or changes nothing.
LEMMA WriteDoneImplements ==
    ASSUME TypeOK, ScriptInv, WriteDone
    PROVE  [Sim!Next]_(Sim!simVars)
<1>1. InCall
    BY DEF WriteDone, InCall, Resting
<1>2. head.n \in Commands /\ head.v \in Int
    BY <1>1, HeadType
<1>3. FromCall(head)
    <2>1. call.todo \in Seq(CommandLines) /\ call.todo # << >>
        BY <1>1 DEF TypeOK
    <2>2. head = call.todo[1] /\ 1 \in 1 .. Len(call.todo)
        BY <2>1 DEF head
    <2> QED
        BY <2>2 DEF ScriptInv
<1>4. cache' = IF head.n \in Cached THEN [cache EXCEPT ![head.n] = head.v] ELSE cache
    BY DEF WriteDone
<1>5. unit' = IF ~frag /\ head.n \in Settings
              THEN [unit EXCEPT ![head.n] = Written(head.n, head.v)] ELSE unit
    BY DEF WriteDone, Receive
<1>6. cache \in [Cached -> Int] /\ unit \in [Settings -> Int]
    BY DEF TypeOK
<1>7. CASE head.n \notin Settings
    BY <1>4, <1>5, <1>7 DEF Settings, Sim!simVars
<1>8. CASE head.n \in Settings
    <2>1. PICK c \in Calls : Accepted(c) /\ head = Head(Script(c))
        BY <1>3, <1>8 DEF FromCall
    <2>2. SUFFICES Sim!Method(c) \/ UNCHANGED Sim!simVars
        BY DEF Sim!Next
    <2>3. CASE head.n = "SH"
        <3>1. cache' = cache /\ c.op = "shutter" /\ head.v = c.arg
            BY <1>4, <1>8, <2>1, <2>3, SentValue DEF Cached
        <3>2. unit'["SH"] = head.v \/ unit'["SH"] = unit["SH"]
            BY <1>5, <1>6, <1>8, <2>3 DEF Written
        <3> QED
            BY <3>1, <3>2 DEF Sim!Method, Sim!shutter, Sim!simVars
    <2>4. CASE head.n # "SH"
        <3>1. unit'["SH"] = unit["SH"]
            BY <1>5, <1>6, <1>8, <2>4 DEF Settings, Cached
        <3>2. head.n \in Cached
            BY <1>8, <2>4 DEF Settings
        <3>3. \A n \in Cached : cache'[n] = IF n = head.n THEN head.v ELSE cache[n]
            BY <1>4, <1>6, <3>2
        <3>4. /\ cache'["ST"] = IF "ST" = head.n THEN head.v ELSE cache["ST"]
              /\ cache'["PD"] = IF "PD" = head.n THEN head.v ELSE cache["PD"]
              /\ cache'["VA"] = IF "VA" = head.n THEN head.v ELSE cache["VA"]
              /\ cache'["RR"] = IF "RR" = head.n THEN head.v ELSE cache["RR"]
              /\ cache'["QS"] = IF "QS" = head.n THEN head.v ELSE cache["QS"]
            BY <3>3 DEF Cached
        <3>5. \/ c.op = "fire" /\ head.n = "ST" /\ head.v = c.arg
              \/ c.op = "set_prescale" /\ head.n = "PD" /\ head.v = Sim!Capped(c.arg, 99)
              \/ c.op = "single_shot" /\ head.n = "PD" /\ head.v = Sim!Capped(0, 99)
              \/ c.op = "set_pump_voltage" /\ head.n = "VA" /\ head.v = c.arg /\ c.arg <= 1300 /\ c.arg >= 0
              \/ c.op = "set_repetition_rate" /\ head.n = "RR" /\ head.v = c.arg
              \/ c.op = "set_qswitch" /\ head.n = "QS" /\ head.v = Sim!Capped(c.arg, 999)
            BY <1>8, <2>1, <2>4, SentValue
        <3> QED
            BY <3>1, <3>4, <3>5 DEF Sim!Method, Sim!fire, Sim!set_prescale, Sim!single_shot,
               Sim!set_pump_voltage, Sim!set_repetition_rate, Sim!set_qswitch
    <2> QED
        BY <2>3, <2>4
<1> QED
    BY <1>7, <1>8

\* Every step of the driver is a method of the simulator or changes nothing.
LEMMA StepImplements ==
    ASSUME TypeOK, ScriptInv, [Next]_vars
    PROVE  [Sim!Next]_(Sim!simVars)
<1>1. CASE WriteDone
    BY <1>1, WriteDoneImplements
<1>2. CASE UNCHANGED <<unit, cache>>
    BY <1>2 DEF Sim!simVars
<1> QED
    BY <1>1, <1>2 DEF Next, LaserStep, Invoke, WriteFailed, Reset, Read, Throw, vars, laserVars

\* The laser driver implements the simulator, for any calls and any failures
\* of the link: each method takes effect once, at once and with the value the
\* simulator gives it, or not at all.  The simulator starts with its shutter
\* closed, so the unit has to be found so.
THEOREM Implements ==
    ASSUME \A s \in UnitSettings : s["SH"] = 0
    PROVE  Spec => ImplementsSim
<1>1. Init => Sim!Init
    BY DEF Init, LaserInit, Sim!Init
<1>2. Init => ScriptInv
    BY DEF Init, LaserInit, ScriptInv
<1>3. TypeOK /\ ScriptInv /\ [Next]_vars => ScriptInv'
    BY ScriptStep
<1>4. TypeOK /\ ScriptInv /\ [Next]_vars => [Sim!Next]_(Sim!simVars)
    BY StepImplements
<1> QED
    BY <1>1, <1>2, <1>3, <1>4, TypeCorrect, PTL DEF Spec, ImplementsSim, Sim!Spec
=============================================================================
