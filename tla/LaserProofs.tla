----------------------------- MODULE LaserProofs -----------------------------
(***************************************************************************)
(* Theorems about module Laser, for every set of calls, every state the    *)
(* unit is found in, every bound and every combination of link faults.     *)
(***************************************************************************)
EXTENDS Laser, SequenceTheorems, TLAPS

-----------------------------------------------------------------------------
\* flushInput, close and a timed-out read leave a sequence of lines.
LEMMA AfterType ==
    ASSUME rx \in Seq(Lines), NEW k \in 0 .. Len(rx)
    PROVE  After(k) \in Seq(Lines)
<1>1. \A i \in k + 1 .. Len(rx) : rx[i] \in Lines
    OBVIOUS
<1> QED
    BY <1>1, SubSeqProperties, k + 1 \in Int, Len(rx) \in Int DEF After

\* What has arrived is a part of what is pending.
LEMMA ArrivedRange ==
    ASSUME rx \in Seq(Lines)
    PROVE  Arrived \subseteq 0 .. Len(rx)
BY DEF Arrived

\* flushInput leaves a sequence of lines.
LEMMA FlushType ==
    ASSUME rx \in Seq(Lines)
    PROVE  FlushInput \subseteq Seq(Lines)
BY AfterType, ArrivedRange DEF FlushInput

\* The lines the unit sends back.
LEMMA ReplyType ==
    ASSUME NEW c \in CommandLines
    PROVE  Reply(c) \in Seq(Lines)
<1>1. \A n \in Commands \cup {"?"}, part \in {"echo", "value"} : Line(n, part) \in Lines
    BY DEF Line, Lines
<1>2. c.n \in Commands
    BY DEF CommandLines
<1> QED
    BY <1>1, <1>2 DEF Reply, Answers

\* What Device's operations do to the types of its variables.
LEMMA WriteFullType ==
    ASSUME rx \in Seq(Lines), NEW reply \in Seq(Lines), WriteFull(reply)
    PROVE  port' \in PortStates /\ frag' \in BOOLEAN /\ rx' \in Seq(Lines)
<1>1. PICK p \in FlushInput : rx' = p \o reply
    BY DEF WriteFull
<1>2. p \in Seq(Lines)
    BY <1>1, FlushType
<1>3. rx' \in Seq(Lines)
    BY <1>1, <1>2, ConcatProperties
<1> QED
    BY <1>3 DEF WriteFull, PortStates

\* The same for the other operations of Device: a short or failed write, the
\* two outcomes of reset_connection, and the reads.
LEMMA LinkType ==
    ASSUME port \in PortStates, frag \in BOOLEAN, rx \in Seq(Lines),
           WriteShort \/ WriteThrow \/ ResetOk \/ ResetThrow \/ ReadThrow
               \/ (\E k \in 0 .. Len(rx) : ReadLines(k))
    PROVE  port' \in PortStates /\ frag' \in BOOLEAN /\ rx' \in Seq(Lines)
<1>1. CASE WriteShort
    BY <1>1, FlushType DEF WriteShort, PortStates
<1>2. CASE WriteThrow
    BY <1>2, FlushType DEF WriteThrow, PortStates, deviceVars
<1>3. CASE ResetOk
    BY <1>3, FlushType DEF ResetOk, PortStates
<1>4. CASE ResetThrow
    BY <1>4, FlushType DEF ResetThrow, PortStates, deviceVars
<1>5. CASE ReadThrow
    BY <1>5 DEF ReadThrow, deviceVars
<1>6. CASE \E k \in 0 .. Len(rx) : ReadLines(k)
    BY <1>6, AfterType DEF ReadLines
<1> QED
    BY <1>1, <1>2, <1>3, <1>4, <1>5, <1>6

\* A method's script is one command line, or the two of single_shot.
LEMMA ScriptShape ==
    ASSUME NEW c \in CallSet
    PROVE  /\ Script(c) \in Seq(CommandLines)
           /\ Script(c) # << >>
           /\ \/ Tail(Script(c)) = << >> /\ Head(Script(c)).n # "SS"
              \/ Script(c) = <<Cmd("PD", 0), Cmd("SS", 0)>>
<1>1. c.op \in Methods /\ c.arg \in Int
    BY DEF CallSet
<1>2. ValueOf(c) \in Int
    BY <1>1 DEF ValueOf, AtMost, MaxPrescale, MaxQSwitch
<1>3. CASE c.op = "single_shot"
    BY <1>3 DEF Script, Cmd, CommandLines, Commands, Settings, Cached
<1>4. CASE c.op # "single_shot"
    <2>1. CommandOf[c.op] \in Commands \ {"SS"}
        BY <1>1, <1>4 DEF CommandOf, Methods, Commands, Settings, Cached, Queries
    <2> QED
        BY <1>2, <1>4, <2>1 DEF Script, Cmd, CommandLines
<1> QED
    BY <1>3, <1>4

-----------------------------------------------------------------------------
\* The constructor leaves a well-typed driver.
LEMMA InitType == Init => TypeOK
<1>1. \A f \in UnitSettings : f \in [Settings -> Int]
    BY LaserAssumption
<1>2. Init => cache \in [Cached -> Int]
    BY DEF Init, LaserInit, Cached
<1>3. Init => answer \in Lines
    BY DEF Init, LaserInit, NoAnswer, Lines
<1>4. Init => call \in [stage : Stages, todo : Seq(CommandLines)] /\ ~InCall
    BY DEF Init, LaserInit, Stages, Resting, InCall
<1>5. Init => rx \in Seq(Lines)
    BY DEF Init, DeviceInit
<1>6. Init => unit \in [Settings -> Int] /\ ran \in [Commands -> Nat] /\ acked \subseteq Settings
    BY <1>1 DEF Init, LaserInit
<1>7. Init => port \in PortStates /\ frag \in BOOLEAN /\ garbled \in BOOLEAN
    <2>1. FALSE \in BOOLEAN
        OBVIOUS
    <2>2. Init => port = "open" /\ frag = FALSE /\ garbled = FALSE
        BY DEF Init, DeviceInit, LaserInit
    <2> QED
        BY <2>1, <2>2 DEF PortStates
<1> QED
    BY <1>2, <1>3, <1>4, <1>5, <1>6, <1>7 DEF TypeOK

\* The head of the script is a command line while the method runs.
LEMMA HeadType ==
    ASSUME TypeOK, InCall
    PROVE  /\ head \in CommandLines
           /\ head.n \in Commands /\ head.v \in Int
           /\ Tail(call.todo) \in Seq(CommandLines)
<1>1. call.todo \in Seq(CommandLines) /\ call.todo # << >>
    BY DEF TypeOK
<1>2. head \in CommandLines
    BY <1>1, HeadTailProperties DEF head
<1>3. Tail(call.todo) \in Seq(CommandLines)
    BY <1>1, HeadTailProperties
<1> QED
    BY <1>2, <1>3 DEF CommandLines

\* Calling a method keeps the types: its script is a sequence of command lines.
LEMMA InvokeType ==
    ASSUME TypeOK, NEW c \in Calls, Invoke(c)
    PROVE  TypeOK'
<1>1. c \in CallSet
    BY LaserAssumption
<1>2. Script(c) \in Seq(CommandLines) /\ Script(c) # << >>
    BY <1>1, ScriptShape
<1>3. UNCHANGED <<port, frag, rx, unit, cache, acked, garbled>>
    BY DEF Invoke, deviceVars
<1>4. call' \in [stage : Stages, todo : Seq(CommandLines)] /\ (InCall' => call'.todo # << >>)
    BY <1>2 DEF Invoke, Stages, Resting, InCall
<1>5. answer' \in Lines /\ ran' \in [Commands -> Nat]
    BY DEF Invoke, NoAnswer, Lines
<1> QED
    BY <1>3, <1>4, <1>5 DEF TypeOK

\* A complete write keeps the types: what is left of the script is not empty
\* while the method runs.
LEMMA WriteDoneType ==
    ASSUME TypeOK, WriteDone
    PROVE  TypeOK'
<1>1. InCall
    BY DEF WriteDone, InCall, Resting
<1>2. /\ head \in CommandLines /\ head.n \in Commands /\ head.v \in Int
      /\ Tail(call.todo) \in Seq(CommandLines)
    BY <1>1, HeadType
<1>3. port' \in PortStates /\ frag' \in BOOLEAN /\ rx' \in Seq(Lines)
    <2>1. Reply(head) \in Seq(Lines) /\ << >> \in Seq(Lines)
        BY <1>2, ReplyType
    <2> QED
        BY <2>1, WriteFullType DEF WriteDone, TypeOK
<1>4. unit' \in [Settings -> Int]
    <2>1. \A n \in Commands, v \in Int : Written(n, v) \in Int
        BY DEF Written
    <2> QED
        BY <1>2, <2>1 DEF WriteDone, Receive, TypeOK
<1>5. ran' \in [Commands -> Nat] /\ garbled' \in BOOLEAN
    BY <1>2 DEF WriteDone, Receive, TypeOK
<1>6. cache' \in [Cached -> Int] /\ acked' \subseteq Settings /\ answer' \in Lines
    BY <1>2 DEF WriteDone, TypeOK
<1>7. call' \in [stage : Stages, todo : Seq(CommandLines)] /\ (InCall' => call'.todo # << >>)
    <2>1. CASE Goto("read") \/ Goto("returned")
        BY <1>1, <2>1 DEF TypeOK, Goto, Stages, Resting, InCall
    <2>2. CASE Tail(call.todo) # << >> /\ call' = [stage |-> "write", todo |-> Tail(call.todo)]
        BY <1>2, <2>2 DEF Stages, Resting, InCall
    <2> QED
        BY <2>1, <2>2 DEF WriteDone
<1> QED
    BY <1>3, <1>4, <1>5, <1>6, <1>7 DEF TypeOK

\* Every step of the driver keeps the types.
LEMMA StepType ==
    ASSUME TypeOK, Next
    PROVE  TypeOK'
<1>1. CASE \E c \in Calls : Invoke(c)
    BY <1>1, InvokeType
<1>2. CASE WriteDone
    BY <1>2, WriteDoneType
<1>3. CASE WriteFailed
    BY <1>3, LinkType DEF WriteFailed, ShortStage, TypeOK, Goto, Stages, Resting, InCall
<1>4. CASE Reset
    BY <1>4, LinkType DEF Reset, TypeOK, Goto, Stages, Resting, InCall
<1>5. CASE \E k \in 0 .. Len(rx) : Read(k)
    <2>1. PICK k \in 0 .. Len(rx) : Read(k)
        BY <1>5
    <2>2. port' \in PortStates /\ frag' \in BOOLEAN /\ rx' \in Seq(Lines)
        BY <2>1, LinkType DEF Read, TypeOK
    <2>3. answer' \in Lines
        <3>1. ASSUME NEW i \in Chosen(k), k > 0 PROVE rx[i] \in Lines
            <4>1. i \in 1 .. k
                BY <2>1, <3>1 DEF Chosen, AtMost
            <4> QED
                BY <4>1, <2>1 DEF TypeOK
        <3> QED
            BY <2>1, <3>1 DEF Read, TypeOK
    <2>4. call' \in [stage : Stages, todo : Seq(CommandLines)] /\ (InCall' => call'.todo # << >>)
        BY <2>1 DEF Read, TypeOK, Goto, Stages, Resting, InCall
    <2> QED
        BY <2>1, <2>2, <2>3, <2>4 DEF Read, TypeOK
<1>6. CASE Throw
    <2>1. port' \in PortStates /\ frag' \in BOOLEAN /\ rx' \in Seq(Lines)
        BY <1>6, LinkType DEF Throw, TypeOK
    <2> QED
        BY <1>6, <2>1 DEF Throw, TypeOK, Goto, Stages, Resting, InCall
<1> QED
    BY <1>1, <1>2, <1>3, <1>4, <1>5, <1>6 DEF Next, LaserStep

\* A stuttering step keeps the types.
LEMMA StutterType ==
    ASSUME TypeOK, UNCHANGED vars
    PROVE  TypeOK'
BY DEF vars, deviceVars, laserVars, TypeOK, InCall

\* The members, the unit, the link and the call in progress keep their types.
THEOREM TypeCorrect == Spec => []TypeOK
<1>1. TypeOK /\ [Next]_vars => TypeOK'
    BY StepType, StutterType
<1> QED
    BY InitType, <1>1, PTL DEF Spec

-----------------------------------------------------------------------------
\* Every step keeps the cached settings equal to the unit's: only WriteDone
\* changes either, and it changes both.
LEMMA CacheStep ==
    ASSUME TypeOK, CacheMatchesUnit, Next
    PROVE  CacheMatchesUnit'
<1>1. CASE WriteDone
    <2>1. head.n \in Commands /\ head.v \in Int
        BY <1>1, HeadType DEF WriteDone, InCall, Resting
    <2>2. SUFFICES ASSUME ~garbled', NEW n \in acked' \cap Cached
                   PROVE  unit'[n] = Written(n, cache'[n])
        BY DEF CacheMatchesUnit
    <2>3. ~frag /\ ~garbled
        BY <1>1, <2>2 DEF WriteDone, Receive
    <2>4. CASE n = head.n
        <3>1. n \in Settings
            BY <2>2 DEF Settings
        <3>2. unit'[n] = Written(n, head.v)
            BY <1>1, <2>3, <2>4, <3>1 DEF WriteDone, Receive, TypeOK
        <3>3. cache'[n] = head.v
            BY <1>1, <2>2, <2>4 DEF WriteDone, TypeOK
        <3> QED
            BY <3>2, <3>3
    <2>5. CASE n # head.n
        <3>1. n \in acked \cap Cached /\ n \in Settings
            BY <1>1, <2>2, <2>5 DEF WriteDone, Settings
        <3>2. unit'[n] = unit[n] /\ cache'[n] = cache[n]
            BY <1>1, <2>1, <2>5, <3>1 DEF WriteDone, Receive, TypeOK
        <3> QED
            BY <2>3, <3>1, <3>2 DEF CacheMatchesUnit
    <2> QED
        BY <2>4, <2>5
<1>2. CASE UNCHANGED <<unit, cache, acked, garbled>>
    BY <1>2 DEF CacheMatchesUnit
<1> QED
    BY <1>1, <1>2 DEF Next, LaserStep, Invoke, WriteFailed, Reset, Read, Throw

\* Every member that caches a setting agrees with the unit once it has been
\* set, whatever failed since, unless a command was glued to a fragment: the
\* setters assign their member only after write_cmd has returned true.
THEOREM CacheCorrect == Spec => []CacheMatchesUnit
<1>1. Init => CacheMatchesUnit
    BY DEF Init, LaserInit, CacheMatchesUnit
<1>2. TypeOK /\ CacheMatchesUnit /\ [Next]_vars => CacheMatchesUnit'
    BY CacheStep DEF vars, laserVars, CacheMatchesUnit
<1> QED
    BY <1>1, <1>2, TypeCorrect, PTL DEF Spec

-----------------------------------------------------------------------------
\* The strengthening behind the retries.  Until its write succeeds, the head
\* of the script has not been carried out; the script is one command other
\* than "SS", the two commands of single_shot, or its "SS" alone after a
\* "PD 000" that went out; only a query is read for.
Unsent == {"write", "reset", "rewrite"}

Underway ==
    /\ call.stage \in Unsent =>
        /\ ran[head.n] = 0
        /\ \/ Tail(call.todo) = << >> /\ head.n # "SS"
           \/ Tail(call.todo) = << >> /\ head.n = "SS" /\ (garbled \/ unit["PD"] = 0)
           \/ call.todo = <<Cmd("PD", 0), Cmd("SS", 0)>> /\ ran["SS"] = 0
    /\ call.stage \in {"read", "reset_read", "reread"} => head.n \in Queries

RetryInv == Underway /\ AtMostOnce /\ OutcomeIsTrue

\* No command has been carried out before the first call.
LEMMA RetryInit == Init => RetryInv
BY DEF Init, LaserInit, RetryInv, Underway, Unsent, AtMostOnce, OutcomeIsTrue

\* A call starts with none of its commands carried out.
LEMMA RetryInvoke ==
    ASSUME TypeOK, NEW c \in Calls, Invoke(c)
    PROVE  RetryInv'
<1>1. c \in CallSet
    BY LaserAssumption
<1>2. \A n \in Commands : ran'[n] = 0
    BY DEF Invoke
<1>3. CASE call' = [stage |-> "thrown", todo |-> << >>]
    BY <1>2, <1>3 DEF RetryInv, Underway, Unsent, AtMostOnce, OutcomeIsTrue
<1>4. CASE call' = [stage |-> "write", todo |-> Script(c)]
    <2>1. /\ call'.todo = Script(c) /\ call'.stage = "write"
          /\ Script(c) \in Seq(CommandLines) /\ Script(c) # << >>
        BY <1>1, <1>4, ScriptShape
    <2>2. head'.n \in Commands
        <3>1. Head(Script(c)) \in CommandLines
            BY <2>1, HeadTailProperties
        <3> QED
            BY <2>1, <3>1 DEF head, CommandLines
    <2>3. ran'[head'.n] = 0 /\ ran'["SS"] = 0
        BY <1>2, <2>2 DEF Commands
    <2>4. Underway'
        <3>1. head' = Head(Script(c))
            BY <2>1 DEF head
        <3>2. CASE Tail(Script(c)) = << >> /\ Head(Script(c)).n # "SS"
            BY <2>1, <2>3, <3>1, <3>2 DEF Underway
        <3>3. CASE Script(c) = <<Cmd("PD", 0), Cmd("SS", 0)>>
            BY <2>1, <2>3, <3>3 DEF Underway
        <3> QED
            BY <1>1, <3>2, <3>3, ScriptShape
    <2> QED
        BY <1>2, <2>1, <2>4 DEF RetryInv, AtMostOnce, OutcomeIsTrue
<1> QED
    BY <1>3, <1>4 DEF Invoke

\* The unit carries out the head of the script once, or a fragment garbles it.
LEMMA RanOnce ==
    ASSUME TypeOK, RetryInv, WriteDone
    PROVE  /\ head.n \in Commands
           /\ ran'[head.n] = IF frag THEN 0 ELSE 1
           /\ \A n \in Commands \ {head.n} : ran'[n] = ran[n]
           /\ garbled' = (garbled \/ frag)
<1>1. head.n \in Commands
    BY HeadType DEF WriteDone, InCall, Resting
<1>2. ran[head.n] = 0
    BY DEF WriteDone, RetryInv, Underway, Unsent
<1> QED
    BY <1>1, <1>2 DEF WriteDone, Receive, TypeOK

\* A complete write is the first of its command, and the method does not
\* write that command again.
LEMMA RetryWriteDone ==
    ASSUME TypeOK, RetryInv, WriteDone
    PROVE  RetryInv'
<1>1. /\ head.n \in Commands
      /\ ran'[head.n] = IF frag THEN 0 ELSE 1
      /\ \A n \in Commands \ {head.n} : ran'[n] = ran[n]
      /\ garbled' = (garbled \/ frag)
    BY RanOnce
<1>2. AtMostOnce'
    BY <1>1 DEF RetryInv, AtMostOnce
<1>3. CASE head.n \in Queries /\ Goto("read")
    <2>1. head' = head /\ call'.stage = "read"
        BY <1>3 DEF Goto, head, TypeOK
    <2> QED
        BY <1>2, <1>3, <2>1 DEF RetryInv, Underway, Unsent, OutcomeIsTrue
<1>4. CASE head.n \notin Queries /\ Goto("returned")
    <2>1. head' = head /\ call'.stage = "returned"
        BY <1>4 DEF Goto, head, TypeOK
    <2>2. garbled' \/ ran'[head.n] = 1
        BY <1>1
    <2> QED
        BY <1>2, <2>1, <2>2 DEF RetryInv, Underway, Unsent, OutcomeIsTrue
<1>5. CASE /\ head.n \notin Queries /\ Tail(call.todo) # << >>
           /\ call' = [stage |-> "write", todo |-> Tail(call.todo)]
    <2>1. call.todo = <<Cmd("PD", 0), Cmd("SS", 0)>> /\ ran["SS"] = 0
        BY <1>5 DEF WriteDone, RetryInv, Underway, Unsent
    <2>2. head = Cmd("PD", 0) /\ head.n = "PD" /\ head.v = 0
        BY <2>1 DEF head, Cmd
    <2>3. call'.stage = "write" /\ call'.todo = <<Cmd("SS", 0)>>
        BY <1>5, <2>1
    <2>4. head'.n = "SS" /\ Tail(call'.todo) = << >>
        BY <2>3 DEF head, Cmd
    <2>5. ran'["SS"] = 0
        BY <1>1, <2>1, <2>2 DEF Commands
    <2>6. garbled' \/ unit'["PD"] = 0
        <3>1. Written("PD", 0) = 0
            BY DEF Written
        <3>2. CASE frag
            BY <1>1, <3>2
        <3>3. CASE ~frag
            BY <2>2, <3>1, <3>3 DEF WriteDone, Receive, TypeOK, Settings, Cached
        <3> QED
            BY <3>2, <3>3
    <2> QED
        BY <1>2, <2>3, <2>4, <2>5, <2>6 DEF RetryInv, Underway, Unsent, OutcomeIsTrue
<1> QED
    BY <1>3, <1>4, <1>5 DEF WriteDone

\* Every step keeps RetryInv; a short write leaves the command unsent.
LEMMA RetryStep ==
    ASSUME TypeOK, RetryInv, Next
    PROVE  RetryInv'
<1>1. CASE \E c \in Calls : Invoke(c)
    BY <1>1, RetryInvoke
<1>2. CASE WriteDone
    BY <1>2, RetryWriteDone
<1>3. CASE /\ UNCHANGED <<unit, ran, garbled>>
           /\ \E stage \in Stages :
                 /\ Goto(stage)
                 /\ stage \in Unsent => call.stage \in Unsent
                 /\ stage \in {"read", "reset_read", "reread"} => head.n \in Queries
                 /\ stage = "thrown" => call.stage \in Unsent \/ head.n \in Queries
                 /\ stage = "returned" => head.n \in Queries
    <2>1. PICK stage \in Stages :
                 /\ Goto(stage)
                 /\ stage \in Unsent => call.stage \in Unsent
                 /\ stage \in {"read", "reset_read", "reread"} => head.n \in Queries
                 /\ stage = "thrown" => call.stage \in Unsent \/ head.n \in Queries
                 /\ stage = "returned" => head.n \in Queries
        BY <1>3
    <2>2. call'.stage = stage /\ call'.todo = call.todo /\ head' = head
        BY <2>1 DEF Goto, head, TypeOK
    <2> QED
        BY <1>3, <2>1, <2>2 DEF RetryInv, Underway, AtMostOnce, OutcomeIsTrue
<1>4. CASE WriteFailed
    BY <1>3, <1>4 DEF WriteFailed, ShortStage, Stages, Resting, Unsent, Queries
<1>5. CASE Reset
    BY <1>3, <1>5 DEF Reset, Stages, Resting, Unsent, RetryInv, Underway
<1>6. CASE \E k \in 0 .. Len(rx) : Read(k)
    BY <1>3, <1>6 DEF Read, Stages, Resting, Unsent, RetryInv, Underway
<1>7. CASE Throw
    BY <1>3, <1>7 DEF Throw, Stages, Resting, Unsent, RetryInv, Underway
<1> QED
    BY <1>1, <1>2, <1>4, <1>5, <1>6, <1>7 DEF Next, LaserStep

\* RetryInv is an invariant of the driver: in every stage of the retry loop
\* the commands still to be written have not been carried out.
THEOREM RetryCorrect == Spec => []RetryInv
<1>1. TypeOK /\ RetryInv /\ [Next]_vars => RetryInv'
    <2>1. ASSUME RetryInv, UNCHANGED vars PROVE RetryInv'
        BY <2>1 DEF vars, laserVars, RetryInv, Underway, AtMostOnce, OutcomeIsTrue, head
    <2> QED
        BY <2>1, RetryStep
<1> QED
    BY RetryInit, <1>1, TypeCorrect, PTL DEF Spec

\* However often a method resets the connection and writes again, the unit
\* carries out each of its commands at most once.
THEOREM AtMostOnceCorrect == Spec => []AtMostOnce
BY RetryCorrect, PTL DEF RetryInv

\* A setter, or single_shot, that throws has not had the failed command
\* carried out, and one that returns has, unless a fragment garbled it.
THEOREM OutcomeCorrect == Spec => []OutcomeIsTrue
BY RetryCorrect, PTL DEF RetryInv

\* The unit takes a single shot only with the pulse division at 000, unless a
\* command was garbled: single_shot's "PD 000" has gone out before its "SS".
THEOREM SingleShotCorrect == Spec => SingleShotUndivided
<1>1. ASSUME TypeOK, RetryInv, Next, ran'["SS"] > ran["SS"]
      PROVE  garbled \/ unit["PD"] = 0
    <2>1. "SS" \in Commands
        BY DEF Commands
    <2>2. CASE \E c \in Calls : Invoke(c)
        BY <1>1, <2>1, <2>2 DEF Invoke, TypeOK
    <2>3. CASE WriteDone
        <3>1. head.n = "SS"
            BY <1>1, <2>1, <2>3, RanOnce DEF TypeOK
        <3>2. call.todo # <<Cmd("PD", 0), Cmd("SS", 0)>>
            BY <3>1 DEF head, Cmd
        <3> QED
            BY <1>1, <2>3, <3>1, <3>2 DEF RetryInv, Underway, Unsent, WriteDone
    <2>4. CASE UNCHANGED ran
        BY <1>1, <2>1, <2>4 DEF TypeOK
    <2> QED
        BY <1>1, <2>2, <2>3, <2>4 DEF Next, LaserStep, WriteFailed, Reset, Read, Throw
<1>2. ASSUME TypeOK, UNCHANGED vars PROVE ~(ran'["SS"] > ran["SS"])
    BY <1>2 DEF vars, laserVars, TypeOK, Commands
<1>3. TypeOK /\ RetryInv /\ [Next]_vars =>
        [ran'["SS"] > ran["SS"] => garbled \/ unit["PD"] = 0]_vars
    BY <1>1, <1>2
<1> QED
    BY <1>3, TypeCorrect, RetryCorrect, PTL DEF Spec, SingleShotUndivided

-----------------------------------------------------------------------------
\* Where every answer is in time, a query reads what its own write was
\* answered with: flushInput has emptied the port before the write.
OwnLines ==
    /\ call.stage = "read" => rx \in {<< >>, <<Line("?", "echo")>>, Answers(head.n)}
    /\ call.stage = "reread" => rx = << >>
    /\ AnswerIsOwn

\* When no answer is late, flushInput leaves nothing pending.
LEMMA FlushEmpties ==
    ASSUME "late" \notin Faults, rx \in Seq(Lines), NEW p \in FlushInput
    PROVE  p = << >>
<1>1. p = SubSeq(rx, Len(rx) + 1, Len(rx))
    BY DEF FlushInput, Arrived, After
<1> QED
    BY <1>1, SubSeqEmpty, Len(rx) \in Int, Len(rx) < Len(rx) + 1

\* A complete write leaves only the answer to its own command pending.
LEMMA OwnWriteDone ==
    ASSUME "late" \notin Faults, TypeOK, OwnLines, WriteDone
    PROVE  OwnLines'
<1>1. rx' \in {<< >>, <<Line("?", "echo")>>, Answers(head.n)}
    <2>1. Reply(head) \in Seq(Lines)
        BY HeadType, ReplyType DEF WriteDone, InCall, Resting
    <2>2. ASSUME NEW reply \in Seq(Lines), WriteFull(reply) PROVE rx' = reply
        <3>1. PICK p \in FlushInput : rx' = p \o reply
            BY <2>2 DEF WriteFull
        <3>2. p = << >>
            BY <3>1, FlushEmpties DEF TypeOK
        <3> QED
            BY <2>2, <3>1, <3>2, ConcatEmptySeq
    <2>3. << >> \in Seq(Lines)
        OBVIOUS
    <2> QED
        BY <2>1, <2>2, <2>3 DEF WriteDone, Reply
<1>2. CASE head.n \in Queries /\ Goto("read")
    <2>1. call'.stage = "read" /\ head' = head
        BY <1>2 DEF Goto, head, TypeOK
    <2> QED
        BY <1>1, <2>1 DEF OwnLines, AnswerIsOwn
<1>3. CASE head.n \notin Queries /\ Goto("returned")
    <2>1. call'.stage = "returned" /\ head' = head
        BY <1>3 DEF Goto, head, TypeOK
    <2> QED
        BY <1>3, <2>1 DEF OwnLines, AnswerIsOwn
<1>4. CASE call' = [stage |-> "write", todo |-> Tail(call.todo)]
    BY <1>4 DEF OwnLines, AnswerIsOwn
<1> QED
    BY <1>2, <1>3, <1>4 DEF WriteDone

\* A read takes its line from the answer to the query the method has sent.
LEMMA OwnRead ==
    ASSUME "late" \notin Faults, TypeOK, RetryInv, OwnLines, NEW k \in 0 .. Len(rx), Read(k)
    PROVE  OwnLines'
<1>1. k = Len(rx)
    BY DEF Read, ReadLines, Arrived
<1>2. head' = head
    BY DEF Read, Goto, head, TypeOK
<1>3. head.n \in Queries
    BY DEF Read, RetryInv, Underway
<1>4. CASE k = 0 \/ Chosen(k) = {}
    BY <1>4 DEF Read, Goto, TypeOK, OwnLines, AnswerIsOwn
<1>5. ASSUME NEW i \in Chosen(k), k > 0, answer' = rx[i], Goto("returned")
      PROVE  OwnLines'
    <2>1. call.stage = "read"
        BY <1>1, <1>5, Len(<< >>) = 0 DEF Read, OwnLines
    <2>2. rx # << >>
        BY <1>1, <1>5, EmptySeq
    <2>3. CASE rx = <<Line("?", "echo")>>
        <3>1. k = 1 /\ rx[1].part = "echo"
            BY <1>1, <2>3 DEF Line
        <3>2. Chosen(k) = {}
            BY <1>3, <2>1, <3>1 DEF Chosen, Queries, AtMost
        <3> QED
            BY <1>5, <3>2
    <2>4. CASE rx = Answers(head.n)
        <3>1. k = 2 /\ rx[2] = Line(head.n, "value")
            BY <1>1, <1>3, <2>4 DEF Answers
        <3>2. i = 2
            BY <1>3, <1>5, <2>1, <3>1 DEF Chosen, Queries, AtMost
        <3>3. call'.stage = "returned"
            BY <1>5 DEF Goto, TypeOK
        <3> QED
            BY <1>2, <1>5, <3>1, <3>2, <3>3 DEF OwnLines, AnswerIsOwn
    <2> QED
        BY <2>1, <2>2, <2>3, <2>4 DEF OwnLines
<1> QED
    BY <1>4, <1>5 DEF Read

\* Every step keeps OwnLines when no answer is late.
LEMMA OwnStep ==
    ASSUME "late" \notin Faults, TypeOK, RetryInv, OwnLines, Next
    PROVE  OwnLines'
<1>1. CASE \E c \in Calls : Invoke(c)
    BY <1>1 DEF Invoke, OwnLines, AnswerIsOwn
<1>2. CASE WriteDone
    BY <1>2, OwnWriteDone
<1>3. CASE WriteFailed
    <2>1. rx' = << >>
        BY <1>3, FlushEmpties DEF WriteFailed, WriteShort, TypeOK
    <2> QED
        BY <1>3, <2>1 DEF WriteFailed, ShortStage, Goto, TypeOK, OwnLines, AnswerIsOwn
<1>4. CASE Reset
    <2>1. rx' = << >>
        BY <1>4, FlushEmpties DEF Reset, ResetOk, TypeOK
    <2> QED
        BY <1>4, <2>1 DEF Reset, Goto, TypeOK, OwnLines, AnswerIsOwn
<1>5. CASE \E k \in 0 .. Len(rx) : Read(k)
    BY <1>5, OwnRead
<1>6. CASE Throw
    BY <1>6 DEF Throw, Goto, TypeOK, OwnLines, AnswerIsOwn
<1> QED
    BY <1>1, <1>2, <1>3, <1>4, <1>5, <1>6 DEF Next, LaserStep

\* When no answer is late, the line that security or get_shot_count returns
\* is the unit's answer to that query, through every reset and every second
\* read: not an echo, and not the answer to an earlier query.
THEOREM AnswerCorrect ==
    ASSUME "late" \notin Faults
    PROVE  Spec => []AnswerIsOwn
<1>1. Init => OwnLines
    BY DEF Init, LaserInit, OwnLines, AnswerIsOwn
<1>2. TypeOK /\ RetryInv /\ OwnLines /\ [Next]_vars => OwnLines'
    <2>1. ASSUME OwnLines, UNCHANGED vars PROVE OwnLines'
        BY <2>1 DEF vars, deviceVars, laserVars, OwnLines, AnswerIsOwn, head
    <2> QED
        BY <2>1, OwnStep
<1>3. OwnLines => AnswerIsOwn
    BY DEF OwnLines
<1> QED
    BY <1>1, <1>2, <1>3, TypeCorrect, RetryCorrect, PTL DEF Spec
=============================================================================
