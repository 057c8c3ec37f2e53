-------------------------- MODULE SerialPortLocks ---------------------------
(***************************************************************************)
(* The two mutexes of serial::Serial: who holds them, at which place of    *)
(* which operation.                                                        *)
(***************************************************************************)
EXTENDS SerialPortTypes

\* A call holds a mutex from the lock on to its end.
HoldsRead(t) == LocksRead(Op(t)) /\ call[t].pc # "rlock"
HoldsWrite(t) == LocksWrite(Op(t)) /\ call[t].pc \notin {"rlock", "wlock"}

\* Which calls get where.
Legal(op, pc, buf) ==
    /\ pc = "idle" => op = "none"
    /\ pc = "rlock" => LocksRead(op) /\ buf = << >>
    /\ pc = "wlock" => LocksWrite(op)
    /\ pc \in {"close", "closed"} => op \in {"close", "reset_connection", "setPort"}
    /\ pc = "open" => op \in {"open", "reset_connection", "setPort"}
    /\ pc = "config" => op \in {"open", "reset_connection", "setPort", "setBaudrate"}
    /\ pc = "set" => op = "setBaudrate"
    /\ pc = "return" => op \in Reads
    /\ pc = "select" => op \in Reads \cup {"write"}
    /\ pc = "run" => op \in Reads \cup {"write", "flush", "flushInput", "flushOutput"}
PcOp(t) == Legal(Op(t), call[t].pc, call[t].buf)

LockInv ==
    \A t \in Threads :
        /\ read_mutex = t <=> HoldsRead(t)
        /\ write_mutex = t <=> HoldsWrite(t)
        /\ PcOp(t)

\* The call of u is left alone, but for the mark of an unlocked open or close.
Left(u) ==
    /\ call'[u].c = call[u].c
    /\ call'[u].pc = call[u].pc
    /\ call'[u].buf = call[u].buf
    /\ call[u].disturbed => call'[u].disturbed

\* How a step changes the call of its own thread.
Ends(t) ==
    /\ call'[t] = NoCall
    /\ read_mutex' = IF read_mutex = t THEN NoThread ELSE read_mutex
    /\ write_mutex' = IF write_mutex = t THEN NoThread ELSE write_mutex
Moves(t) ==
    /\ call'[t].c = call[t].c
    /\ call[t].pc \notin {"rlock", "wlock"} /\ call'[t].pc \notin {"rlock", "wlock"}
    /\ UNCHANGED mutexVars
    /\ PcOp(t)'

LEMMA FinishEnds ==
    ASSUME CallsType, NEW t \in Threads, Finish(t)
    PROVE  Ends(t) /\ \A u \in Threads \ {t} : Left(u)
BY DEF CallsType, Finish, Ends, Left

LEMMA DisturbingLeaves ==
    ASSUME CallsType, NEW t \in Threads, NEW next, Disturbing(t, next)
    PROVE  call'[t] = next /\ \A u \in Threads \ {t} : Left(u)
BY DEF CallsType, CallStates, Disturbing, Left

LEMMA GotoLeaves ==
    ASSUME CallsType, NEW t \in Threads, NEW pc, Goto(t, pc)
    PROVE  /\ call'[t].pc = pc /\ call'[t].c = call[t].c /\ call'[t].buf = call[t].buf
           /\ call'[t].disturbed = call[t].disturbed
           /\ \A u \in Threads \ {t} : Left(u)
BY DEF CallsType, CallStates, Goto, Left

LEMMA DisturbingEnds ==
    ASSUME CallsType, NEW t \in Threads, DisturbingEnd(t)
    PROVE  Ends(t) /\ \A u \in Threads \ {t} : Left(u)
BY DisturbingLeaves DEF DisturbingEnd, Ends

LEMMA TookLeaves ==
    ASSUME CallsType, NEW t \in Threads, NEW b, Took(t, b)
    PROVE  /\ call'[t].c = call[t].c /\ call'[t].disturbed = call[t].disturbed
           /\ call'[t].buf = Append(call[t].buf, b)
           /\ call'[t].pc = IF Len(Append(call[t].buf, b)) = call[t].c.size
                               \/ (Op(t) = "readline" /\ EndsLine(b))
                            THEN "return" ELSE IF Op(t) = "read" THEN "select" ELSE "run"
           /\ \A u \in Threads \ {t} : Left(u)
BY DEF CallsType, CallStates, Took, Left

\* A step of a thread ends its call, moves it on, or takes a mutex, and leaves
\* the calls of all others alone.
LEMMA OwnStep ==
    ASSUME TypeInv, LockInv, NEW t \in Threads, ThreadStep(t)
    PROVE  /\ \A u \in Threads \ {t} : Left(u)
           /\ Ends(t) \/ Moves(t) \/ readLock(t) \/ writeLock(t)
<1> USE DEF Op, PcOp, Legal
<1>1. CallsType /\ call[t] \in CallStates /\ PcOp(t)
    BY DEF TypeInv, CallsType, LockInv
<1>2. CASE readLock(t) \/ writeLock(t)
    BY <1>1, <1>2, GotoLeaves DEF readLock, writeLock
<1>3. CASE Finish(t)
    BY <1>1, <1>3, FinishEnds
<1>4. CASE DisturbingEnd(t)
    BY <1>1, <1>4, DisturbingEnds
<1>5. CASE close(t)
    <2>1. CASE Goto(t, "closed") /\ UNCHANGED mutexVars
        BY <1>1, <1>5, <2>1, GotoLeaves DEF close, Moves
    <2>2. CASE Disturbing(t, [call[t] EXCEPT !.pc = "closed"]) /\ UNCHANGED mutexVars
        BY <1>1, <1>5, <2>2, DisturbingLeaves DEF close, Moves, CallStates
    <2> QED
        BY <1>4, <1>5, <2>1, <2>2 DEF close
<1>6. CASE closed(t)
    <2>1. CASE Disturbing(t, [call[t] EXCEPT !.pc = "open"]) /\ UNCHANGED mutexVars
               /\ (Op(t) = "reset_connection" \/ Op(t) = "setPort")
        BY <1>1, <1>6, <2>1, DisturbingLeaves DEF closed, Moves, CallStates
    <2> QED
        BY <1>4, <1>6, <2>1 DEF closed
<1>7. CASE open(t)
    <2>1. CASE Goto(t, "config") /\ UNCHANGED mutexVars
        BY <1>1, <1>7, <2>1, GotoLeaves DEF open, Moves
    <2> QED
        BY <1>3, <1>7, <2>1 DEF open
<1>8. CASE setBaudrate(t)
    <2>1. CASE Goto(t, "config") /\ UNCHANGED mutexVars
        BY <1>1, <1>8, <2>1, GotoLeaves DEF setBaudrate, Moves
    <2> QED
        BY <1>3, <1>8, <2>1 DEF setBaudrate
<1>9. CASE ReadNow(t) \/ ReadWait(t)
    <2>1. Op(t) \in Reads /\ call[t].pc \in {"run", "select"}
        BY <1>9, SMTT(20) DEF ReadNow, ReadWait
    <2>2. CASE TakeByte(t)
        BY <1>1, <2>1, <2>2, TookLeaves, SMTT(20) DEF TakeByte, Moves
    <2>3. CASE Goto(t, "select") /\ UNCHANGED mutexVars
        BY <1>1, <2>1, <2>3, GotoLeaves DEF Moves
    <2> QED
        BY <1>3, <1>9, <2>2, <2>3 DEF ReadNow, ReadWait, mutexVars
<1>10. CASE WriteStart(t)
    <2>1. CASE Goto(t, "select") /\ UNCHANGED mutexVars
        BY <1>1, <1>10, <2>1, GotoLeaves, SMTT(20) DEF WriteStart, Moves
    <2> QED
        BY <1>3, <1>10, <2>1, SMTT(20) DEF WriteStart
<1>11. CASE WriteSome(t)
    <2>1. ASSUME NEW k, call' = [call EXCEPT ![t].buf = @ \o Chunk(t, k)], UNCHANGED mutexVars
          PROVE  Moves(t) /\ \A u \in Threads \ {t} : Left(u)
        BY <1>1, <1>11, <2>1 DEF WriteSome, Moves, Left, CallsType, CallStates
    <2> QED
        BY <1>3, <1>11, <2>1, Zenon DEF WriteSome
<1> QED
    BY <1>2, <1>3, <1>5, <1>6, <1>7, <1>8, <1>9, <1>10, <1>11
    DEF ThreadStep, reconfigurePort, ReadReturns, Flushing

LEMMA LockStep ==
    ASSUME TypeInv, LockInv, [Next]_vars
    PROVE  LockInv'
<1> USE DEF Op, PcOp, Legal, HoldsRead, HoldsWrite
<1>1. CallsType /\ NoThread \notin Threads
    BY SerialAssumption DEF TypeInv, CallsType
<1>2. CASE UNCHANGED <<call, mutexVars>>
    BY <1>2 DEF LockInv, mutexVars
<1>3. ASSUME NEW t \in Threads, NEW c \in use.calls[t], Invoke(t, c)
      PROVE  LockInv'
    <2>1. c \in CallSet
        BY <1>3, InvokeType
    <2>2. call'[t] = Starting(c, Entry(c.op)) /\ \A u \in Threads \ {t} : call'[u] = call[u]
        BY <1>1, <1>3 DEF Invoke, CallsType
    <2>3. UNCHANGED mutexVars /\ Op(t) = "none" /\ call[t].pc = "idle"
        BY <1>3 DEF Invoke, LockInv, Idle
    <2>4. read_mutex # t /\ write_mutex # t
        BY <2>3 DEF LockInv, LocksRead, LocksWrite, Reads
    <2>5. c.op \in Operations
        BY <2>1 DEF CallSet
    <2>6. ~HoldsRead(t)' /\ ~HoldsWrite(t)' /\ PcOp(t)'
        BY <2>2, <2>5 DEF Starting, Entry, LocksRead, LocksWrite, Operations, Reads, Unlocked
    <2> QED
        BY <2>2, <2>3, <2>4, <2>6 DEF LockInv, mutexVars
<1>4. ASSUME NEW t \in Threads, ThreadStep(t)
      PROVE  LockInv'
    <2>1. \A u \in Threads \ {t} : Left(u)
        BY <1>4, OwnStep
    <2>2. \A u \in Threads \ {t} : (HoldsRead(u)' <=> HoldsRead(u)) /\ (HoldsWrite(u)' <=> HoldsWrite(u)) /\ PcOp(u)'
        BY <2>1, SMTT(20) DEF Left, LockInv
    <2>3. CASE Ends(t)
        <3>1. ~HoldsRead(t)' /\ ~HoldsWrite(t)' /\ PcOp(t)'
            BY <2>3, SMTT(20) DEF Ends, NoCall, Starting, LocksRead, LocksWrite, Reads
        <3> QED
            BY <1>1, <2>2, <2>3, <3>1 DEF Ends, LockInv
    <2>4. CASE Moves(t)
        BY <2>2, <2>4, SMTT(20) DEF Moves, LockInv, mutexVars
    <2>5. CASE readLock(t)
        <3>1. /\ call'[t].c = call[t].c /\ call[t].pc = "rlock"
              /\ call'[t].pc = IF LocksWrite(Op(t)) THEN "wlock" ELSE Body(Op(t))
            BY <1>1, <2>5, GotoLeaves, SMTT(20) DEF readLock
        <3>2. HoldsRead(t)' /\ ~HoldsWrite(t)' /\ PcOp(t)' /\ ~HoldsWrite(t)
            BY <3>1, SMTT(20) DEF LockInv, Body, LocksRead, LocksWrite, Reads
        <3> QED
            BY <1>1, <2>2, <2>5, <3>2 DEF readLock, LockInv
    <2>6. CASE writeLock(t)
        <3>1. /\ call'[t].c = call[t].c /\ call[t].pc = "wlock"
              /\ call'[t].pc = Body(Op(t))
            BY <1>1, <2>6, GotoLeaves DEF writeLock
        <3>2. (HoldsRead(t)' <=> HoldsRead(t)) /\ HoldsWrite(t)' /\ PcOp(t)'
            BY <3>1 DEF LockInv, Body, LocksRead, LocksWrite, Reads
        <3> QED
            BY <1>1, <2>2, <2>6, <3>2 DEF writeLock, LockInv
    <2> QED
        BY <1>4, <2>3, <2>4, <2>5, <2>6, OwnStep
<1> QED
    BY <1>2, <1>3, <1>4 DEF Next, vars, Arrive, Transmit

\* What a new call looks like.
LEMMA InvokeLeaves ==
    ASSUME TypeInv, NEW t \in Threads, NEW c \in use.calls[t], Invoke(t, c)
    PROVE  /\ call'[t].c = c /\ call'[t].buf = << >>
           /\ call'[t].pc \in {"rlock", "wlock", "close", "open", "set"}
           /\ \A u \in Threads \ {t} : call'[u] = call[u]
           /\ UNCHANGED <<is_open_, fd_, opened, input, sent, leaked>>
<1>1. c.op \in Operations
    BY InvokeType DEF CallSet
<1>2. call'[t] = Starting(c, Entry(c.op)) /\ \A u \in Threads \ {t} : call'[u] = call[u]
    BY DEF Invoke, TypeInv
<1>3. Entry(c.op) \in {"rlock", "wlock", "close", "open", "set"}
    BY <1>1 DEF Entry, LocksRead, LocksWrite, Operations, Reads, Unlocked
<1> QED
    BY <1>2, <1>3 DEF Invoke, Starting, implVars, lineVars

LEMMA LockInit ==
    ASSUME Init
    PROVE  LockInv
BY InitCalls, SerialAssumption, Zenon
DEF Init, LockInv, HoldsRead, HoldsWrite, PcOp, Legal, LocksRead, LocksWrite, Reads

\* The locks do what they are for, whatever the calls: the read mutex is held
\* by exactly the thread that is past its lock, and the write mutex likewise.
THEOREM LocksCorrect == Spec => [](TypeInv /\ LockInv)
<1>1. Init => TypeInv /\ LockInv
    BY TypeInit, LockInit
<1>2. TypeInv /\ LockInv /\ [Next]_vars => (TypeInv /\ LockInv)'
    BY TypeStep, LockStep
<1> QED
    BY <1>1, <1>2, PTL DEF Spec
=============================================================================
