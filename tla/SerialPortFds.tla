--------------------------- MODULE SerialPortFds ----------------------------
(***************************************************************************)
(* The descriptors of the process, through any openings, closings, resets  *)
(* and changes of the port.                                                *)
(***************************************************************************)
EXTENDS SerialPortLocks

\* Only the owner opens, closes and changes the port.
OwnerInv ==
    \A t \in Threads :
        Op(t) \in {"open", "close", "reset_connection", "setPort"} => t = Owner

\* While the owner is between ::close and the assignments after it, the
\* process holds no descriptor.
FdInv ==
    /\ DescriptorsAccounted
    /\ (~leaked /\ call[Owner].pc = "closed") => DOMAIN opened = {}
    /\ (call[Owner].pc = "config" /\ Op(Owner) = "setBaudrate") => is_open_

LEMMA OwnerStep ==
    ASSUME TypeInv, LockInv, OwnerInv, [Next]_vars
    PROVE  OwnerInv'
<1>1. CallsType
    BY DEF TypeInv, CallsType
<1>2. CASE UNCHANGED call
    BY <1>2 DEF OwnerInv, Op
<1>3. ASSUME NEW t \in Threads, NEW c \in use.calls[t], Invoke(t, c)
      PROVE  OwnerInv'
    <2>1. c.op \in {"open", "close", "reset_connection", "setPort"} => t = Owner
        BY SerialAssumption DEF TypeInv
    <2> QED
        BY <1>3, <2>1, InvokeLeaves DEF OwnerInv, Op
<1>4. ASSUME NEW t \in Threads, ThreadStep(t)
      PROVE  OwnerInv'
    <2>1. \A u \in Threads \ {t} : Op(u)' = Op(u)
        BY <1>4, OwnStep DEF Left, Op
    <2>2. Op(t)' = Op(t) \/ Op(t)' = "none"
        <3>1. CASE readLock(t) \/ writeLock(t)
            BY <1>1, <3>1, GotoLeaves DEF readLock, writeLock, Op
        <3> QED
            BY <1>4, <3>1, OwnStep DEF Moves, Ends, Op, NoCall, Starting
    <2> QED
        BY <2>1, <2>2 DEF OwnerInv
<1> QED
    BY <1>2, <1>3, <1>4 DEF Next, vars, Arrive, Transmit

\* The members and the descriptors change in no step but these.
LEMMA PortKept ==
    ASSUME NEW t \in Threads, ThreadStep(t)
    PROVE  \/ close(t) \/ closed(t) \/ open(t) \/ reconfigurePort(t)
           \/ UNCHANGED <<is_open_, fd_, opened, leaked>>
BY DEF ThreadStep, readLock, writeLock, setBaudrate, ReadNow, ReadWait, ReadReturns, WriteStart,
   WriteSome, Flushing, implVars

LEMMA FdOthers ==
    ASSUME TypeInv, LockInv, OwnerInv, FdInv, NEW t \in Threads, t # Owner, ThreadStep(t)
    PROVE  FdInv'
<1>1. Left(Owner)
    BY SerialAssumption, OwnStep
<1>2. Op(t) \notin {"open", "close", "reset_connection", "setPort"} /\ PcOp(t)
    BY DEF OwnerInv, LockInv
<1>3. UNCHANGED <<fd_, opened>> /\ (is_open_' <=> is_open_) /\ (leaked' <=> leaked)
    <2>1. CASE reconfigurePort(t)
        <3>1. Op(t) = "setBaudrate"
            BY <1>2, <2>1 DEF reconfigurePort, PcOp, Legal
        <3>2. UNCHANGED <<fd_, opened>>
            BY <2>1 DEF reconfigurePort
        <3>3. \/ is_open_' = (is_open_ \/ Op(t) # "setBaudrate") /\ leaked' = leaked
              \/ leaked' = (leaked \/ Op(t) # "setBaudrate") /\ is_open_' = is_open_
            BY <2>1, Zenon DEF reconfigurePort
        <3>4. (is_open_' <=> is_open_) /\ (leaked' <=> leaked)
            <4>1. CASE is_open_' = (is_open_ \/ Op(t) # "setBaudrate") /\ leaked' = leaked
                <5>1. is_open_' <=> is_open_
                    BY <3>1, <4>1, Zenon
                <5>2. leaked' <=> leaked
                    BY <4>1
                <5> QED
                    BY <5>1, <5>2
            <4>2. CASE leaked' = (leaked \/ Op(t) # "setBaudrate") /\ is_open_' = is_open_
                <5>1. leaked' <=> leaked
                    BY <3>1, <4>2, Zenon
                <5>2. is_open_' <=> is_open_
                    BY <4>2
                <5> QED
                    BY <5>1, <5>2
            <4> QED
                BY <3>3, <4>1, <4>2
        <3> QED
            BY <3>2, <3>4
    <2> QED
        BY <1>2, <2>1, PortKept, Zenon DEF close, closed, open, PcOp, Legal
<1> QED
    BY <1>1, <1>3 DEF FdInv, DescriptorsAccounted, Left, Op

LEMMA FdOwner ==
    ASSUME TypeInv, LockInv, OwnerInv, FdInv, ThreadStep(Owner)
    PROVE  FdInv'
<1> DEFINE t == Owner
<1>1. CallsType /\ t \in Threads /\ PcOp(t) /\ call[t] \in CallStates
    BY SerialAssumption DEF TypeInv, CallsType, LockInv
<1>2. \A d \in DOMAIN opened : d # NoFd
    BY DEF TypeInv, NoFd
<1>3. ASSUME Finish(t) \/ DisturbingEnd(t)
      PROVE  call'[t].pc = "idle"
    BY <1>1, <1>3, FinishEnds, DisturbingEnds DEF Ends, NoCall, Starting
<1>4. CASE close(t)
    <2>1. call'[t].pc \in {"idle", "closed"}
        <3>1. CASE Goto(t, "closed")
            BY <1>1, <3>1, GotoLeaves
        <3>2. CASE Disturbing(t, [call[t] EXCEPT !.pc = "closed"])
            BY <1>1, <3>2, DisturbingLeaves DEF CallStates
        <3> QED
            BY <1>3, <1>4, <3>1, <3>2 DEF close
    <2>2. call[t].pc = "close" /\ UNCHANGED <<is_open_, fd_, leaked>>
        BY <1>4 DEF close, implVars
    <2>3. ~leaked => \A d \in DOMAIN opened : d = fd_ /\ is_open_
        BY <2>2 DEF FdInv, DescriptorsAccounted
    <2>4. ~leaked => DOMAIN opened' = {}
        <3>1. CASE UNCHANGED opened /\ (~is_open_ \/ fd_ = NoFd \/ ~Valid)
            BY <1>2, <2>3, <3>1 DEF Valid
        <3>2. CASE opened' = Without(fd_)
            BY <2>3, <3>2 DEF Without
        <3> QED
            BY <1>4, <3>1, <3>2 DEF close
    <2> QED
        BY <2>1, <2>2, <2>4 DEF FdInv, DescriptorsAccounted
<1>5. CASE closed(t)
    <2>1. call'[t].pc \in {"idle", "open"}
        <3>1. CASE Disturbing(t, [call[t] EXCEPT !.pc = "open"])
            BY <1>1, <3>1, DisturbingLeaves DEF CallStates
        <3> QED
            BY <1>3, <1>5, <3>1 DEF closed
    <2>2. UNCHANGED <<opened, leaked>> /\ (~leaked => DOMAIN opened = {})
        BY <1>5 DEF closed, FdInv
    <2> QED
        BY <2>1, <2>2 DEF FdInv, DescriptorsAccounted
<1>6. CASE open(t)
    <2>1. call[t].pc = "open" /\ UNCHANGED <<is_open_, leaked>> /\ Op(t) # "setBaudrate"
        BY <1>1, <1>6 DEF open, PcOp, Legal
    <2>2. ~leaked => \A d \in DOMAIN opened : d = fd_ /\ is_open_
        BY <2>1 DEF FdInv, DescriptorsAccounted
    <2>3. CASE Finish(t) /\ UNCHANGED opened /\ (UNCHANGED fd_ \/ ~is_open_)
        BY <1>3, <2>1, <2>2, <2>3 DEF FdInv, DescriptorsAccounted
    <2>4. CASE /\ ~is_open_ /\ Goto(t, "config")
               /\ opened' = [d \in DOMAIN opened \cup {fd_'} |-> IF d = fd_' THEN port_ ELSE opened[d]]
        <3>1. call'[t].pc = "config" /\ Op(t)' # "setBaudrate"
            BY <1>1, <2>1, <2>4, GotoLeaves DEF Op
        <3>2. ~leaked => DOMAIN opened' = {fd_'}
            BY <2>2, <2>4
        <3> QED
            BY <2>1, <3>1, <3>2 DEF FdInv, DescriptorsAccounted
    <2> QED
        BY <1>6, <2>3, <2>4 DEF open
<1>7. CASE reconfigurePort(t)
    <2>1. call'[t].pc = "idle" /\ UNCHANGED <<fd_, opened>> /\ call[t].pc = "config"
        BY <1>3, <1>7 DEF reconfigurePort
    <2>2. is_open_' \/ leaked' \/ ((is_open_' <=> is_open_) /\ Op(t) = "setBaudrate")
        BY <1>7, Zenon DEF reconfigurePort
    <2>3. leaked => leaked'
        BY <1>7, Zenon DEF reconfigurePort
    <2>4. is_open_' \/ leaked'
        BY <2>1, <2>2 DEF FdInv
    <2> QED
        BY <2>1, <2>3, <2>4 DEF FdInv, DescriptorsAccounted
<1>8. CASE setBaudrate(t)
    <2>1. CASE Finish(t)
        BY <1>3, <1>8, <2>1 DEF setBaudrate, FdInv, DescriptorsAccounted, implVars
    <2>2. CASE Goto(t, "config") /\ is_open_
        BY <1>1, <1>8, <2>2, GotoLeaves DEF setBaudrate, FdInv, DescriptorsAccounted, implVars
    <2> QED
        BY <1>8, <2>1, <2>2 DEF setBaudrate
<1>9. CASE readLock(t) \/ writeLock(t) \/ ReadNow(t) \/ ReadWait(t) \/ ReadReturns(t)
           \/ WriteStart(t) \/ WriteSome(t) \/ Flushing(t)
    <2>1. call'[t].pc \notin {"closed", "config"} /\ call[t].pc \notin {"closed", "config"}
        <3>1. CASE Finish(t)
            BY <1>3, <1>9, <3>1, SMTT(20) DEF readLock, writeLock, ReadNow, ReadWait, ReadReturns, WriteStart,
               WriteSome, Flushing
        <3>2. CASE readLock(t) \/ writeLock(t)
            BY <1>1, <3>2, GotoLeaves, SMTT(20) DEF readLock, writeLock, Body
        <3>3. CASE ReadNow(t) \/ ReadWait(t)
            BY <1>1, <3>1, <3>3, GotoLeaves, TookLeaves DEF ReadNow, ReadWait, TakeByte
        <3>4. CASE WriteStart(t)
            BY <1>1, <3>1, <3>4, GotoLeaves DEF WriteStart
        <3>5. CASE WriteSome(t)
            BY <1>1, <3>1, <3>5, SMTT(20) DEF WriteSome, CallsType, CallStates
        <3> QED
            BY <1>9, <3>1, <3>2, <3>3, <3>4, <3>5, SMTT(20) DEF ReadReturns, Flushing
    <2>2. UNCHANGED <<is_open_, fd_, opened, leaked>>
        BY <1>9 DEF readLock, writeLock, ReadNow, ReadWait, ReadReturns, WriteStart,
           WriteSome, Flushing, implVars
    <2> QED
        BY <2>1, <2>2, SMTT(20) DEF FdInv, DescriptorsAccounted
<1> QED
    BY <1>4, <1>5, <1>6, <1>7, <1>8, <1>9 DEF ThreadStep

LEMMA FdStep ==
    ASSUME TypeInv, LockInv, OwnerInv, FdInv, [Next]_vars
    PROVE  FdInv'
<1>1. CASE UNCHANGED <<call, is_open_, fd_, opened, leaked>>
    BY <1>1 DEF FdInv, DescriptorsAccounted, Op
<1>2. ASSUME NEW t \in Threads, NEW c \in use.calls[t], Invoke(t, c)
      PROVE  FdInv'
    <2>1. CASE t = Owner
        BY <1>2, <2>1, InvokeLeaves, Zenon DEF FdInv, DescriptorsAccounted, Invoke, Idle
    <2>2. CASE t # Owner
        BY <1>2, <2>2, InvokeLeaves, SerialAssumption DEF FdInv, DescriptorsAccounted, Op
    <2> QED
        BY <2>1, <2>2
<1>3. ASSUME NEW t \in Threads, ThreadStep(t)
      PROVE  FdInv'
    BY <1>3, FdOthers, FdOwner
<1> QED
    BY <1>1, <1>2, <1>3 DEF Next, vars, implVars, Arrive, Transmit

LEMMA FdInit ==
    ASSUME Init
    PROVE  OwnerInv /\ FdInv
BY InitCalls, SerialAssumption, Zenon DEF Init, OwnerInv, FdInv, DescriptorsAccounted

\* Any sequence of openings, closings, resets and changes of the port leaves
\* one descriptor at most, unless reconfigurePort threw in an open.
THEOREM DescriptorsCorrect == Spec => []DescriptorsAccounted
<1>1. Init => OwnerInv /\ FdInv
    BY FdInit
<1>2. TypeInv /\ LockInv /\ OwnerInv /\ FdInv /\ [Next]_vars => (OwnerInv /\ FdInv)'
    BY OwnerStep, FdStep
<1>3. FdInv => DescriptorsAccounted
    BY DEF FdInv
<1> QED
    BY <1>1, <1>2, <1>3, LocksCorrect, PTL DEF Spec
=============================================================================
