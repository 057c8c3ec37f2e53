-------------------------- MODULE SerialPortInput ---------------------------
(***************************************************************************)
(* The open port and the input of a port under the locks: who can take     *)
(* bytes from a reader or the port from under it, and what the unread      *)
(* bytes are.                                                              *)
(***************************************************************************)
EXTENDS SerialPortLocks

\* A thread in the middle of the system calls of a read or a write.
InSystemCalls(u) == call[u].pc \in Running /\ Op(u) \in Reads \cup {"write"}

\* No thread changes the open port under another one's read or write without
\* marking it, and none takes the input of a read.
LEMMA NobodyCuts ==
    ASSUME TypeInv, LockInv, NEW t \in Threads, ThreadStep(t),
           NEW u \in Threads \ {t}, InSystemCalls(u), ~call'[u].disturbed, is_open_
    PROVE  /\ UNCHANGED <<is_open_, fd_, opened, sent>>
           /\ Op(u) \in Reads => UNCHANGED input
<1>1. HoldsRead(u) \/ HoldsWrite(u)
    BY DEF InSystemCalls, Running, HoldsRead, HoldsWrite, LocksRead, LocksWrite, Reads
<1>2. Op(u) \in Reads => HoldsRead(u)
    BY DEF InSystemCalls, Running, HoldsRead, LocksRead
<1>3. ~(HoldsRead(t) /\ HoldsWrite(t))
    BY <1>1 DEF LockInv
<1>4. Op(u) \in Reads => ~HoldsRead(t)
    BY <1>2 DEF LockInv
<1>5. call[t].pc \in {"close", "closed", "open"} => Op(t) # "setPort"
    BY <1>3 DEF HoldsRead, HoldsWrite, LocksRead, LocksWrite
<1>6. ASSUME NEW next, Disturbing(t, next), Op(t) # "setPort" PROVE FALSE
    BY <1>6 DEF TypeInv, CallStates, Disturbing, InSystemCalls
<1>7. CASE close(t)
    BY <1>5, <1>6, <1>7 DEF close, DisturbingEnd, implVars
<1>8. CASE closed(t)
    BY <1>5, <1>6, <1>8 DEF closed, DisturbingEnd
<1>9. CASE open(t)
    BY <1>9 DEF open, lineVars
<1>10. CASE reconfigurePort(t)
    BY <1>10, Zenon DEF reconfigurePort, lineVars
<1>11. CASE readLock(t) \/ writeLock(t) \/ setBaudrate(t) \/ ReadReturns(t) \/ WriteStart(t)
    BY <1>11, Zenon DEF readLock, writeLock, setBaudrate, ReadReturns, WriteStart, implVars, lineVars
<1>12. CASE ReadNow(t) \/ ReadWait(t)
    <2>1. HoldsRead(t)
        BY <1>12 DEF ReadNow, ReadWait, HoldsRead, LocksRead
    <2> QED
        BY <1>4, <1>12, <2>1, Zenon DEF ReadNow, ReadWait, implVars
<1>13. CASE WriteSome(t)
    BY <1>13 DEF WriteSome, implVars
<1>14. CASE Flushing(t)
    <2>1. Op(t) = "flushInput" => HoldsRead(t)
        BY <1>14 DEF Flushing, HoldsRead, LocksRead
    <2> QED
        BY <1>4, <1>14, <2>1 DEF Flushing, implVars
<1> QED
    BY <1>7, <1>8, <1>9, <1>10, <1>11, <1>12, <1>13, <1>14, Zenon DEF ThreadStep

\* Undisturbed, a call in select got there on an open port, and the port is
\* still open; an open port has a descriptor.
OpenInv ==
    /\ \A t \in Threads : (call[t].pc = "select" /\ ~call[t].disturbed) => is_open_
    /\ is_open_ => fd_ # NoFd

\* A port that nobody has open has no input.
ClosedInv ==
    \A p \in Ports : (\A d \in DOMAIN opened : opened[d] # p) => input[p] = << >>

\* The bytes that have arrived and have not been read are the last ones sent.
InputInv ==
    \A p \in Ports : \A i \in 1 .. Len(input[p]) :
        input[p][i] = InByte(p, sent[p] - Len(input[p]) + i)

\* The byte a read got last is the one just before those, on the open port.
LastInv ==
    \A t \in Threads :
        (/\ Op(t) \in Reads /\ call[t].pc \in Running
         /\ ~call[t].disturbed /\ call[t].buf # << >>) =>
            /\ is_open_ /\ Valid
            /\ call[t].buf[Len(call[t].buf)] = InByte(Here, sent[Here] - Len(input[Here]))
            /\ Op(t) = "readline" => ~EndsLine(call[t].buf[Len(call[t].buf)])

LEMMA OpenStep ==
    ASSUME TypeInv, LockInv, OpenInv, [Next]_vars
    PROVE  OpenInv'
<1>1. CallsType
    BY DEF TypeInv, CallsType
<1>2. CASE UNCHANGED <<call, is_open_, fd_>>
    BY <1>2 DEF OpenInv
<1>3. ASSUME NEW t \in Threads, NEW c \in use.calls[t], Invoke(t, c)
      PROVE  OpenInv'
    <2>1. c.op \in Operations
        BY <1>3, InvokeType DEF CallSet
    <2>2. call'[t] = Starting(c, Entry(c.op)) /\ \A u \in Threads \ {t} : call'[u] = call[u]
        BY <1>1, <1>3 DEF Invoke, CallsType
    <2>3. call'[t].pc # "select"
        BY <2>1, <2>2 DEF Starting, Entry, LocksRead, LocksWrite, Operations, Reads, Unlocked
    <2> QED
        BY <1>3, <2>2, <2>3 DEF OpenInv, Invoke, implVars
<1>4. ASSUME NEW t \in Threads, ThreadStep(t)
      PROVE  OpenInv'
    <2>1. is_open_' => fd_' # NoFd
        <3>1. CASE closed(t)
            BY <3>1 DEF closed
        <3>2. CASE open(t)
            BY <3>2 DEF open, OpenInv
        <3>3. CASE reconfigurePort(t)
            BY <3>3, HereType, Zenon DEF reconfigurePort, OpenInv
        <3>4. CASE UNCHANGED <<is_open_, fd_>>
            BY <3>4 DEF OpenInv
        <3> QED
            BY <1>4, <3>1, <3>2, <3>3, <3>4, Zenon DEF ThreadStep, readLock, writeLock, close, setBaudrate,
               ReadNow, ReadWait, ReadReturns, WriteStart, WriteSome, Flushing, implVars
    <2>2. ASSUME NEW u \in Threads \ {t}, call'[u].pc = "select", ~call'[u].disturbed
          PROVE  is_open_'
        <3>1. Left(u)
            BY <1>4, OwnStep
        <3>2. call[u].pc = "select" /\ ~call[u].disturbed /\ is_open_
            BY <2>2, <3>1 DEF Left, OpenInv
        <3>3. InSystemCalls(u)
            BY <3>2 DEF InSystemCalls, Running, LockInv, PcOp, Legal
        <3> QED
            BY <1>4, <2>2, <3>2, <3>3, NobodyCuts, Zenon
    <2>3. ASSUME call'[t].pc = "select", ~call'[t].disturbed
          PROVE  is_open_'
        <3>1. CASE Ends(t)
            BY <2>3, <3>1 DEF Ends, NoCall, Starting
        <3>2. CASE readLock(t) \/ writeLock(t)
            BY <1>1, <2>3, <3>2, GotoLeaves DEF readLock, writeLock, Body
        <3>3. CASE Finish(t) \/ DisturbingEnd(t)
            BY <1>1, <3>1, <3>3, FinishEnds, DisturbingEnds
        <3>4. CASE TakeByte(t) /\ UNCHANGED is_open_ /\ (is_open_ \/ call[t].pc = "select")
            <4>1. call'[t].disturbed = call[t].disturbed
                BY <1>1, <3>4, TookLeaves DEF TakeByte
            <4> QED
                BY <2>3, <3>4, <4>1 DEF OpenInv
        <3>5. CASE ReadNow(t)
            BY <3>3, <3>4, <3>5 DEF ReadNow, implVars
        <3>6. CASE ReadWait(t)
            BY <3>3, <3>4, <3>6 DEF ReadWait, implVars
        <3>7. CASE WriteStart(t)
            BY <3>3, <3>7 DEF WriteStart, implVars
        <3>8. CASE WriteSome(t)
            <4>1. CASE ~Finish(t)
                <5>1. call'[t].disturbed = call[t].disturbed
                    BY <1>1, <3>8, <4>1 DEF WriteSome, CallsType, CallStates
                <5> QED
                    BY <2>3, <3>8, <5>1 DEF OpenInv, WriteSome, implVars
            <4> QED
                BY <3>3, <4>1
        <3>9. CASE close(t) \/ closed(t)
            <4>1. ASSUME NEW pc \in {"closed", "open"}, Disturbing(t, [call[t] EXCEPT !.pc = pc])
                  PROVE  FALSE
                BY <1>1, <2>3, <4>1, DisturbingLeaves DEF CallsType, CallStates
            <4>2. CASE Goto(t, "closed")
                BY <1>1, <2>3, <4>2, GotoLeaves
            <4> QED
                BY <3>3, <3>9, <4>1, <4>2 DEF close, closed
        <3>10. CASE open(t) \/ setBaudrate(t)
            <4>1. CASE Goto(t, "config")
                BY <1>1, <2>3, <4>1, GotoLeaves, SMTT(20)
            <4> QED
                BY <3>3, <3>10, <4>1 DEF open, setBaudrate
        <3> QED
            BY <1>4, <3>2, <3>3, <3>5, <3>6, <3>7, <3>8, <3>9, <3>10
            DEF ThreadStep, reconfigurePort, ReadReturns, Flushing
    <2> QED
        BY <2>1, <2>2, <2>3 DEF OpenInv
<1> QED
    BY <1>2, <1>3, <1>4 DEF Next, vars, Arrive, Transmit, implVars

LEMMA InputStep ==
    ASSUME TypeInv, ClosedInv, InputInv, [Next]_vars
    PROVE  InputInv'
<1> DEFINE Kept(p) == input'[p] = input[p] /\ sent'[p] = sent[p]
<1>1. SUFFICES ASSUME NEW p \in Ports
               PROVE  \A i \in 1 .. Len(input'[p]) :
                          input'[p][i] = InByte(p, sent'[p] - Len(input'[p]) + i)
    BY DEF InputInv
<1>2. input[p] \in Seq(InBytes) /\ sent[p] \in Nat /\ Len(input[p]) \in Nat
    BY DEF TypeInv
<1>3. CASE Kept(p)
    BY <1>3 DEF InputInv
<1>4. CASE input'[p] = << >>
    BY <1>4
<1>5. ASSUME input[p] # << >>, input'[p] = Tail(input[p]), sent'[p] = sent[p]
      PROVE  \A i \in 1 .. Len(input'[p]) : input'[p][i] = InByte(p, sent'[p] - Len(input'[p]) + i)
    <2>1. /\ Len(Tail(input[p])) = Len(input[p]) - 1
          /\ \A i \in 1 .. Len(Tail(input[p])) : Tail(input[p])[i] = input[p][i + 1]
        BY <1>2, <1>5
    <2>2. SUFFICES ASSUME NEW i \in 1 .. Len(input[p]) - 1
                   PROVE  input[p][i + 1] = InByte(p, sent[p] - (Len(input[p]) - 1) + i)
        BY <1>2, <1>5, <2>1
    <2>3. i + 1 \in 1 .. Len(input[p])
        BY <1>2
    <2>4. sent[p] - Len(input[p]) + (i + 1) = sent[p] - (Len(input[p]) - 1) + i
        BY <1>2, SMTT(20)
    <2> QED
        BY <2>3, <2>4 DEF InputInv
<1>6. ASSUME input'[p] = Append(input[p], InByte(p, sent[p] + 1)), sent'[p] = sent[p] + 1
      PROVE  \A i \in 1 .. Len(input'[p]) : input'[p][i] = InByte(p, sent'[p] - Len(input'[p]) + i)
    <2>1. InByte(p, sent[p] + 1) \in InBytes
        BY <1>2 DEF InByte, InBytes
    <2>2. /\ Len(input'[p]) = Len(input[p]) + 1
          /\ \A i \in 1 .. Len(input[p]) : input'[p][i] = input[p][i]
          /\ input'[p][Len(input[p]) + 1] = InByte(p, sent[p] + 1)
        BY <1>2, <1>6, <2>1, AppendProperties
    <2>3. SUFFICES ASSUME NEW i \in 1 .. Len(input[p]) + 1
                   PROVE  input'[p][i] = InByte(p, sent[p] - Len(input[p]) + i)
        <3>1. sent'[p] - Len(input'[p]) = sent[p] - Len(input[p])
            <4>1. (sent[p] + 1) - (Len(input[p]) + 1) = sent[p] - Len(input[p])
                BY <1>2
            <4> QED
                BY <1>6, <2>2, <4>1
        <3> QED
            BY <1>2, <2>2, <3>1
    <2>4. CASE i \in 1 .. Len(input[p])
        BY <2>2, <2>4 DEF InputInv
    <2>5. CASE i = Len(input[p]) + 1
        <3>1. sent[p] - Len(input[p]) + i = sent[p] + 1
            BY <1>2, <2>5
        <3> QED
            BY <2>2, <2>5, <3>1
    <2> QED
        BY <1>2, <2>4, <2>5
<1>7. ASSUME NEW t \in Threads, TakeByte(t), UNCHANGED sent
      PROVE  Kept(p) \/ (input[p] # << >> /\ input'[p] = Tail(input[p]) /\ sent'[p] = sent[p])
    BY <1>7, HereType, SMTT(20) DEF TakeByte, TypeInv
<1>8. ASSUME NEW t \in Threads, ThreadStep(t), ~Kept(p), input'[p] # << >>
      PROVE  input[p] # << >> /\ input'[p] = Tail(input[p]) /\ sent'[p] = sent[p]
    <2>1. CASE ReadNow(t) \/ ReadWait(t)
        BY <1>7, <1>8, <2>1 DEF ReadNow, ReadWait
    <2>2. CASE close(t)
        BY <1>8, <2>2 DEF close, InputWith
    <2>3. CASE Flushing(t)
        BY <1>8, <2>3 DEF Flushing, TypeInv
    <2> QED
        BY <1>8, <2>1, <2>2, <2>3, SMTT(20) DEF ThreadStep, readLock, writeLock, closed, open, reconfigurePort,
           setBaudrate, ReadReturns, WriteStart, WriteSome, lineVars
<1>9. ASSUME NEW q \in Ports, Arrive(q)
      PROVE  \/ Kept(p)
             \/ input'[p] = Append(input[p], InByte(p, sent[p] + 1)) /\ sent'[p] = sent[p] + 1
             \/ input'[p] = << >>
             \/ (\A d \in DOMAIN opened : opened[d] # p) /\ input'[p] = input[p] /\ sent'[p] = sent[p] + 1
    BY <1>9 DEF Arrive, TypeInv
<1>10. CASE (\A d \in DOMAIN opened : opened[d] # p) /\ input'[p] = input[p]
    BY <1>4, <1>10 DEF ClosedInv
<1>11. CASE UNCHANGED <<input, sent>>
    BY <1>3, <1>11
<1> QED
    BY <1>3, <1>4, <1>5, <1>6, <1>8, <1>9, <1>10, <1>11, SMTT(20) DEF Next, vars, lineVars, Invoke, Transmit

LEMMA ClosedStep ==
    ASSUME TypeInv, ClosedInv, [Next]_vars
    PROVE  ClosedInv'
<1>1. SUFFICES ASSUME NEW p \in Ports, \A d \in DOMAIN opened' : opened'[d] # p
               PROVE  input'[p] = << >>
    BY DEF ClosedInv
<1>2. CASE opened' = opened /\ input'[p] = input[p]
    BY <1>1, <1>2 DEF ClosedInv
<1>3. ASSUME NEW t \in Threads, close(t) PROVE input'[p] = << >>
    BY <1>1, <1>2, <1>3 DEF close, InputWith
<1>4. ASSUME NEW t \in Threads, open(t) PROVE input'[p] = << >>
    <2>1. input' = input
        BY <1>4 DEF open, lineVars
    <2>2. CASE opened' = [d \in DOMAIN opened \cup {fd_'} |-> IF d = fd_' THEN port_ ELSE opened[d]]
               /\ fd_' = Min(FreeFds) /\ FreeFds # {}
        <3>1. fd_' \notin DOMAIN opened
            BY <2>2, LowestFd DEF FreeFds
        <3> QED
            BY <1>1, <2>1, <2>2, <3>1, Zenon DEF ClosedInv
    <2> QED
        BY <1>2, <1>4, <2>1, <2>2 DEF open
<1>5. ASSUME NEW t \in Threads, TakeByte(t), UNCHANGED opened PROVE input'[p] = << >>
    <2>1. Here # p
        BY <1>1, <1>5 DEF TakeByte, Valid, Here
    <2> QED
        BY <1>2, <1>5, <2>1 DEF TakeByte, TypeInv
<1>6. ASSUME NEW t \in Threads, Flushing(t) PROVE input'[p] = << >>
    BY <1>1, <1>6 DEF Flushing, TypeInv, ClosedInv
<1>7. ASSUME NEW q \in Ports, Arrive(q) PROVE input'[p] = << >>
    BY <1>1, <1>7 DEF Arrive, TypeInv, ClosedInv
<1> QED
    BY <1>2, <1>3, <1>4, <1>5, <1>6, <1>7, Zenon DEF Next, vars, lineVars, Invoke, Transmit, ThreadStep,
       readLock, writeLock, closed, reconfigurePort, setBaudrate, ReadNow, ReadWait, ReadReturns,
       WriteStart, WriteSome
=============================================================================
