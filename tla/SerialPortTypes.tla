-------------------------- MODULE SerialPortTypes ---------------------------
(***************************************************************************)
(* The types of SerialPort, for any number of threads and ports, any calls *)
(* and any failures: the first part of the proofs about the serial         *)
(* library.                                                                *)
(***************************************************************************)
EXTENDS SerialPort, SequenceTheorems, WellFoundedInduction, TLAPS

InBytes == [port : Ports, n : Int]
Bytes == InBytes \cup [by : Threads \cup {NoThread}, n : Int]
CallStates == [c : CallSet \cup {NoCall.c}, pc : PCs, buf : Seq(Bytes), disturbed : BOOLEAN]

TypeInv ==
    /\ use \in Uses
    /\ port_ \in Ports /\ fd_ \in 0 .. MaxFd /\ is_open_ \in BOOLEAN
    /\ read_mutex \in Threads \cup {NoThread}
    /\ write_mutex \in Threads \cup {NoThread}
    /\ call \in [Threads -> CallStates]
    /\ DOMAIN opened \subseteq 1 .. MaxFd
    /\ \A d \in DOMAIN opened : opened[d] \in Ports
    /\ input \in [Ports -> Seq(InBytes)]
    /\ sent \in [Ports -> Nat]

\* The lowest free descriptor is a free descriptor.
LEMMA LowestFd ==
    ASSUME NEW S, S \subseteq 1 .. MaxFd, S # {}
    PROVE  Min(S) \in S
<1>1. MaxFd \in Nat
    BY SerialAssumption
<1>2. S \subseteq Nat
    BY <1>1
<1> DEFINE R == {ss \in Nat \X Nat : ss[1] < ss[2]}
<1>3. IsWellFoundedOn(R, Nat)
    BY NatLessThanWellFounded DEF OpToRel
<1>4. PICK x \in S : \A y \in S : ~(<<y, x>> \in R)
    <2> HIDE DEF R
    <2> QED
        BY <1>2, <1>3, WFMin, Zenon
<1>5. ASSUME NEW y \in S PROVE x =< y
    <2>1. x \in Nat /\ y \in Nat
        BY <1>2
    <2>2. y < x => <<y, x>> \in R
        BY <2>1
    <2> QED
        BY <1>4, <2>1, <2>2
<1> QED
    BY <1>5, Zenon DEF Min

CallsType == call \in [Threads -> CallStates]
MutexType ==
    /\ read_mutex \in Threads \cup {NoThread}
    /\ write_mutex \in Threads \cup {NoThread}

LEMMA NoCallType == NoCall \in CallStates
<1>1. << >> \in Seq(Bytes)
    OBVIOUS
<1> QED
    BY <1>1 DEF NoCall, Starting, CallStates, PCs

LEMMA GotoType ==
    ASSUME CallsType, NEW t \in Threads, NEW pc \in PCs, Goto(t, pc)
    PROVE  CallsType'
BY Zenon DEF CallsType, CallStates, Goto

LEMMA FinishType ==
    ASSUME CallsType, MutexType, NEW t \in Threads, Finish(t)
    PROVE  CallsType' /\ MutexType'
BY NoCallType DEF CallsType, MutexType, Finish

LEMMA DisturbingType ==
    ASSUME CallsType, NEW t \in Threads, NEW next \in CallStates, Disturbing(t, next)
    PROVE  CallsType'
BY Zenon DEF CallsType, CallStates, Disturbing

LEMMA DisturbingEndType ==
    ASSUME CallsType, MutexType, NEW t \in Threads, DisturbingEnd(t)
    PROVE  CallsType' /\ MutexType'
BY NoCallType, DisturbingType DEF MutexType, DisturbingEnd

LEMMA PcType ==
    ASSUME CallsType, NEW t \in Threads, NEW pc \in PCs
    PROVE  [call[t] EXCEPT !.pc = pc] \in CallStates
BY Zenon DEF CallsType, CallStates

\* A chunk of output is a sequence of bytes.
LEMMA ChunkType ==
    ASSUME CallsType, NEW t \in Threads, NEW k \in Nat
    PROVE  Chunk(t, k) \in Seq(Bytes)
<1> DEFINE e(i) == IF call[t].disturbed THEN OutByte(NoThread, 0)
                   ELSE OutByte(t, Len(call[t].buf) + i)
<1>1. Len(call[t].buf) \in Nat
    BY DEF CallsType, CallStates
<1>2. \A i \in 1 .. k : e(i) \in Bytes
    BY <1>1 DEF OutByte, Bytes
<1>3. [i \in 1 .. k |-> e(i)] \in [1 .. k -> Bytes]
    BY <1>2, Zenon
<1> QED
    BY <1>3, SeqDef, Zenon DEF Chunk

LEMMA TookType ==
    ASSUME CallsType, NEW t \in Threads, NEW b \in InBytes, Took(t, b)
    PROVE  CallsType'
<1>1. call[t] \in CallStates /\ call[t].buf \in Seq(Bytes) /\ b \in Bytes
    BY DEF CallsType, CallStates, Bytes
<1>2. Append(call[t].buf, b) \in Seq(Bytes)
    BY <1>1
<1> QED
    BY <1>1, <1>2, Zenon DEF CallsType, CallStates, Took, PCs, Running

LEMMA HereType ==
    ASSUME TypeInv, Valid
    PROVE  Here \in Ports /\ input[Here] \in Seq(InBytes) /\ fd_ # NoFd
BY DEF TypeInv, Valid, Here, NoFd

LEMMA TakeByteType ==
    ASSUME TypeInv, NEW t \in Threads, TakeByte(t)
    PROVE  CallsType' /\ MutexType' /\ input' \in [Ports -> Seq(InBytes)]
<1>1. Here \in Ports /\ input[Here] \in Seq(InBytes) /\ input[Here] # << >>
    BY HereType DEF TakeByte
<1>2. Head(input[Here]) \in InBytes /\ Tail(input[Here]) \in Seq(InBytes)
    BY <1>1
<1>3. CallsType'
    BY <1>2, TookType DEF TakeByte, TypeInv, CallsType
<1> QED
    BY <1>1, <1>2, <1>3 DEF TakeByte, TypeInv, MutexType, mutexVars

KernelType ==
    /\ DOMAIN opened \subseteq 1 .. MaxFd
    /\ \A d \in DOMAIN opened : opened[d] \in Ports
    /\ input \in [Ports -> Seq(InBytes)]
    /\ sent \in [Ports -> Nat]

LEMMA CloseType ==
    ASSUME TypeInv, NEW t \in Threads, close(t)
    PROVE  CallsType' /\ MutexType' /\ KernelType'
<1>1. CallsType /\ MutexType /\ KernelType
    BY DEF TypeInv, CallsType, MutexType, KernelType
<1>2. "closed" \in PCs
    BY DEF PCs
<1>3. [call[t] EXCEPT !.pc = "closed"] \in CallStates
    BY <1>1, <1>2, PcType
<1>4. ASSUME opened' = Without(fd_), input' = InputWith(opened'), sent' = sent
      PROVE  KernelType'
    <2>1. << >> \in Seq(InBytes)
        OBVIOUS
    <2>2. input' \in [Ports -> Seq(InBytes)]
        BY <1>1, <1>4, <2>1 DEF KernelType, InputWith
    <2>3. DOMAIN opened' \subseteq DOMAIN opened /\ \A d \in DOMAIN opened' : opened'[d] = opened[d]
        BY <1>4 DEF Without
    <2> QED
        BY <1>1, <1>4, <2>2, <2>3 DEF KernelType
<1>5. CASE UNCHANGED <<mutexVars, opened, input, sent>> /\ Goto(t, "closed")
    BY <1>1, <1>2, <1>5, GotoType DEF MutexType, KernelType, mutexVars
<1>6. CASE /\ opened' = Without(fd_) /\ input' = InputWith(opened') /\ sent' = sent
           /\ Disturbing(t, [call[t] EXCEPT !.pc = "closed"]) /\ UNCHANGED mutexVars
    BY <1>1, <1>3, <1>4, <1>6, DisturbingType DEF MutexType, mutexVars
<1>7. CASE /\ opened' = Without(fd_) /\ input' = InputWith(opened') /\ sent' = sent
           /\ DisturbingEnd(t)
    BY <1>1, <1>4, <1>7, DisturbingEndType
<1>8. CASE DisturbingEnd(t) /\ UNCHANGED <<opened, input, sent>>
    BY <1>1, <1>8, DisturbingEndType DEF KernelType
<1> QED
    BY <1>5, <1>6, <1>7, <1>8 DEF close

LEMMA OpenType ==
    ASSUME TypeInv, NEW t \in Threads, open(t)
    PROVE  CallsType' /\ MutexType' /\ KernelType' /\ fd_' \in 0 .. MaxFd
<1>1. CallsType /\ MutexType /\ KernelType /\ fd_ \in 0 .. MaxFd /\ MaxFd \in Nat
    BY SerialAssumption DEF TypeInv, CallsType, MutexType, KernelType
<1>2. UNCHANGED <<input, sent>>
    BY DEF open, lineVars
<1>3. CASE Finish(t) /\ UNCHANGED opened /\ fd_' \in {fd_, NoFd}
    BY <1>1, <1>2, <1>3, FinishType DEF KernelType, NoFd
<1>4. CASE /\ ~is_open_ /\ FreeFds # {}
           /\ fd_' = Min(FreeFds)
           /\ opened' = [d \in DOMAIN opened \cup {fd_'} |->
                          IF d = fd_' THEN port_ ELSE opened[d]]
           /\ Goto(t, "config")
           /\ UNCHANGED mutexVars
    <2>1. fd_' \in 1 .. MaxFd
        BY <1>4, LowestFd DEF FreeFds
    <2>2. KernelType'
        BY <1>1, <1>2, <1>4, <2>1 DEF KernelType, TypeInv
    <2>3. CallsType'
        BY <1>1, <1>4, GotoType DEF PCs
    <2> QED
        BY <1>1, <1>4, <2>1, <2>2, <2>3 DEF MutexType, mutexVars
<1> QED
    BY <1>3, <1>4 DEF open

LEMMA ClosedType ==
    ASSUME TypeInv, NEW t \in Threads, closed(t)
    PROVE  CallsType' /\ MutexType' /\ KernelType' /\ fd_' \in 0 .. MaxFd /\ port_' \in Ports
<1>1. CallsType /\ MutexType /\ KernelType /\ fd_ \in 0 .. MaxFd /\ MaxFd \in Nat
    BY SerialAssumption DEF TypeInv, CallsType, MutexType, KernelType
<1>2. KernelType'
    BY <1>1 DEF closed, KernelType, lineVars
<1>3. CallsType' /\ MutexType'
    <2>1. CASE DisturbingEnd(t)
        BY <1>1, <2>1, DisturbingEndType
    <2>2. CASE Disturbing(t, [call[t] EXCEPT !.pc = "open"]) /\ UNCHANGED mutexVars
        <3>1. [call[t] EXCEPT !.pc = "open"] \in CallStates
            BY <1>1, PcType DEF PCs
        <3> QED
            BY <1>1, <2>2, <3>1, DisturbingType DEF MutexType, mutexVars
    <2> QED
        BY <2>1, <2>2 DEF closed
<1>4. port_' \in Ports
    <2>1. call[t].c \in CallSet \cup {NoCall.c}
        BY <1>1 DEF CallsType, CallStates
    <2>2. Op(t) = "setPort" => call[t].c.port \in Ports
        BY <2>1 DEF Op, CallSet, NoCall, Starting
    <2> QED
        BY <2>2 DEF closed, TypeInv
<1>5. fd_' \in 0 .. MaxFd
    BY <1>1 DEF closed, NoFd
<1> QED
    BY <1>2, <1>3, <1>4, <1>5

LEMMA InvokeType ==
    ASSUME TypeInv, NEW t \in Threads, NEW c \in use.calls[t], Invoke(t, c)
    PROVE  CallsType' /\ c \in CallSet
<1>1. c \in CallSet
    BY SerialAssumption DEF TypeInv
<1>2. c.op \in Operations
    BY <1>1 DEF CallSet
<1>3. Entry(c.op) \in PCs
    BY <1>2 DEF Entry, LocksRead, LocksWrite, Operations, Reads, Unlocked, PCs
<1>4. Starting(c, Entry(c.op)) \in CallStates
    <2>1. << >> \in Seq(Bytes)
        OBVIOUS
    <2> QED
        BY <1>1, <1>3, <2>1 DEF Starting, CallStates
<1> QED
    BY <1>1, <1>4 DEF Invoke, TypeInv, CallsType

LEMMA WriteSomeType ==
    ASSUME TypeInv, NEW t \in Threads, WriteSome(t)
    PROVE  CallsType' /\ MutexType'
<1>1. CallsType /\ MutexType /\ call[t] \in CallStates /\ call[t].buf \in Seq(Bytes)
    BY DEF TypeInv, CallsType, MutexType, CallStates
<1>2. CASE Finish(t)
    BY <1>1, <1>2, FinishType
<1>3. CASE \E k \in 1 .. LineLen - Len(call[t].buf) :
             /\ call' = [call EXCEPT ![t].buf = @ \o Chunk(t, k)]
             /\ UNCHANGED mutexVars
    <2>1. PICK k \in 1 .. LineLen - Len(call[t].buf) :
             call' = [call EXCEPT ![t].buf = @ \o Chunk(t, k)] /\ UNCHANGED mutexVars
        BY <1>3, Zenon
    <2>2. k \in Nat
        OBVIOUS
    <2>3. call[t].buf \o Chunk(t, k) \in Seq(Bytes)
        BY <1>1, <2>2, ChunkType
    <2> QED
        BY <1>1, <2>1, <2>3, Zenon DEF CallsType, CallStates, MutexType, mutexVars
<1> QED
    BY <1>2, <1>3 DEF WriteSome

LEMMA TypeStep ==
    ASSUME TypeInv, [Next]_vars
    PROVE  TypeInv'
<1> USE DEF TypeInv
<1> DEFINE Rest == UNCHANGED use /\ port_' \in Ports /\ fd_' \in 0 .. MaxFd /\ is_open_' \in BOOLEAN
<1>1. SUFFICES CallsType' /\ MutexType' /\ KernelType' /\ Rest
    BY DEF CallsType, MutexType, KernelType
<1>2. CallsType /\ MutexType /\ KernelType /\ UNCHANGED use
    BY DEF CallsType, MutexType, KernelType, Next, vars
<1>3. CASE UNCHANGED vars
    BY <1>2, <1>3 DEF vars, implVars, mutexVars, lineVars, CallsType, MutexType, KernelType
<1>4. ASSUME NEW t \in Threads, NEW c \in use.calls[t], Invoke(t, c)
      PROVE  CallsType' /\ MutexType' /\ KernelType' /\ Rest
    <2>1. CallsType'
        BY <1>4, InvokeType, SMTT(20)
    <2> QED
        BY <1>2, <1>4, <2>1 DEF Invoke, implVars, mutexVars, lineVars, MutexType, KernelType
<1>5. ASSUME NEW t \in Threads, ThreadStep(t)
      PROVE  CallsType' /\ MutexType' /\ KernelType' /\ Rest
    <2>1. CASE readLock(t)
        <3>1. CallsType'
            BY <1>2, <2>1, GotoType DEF readLock, Body, PCs, Running
        <3> QED
            BY <1>2, <2>1, <3>1 DEF readLock, implVars, lineVars, MutexType, KernelType
    <2>2. CASE writeLock(t)
        <3>1. CallsType'
            BY <1>2, <2>2, GotoType DEF writeLock, Body, PCs, Running
        <3> QED
            BY <1>2, <2>2, <3>1 DEF writeLock, implVars, lineVars, MutexType, KernelType
    <2>3. CASE close(t)
        BY <1>2, <2>3, CloseType, Zenon DEF close, implVars
    <2>4. CASE closed(t)
        BY <1>2, <2>4, ClosedType, Zenon DEF closed
    <2>5. CASE open(t)
        BY <1>2, <2>5, OpenType, Zenon DEF open
    <2>6. CASE reconfigurePort(t)
        BY <1>2, <2>6, FinishType, Zenon DEF reconfigurePort, lineVars, KernelType
    <2>7. CASE setBaudrate(t)
        <3>1. CASE Finish(t)
            BY <1>2, <2>7, <3>1, FinishType DEF setBaudrate, implVars, lineVars, KernelType
        <3>2. CASE Goto(t, "config") /\ UNCHANGED mutexVars
            <4>1. CallsType'
                BY <1>2, <3>2, GotoType DEF PCs
            <4> QED
                BY <1>2, <2>7, <3>2, <4>1 DEF setBaudrate, implVars, lineVars, mutexVars, MutexType, KernelType
        <3> QED
            BY <2>7, <3>1, <3>2 DEF setBaudrate
    <2>8. CASE ReadNow(t) \/ ReadWait(t)
        <3>1. UNCHANGED <<port_, fd_, is_open_, opened, sent>>
            BY <2>8 DEF ReadNow, ReadWait, implVars
        <3>2. CASE Finish(t) /\ UNCHANGED input
            BY <1>2, <3>1, <3>2, FinishType DEF KernelType
        <3>3. CASE TakeByte(t)
            BY <1>2, <3>1, <3>3, TakeByteType DEF KernelType
        <3>4. CASE Goto(t, "select") /\ UNCHANGED <<mutexVars, input>>
            <4>1. CallsType'
                BY <1>2, <3>4, GotoType DEF PCs, Running
            <4> QED
                BY <1>2, <3>1, <3>4, <4>1 DEF mutexVars, MutexType, KernelType
        <3> QED
            BY <2>8, <3>2, <3>3, <3>4 DEF ReadNow, ReadWait
    <2>9. CASE ReadReturns(t)
        BY <1>2, <2>9, FinishType DEF ReadReturns, implVars, lineVars, KernelType
    <2>10. CASE WriteStart(t)
        <3>1. UNCHANGED <<port_, fd_, is_open_, opened, sent, input>>
            BY <2>10 DEF WriteStart, implVars, lineVars
        <3>2. CASE Finish(t)
            BY <1>2, <3>1, <3>2, FinishType DEF KernelType
        <3>3. CASE Goto(t, "select") /\ UNCHANGED mutexVars
            <4>1. CallsType'
                BY <1>2, <3>3, GotoType DEF PCs, Running
            <4> QED
                BY <1>2, <3>1, <3>3, <4>1 DEF mutexVars, MutexType, KernelType
        <3> QED
            BY <2>10, <3>2, <3>3 DEF WriteStart
    <2>11. CASE WriteSome(t)
        <3>1. UNCHANGED <<port_, fd_, is_open_, opened, sent, input>>
            BY <2>11 DEF WriteSome, implVars
        <3> QED
            BY <1>2, <2>11, <3>1, WriteSomeType DEF KernelType
    <2>12. CASE Flushing(t)
        <3>1. UNCHANGED <<port_, fd_, is_open_, opened, sent>>
            BY <2>12 DEF Flushing, implVars
        <3>2. << >> \in Seq(InBytes)
            OBVIOUS
        <3>3. input' \in [Ports -> Seq(InBytes)]
            BY <2>12, <3>2, Zenon DEF Flushing
        <3>4. CallsType' /\ MutexType'
            BY <1>2, <2>12, FinishType DEF Flushing
        <3> QED
            BY <1>2, <3>1, <3>3, <3>4 DEF KernelType
    <2> QED
        BY <1>5, <2>1, <2>2, <2>3, <2>4, <2>5, <2>6, <2>7, <2>8, <2>9, <2>10, <2>11, <2>12, SMTT(20)
        DEF ThreadStep
<1>6. ASSUME NEW p \in Ports, Arrive(p)
      PROVE  CallsType' /\ MutexType' /\ KernelType' /\ Rest
    <2>1. sent[p] \in Nat /\ input[p] \in Seq(InBytes)
        OBVIOUS
    <2>2. InByte(p, sent[p] + 1) \in InBytes
        BY <2>1 DEF InByte, InBytes
    <2>3. Append(input[p], InByte(p, sent[p] + 1)) \in Seq(InBytes)
        BY <2>1, <2>2
    <2>4. input' \in [Ports -> Seq(InBytes)] /\ sent' \in [Ports -> Nat]
        BY <1>6, <2>1, <2>3 DEF Arrive
    <2> QED
        BY <1>2, <1>6, <2>4 DEF Arrive, implVars, mutexVars, CallsType, MutexType, KernelType
<1>7. ASSUME NEW p \in Ports, Transmit(p)
      PROVE  CallsType' /\ MutexType' /\ KernelType' /\ Rest
    BY <1>2, <1>7 DEF Transmit, implVars, mutexVars, CallsType, MutexType, KernelType
<1> QED
    BY <1>3, <1>4, <1>5, <1>6, <1>7 DEF Next

\* In the beginning nobody is in a call.
LEMMA InitCalls ==
    ASSUME Init
    PROVE  \A t \in Threads : call[t] = NoCall /\ Op(t) = "none" /\ call[t].pc = "idle" /\ call[t].buf = << >>
BY DEF Init, Op, NoCall, Starting

LEMMA TypeInit ==
    ASSUME Init
    PROVE  TypeInv
<1>1. << >> \in Seq(InBytes) /\ MaxFd \in Nat \ {0}
    BY SerialAssumption
<1>2. call \in [Threads -> CallStates]
    BY NoCallType DEF Init
<1> QED
    BY <1>1, <1>2 DEF Init, TypeInv
=============================================================================
