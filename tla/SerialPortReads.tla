-------------------------- MODULE SerialPortReads ---------------------------
(***************************************************************************)
(* What the locks guarantee a reader: its bytes are one piece of what one  *)
(* unit sent, and it never waits for descriptor -1.                        *)
(***************************************************************************)
EXTENDS SerialPortInput

\* The head of the input comes right after the byte before the input.
LEMMA NextByte ==
    ASSUME TypeInv, InputInv, Valid, input[Here] # << >>
    PROVE  /\ Head(input[Here]) = InByte(Here, sent[Here] - Len(input[Here]) + 1)
           /\ Len(Tail(input[Here])) = Len(input[Here]) - 1
           /\ Len(input[Here]) \in Nat /\ sent[Here] \in Nat
           /\ Head(input[Here]) \in InBytes
<1>1. Here \in Ports /\ input[Here] \in Seq(InBytes) /\ sent[Here] \in Nat
    BY HereType DEF TypeInv
<1>2. 1 \in 1 .. Len(input[Here]) /\ Head(input[Here]) = input[Here][1]
    BY <1>1
<1>3. input[Here][1] = InByte(Here, sent[Here] - Len(input[Here]) + 1)
    BY <1>1, <1>2 DEF InputInv
<1> QED
    BY <1>1, <1>2, <1>3

\* What a read has got after one more byte.
LEMMA AfterByte ==
    ASSUME TypeInv, NEW t \in Threads, TakeByte(t)
    PROVE  LET b == Head(input[Here]) n == Len(call[t].buf) IN
           /\ n \in Nat
           /\ Len(call'[t].buf) = n + 1
           /\ \A i \in 1 .. n : call'[t].buf[i] = call[t].buf[i]
           /\ call'[t].buf[n + 1] = b
           /\ call'[t].c = call[t].c /\ call'[t].disturbed = call[t].disturbed
           /\ (call'[t].pc \in Running /\ Op(t) = "readline") => ~EndsLine(b)
<1>1. CallsType /\ call[t].buf \in Seq(Bytes)
    BY DEF TypeInv, CallsType, CallStates
<1>2. Head(input[Here]) \in Bytes
    BY HereType DEF TakeByte, Bytes
<1>3. Took(t, Head(input[Here]))
    BY DEF TakeByte
<1>4. /\ call'[t].c = call[t].c /\ call'[t].disturbed = call[t].disturbed
      /\ call'[t].buf = Append(call[t].buf, Head(input[Here]))
      /\ (call'[t].pc \in Running /\ Op(t) = "readline") => ~EndsLine(Head(input[Here]))
    BY <1>1, <1>3, TookLeaves DEF Running
<1> QED
    BY <1>1, <1>2, <1>4, AppendProperties

\* What a read can do next.
Takes(t) == TakeByte(t) /\ call[t].pc \in Running /\ (is_open_ \/ call[t].pc = "select")
            /\ UNCHANGED <<is_open_, fd_, opened, sent>>
Waits(t) == Goto(t, "select") /\ call[t].pc = "run"
            /\ UNCHANGED <<is_open_, fd_, opened, sent, input>>

LEMMA ReaderSteps ==
    ASSUME TypeInv, LockInv, NEW t \in Threads, ThreadStep(t)
    PROVE  \/ Op(t)' \notin Reads
           \/ Op(t) \in Reads /\ (readLock(t) \/ Takes(t) \/ Waits(t))
<1>1. CallsType
    BY DEF TypeInv, CallsType
<1>2. CASE Ends(t)
    BY <1>2 DEF Ends, Op, NoCall, Starting, Reads
<1>3. CASE Finish(t)
    BY <1>1, <1>2, <1>3, FinishEnds
<1>4. Op(t)' = Op(t) \/ Ends(t)
    <2>1. CASE readLock(t) \/ writeLock(t)
        BY <1>1, <2>1, GotoLeaves DEF readLock, writeLock, Op
    <2> QED
        BY <2>1, OwnStep DEF Moves, Op
<1>5. CASE Op(t) \notin Reads
    BY <1>2, <1>4, <1>5, SMTT(20)
<1>6. CASE Op(t) \in Reads
    <2>1. call[t].pc \in {"rlock", "run", "select", "return"} \/ call[t].pc \notin PCs
        BY <1>6 DEF LockInv, PcOp, Legal, LocksWrite, Reads, PCs, Running
    <2>2. call[t].pc \in PCs
        BY DEF TypeInv, CallStates
    <2>3. CASE ReadNow(t)
        BY <1>3, <1>6, <2>3 DEF ReadNow, Takes, Waits, Running, implVars
    <2>4. CASE ReadWait(t)
        BY <1>3, <1>6, <2>4 DEF ReadWait, Takes, Running, implVars
    <2>5. CASE ReadReturns(t)
        BY <1>3, <2>5 DEF ReadReturns
    <2>6. CASE readLock(t)
        BY <1>6, <2>6
    <2>7. Op(t) \notin {"write", "flush", "flushInput", "flushOutput"}
        BY <1>6 DEF Reads
    <2> QED
        BY <2>1, <2>2, <2>3, <2>4, <2>5, <2>6, <2>7, SMTT(20)
        DEF ThreadStep, writeLock, close, closed, open, reconfigurePort, setBaudrate, WriteStart,
            WriteSome, Flushing
<1> QED
    BY <1>5, <1>6

\* The part of LastInv about one thread.
LastOK(t) ==
    (/\ Op(t) \in Reads /\ call[t].pc \in Running
     /\ ~call[t].disturbed /\ call[t].buf # << >>) =>
        /\ is_open_ /\ Valid
        /\ call[t].buf[Len(call[t].buf)] = InByte(Here, sent[Here] - Len(input[Here]))
        /\ Op(t) = "readline" => ~EndsLine(call[t].buf[Len(call[t].buf)])

LEMMA LastOwn ==
    ASSUME TypeInv, LockInv, OpenInv, InputInv, LastInv, NEW t \in Threads, ThreadStep(t)
    PROVE  LastOK(t)'
<1>1. CallsType
    BY DEF TypeInv, CallsType
<1>2. CASE Op(t)' \notin Reads
    BY <1>2 DEF LastOK
<1>3. CASE readLock(t) /\ Op(t) \in Reads
    <2>1. call'[t].buf = << >>
        BY <1>1, <1>3, GotoLeaves DEF readLock, LockInv, PcOp, Legal
    <2> QED
        BY <2>1 DEF LastOK
<1>4. CASE Waits(t)
    <2>1. /\ call'[t].c = call[t].c /\ call'[t].buf = call[t].buf
          /\ call'[t].disturbed = call[t].disturbed /\ call[t].pc \in Running
        BY <1>1, <1>4, GotoLeaves DEF Waits, Running
    <2> QED
        BY <1>4, <2>1 DEF LastInv, LastOK, Op, Waits, Valid, Here
<1>5. CASE Takes(t)
    <2> DEFINE b == Head(input[Here]) n == Len(call[t].buf)
    <2>1. SUFFICES ASSUME ~call'[t].disturbed, call'[t].pc \in Running, Op(t)' \in Reads
                   PROVE  /\ is_open_' /\ Valid'
                          /\ call'[t].buf[Len(call'[t].buf)] = InByte(Here', sent'[Here'] - Len(input'[Here']))
                          /\ Op(t)' = "readline" => ~EndsLine(call'[t].buf[Len(call'[t].buf)])
        BY DEF LastOK
    <2>2. /\ Len(call'[t].buf) = n + 1 /\ call'[t].buf[n + 1] = b
          /\ call'[t].c = call[t].c /\ call'[t].disturbed = call[t].disturbed
          /\ (call'[t].pc \in Running /\ Op(t) = "readline") => ~EndsLine(b)
        BY <1>5, AfterByte DEF Takes
    <2>3. Valid /\ Here' = Here /\ Valid' /\ input[Here] # << >> /\ Here \in Ports
        BY <1>5, HereType DEF Takes, TakeByte, Valid, Here
    <2>4. is_open_ /\ is_open_'
        BY <1>5, <2>1, <2>2 DEF Takes, OpenInv
    <2>5. input'[Here] = Tail(input[Here]) /\ sent' = sent
        BY <1>5, <2>3 DEF Takes, TakeByte, TypeInv
    <2>6. /\ b = InByte(Here, sent[Here] - Len(input[Here]) + 1)
          /\ Len(Tail(input[Here])) = Len(input[Here]) - 1
          /\ Len(input[Here]) \in Nat /\ sent[Here] \in Nat
        BY <2>3, NextByte
    <2>7. sent[Here] - (Len(input[Here]) - 1) = sent[Here] - Len(input[Here]) + 1
        BY <2>6
    <2>8. call'[t].buf[Len(call'[t].buf)] = b
        BY <2>2
    <2>9. b = InByte(Here', sent'[Here'] - Len(input'[Here']))
        BY <2>3, <2>5, <2>6, <2>7
    <2>10. Op(t)' = "readline" => ~EndsLine(b)
        BY <2>1, <2>2 DEF Op
    <2> QED
        BY <2>3, <2>4, <2>8, <2>9, <2>10
<1> QED
    BY <1>2, <1>3, <1>4, <1>5, ReaderSteps

LEMMA LastOthers ==
    ASSUME TypeInv, LockInv, LastInv, NEW t \in Threads, ThreadStep(t), NEW u \in Threads \ {t}
    PROVE  LastOK(u)'
<1>1. Left(u)
    BY OwnStep
<1>2. SUFFICES ASSUME Op(u)' \in Reads, call'[u].pc \in Running, ~call'[u].disturbed, call'[u].buf # << >>
               PROVE  LastOK(u)'
    BY DEF LastOK
<1>3. /\ Op(u) \in Reads /\ call[u].pc \in Running /\ ~call[u].disturbed /\ call[u].buf # << >>
      /\ InSystemCalls(u)
    BY <1>1, <1>2 DEF Left, Op, InSystemCalls
<1>4. /\ is_open_ /\ Valid
      /\ call[u].buf[Len(call[u].buf)] = InByte(Here, sent[Here] - Len(input[Here]))
      /\ Op(u) = "readline" => ~EndsLine(call[u].buf[Len(call[u].buf)])
    BY <1>3 DEF LastInv
<1>5. UNCHANGED <<is_open_, fd_, opened, sent, input>>
    BY <1>2, <1>3, <1>4, NobodyCuts, Zenon
<1> QED
    BY <1>1, <1>4, <1>5 DEF LastOK, Left, Op, Valid, Here

LEMMA LastStep ==
    ASSUME TypeInv, LockInv, OpenInv, InputInv, LastInv, [Next]_vars
    PROVE  LastInv'
<1>1. SUFFICES ASSUME NEW u \in Threads PROVE LastOK(u)'
    BY DEF LastInv, LastOK
<1>2. LastOK(u)
    BY DEF LastInv, LastOK
<1>3. CASE UNCHANGED <<call, is_open_, fd_, opened, sent, input>>
    BY <1>2, <1>3 DEF LastOK, Op, Valid, Here
<1>4. ASSUME NEW t \in Threads, NEW c \in use.calls[t], Invoke(t, c)
      PROVE  LastOK(u)'
    BY <1>2, <1>4, InvokeLeaves DEF LastOK, Op, Valid, Here
<1>5. ASSUME NEW t \in Threads, ThreadStep(t)
      PROVE  LastOK(u)'
    BY <1>5, LastOwn, LastOthers
<1>6. ASSUME NEW p \in Ports, Arrive(p)
      PROVE  LastOK(u)'
    <2>1. UNCHANGED <<call, is_open_, fd_, opened>>
        BY <1>6 DEF Arrive, implVars
    <2>2. ASSUME Valid
          PROVE  sent'[Here] - Len(input'[Here]) = sent[Here] - Len(input[Here])
        <3>1. Here \in Ports /\ \E d \in DOMAIN opened : opened[d] = Here
            BY <2>2, HereType DEF Valid, Here
        <3>2. input[Here] \in Seq(InBytes) /\ sent[Here] \in Nat /\ Len(input[Here]) \in Nat
            BY <3>1 DEF TypeInv
        <3>3. CASE p # Here
            BY <1>6, <3>1, <3>3 DEF Arrive, TypeInv
        <3>4. CASE p = Here
            <4>1. /\ sent'[Here] = sent[Here] + 1
                  /\ input'[Here] = Append(input[Here], InByte(p, sent[p] + 1))
                BY <1>6, <3>1, <3>4 DEF Arrive, TypeInv
            <4>2. InByte(p, sent[p] + 1) \in InBytes
                BY <3>2, <3>4 DEF InByte, InBytes
            <4>3. Len(input'[Here]) = Len(input[Here]) + 1
                BY <3>2, <4>1, <4>2, AppendProperties
            <4>4. (sent[Here] + 1) - (Len(input[Here]) + 1) = sent[Here] - Len(input[Here])
                BY <3>2
            <4> QED
                BY <4>1, <4>3, <4>4
        <3> QED
            BY <3>3, <3>4
    <2> QED
        BY <1>2, <2>1, <2>2 DEF LastOK, Op, Valid, Here
<1> QED
    BY <1>3, <1>4, <1>5, <1>6 DEF Next, vars, implVars, lineVars, Transmit

\* ReadUndivided for one thread.
OnePiece(t) ==
    (Op(t) \in Reads /\ ~call[t].disturbed) =>
        \A i \in 1 .. Len(call[t].buf) - 1 :
            /\ call[t].buf[i + 1] = InByte(call[t].buf[i].port, call[t].buf[i].n + 1)
            /\ Op(t) = "readline" => ~EndsLine(call[t].buf[i])

LEMMA PieceOwn ==
    ASSUME TypeInv, LockInv, OpenInv, InputInv, LastInv, ReadUndivided,
           NEW t \in Threads, ThreadStep(t)
    PROVE  OnePiece(t)'
<1>1. CallsType /\ OnePiece(t)
    BY DEF TypeInv, CallsType, ReadUndivided, OnePiece
<1>2. CASE Op(t)' \notin Reads
    BY <1>2 DEF OnePiece
<1>3. CASE readLock(t) \/ Waits(t)
    <2>1. /\ call'[t].c = call[t].c /\ call'[t].buf = call[t].buf
          /\ call'[t].disturbed = call[t].disturbed
        BY <1>1, <1>3, GotoLeaves DEF Waits, readLock
    <2> QED
        BY <1>1, <2>1 DEF OnePiece, Op
<1>4. CASE Takes(t) /\ Op(t) \in Reads
    <2> DEFINE b == Head(input[Here]) n == Len(call[t].buf)
    <2>1. SUFFICES ASSUME Op(t)' \in Reads, ~call'[t].disturbed, NEW i \in 1 .. Len(call'[t].buf) - 1
                   PROVE  /\ call'[t].buf[i + 1] = InByte(call'[t].buf[i].port, call'[t].buf[i].n + 1)
                          /\ Op(t)' = "readline" => ~EndsLine(call'[t].buf[i])
        BY DEF OnePiece
    <2>2. /\ n \in Nat
          /\ Len(call'[t].buf) = n + 1 /\ call'[t].buf[n + 1] = b
          /\ \A j \in 1 .. n : call'[t].buf[j] = call[t].buf[j]
          /\ call'[t].c = call[t].c /\ call'[t].disturbed = call[t].disturbed
        BY <1>4, AfterByte DEF Takes
    <2>3. i \in 1 .. n /\ ~call[t].disturbed /\ (Op(t)' = Op(t))
        BY <2>1, <2>2 DEF Op
    <2>4. CASE i < n
        <3>1. i \in 1 .. n - 1 /\ i + 1 \in 1 .. n
            BY <2>2, <2>3, <2>4
        <3>2. /\ call[t].buf[i + 1] = InByte(call[t].buf[i].port, call[t].buf[i].n + 1)
              /\ Op(t) = "readline" => ~EndsLine(call[t].buf[i])
            BY <1>1, <1>4, <2>3, <3>1, SMTT(20) DEF OnePiece
        <3> QED
            BY <2>2, <2>3, <3>1, <3>2, SMTT(20)
    <2>5. CASE i = n
        <3>1. call[t].buf # << >> /\ call[t].pc \in Running
            BY <1>4, <2>2, <2>3 DEF Takes
        <3>2. /\ call[t].buf[n] = InByte(Here, sent[Here] - Len(input[Here]))
              /\ Op(t) = "readline" => ~EndsLine(call[t].buf[n])
            BY <1>4, <2>3, <3>1 DEF LastInv
        <3>3. b = InByte(Here, sent[Here] - Len(input[Here]) + 1)
            BY <1>4, NextByte DEF Takes, TakeByte
        <3>4. b = InByte(call[t].buf[n].port, call[t].buf[n].n + 1)
            BY <3>2, <3>3 DEF InByte
        <3> QED
            BY <2>2, <2>3, <2>5, <3>2, <3>4, SMTT(20)
    <2> QED
        BY <2>2, <2>3, <2>4, <2>5
<1> QED
    BY <1>2, <1>3, <1>4, ReaderSteps

LEMMA PieceStep ==
    ASSUME TypeInv, LockInv, OpenInv, InputInv, LastInv, ReadUndivided, [Next]_vars
    PROVE  ReadUndivided'
<1>1. SUFFICES ASSUME NEW u \in Threads PROVE OnePiece(u)'
    BY DEF ReadUndivided, OnePiece
<1>2. OnePiece(u)
    BY DEF ReadUndivided, OnePiece
<1>3. CASE UNCHANGED call
    BY <1>2, <1>3 DEF OnePiece, Op
<1>4. ASSUME NEW t \in Threads, NEW c \in use.calls[t], Invoke(t, c)
      PROVE  OnePiece(u)'
    <2>1. CASE u = t
        BY <1>4, <2>1, InvokeLeaves DEF OnePiece
    <2>2. CASE u # t
        BY <1>2, <1>4, <2>2, InvokeLeaves DEF OnePiece, Op
    <2> QED
        BY <2>1, <2>2
<1>5. ASSUME NEW t \in Threads, ThreadStep(t)
      PROVE  OnePiece(u)'
    <2>1. CASE u = t
        BY <1>5, <2>1, PieceOwn
    <2>2. CASE u # t
        <3>1. Left(u)
            BY <1>5, <2>2, OwnStep
        <3> QED
            BY <1>2, <3>1 DEF OnePiece, Op, Left
    <2> QED
        BY <2>1, <2>2
<1> QED
    BY <1>3, <1>4, <1>5 DEF Next, vars, Arrive, Transmit

LEMMA ReadInit ==
    ASSUME Init
    PROVE  OpenInv /\ ClosedInv /\ InputInv /\ LastInv /\ ReadUndivided
<1>1. OpenInv
    BY InitCalls DEF Init, OpenInv, NoFd
<1>2. LastInv /\ ReadUndivided
    BY InitCalls DEF LastInv, ReadUndivided, Reads
<1>3. ClosedInv /\ InputInv
    BY DEF Init, ClosedInv, InputInv
<1> QED
    BY <1>1, <1>2, <1>3

\* No read, readline or readlines of any number of threads is cut or mixed,
\* whichever calls the others make, but by an unlocked open or close.
THEOREM ReadCorrect == Spec => []ReadUndivided
<1> DEFINE IInv == OpenInv /\ ClosedInv /\ InputInv /\ LastInv /\ ReadUndivided
<1>1. Init => IInv
    BY ReadInit
<1>2. TypeInv /\ LockInv /\ IInv /\ [Next]_vars => IInv'
    BY OpenStep, ClosedStep, InputStep, LastStep, PieceStep
<1>3. IInv => ReadUndivided
    OBVIOUS
<1> HIDE DEF IInv
<1> QED
    BY <1>1, <1>2, <1>3, LocksCorrect, PTL DEF Spec

\* No thread waits in select for descriptor -1, but one that an unlocked open
\* or close disturbed.
THEOREM SelectCorrect == Spec => []SelectsOnDescriptor
<1>1. Init => OpenInv
    BY ReadInit
<1>2. TypeInv /\ LockInv /\ OpenInv /\ [Next]_vars => OpenInv'
    BY OpenStep
<1>3. OpenInv => SelectsOnDescriptor
    BY DEF OpenInv, SelectsOnDescriptor
<1> QED
    BY <1>1, <1>2, <1>3, LocksCorrect, PTL DEF Spec
=============================================================================
