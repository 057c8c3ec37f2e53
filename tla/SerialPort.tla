----------------------------- MODULE SerialPort -----------------------------
(***************************************************************************)
(* One serial::Serial object used by several threads (src/serial.cc over   *)
(* src/impl/unix.cc), system call by system call.                          *)
(*                                                                         *)
(* read, readline, readlines and flushInput hold the read mutex, write and *)
(* flushOutput the write mutex, setPort and flush both.  open, close and   *)
(* the setters of the line settings hold none; Device::reset_connection is *)
(* such a close followed by such an open.                                  *)
(***************************************************************************)
EXTENDS Integers, Sequences, FiniteSetsExt

CONSTANTS
    Threads,   \* the threads that share the object
    Ports,     \* the serial ports a setPort can name
    Uses,      \* ways to use the object: the calls of each thread, and how
               \* many bytes each unit sends
    Owner,     \* the only thread that opens, closes or changes the port
    LineLen,   \* bytes in a line, the end-of-line byte included
    OutSpace,  \* bytes the kernel takes before they are sent
    MaxFd,     \* the descriptors of the process are 1 .. MaxFd
    Faults     \* the failures a run lets happen

NoThread == "none"
NoFd == 0      \* fd_ = -1

Reads == {"read", "readline", "readlines"}
Unlocked == {"open", "close", "reset_connection", "setBaudrate"}
Operations == Reads \cup Unlocked
              \cup {"write", "setPort", "flush", "flushInput", "flushOutput"}

\* Calls take a size, a port or nothing.
CallSet == [op : Operations, size : Nat, port : Ports]

FaultKinds == {
    "open",     \* ::open fails
    "config",   \* reconfigurePort throws
    "close" }   \* ::close fails; Linux has released the descriptor all the same

ASSUME SerialAssumption ==
    /\ NoThread \notin Threads
    /\ Owner \in Threads
    /\ Uses \subseteq [calls : [Threads -> SUBSET CallSet], sends : [Ports -> Nat]]
    /\ \A u \in Uses : \A t \in Threads : \A c \in u.calls[t] :
          /\ c.op \in {"open", "close", "reset_connection", "setPort"} => t = Owner
          /\ c.op \in Reads => c.size > 0
    /\ LineLen \in Nat \ {0} /\ OutSpace \in Nat \ {0} /\ MaxFd \in Nat \ {0}
    /\ Faults \subseteq FaultKinds

VARIABLES
    use,                        \* how the object is used, fixed at the start
    port_, fd_, is_open_,       \* members of SerialImpl
    read_mutex, write_mutex,    \* the thread that holds it
    call,      \* the call each thread is in
    opened,    \* the kernel: the port behind each descriptor of the process
    input,     \* the kernel: bytes received from each port and not yet read
    output,    \* the kernel: bytes written to each port and not yet sent
    sent,      \* how many bytes each unit has sent
    heard,     \* the bytes each unit received last, from the start of a line on
    leaked     \* history: a descriptor was dropped by a failed open

implVars == <<port_, fd_, is_open_>>
mutexVars == <<read_mutex, write_mutex>>
lineVars == <<input, output, sent, heard>>
vars == <<use, implVars, mutexVars, call, opened, lineVars, leaked>>

-----------------------------------------------------------------------------
\* The bytes of a unit are numbered, and every LineLen-th ends a line; so are
\* the bytes of the line a thread writes.
InByte(p, n) == [port |-> p, n |-> n]
EndsLine(b) == b.n % LineLen = 0
OutByte(t, n) == [by |-> t, n |-> n]

Idle(t) == call[t].pc = "idle"
Op(t) == call[t].c.op
Running == {"run", "select"}

\* The port at the other end of fd_, if fd_ is a descriptor of the process.
Valid == fd_ \in DOMAIN opened
Here == opened[fd_]

\* Mutant: setPort locks writers out only.
LocksRead_NotSetPort(op) == op \in Reads \cup {"flushInput", "flush"}

LocksRead(op) == op \in Reads \cup {"flushInput", "flush", "setPort"}
LocksWrite(op) == op \in {"write", "flushOutput", "flush", "setPort"}

Goto(t, pc) == call' = [call EXCEPT ![t].pc = pc]

Starting(c, pc) == [c |-> c, pc |-> pc, buf |-> << >>, disturbed |-> FALSE]
NoCall == Starting([op |-> "none"], "idle")

\* The call ends, by return or by exception, and ScopedReadLock and
\* ScopedWriteLock let go of what t holds.
Finish(t) ==
    /\ call' = [call EXCEPT ![t] = NoCall]
    /\ read_mutex' = IF read_mutex = t THEN NoThread ELSE read_mutex
    /\ write_mutex' = IF write_mutex = t THEN NoThread ELSE write_mutex

-----------------------------------------------------------------------------
Init ==
    /\ use \in Uses
    /\ port_ \in Ports
    /\ fd_ = 1 /\ is_open_ = TRUE
    /\ read_mutex = NoThread /\ write_mutex = NoThread
    /\ call = [t \in Threads |-> NoCall]
    /\ opened = [d \in {1} |-> port_]
    /\ input = [p \in Ports |-> << >>]
    /\ output = [p \in Ports |-> << >>]
    /\ sent = [p \in Ports |-> 0]
    /\ heard = [p \in Ports |-> << >>]
    /\ leaked = FALSE

\* Where a call starts: at its locks, or right away.
Entry(op) ==
    CASE LocksRead(op)                         -> "rlock"
      [] LocksWrite(op) /\ ~LocksRead(op)      -> "wlock"
      [] op \in {"close", "reset_connection"}  -> "close"
      [] op = "open"                           -> "open"
      [] op = "setBaudrate"                    -> "set"

Invoke(t, c) ==
    /\ Idle(t)
    /\ call' = [call EXCEPT ![t] = Starting(c, Entry(c.op))]
    /\ UNCHANGED <<implVars, mutexVars, opened, lineVars, leaked>>

\* Where the work of a call starts once its locks are held.
Body(op) == IF op = "setPort" THEN "close" ELSE "run"

readLock(t) ==
    /\ call[t].pc = "rlock"
    /\ read_mutex = NoThread
    /\ read_mutex' = t
    /\ Goto(t, IF LocksWrite(Op(t)) THEN "wlock" ELSE Body(Op(t)))
    /\ UNCHANGED <<implVars, write_mutex, opened, lineVars, leaked>>

\* Mutant: the write mutex keeps nobody out.
writeLock_Shared(t) ==
    /\ call[t].pc = "wlock"
    /\ write_mutex' = t
    /\ Goto(t, Body(Op(t)))
    /\ UNCHANGED <<implVars, read_mutex, opened, lineVars, leaked>>

writeLock(t) ==
    /\ call[t].pc = "wlock"
    /\ write_mutex = NoThread
    /\ write_mutex' = t
    /\ Goto(t, Body(Op(t)))
    /\ UNCHANGED <<implVars, read_mutex, opened, lineVars, leaked>>

-----------------------------------------------------------------------------
\* An unlocked open or close disturbs the calls that are in the middle of
\* their system calls.
Disturbing(t, next) ==
    call' = [u \in Threads |->
        IF u = t THEN next
        ELSE IF Op(t) # "setPort" /\ call[u].pc \in Running
             THEN [call[u] EXCEPT !.disturbed = TRUE] ELSE call[u]]

\* The same when the call of t ends.
DisturbingEnd(t) ==
    /\ Disturbing(t, NoCall)
    /\ read_mutex' = IF read_mutex = t THEN NoThread ELSE read_mutex
    /\ write_mutex' = IF write_mutex = t THEN NoThread ELSE write_mutex

\* What a received byte becomes when the last descriptor of its port is closed.
InputWith(table) ==
    [p \in Ports |-> IF \E d \in DOMAIN table : table[d] = p THEN input[p] ELSE << >>]

Without(d) == [e \in DOMAIN opened \ {d} |-> opened[e]]

\* Mutant: the members are reset without ::close.
close_NoSystemCall(t) ==
    /\ call[t].pc = "close"
    /\ Goto(t, "closed")
    /\ UNCHANGED <<implVars, mutexVars, opened, lineVars, leaked>>

\* close: nothing to do, ::close succeeds, or it throws (a failure, or fd_ is
\* not a descriptor any more) and the members stay as they are.
close(t) ==
    /\ call[t].pc = "close"
    /\ \/ /\ ~is_open_ \/ fd_ = NoFd
          /\ Goto(t, "closed")
          /\ UNCHANGED <<mutexVars, opened, input>>
       \/ /\ is_open_ /\ Valid
          /\ opened' = Without(fd_)
          /\ input' = InputWith(opened')
          /\ Disturbing(t, [call[t] EXCEPT !.pc = "closed"])
          /\ UNCHANGED mutexVars
       \/ /\ is_open_ /\ Valid
          /\ "close" \in Faults
          /\ opened' = Without(fd_)
          /\ input' = InputWith(opened')
          /\ DisturbingEnd(t)
       \/ /\ is_open_ /\ fd_ # NoFd /\ ~Valid
          /\ DisturbingEnd(t)
          /\ UNCHANGED <<opened, input>>
    /\ UNCHANGED <<implVars, output, sent, heard, leaked>>

\* close goes on after ::close; setPort and reset_connection then open again,
\* setPort only if the port was open.
closed(t) ==
    /\ call[t].pc = "closed"
    /\ is_open_' = FALSE
    /\ fd_' = IF is_open_ THEN NoFd ELSE fd_
    /\ port_' = IF Op(t) = "setPort" THEN call[t].c.port ELSE port_
    /\ IF Op(t) = "reset_connection" \/ (Op(t) = "setPort" /\ is_open_)
       THEN Disturbing(t, [call[t] EXCEPT !.pc = "open"]) /\ UNCHANGED mutexVars
       ELSE DisturbingEnd(t)
    /\ UNCHANGED <<opened, lineVars, leaked>>

FreeFds == (1 .. MaxFd) \ DOMAIN opened

\* open as far as ::open, which takes the lowest free descriptor.
open(t) ==
    /\ call[t].pc = "open"
    /\ \/ is_open_ /\ Finish(t) /\ UNCHANGED <<fd_, opened>>
       \/ /\ ~is_open_ /\ ("open" \in Faults \/ FreeFds = {})
          /\ fd_' = NoFd
          /\ Finish(t)
          /\ UNCHANGED opened
       \/ /\ ~is_open_ /\ FreeFds # {}
          /\ fd_' = Min(FreeFds)
          /\ opened' = [d \in DOMAIN opened \cup {fd_'} |->
                          IF d = fd_' THEN port_ ELSE opened[d]]
          /\ Goto(t, "config")
          /\ UNCHANGED mutexVars
    /\ UNCHANGED <<port_, is_open_, lineVars, leaked>>

\* reconfigurePort, at the end of open or for a setter of an open port.
reconfigurePort(t) ==
    /\ call[t].pc = "config"
    /\ \/ Valid /\ is_open_' = (is_open_ \/ Op(t) # "setBaudrate") /\ UNCHANGED leaked
       \/ /\ ~Valid \/ "config" \in Faults
          /\ leaked' = (leaked \/ Op(t) # "setBaudrate")
          /\ UNCHANGED is_open_
    /\ Finish(t)
    /\ UNCHANGED <<port_, fd_, opened, lineVars>>

setBaudrate(t) ==
    /\ call[t].pc = "set"
    /\ IF is_open_ THEN Goto(t, "config") /\ UNCHANGED mutexVars ELSE Finish(t)
    /\ UNCHANGED <<implVars, opened, lineVars, leaked>>

-----------------------------------------------------------------------------
\* The next byte has been read: the call is complete, or goes on.  read looks
\* at is_open_ once, readline and readlines for each byte.
\* Mutant: the size is checked one byte too late.
Took_Overruns(t, b) ==
    LET got == Append(call[t].buf, b) IN
    call' = [call EXCEPT ![t].buf = got,
                         ![t].pc =
        IF Len(got) > call[t].c.size \/ (Op(t) = "readline" /\ EndsLine(b))
        THEN "return" ELSE IF Op(t) = "read" THEN "select" ELSE "run"]

Took(t, b) ==
    LET got == Append(call[t].buf, b) IN
    call' = [call EXCEPT ![t].buf = got,
                         ![t].pc =
        IF Len(got) = call[t].c.size \/ (Op(t) = "readline" /\ EndsLine(b))
        THEN "return" ELSE IF Op(t) = "read" THEN "select" ELSE "run"]

TakeByte(t) ==
    /\ Valid /\ input[Here] # << >>
    /\ input' = [input EXCEPT ![Here] = Tail(@)]
    /\ Took(t, Head(input[Here]))
    /\ UNCHANGED mutexVars

\* SerialImpl::read as far as the first ::read.
ReadNow(t) ==
    /\ call[t].pc = "run" /\ Op(t) \in Reads
    /\ \/ ~is_open_ /\ Finish(t) /\ UNCHANGED input
       \/ is_open_ /\ TakeByte(t)
       \/ is_open_ /\ ~(Valid /\ input[Here] # << >>)
          /\ Goto(t, "select") /\ UNCHANGED <<mutexVars, input>>
    /\ UNCHANGED <<implVars, opened, output, sent, heard, leaked>>

\* Mutant: a read that timed out starts again.
ReadWait_Retries(t) ==
    /\ call[t].pc = "select" /\ Op(t) \in Reads
    /\ \/ TakeByte(t)
       \/ Goto(t, "run") /\ UNCHANGED <<mutexVars, input>>
    /\ UNCHANGED <<implVars, opened, output, sent, heard, leaked>>

\* waitReadable and the ::read after it; at the timeout, or with an
\* exception, the call ends with what it has.
ReadWait(t) ==
    /\ call[t].pc = "select" /\ Op(t) \in Reads
    /\ \/ TakeByte(t)
       \/ Finish(t) /\ UNCHANGED input
    /\ UNCHANGED <<implVars, opened, output, sent, heard, leaked>>

\* The read returns what it has got.
ReadReturns(t) ==
    /\ call[t].pc = "return"
    /\ Finish(t)
    /\ UNCHANGED <<implVars, opened, lineVars, leaked>>

\* The check at the start of SerialImpl::write.
WriteStart(t) ==
    /\ call[t].pc = "run" /\ Op(t) = "write"
    /\ IF is_open_ THEN Goto(t, "select") /\ UNCHANGED mutexVars ELSE Finish(t)
    /\ UNCHANGED <<implVars, opened, lineVars, leaked>>

\* The bytes that a write sends next; a disturbed one sends only bytes that
\* nobody vouches for.
Chunk(t, k) == [i \in 1 .. k |-> IF call[t].disturbed THEN OutByte(NoThread, 0)
                                 ELSE OutByte(t, Len(call[t].buf) + i)]

\* Mutant: a write that timed out starts again.
WriteSome_Restarts(t) ==
    /\ call[t].pc = "select" /\ Op(t) = "write"
    /\ \/ /\ Valid
          /\ \E k \in 1 .. LineLen - Len(call[t].buf) :
               /\ Len(output[Here]) + k <= OutSpace
               /\ output' = [output EXCEPT ![Here] = @ \o Chunk(t, k)]
               /\ IF k = LineLen - Len(call[t].buf) THEN Finish(t)
                  ELSE /\ call' = [call EXCEPT ![t].buf = @ \o Chunk(t, k)]
                       /\ UNCHANGED mutexVars
       \/ /\ call' = [call EXCEPT ![t].pc = "run", ![t].buf = << >>]
          /\ UNCHANGED <<mutexVars, output>>
    /\ UNCHANGED <<implVars, opened, input, sent, heard, leaked>>

\* One round of its loop: some more bytes, a timeout, or an exception.
WriteSome(t) ==
    /\ call[t].pc = "select" /\ Op(t) = "write"
    /\ \/ /\ Valid
          /\ \E k \in 1 .. LineLen - Len(call[t].buf) :
               /\ Len(output[Here]) + k <= OutSpace
               /\ output' = [output EXCEPT ![Here] = @ \o Chunk(t, k)]
               /\ IF k = LineLen - Len(call[t].buf) THEN Finish(t)
                  ELSE /\ call' = [call EXCEPT ![t].buf = @ \o Chunk(t, k)]
                       /\ UNCHANGED mutexVars
       \/ Finish(t) /\ UNCHANGED output
    /\ UNCHANGED <<implVars, opened, input, sent, heard, leaked>>

\* flushInput, flushOutput, and flush, which waits for the output to drain.
Flushing(t) ==
    /\ call[t].pc = "run" /\ Op(t) \in {"flush", "flushInput", "flushOutput"}
    /\ (Op(t) = "flush" /\ is_open_ /\ Valid) => output[Here] = << >>
    /\ input' = IF Op(t) = "flushInput" /\ is_open_ /\ Valid
                THEN [input EXCEPT ![Here] = << >>] ELSE input
    /\ output' = IF Op(t) = "flushOutput" /\ is_open_ /\ Valid
                 THEN [output EXCEPT ![Here] = << >>] ELSE output
    /\ Finish(t)
    /\ UNCHANGED <<implVars, opened, sent, heard, leaked>>

-----------------------------------------------------------------------------
\* A unit sends its next byte; it is lost when nobody has the port open.
Arrive(p) ==
    /\ sent[p] < use.sends[p]
    /\ sent' = [sent EXCEPT ![p] = @ + 1]
    /\ input' = IF \E d \in DOMAIN opened : opened[d] = p
                THEN [input EXCEPT ![p] = Append(@, InByte(p, sent[p] + 1))]
                ELSE input
    /\ UNCHANGED <<implVars, mutexVars, call, opened, output, heard, leaked>>

\* A byte of a writer follows the ones of its line that the unit has heard.
Continues(line, b) ==
    /\ Len(line) = b.n - 1
    /\ \A i \in 1 .. Len(line) : line[i].by = b.by /\ line[i].n = i

\* A byte leaves for the unit.
Transmit(p) ==
    /\ output[p] # << >>
    /\ output' = [output EXCEPT ![p] = Tail(@)]
    /\ heard' = [heard EXCEPT ![p] =
          IF Continues(@, Head(output[p])) THEN Append(@, Head(output[p]))
                                           ELSE <<Head(output[p])>>]
    /\ UNCHANGED <<implVars, mutexVars, call, opened, input, sent, leaked>>

ThreadStep(t) ==
    \/ readLock(t) \/ writeLock(t)
    \/ close(t) \/ closed(t) \/ open(t) \/ reconfigurePort(t) \/ setBaudrate(t)
    \/ ReadNow(t) \/ ReadWait(t) \/ ReadReturns(t) \/ WriteStart(t) \/ WriteSome(t) \/ Flushing(t)

Next ==
    /\ \/ \E t \in Threads : (\E c \in use.calls[t] : Invoke(t, c)) \/ ThreadStep(t)
       \/ \E p \in Ports : Arrive(p) \/ Transmit(p)
    /\ UNCHANGED use

Spec == Init /\ [][Next]_vars

\* Every system call of a thread returns: select has a timeout, and the line
\* drains.  Nothing is assumed about who gets a mutex.
FairSpec ==
    /\ Spec
    /\ \A t \in Threads : WF_vars(ThreadStep(t) /\ UNCHANGED use)
    /\ \A p \in Ports : WF_vars(Transmit(p) /\ UNCHANGED use)

-----------------------------------------------------------------------------
PCs == {"idle", "rlock", "wlock", "close", "closed", "open", "config", "set", "return"} \cup Running

\* Types of the members, the mutexes, the calls and the kernel's buffers; a
\* read never gets more than the size its buffer was allocated with.
TypeOK ==
    /\ port_ \in Ports /\ fd_ \in 0 .. MaxFd /\ is_open_ \in BOOLEAN
    /\ read_mutex \in Threads \cup {NoThread}
    /\ write_mutex \in Threads \cup {NoThread}
    /\ DOMAIN call = Threads
    /\ \A t \in Threads :
          /\ Op(t) \in Operations \cup {"none"}
          /\ call[t].pc \in PCs
          /\ Op(t) \in Reads => Len(call[t].buf) <= call[t].c.size
    /\ DOMAIN opened \subseteq 1 .. MaxFd
    /\ \A p \in Ports : Len(input[p]) <= sent[p] /\ Len(heard[p]) <= LineLen

\* What a read, readline or readlines gets is one piece of what one unit sent:
\* no byte in it is missing, taken by another reader, thrown away by
\* flushInput or from the port that setPort changed to.  readline stops at the
\* first end of line.  Only an unlocked close or open of another thread can
\* break it, and only for the calls it disturbs.
ReadUndivided ==
    \A t \in Threads : (Op(t) \in Reads /\ ~call[t].disturbed) =>
        \A i \in 1 .. Len(call[t].buf) - 1 :
            /\ call[t].buf[i + 1] = InByte(call[t].buf[i].port, call[t].buf[i].n + 1)
            /\ Op(t) = "readline" => ~EndsLine(call[t].buf[i])

\* A unit that receives the end of a line received, just before it, the rest
\* of the same line of the same writer: no other writer, flushOutput or
\* setPort came in between.
WriteUndivided ==
    \A p \in Ports : heard[p] # << >> =>
        LET last == heard[p][Len(heard[p])] IN
        last.n = LineLen => Len(heard[p]) = LineLen

\* A call that no unlocked close or open disturbs never waits in select for
\* descriptor -1, which FD_SET could not even hold.
SelectsOnDescriptor ==
    \A t \in Threads :
        (call[t].pc = "select" /\ ~call[t].disturbed) => fd_ # NoFd

\* The process holds one descriptor, fd_, and only while the port is open or
\* being opened.  Only reconfigurePort throwing in open breaks it: open does
\* not close what it has just opened.
DescriptorsAccounted ==
    ~leaked => \A d \in DOMAIN opened :
        d = fd_ /\ (is_open_ \/ call[Owner].pc = "config")

\* Whoever holds the write mutex gives it back.
WriteLockReturns ==
    \A t \in Threads : write_mutex = t ~> write_mutex # t

\* So does whoever holds the read mutex, unless the others keep the write
\* mutex so busy that setPort or flush never gets it: no two calls wait for
\* each other's mutex.
ReadLockReturns ==
    \A t \in Threads :
        <>[](write_mutex \in {NoThread, t}) => (read_mutex = t ~> read_mutex # t)
=============================================================================
