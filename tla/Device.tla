------------------------------- MODULE Device -------------------------------
(***************************************************************************)
(* The transport every driver inherits (src/Device.cpp), over the vendored *)
(* serial library (src/serial.cc, src/impl/unix.cc).                       *)
(*                                                                         *)
(* A command is one line, terminated by m_com_sfx.  A write that stops     *)
(* before the terminator can leave an unterminated prefix in the line      *)
(* buffer of the unit at the other end; the unit then reads that prefix    *)
(* and the next command as a single line.                                  *)
(***************************************************************************)
EXTENDS Integers, Sequences

CONSTANTS
    Faults,      \* the failures of the link that a run lets happen
    MaxPending   \* bound: reply lines not yet read, in the port or under way

FaultKinds == {
    "open",      \* ::open or the port configuration fails: open() throws
    "close",     \* ::close fails: close() throws and is_open_ stays true
    "short",     \* the write times out before the last byte
    "write",     \* the write throws (the port has gone)
    "read",      \* the read throws (the port has gone)
    "mute",      \* the unit sends no answer
    "late" }     \* an answer may arrive after flushInput or after the timeout

ASSUME DeviceAssumption ==
    /\ Faults \subseteq FaultKinds
    /\ MaxPending \in Nat \ {0, 1}

VARIABLES
    port,   \* SerialImpl: is_open_, and whether fd_ still names the device
    frag,   \* the unit's line buffer holds the prefix left by a failed write
    rx      \* answer lines sent by the unit and not yet read, oldest first

deviceVars == <<port, frag, rx>>

\* "stale": ::close failed, so is_open_ is true while the descriptor is gone.
PortStates == {"closed", "open", "stale"}

\* What flushInput, close and a read that waits until its timeout can take
\* from the pending lines: those that have arrived.
Arrived == IF "late" \in Faults THEN 0 .. Len(rx) ELSE {Len(rx)}

After(k) == SubSeq(rx, k + 1, Len(rx))

\* Mutant: the input buffer is not flushed.
FlushInput_None == {rx}

\* The pending lines after everything that had arrived was discarded.
FlushInput == {After(k) : k \in Arrived}

-----------------------------------------------------------------------------
\* The device is constructed with its port open.
DeviceInit ==
    /\ port = "open"
    /\ frag = FALSE
    /\ rx = << >>

\* write_cmd returns true: the port is opened if it was not, both buffers are
\* flushed and the whole line goes out; the unit answers with the lines reply.
WriteFull(reply) ==
    /\ port # "stale"
    /\ port' = "open"
    /\ frag' = FALSE
    /\ \E pending \in FlushInput : rx' = pending \o reply
    /\ Len(rx') <= MaxPending

\* write_cmd returns false: the terminator was not written, so the unit has
\* no complete line; a prefix may have reached it.
WriteShort ==
    /\ "short" \in Faults
    /\ port # "stale"
    /\ port' = "open"
    /\ frag' \in {frag, TRUE}
    /\ rx' \in FlushInput

\* write_cmd throws: from open, from the write, or because fd_ is gone.
WriteThrow ==
    \/ /\ port = "stale"
       /\ UNCHANGED deviceVars
    \/ /\ port = "closed"
       /\ "open" \in Faults
       /\ UNCHANGED deviceVars
    \/ /\ port # "stale"
       /\ "write" \in Faults
       /\ port' = "open"
       /\ frag' \in {frag, TRUE}
       /\ rx' \in FlushInput

\* reset_connection: close, then open.
ResetOk ==
    /\ port # "stale"
    /\ port' = "open"
    /\ rx' \in FlushInput
    /\ UNCHANGED frag

\* Either half of reset_connection throws.  When close fails the port is
\* never opened again: every later close fails on the same descriptor.
ResetThrow ==
    \/ /\ port = "stale"
       /\ UNCHANGED deviceVars
    \/ /\ port = "open"
       /\ "close" \in Faults
       /\ port' = "stale"
       /\ UNCHANGED <<frag, rx>>
    \/ /\ port # "stale"
       /\ "open" \in Faults
       /\ port' = "closed"
       /\ rx' \in FlushInput
       /\ UNCHANGED frag

\* A read that returned the first k pending lines (k = 0: it timed out).
ReadLines(k) ==
    /\ port = "open"
    /\ k \in Arrived
    /\ rx' = After(k)
    /\ UNCHANGED <<port, frag>>

\* A readline that returned the oldest pending line.
ReadLine ==
    /\ port = "open"
    /\ rx # << >>
    /\ rx' = Tail(rx)
    /\ UNCHANGED <<port, frag>>

\* A read throws: the port is not open, its descriptor is gone, or it failed.
ReadThrow ==
    /\ port # "open" \/ "read" \in Faults
    /\ UNCHANGED deviceVars

=============================================================================
