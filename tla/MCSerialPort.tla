---------------------------- MODULE MCSerialPort ----------------------------
(* An instance of SerialPort for TLC. *)
EXTENDS SerialPort, TLC

CONSTANTS t1, t2, A, B

Do(op, size, port) == [op |-> op, size |-> size, port |-> port]

Use(owner, other, sends) ==
    [calls |-> t1 :> owner @@ t2 :> other, sends |-> sends]

Nothing == A :> 0 @@ B :> 0

\* Three uses: readers, with a line and the start of another to read, so that
\* a read can be cut anywhere; writers; and a writer whose port is reset under
\* it.
ReadersAndWriters == {
    Use({Do("setPort", 0, B), Do("close", 0, A), Do("open", 0, A), Do("readline", 4, A)},
        {Do("readlines", 3, A), Do("readline", 4, A), Do("read", 2, A),
         Do("flushInput", 0, A), Do("flush", 0, A), Do("setBaudrate", 0, A)},
        A :> 3 @@ B :> 1),
    Use({Do("setPort", 0, B), Do("write", 0, A)},
        {Do("write", 0, A), Do("flush", 0, A), Do("flushOutput", 0, A)},
        Nothing),
    Use({Do("reset_connection", 0, A)}, {Do("write", 0, A)}, Nothing)}
=============================================================================
