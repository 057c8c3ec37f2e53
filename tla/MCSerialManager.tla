-------------------------- MODULE MCSerialManager --------------------------
(* Instances of SerialManager for TLC. *)
EXTENDS SerialManager

\* What decides whether the laser is left firing or open, and a query.
ShutdownCalls == {
    [op |-> "shutter", arg |-> 1], [op |-> "shutter", arg |-> 0],
    [op |-> "fire", arg |-> 1], [op |-> "security", arg |-> 0]}

\* The unit was left by whoever used it before.
FoundUnit == {
    [SH |-> 0, ST |-> 0, PD |-> 0, VA |-> 110, RR |-> 100, QS |-> 170],
    [SH |-> 1, ST |-> 1, PD |-> 0, VA |-> 110, RR |-> 100, QS |-> 170]}
=============================================================================
