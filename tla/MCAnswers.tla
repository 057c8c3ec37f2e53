----------------------------- MODULE MCAnswers -----------------------------
(***************************************************************************)
(* Answers for TLC: two sets of units, with one and with several digits in *)
(* each field, settings of both signs, and options that start with digits. *)
(***************************************************************************)
EXTENDS Answers

Idle == [
    flag |-> 0, setting |-> 1, range |-> -1, options |-> <<<<"2", "J">>, <<"1", "m">>>>,
    threshold |-> <<7, 1, 9>>, position |-> 0,
    status |-> <<1, 0, 8, 8, 5, 6, 6, 0, 2, 1, 0, 0, 1>>, shots |-> 0, code |-> 0]

Busy == [
    flag |-> 1, setting |-> 3, range |-> 4,
    options |-> <<<<"0", ".", "5">>, <<"1", "0">>, <<"1", "0", "J">>>>,
    threshold |-> <<120, 10, 250>>, position |-> -104,
    status |-> <<1, 3, 200, 16, 590, 100, 10, 0, 6, 1, 0, 1, 0>>, shots |-> 305, code |-> 6]

MCUnits == {Idle, Busy}

\* Each method on its own, as often as its table or members can go on
\* changing, and the methods that share a member together.
MCUses ==
    {[methods |-> {m}, calls |-> 2] : m \in Methods \ {"refresh_status"}}
    \cup {[methods |-> {"refresh_status"}, calls |-> 1],
          [methods |-> {"average_query", "pulse_length"}, calls |-> 2]}
=============================================================================
