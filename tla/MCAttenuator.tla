---------------------------- MODULE MCAttenuator ----------------------------
(* Instances of Attenuator for TLC. *)
EXTENDS Attenuator

Do(op, arg, wait) == [op |-> op, arg |-> arg, wait |-> wait]

\* Movements, waited for or not, interrupted or not, and all that redefines
\* the counter.
MotionCalls == {
    Do("go", 1, TRUE), Do("move", -1, FALSE), Do("set_transmission", 0, TRUE),
    Do("set_current_position", 1, FALSE), Do("set_zero", 0, FALSE),
    Do("go_home", 0, FALSE), Do("stop", 0, FALSE), Do("stop", 1, FALSE)}

\* A setter for each moment of caching, a query of each kind, a movement and
\* a refused one.
SettingCalls == {
    Do("set_resolution", 16, FALSE), Do("set_idle_current", 300, FALSE),
    Do("refresh_status", 0, FALSE), Do("get_serial_number", 0, FALSE),
    Do("reset_controller", 0, FALSE), Do("move", 1, TRUE),
    Do("set_transmission", -1, TRUE), Do("get_position", 0, TRUE)}

ZeroCalls == {Do("go", 1, TRUE), Do("set_zero", 0, FALSE),
              Do("set_transmission", 0, TRUE)}
=============================================================================
