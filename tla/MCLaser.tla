------------------------------ MODULE MCLaser ------------------------------
(* Instances of Laser for TLC. *)
EXTENDS LaserRefinement

Do(op, arg) == [op |-> op, arg |-> arg]

\* Every method, with arguments on both sides of each range check and of each
\* rounding.
AllCalls == {
    Do("shutter", 1),
    Do("fire", 1), Do("set_prescale", 150),
    Do("set_pump_voltage", 1104), Do("set_pump_voltage", 1301),
    Do("set_pump_voltage", -10), Do("set_repetition_rate", 1005),
    Do("set_qswitch", 1200),
    Do("single_shot", 0), Do("get_shot_count", 0), Do("security", 0)}

\* The unit was left by whoever used it before.
FoundUnit == {[SH |-> 0, ST |-> 1, PD |-> 5, VA |-> 125, RR |-> 100, QS |-> 170]}
=============================================================================
