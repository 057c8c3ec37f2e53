---------------------------- MODULE MCPowerMeter ----------------------------
(* Instances of PowerMeter for TLC. *)
EXTENDS PowerMeter

Do(op, arg) == [op |-> op, arg |-> arg]

\* What two threads can do to each other: a setting, one that is refused and
\* asked for again, a query.
SharedCalls == {
    Do("measurement_mode", 2), Do("measurement_mode", 3), Do("force_power", 0),
    Do("get_range", 0)}

\* Setters, accepted, refused or asking; each way of reading an answer.
ClientCalls == {
    Do("write_range", 1), Do("write_range", 3), Do("set_wavelength", 65537),
    Do("measurement_mode", 3), Do("pulse_length", 3), Do("pulse_length", 0),
    Do("user_threshold", 2), Do("user_threshold", 3), Do("energy_threshold", 2),
    Do("reset", 0), Do("read_energy", 0), Do("send_frequency", 0),
    Do("get_wavelength", 0)}

AverageCalls == {Do("read_average", 0)}

\* The instrument agrees with the constructor's defaults, and accepts 1 and 2.
FoundUnit == {[n \in Settings |-> CASE n = "WN" -> 2 [] n = "WL" -> 266 [] OTHER -> 1]}
=============================================================================
