------------------------------ MODULE LaserSim ------------------------------
(***************************************************************************)
(* The laser simulator (src/LaserSim.cpp): the interface of Laser with no  *)
(* link behind it.  Every method takes effect at once or throws.           *)
(***************************************************************************)
EXTENDS Integers

CONSTANT Calls   \* the calls a client makes; get_shot_count and security
                 \* change nothing

VARIABLES m_is_firing, m_prescale, m_pump_hv, m_rate, m_qswitch, m_shutter_state

simVars == <<m_is_firing, m_prescale, m_pump_hv, m_rate, m_qswitch, m_shutter_state>>

\* The constructor's members; voltages in V, rates in 1/100 Hz.
Init ==
    /\ m_is_firing = FALSE
    /\ m_prescale = 0
    /\ m_pump_hv = 1100
    /\ m_rate = 1000
    /\ m_qswitch = 170
    /\ m_shutter_state = 0

Capped(v, limit) == IF v > limit THEN limit ELSE v

shutter(s) ==
    /\ m_shutter_state' = s
    /\ UNCHANGED <<m_is_firing, m_prescale, m_pump_hv, m_rate, m_qswitch>>

fire(s) ==
    /\ m_is_firing' = (s = 1)
    /\ UNCHANGED <<m_prescale, m_pump_hv, m_rate, m_qswitch, m_shutter_state>>

set_prescale(pre) ==
    /\ m_prescale' = Capped(pre, 99)
    /\ UNCHANGED <<m_is_firing, m_pump_hv, m_rate, m_qswitch, m_shutter_state>>

\* A voltage out of range is refused with an exception.
set_pump_voltage(hv) ==
    /\ hv <= 1300 /\ hv >= 0
    /\ m_pump_hv' = hv
    /\ UNCHANGED <<m_is_firing, m_prescale, m_rate, m_qswitch, m_shutter_state>>

single_shot == set_prescale(0)

set_repetition_rate(rate) ==
    /\ m_rate' = rate
    /\ UNCHANGED <<m_is_firing, m_prescale, m_pump_hv, m_qswitch, m_shutter_state>>

set_qswitch(qs) ==
    /\ m_qswitch' = Capped(qs, 999)
    /\ UNCHANGED <<m_is_firing, m_prescale, m_pump_hv, m_rate, m_shutter_state>>

Method(c) ==
    \/ c.op = "shutter" /\ shutter(c.arg)
    \/ c.op = "fire" /\ fire(c.arg)
    \/ c.op = "set_prescale" /\ set_prescale(c.arg)
    \/ c.op = "set_pump_voltage" /\ set_pump_voltage(c.arg)
    \/ c.op = "single_shot" /\ single_shot
    \/ c.op = "set_repetition_rate" /\ set_repetition_rate(c.arg)
    \/ c.op = "set_qswitch" /\ set_qswitch(c.arg)

Next == \E c \in Calls : Method(c)

Spec == Init /\ [][Next]_simVars
=============================================================================
