-------------------------- MODULE LaserRefinement --------------------------
(***************************************************************************)
(* The driver of src/Laser.cpp, over a link that fails, implements the     *)
(* simulator of src/LaserSim.cpp, which has none: the simulator is what a  *)
(* client of the laser is promised.                                        *)
(*                                                                         *)
(* The members map to the members of the same name, and m_shutter_state,   *)
(* which the driver does not have, to the shutter of the unit.  A method   *)
(* takes effect when its line is out; invoking, failing, resetting, reading *)
(* and throwing change nothing.                                            *)
(***************************************************************************)
EXTENDS Laser

Sim == INSTANCE LaserSim WITH
    m_is_firing <- (cache["ST"] = 1),
    m_prescale <- cache["PD"],
    m_pump_hv <- cache["VA"],
    m_rate <- cache["RR"],
    m_qswitch <- cache["QS"],
    m_shutter_state <- unit["SH"]

\* Whatever fails on the link and however often a method writes again, a
\* client sees each method take effect once, at once and with the value the
\* simulator gives it, or not at all.
ImplementsSim == Sim!Spec
=============================================================================
