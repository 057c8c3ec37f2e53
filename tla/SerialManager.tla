---------------------------- MODULE SerialManager ----------------------------
(***************************************************************************)
(* The interactive program apps/serial_manager.cpp: it maps the devices,   *)
(* runs one command at a time, and unmaps the devices on every way out of  *)
(* main.  The laser is the driver of module Laser, step by step; of the    *)
(* attenuator and the power meter only what decides the program's course   *)
(* is kept: whether a call returns or throws, and whether the destructor   *)
(* can close the port.                                                     *)
(***************************************************************************)
EXTENDS Laser

VARIABLES
    phase,    \* where main is
    ignored,  \* g_ignore_*: devices left out by -i or by the configuration
    inst,     \* devices whose pointer in iols is not null (never reset)
    ret,      \* map_devices' return value so far
    dead      \* devices other than the laser whose port is "stale"

managerVars == <<phase, ignored, inst, ret, dead>>
allVars == <<vars, managerVars>>

Devices == {"attenuator", "laser", "power_meter"}
Others == Devices \ {"laser"}

Mapping == {"map_attenuator", "map_laser", "map_laser_security",
            "map_laser_count", "map_power_meter"}
Unmapping == {"unmap_power_meter", "unmap_attenuator", "unmap_laser",
              "unmap_fire_stop", "unmap_shutter_close"}
Ended == {"exited", "terminated"}
Phases == {"config", "prompt", "laser_command"} \cup Mapping \cup Unmapping \cup Ended

ManagerInit ==
    /\ port = "closed" /\ frag = FALSE /\ rx = << >>
    /\ LaserInit
    /\ phase = "config"
    /\ ignored \in SUBSET Devices
    /\ inst = {}
    /\ ret = 0
    /\ dead = {}

-----------------------------------------------------------------------------
\* The configuration file is missing or does not parse, and main returns; or
\* it is read, and a device it does not name is ignored.
LoadConfig ==
    /\ phase = "config"
    /\ \/ phase' = "exited" /\ UNCHANGED ignored
       \/ phase' = "map_attenuator" /\ \E absent \in SUBSET Devices : ignored' = ignored \cup absent
    /\ UNCHANGED <<vars, inst, ret, dead>>

\* Mutant: the failures are counted.
MapFailed_Counts == ret' = ret + 1

MapFailed == ret' = 1

\* map_attenuator, map_power_meter: no port or a constructor that throws
\* leaves the pointer null, and map_devices returns 1 at once; a failed query
\* keeps the instance and only sets ret, which the next device overwrites.
MapOther(d, here, good, bad) ==
    /\ phase = here
    /\ \/ d \in ignored /\ UNCHANGED <<inst, ret, dead>>
       \/ /\ d \notin ignored
          /\ inst' = inst \cup {d}
          /\ \/ ret' = 0 /\ UNCHANGED dead
             \/ MapFailed /\ UNCHANGED dead
             \/ MapFailed /\ "close" \in Faults /\ dead' = dead \cup {d}
    /\ phase' = IF ret' = 0 THEN good ELSE bad
    /\ UNCHANGED <<vars, ignored>>

\* Mutant: a device that was not found does not stop the mapping.
NoInstance_Continues(d, here) ==
    /\ phase = here
    /\ d \notin ignored
    /\ phase' = IF d = "attenuator" THEN "map_laser" ELSE "prompt"
    /\ UNCHANGED <<vars, ignored, inst, ret, dead>>

NoInstance(d, here) ==
    /\ phase = here
    /\ d \notin ignored
    /\ phase' = "unmap_power_meter"
    /\ UNCHANGED <<vars, ignored, inst, ret, dead>>

MapAttenuator ==
    \/ MapOther("attenuator", "map_attenuator", "map_laser", "map_laser")
    \/ NoInstance("attenuator", "map_attenuator")

\* After the power meter map_devices is done: a nonzero ret unmaps, else the
\* prompt comes up.
MapPowerMeter ==
    \/ MapOther("power_meter", "map_power_meter", "prompt", "unmap_power_meter")
    \/ NoInstance("power_meter", "map_power_meter")

\* map_laser: the laser is ignored, or there is no instance of it, or its
\* constructor opens the port and the initial queries start.
MapLaser ==
    /\ phase = "map_laser"
    /\ \/ /\ "laser" \in ignored
          /\ phase' = "map_power_meter" /\ UNCHANGED <<vars, inst>>
       \/ /\ "laser" \notin ignored
          /\ phase' = "unmap_power_meter" /\ UNCHANGED <<vars, inst>>
       \/ /\ "laser" \notin ignored
          /\ phase' = "map_laser_security"
          /\ inst' = inst \cup {"laser"}
          /\ port' = "open"
          /\ UNCHANGED <<frag, rx, laserVars>>
    /\ UNCHANGED <<ignored, ret, dead>>

\* The laser is asked something and main waits for the call to end.
Ask(c, next) ==
    /\ Invoke(c)
    /\ phase' = next

LaserQuery(op) == [op |-> op, arg |-> 0]

\* The two initial queries; map_laser catches what they throw, sets ret and
\* keeps the instance.
QueryLaser ==
    /\ UNCHANGED <<ignored, inst, dead>>
    /\ \/ /\ phase = "map_laser_security" /\ call.stage = "idle"
          /\ Ask(LaserQuery("security"), phase) /\ UNCHANGED ret
       \/ /\ phase = "map_laser_security" /\ call.stage = "returned"
          /\ Ask(LaserQuery("get_shot_count"), "map_laser_count") /\ UNCHANGED ret
       \/ /\ phase = "map_laser_count" /\ call.stage = "returned"
          /\ phase' = "map_power_meter" /\ ret' = 0 /\ UNCHANGED vars
       \/ /\ phase \in {"map_laser_security", "map_laser_count"} /\ call.stage = "thrown"
          /\ phase' = "map_power_meter" /\ MapFailed /\ UNCHANGED vars

-----------------------------------------------------------------------------
\* run_command on a laser command: one method of the driver.
LaserCommand(c) ==
    /\ phase = "prompt"
    /\ "laser" \in inst \ ignored
    /\ Ask(c, "laser_command")
    /\ UNCHANGED <<ignored, inst, ret, dead>>

\* Mutant: an exception does not end the program.
LaserCommandEnds_Stays ==
    /\ phase = "laser_command"
    /\ call.stage \in {"returned", "thrown"}
    /\ phase' = "prompt"
    /\ UNCHANGED <<vars, ignored, inst, ret, dead>>

\* The command returned, and the prompt comes back; or it threw, run_command
\* returned 1, and main unmaps and leaves.
LaserCommandEnds ==
    /\ phase = "laser_command"
    /\ \/ call.stage = "returned" /\ phase' = "prompt"
       \/ call.stage = "thrown" /\ phase' = "unmap_power_meter"
    /\ UNCHANGED <<vars, ignored, inst, ret, dead>>

\* run_command on another device, failing.  (One that succeeds changes
\* nothing here.)
OtherCommandFails(d) ==
    /\ phase = "prompt"
    /\ d \in inst \ ignored
    /\ phase' = "unmap_power_meter"
    /\ dead' \in {dead} \cup {dead \cup {d} : f \in Faults \cap {"close"}}
    /\ UNCHANGED <<vars, ignored, inst, ret>>

AttenuatorCommandFails == OtherCommandFails("attenuator")
PowerMeterCommandFails == OtherCommandFails("power_meter")

\* "exit", end of input, or a line of blanks (run_command gets argc 0).
Leave ==
    /\ phase = "prompt"
    /\ phase' = "unmap_power_meter"
    /\ UNCHANGED <<vars, ignored, inst, ret, dead>>

-----------------------------------------------------------------------------
\* unmap_devices deletes an instance.  ~Device closes the port; when close
\* throws there the program terminates.
Delete(d, here, next) ==
    /\ phase = here
    /\ \/ d \notin inst /\ phase' = next
       \/ d \in inst \ dead /\ phase' = next
       \/ d \in inst /\ (d \in dead \/ "close" \in Faults) /\ phase' = "terminated"
    /\ UNCHANGED <<vars, ignored, inst, ret, dead>>

UnmapPowerMeter == Delete("power_meter", "unmap_power_meter", "unmap_attenuator")

UnmapAttenuator == Delete("attenuator", "unmap_attenuator", "unmap_laser")

\* Mutants: the shutter comes first; the shutter is opened.
FireStop_Shutter == [op |-> "shutter", arg |-> 0]
ShutterClose_Opens == [op |-> "shutter", arg |-> 1]

FireStop == [op |-> "fire", arg |-> 0]
ShutterClose == [op |-> "shutter", arg |-> 0]

\* The laser is told to stop, then to close its shutter, then deleted.
\* Nothing catches an exception here, so either call throwing terminates.
UnmapLaser ==
    /\ UNCHANGED <<ignored, inst, ret, dead>>
    /\ \/ /\ phase = "unmap_laser" /\ "laser" \notin inst
          /\ phase' = "exited" /\ UNCHANGED vars
       \/ /\ phase = "unmap_laser" /\ "laser" \in inst
          /\ Ask(FireStop, "unmap_fire_stop")
       \/ /\ phase = "unmap_fire_stop" /\ call.stage = "returned"
          /\ Ask(ShutterClose, "unmap_shutter_close")
       \/ /\ phase = "unmap_shutter_close" /\ call.stage = "returned"
          /\ port # "stale"
          /\ phase' = "exited" /\ port' = "closed"
          /\ UNCHANGED <<frag, rx, laserVars>>
       \/ /\ phase = "unmap_shutter_close" /\ call.stage = "returned"
          /\ port = "stale" \/ (port = "open" /\ "close" \in Faults)
          /\ phase' = "terminated" /\ UNCHANGED vars
       \/ /\ phase \in {"unmap_fire_stop", "unmap_shutter_close"}
          /\ call.stage = "thrown"
          /\ phase' = "terminated" /\ UNCHANGED vars

Unmap == UnmapPowerMeter \/ UnmapAttenuator \/ UnmapLaser

ManagerStep == LaserCommandEnds \/ Unmap \/ (LaserStep /\ UNCHANGED managerVars)

ManagerNext ==
    \/ LoadConfig \/ MapAttenuator \/ MapLaser \/ QueryLaser \/ MapPowerMeter
    \/ (\E c \in Calls : LaserCommand(c))
    \/ AttenuatorCommandFails \/ PowerMeterCommandFails
    \/ Leave
    \/ ManagerStep

ManagerSpec == ManagerInit /\ [][ManagerNext]_allVars

\* The program goes on by itself except at the prompt, where it waits.
ManagerFairSpec == ManagerSpec /\ WF_allVars(ManagerStep)

-----------------------------------------------------------------------------
\* Types of main's state; the laser's are in module Laser.
ManagerTypeOK ==
    /\ phase \in Phases
    /\ ignored \subseteq Devices
    /\ inst \subseteq Devices
    /\ ret \in {0, 1}
    /\ dead \subseteq Others

\* When main returns after having had a laser, the laser does not fire and
\* its shutter is closed: unmap_devices is on every way out.  A command glued
\* to a fragment is the one exception.
SafeExit ==
    (phase = "exited" /\ "laser" \in inst /\ ~garbled) =>
        unit["ST"] = 0 /\ unit["SH"] = 0

\* "actually, make sure that the shutter is closed and firing is happening"
\* (unmap_devices; "happening" is meant to be "not happening"): however the
\* program ends.
AlwaysSafeExit ==
    (phase \in Ended /\ "laser" \in inst) => unit["ST"] = 0 /\ unit["SH"] = 0

\* While unmapping, the shutter closes only on a laser that no longer fires.
StopsBeforeClosing ==
    [][(phase \in Unmapping /\ unit["SH"] = 1 /\ unit'["SH"] = 0) =>
            garbled \/ unit["ST"] = 0]_allVars

\* At the prompt every device that is not ignored has an instance, whatever
\* failed while mapping, so no command meets a null pointer.
PromptHasInstances == phase = "prompt" => Devices \ ignored \subseteq inst

\* A laser command that throws ends the program.
ErrorEnds ==
    (phase = "laser_command" /\ call.stage = "thrown") ~> phase \in Ended
=============================================================================
