----------------------------- MODULE SystemHals -----------------------------
(***************************************************************************)
(* The power, lights and sensors HALs in the system server.  The power     *)
(* manager, the lights service and the sensor service call them from       *)
(* threads of their own.  The first two meet in the panel, which needs the *)
(* controller that setInteractive switches and the level that set_light    *)
(* writes.                                                                 *)
(***************************************************************************)
EXTENDS PowerHal, Lights, Sensors

vars == <<powerVars, lightVars, sensorVars>>

TypeOK == PowerTypeOK /\ LightTypeOK /\ SensorTypeOK

Init == PowerInit /\ LightInit /\ SensorInit

Next ==
    \/ PowerNext /\ UNCHANGED <<lightVars, sensorVars>>
    \/ LightNext /\ UNCHANGED <<powerVars, sensorVars>>
    \/ SensorNext /\ UNCHANGED <<powerVars, lightVars>>

Spec == Init /\ [][Next]_vars

\* a call of setInteractive that has begun goes on; no error is needed for that
FairSpec == Spec /\ WF_vars(PowerGoes /\ UNCHANGED <<lightVars, sensorVars>>)
-----------------------------------------------------------------------------
(* Properties *)

Lit == sleep = 0 /\ bl_power = 0 /\ brightness > 0

(* Between calls of the two HALs, whatever order their writes came in, the *)
(* panel is lit if the device is interactive and its level is not zero,    *)
(* and shows colours then: unless a file of them could not be written.     *)
ScreenFollows ==
    ppc = "idle" /\ lpc = "idle" /\ "brightness" \notin unwritten =>
        /\ missed \intersect {"sleep", "bl_power"} = {} => (Lit <=> on /\ level > 0)
        /\ Lit /\ "monochrome" \notin unwritten => monochrome = 0
=============================================================================
