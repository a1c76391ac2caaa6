------------------------------ MODULE PowerHal ------------------------------
(***************************************************************************)
(* The power HAL (power-hal/power.c): setInteractive walks the devices of  *)
(* /etc/powerhal.conf, sets the runtime power management of each through   *)
(* sysfs and waits for the kernel, then switches the panel.                *)
(*                                                                         *)
(* A step is one access to sysfs.  The power manager calls setInteractive  *)
(* from one thread.  A device's runtime_status is the kernel's: it follows *)
(* "control" when it likes, and a device in use does not suspend.          *)
(***************************************************************************)
EXTENDS Naturals, Sequences

CONSTANTS
    Devices,        \* the lines of powerhal.conf that name a device, in order
    Supported,      \* those whose runtime_status is not "unsupported"
    Tries,          \* count of wait_for_set_complete, 1000
    MaxReadErrors,  \* bound: failed reads of runtime_status in one call
    PowerFaults     \* what may fail, of AllPowerFaults

DeviceSet == {Devices[k] : k \in DOMAIN Devices}
AllPowerFaults == {"write", "open_status", "read_status", "panel"}

ASSUME PowerAssumption ==
    /\ Devices \in Seq(DeviceSet)
    /\ \A j, k \in DOMAIN Devices : j # k => Devices[j] # Devices[k]
    /\ DeviceSet \intersect {"sleep", "bl_power"} = {}
    /\ Supported \subseteq DeviceSet
    /\ Tries \in Nat \ {0}
    /\ MaxReadErrors \in Nat
    /\ PowerFaults \subseteq AllPowerFaults

VARIABLES
    ppc,                \* where setInteractive is
    on,                 \* its argument
    index,              \* position of node in the list
    count, errors,      \* tries left; reads that failed
    control,            \* each device's power/control
    status,             \* its power/runtime_status
    sleep, bl_power,    \* dcon/sleep and dcon-bl/bl_power: 1 is off
    missed,             \* history: devices and files whose last write failed
    gaveUp              \* history: devices the last call stopped waiting for

kernelVars == <<control, status, sleep, bl_power>>
powerVars == <<ppc, on, index, count, errors, kernelVars, missed, gaveUp>>

PowerTypeOK ==
    /\ ppc \in {"idle", "device", "poll", "bl_power"}
    /\ on \in BOOLEAN
    /\ index \in 0..(Len(Devices) + 1)
    /\ count \in 0..Tries /\ errors \in 0..MaxReadErrors
    /\ control \in [DeviceSet -> {"on", "auto"}]
    /\ status \in [DeviceSet -> {"active", "suspended", "unsupported"}]
    /\ {sleep, bl_power} \subseteq {0, 1}
    /\ missed \subseteq DeviceSet \union {"sleep", "bl_power"} /\ gaveUp \subseteq DeviceSet

PowerInit ==
    /\ ppc = "idle" /\ on = TRUE /\ index = 0 /\ count = 0 /\ errors = 0
    /\ control = [d \in DeviceSet |-> "on"]
    /\ status = [d \in DeviceSet |-> IF d \in Supported THEN "active" ELSE "unsupported"]
    /\ sleep = 0 /\ bl_power = 0
    /\ missed = {} /\ gaveUp = {}

-----------------------------------------------------------------------------
\* Mutant: resume walks the list forwards too
Walk_forwards(b) == Devices

\* from the first node to the last when suspending, backwards when resuming
Walk(b) ==
    IF b THEN [k \in DOMAIN Devices |-> Devices[Len(Devices) + 1 - k]] ELSE Devices

power_set_interactive(b) ==
    /\ ppc = "idle"
    /\ ppc' = "device" /\ index' = 1 /\ on' = b
    /\ errors' = 0 /\ gaveUp' = {}
    /\ UNCHANGED <<count, kernelVars, missed>>

Node == Walk(on)[index]
NextNode == index' = index + 1 /\ ppc' = "device"

\* is_pm_supported fails, or "control" cannot be opened or written
device_skipped ==
    /\ ppc = "device" /\ index \in DOMAIN Devices
    /\ \/ Node \notin Supported /\ UNCHANGED missed
       \/ Node \in Supported /\ "write" \in PowerFaults /\ missed' = missed \union {Node}
    /\ NextNode
    /\ UNCHANGED <<on, count, errors, kernelVars, gaveUp>>

\* pm_set_for_device up to the write of "control"
pm_set_for_device ==
    /\ ppc = "device" /\ index \in DOMAIN Devices /\ Node \in Supported
    /\ control' = [control EXCEPT ![Node] = IF on THEN "on" ELSE "auto"]
    /\ missed' = missed \ {Node}
    /\ ppc' = "poll" /\ count' = Tries
    /\ UNCHANGED <<on, index, errors, status, sleep, bl_power, gaveUp>>

Reached == status[Node] = IF on THEN "active" ELSE "suspended"

\* Mutant: the first look ends the wait
status_reached_always ==
    /\ ppc = "poll"
    /\ NextNode
    /\ UNCHANGED <<on, count, errors, kernelVars, missed, gaveUp>>

\* a look at runtime_status in wait_for_set_complete
status_reached ==
    /\ ppc = "poll" /\ Reached
    /\ NextNode
    /\ UNCHANGED <<on, count, errors, kernelVars, missed, gaveUp>>

\* Mutant: the tries are not counted
status_awaited_uncounted ==
    /\ ppc = "poll" /\ ~ Reached
    /\ UNCHANGED powerVars

status_awaited ==
    /\ ppc = "poll" /\ ~ Reached
    /\ count' = count - 1
    /\ IF count > 1 THEN UNCHANGED <<ppc, index, gaveUp>>
       ELSE NextNode /\ gaveUp' = gaveUp \union {Node}
    /\ UNCHANGED <<on, errors, kernelVars, missed>>

\* it cannot be opened, which ends the wait, or read, which is not counted
status_error ==
    /\ ppc = "poll"
    /\ \/ /\ "open_status" \in PowerFaults
          /\ NextNode
          /\ gaveUp' = gaveUp \union {Node}
          /\ UNCHANGED errors
       \/ /\ "read_status" \in PowerFaults /\ errors < MaxReadErrors
          /\ errors' = errors + 1
          /\ UNCHANGED <<ppc, index, gaveUp>>
    /\ UNCHANGED <<on, count, kernelVars, missed>>

\* pm_device_set of the panel's controller, whose failure nobody looks at
set_sleep ==
    /\ ppc = "device" /\ index \notin DOMAIN Devices
    /\ \/ sleep' = (IF on THEN 0 ELSE 1) /\ missed' = missed \ {"sleep"}
       \/ "panel" \in PowerFaults /\ UNCHANGED sleep /\ missed' = missed \union {"sleep"}
    /\ ppc' = "bl_power"
    /\ UNCHANGED <<on, index, count, errors, control, status, bl_power, gaveUp>>

\* and of its backlight
set_bl_power ==
    /\ ppc = "bl_power"
    /\ \/ bl_power' = (IF on THEN 0 ELSE 1) /\ missed' = missed \ {"bl_power"}
       \/ "panel" \in PowerFaults /\ UNCHANGED bl_power /\ missed' = missed \union {"bl_power"}
    /\ ppc' = "idle" /\ index' = 0 /\ count' = 0
    /\ UNCHANGED <<on, errors, control, status, sleep, gaveUp>>

\* the kernel: what is set to "on" becomes and stays active, the rest may
\* suspend when unused and resume when used
runtime_pm(d) ==
    /\ d \in Supported
    /\ \/ status[d] = "suspended" /\ status' = [status EXCEPT ![d] = "active"]
       \/ status[d] = "active" /\ control[d] = "auto"
          /\ status' = [status EXCEPT ![d] = "suspended"]
    /\ UNCHANGED <<ppc, on, index, count, errors, control, sleep, bl_power, missed, gaveUp>>

\* what setInteractive does next, but for an error of runtime_status
PowerGoes ==
    \/ device_skipped \/ pm_set_for_device \/ status_reached \/ status_awaited
    \/ set_sleep \/ set_bl_power
PowerStep == PowerGoes \/ status_error
PowerNext ==
    \/ \E b \in BOOLEAN : power_set_interactive(b)
    \/ PowerStep
    \/ \E d \in DeviceSet : runtime_pm(d)

PowerSpec == PowerInit /\ [][PowerNext]_powerVars
-----------------------------------------------------------------------------
(* Properties *)

\* the devices that do as they are told
Obeying == Supported \ missed

(* "early suspend will follow the sequence and late resume vice versa"     *)
(* (powerhal.conf): at any moment, of suspending, of resuming or between   *)
(* the two, a device may suspend only if those before it in the list may.  *)
SuspendOrder ==
    \A j, k \in DOMAIN Devices :
        j < k /\ {Devices[j], Devices[k]} \subseteq Obeying /\ control[Devices[k]] = "auto"
        => control[Devices[j]] = "auto"

(* When setInteractive(1) has returned, every device is active, but for    *)
(* those it could not write to and those it has logged as failed.          *)
ResumedActive ==
    ppc = "idle" /\ on => \A d \in Obeying \ gaveUp : status[d] = "active"

(* setInteractive returns, although a device in use never suspends: with a *)
(* runtime_status that can be read again after some errors.                *)
SetReturns == ppc # "idle" ~> ppc = "idle"
=============================================================================
