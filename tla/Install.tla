------------------------------- MODULE Install -------------------------------
(***************************************************************************)
(* The life of a disk: updates by the firmware (ZdImage) and boots of the  *)
(* system they leave (FirstBoot).  The table of the image brings its       *)
(* partition and file system sizes; a disk without table does not boot.    *)
(***************************************************************************)
EXTENDS ZdImage, FirstBoot

vars == <<zdVars, bootVars>>

\* the old system has run for a while
Init == ZdInit /\ BootInit /\ part = Full

TypeOK == ZdTypeOK /\ BootTypeOK

\* what a step of the firmware means to the boot scripts: block 0 has the
\* image's table, and the file system is the image's
NewSystem ==
    IF disk'[0] = "new" /\ disk[0] # "new"
    THEN part' = ImagePart /\ kpart' = ImagePart /\ fs' = ImagePart /\ clean' = TRUE
    ELSE UNCHANGED <<part, kpart, fs, clean>>

Update ==
    /\ bpc = "off" /\ ZdNext
    /\ NewSystem
    /\ UNCHANGED <<bpc, node, mounted, failed, faults, offs>>

Run ==
    /\ fpc = "off" /\ disk[0] \in {"old", "new"} /\ BootNext
    /\ UNCHANGED zdVars

Next == Update \/ Run
Spec == Init /\ [][Next]_vars

\* the firmware and a boot go on while there is power; the owner of the laptop
\* does not switch it on for updates only, and switches it off now and then
FairSpec ==
    /\ Spec
    /\ WF_vars(Update /\ (apply_record \/ flash_ends))
    /\ WF_vars(Run /\ (BootStep \/ ueventd))
    /\ SF_vars(Run /\ boot)
    /\ WF_vars(Run /\ shut_down)

(* A new system fills the disk after some boots, whatever failed and       *)
(* wherever the power went, unless another update is made: the file system *)
(* is looked at on every boot, not only when the partition has just grown. *)
Grown == disk[0] = "new" ~> fs = Full \/ disk[0] # "new"
=============================================================================
