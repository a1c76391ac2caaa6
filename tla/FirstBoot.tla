------------------------------ MODULE FirstBoot ------------------------------
(***************************************************************************)
(* Growing the last partition and its file system to the size of the disk: *)
(* olpc-partition-resize.sh, olpc-filesystem-resize.sh and mount_all, which *)
(* init.xo4.rc runs in this order on every boot, in "on early-fs".         *)
(*                                                                         *)
(* A step is one command of the scripts.  Their results are only logged,   *)
(* so a command that fails is followed by the next one.  The power may go  *)
(* at any place.  Sizes are in blocks; the partition begins at PartStart.  *)
(* A query that prints nothing gives sfdisk a line it is taken to refuse.  *)
(* The umount of /system (25) may fail unnoticed: mount_all mounts the     *)
(* partition at hand before /system, so it is left out.                    *)
(***************************************************************************)
EXTENDS Naturals

CONSTANTS
    DiskSize,       \* of the whole disk (sfdisk -s)
    PartStart,      \* first block of the partition
    ImagePart,      \* its size in the image, which mkzd.sh's resize2fs fills
    BootFaults,     \* what may go wrong, of AllBootFaults
    MaxFaults,      \* bound: how often
    MaxOffs         \* bound: power losses during a boot

AllBootFaults == {"query", "sfdisk", "reread", "system", "e2fsck", "resize2fs", "mount"}

ASSUME GeometryAssumption ==
    /\ DiskSize \in Nat /\ PartStart \in Nat
    /\ ImagePart \in Nat
    /\ PartStart + ImagePart <= DiskSize
    /\ BootFaults \subseteq AllBootFaults
    /\ MaxFaults \in Nat /\ MaxOffs \in Nat

VARIABLES
    bpc,        \* where the boot is
    part,       \* size of the partition in the table on the disk
    kpart,      \* size of the partition as the kernel knows it
    node,       \* whether its device node exists
    fs,         \* size of the file system
    clean,      \* whether its structure is intact
    mounted,
    failed,     \* history: the commands that failed in this boot
    faults, offs

bootVars == <<bpc, part, kpart, node, fs, clean, mounted, failed, faults, offs>>

Full == DiskSize - PartStart
Places == {"off", "check", "sfdisk", "system", "e2fsck", "resize2fs", "moving", "mount", "up"}

BootTypeOK ==
    /\ bpc \in Places
    /\ part \in 0..Full /\ kpart \in 0..Full /\ fs \in 0..Full
    /\ {node, clean, mounted} \subseteq BOOLEAN
    /\ failed \subseteq AllBootFaults
    /\ faults \in 0..MaxFaults /\ offs \in 0..MaxOffs

BootInit ==
    /\ bpc = "off"
    /\ part \in {ImagePart, Full}      \* new, or grown
    /\ kpart = part /\ fs = part
    /\ clean = TRUE /\ node = FALSE /\ mounted = FALSE
    /\ failed = {} /\ faults = 0 /\ offs = 0

BootGo(from, to) == bpc = from /\ bpc' = to
\* a command that fails, as long as the bound allows
Fault(f) ==
    /\ f \in BootFaults /\ faults < MaxFaults
    /\ faults' = faults + 1 /\ failed' = failed \union {f}
NoFault == UNCHANGED <<failed, faults>>

-----------------------------------------------------------------------------
\* the kernel reads the table, the nodes are made
boot ==
    /\ BootGo("off", "check")
    /\ kpart' = part
    /\ node' = TRUE
    /\ UNCHANGED <<part, fs, clean, mounted, failed, faults, offs>>

\* Mutant: nothing to do when the partition is as large as it gets
should_resize_partition_only ==
    /\ BootGo("check", IF PartStart + part = DiskSize THEN "mount" ELSE "sfdisk")
    /\ NoFault
    /\ UNCHANGED <<part, kpart, node, fs, clean, mounted, offs>>

\* part_end is the last block, so one less than where the partition ends.  A
\* query that prints nothing compares as different
should_resize_partition ==
    /\ \/ BootGo("check", IF (PartStart + part - 1) + 1 = DiskSize THEN "system" ELSE "sfdisk")
          /\ NoFault
       \/ BootGo("check", "sfdisk") /\ Fault("query")
    /\ UNCHANGED <<part, kpart, node, fs, clean, mounted, offs>>

\* Mutant: the size of the whole disk is given to the partition
resize_partition_whole ==
    /\ BootGo("sfdisk", "system")
    /\ part' = DiskSize /\ kpart' = DiskSize
    /\ NoFault
    /\ UNCHANGED <<node, fs, clean, mounted, offs>>

(* sfdisk writes the table and has the kernel read it again: the node is   *)
(* removed, and made again by ueventd.  It may write nothing, or the       *)
(* kernel may keep its view because the disk is in use.                    *)
resize_partition ==
    /\ BootGo("sfdisk", "system")
    /\ \/ /\ part' = DiskSize - PartStart
          /\ kpart' = part'
          /\ node' = FALSE
          /\ NoFault
       \/ /\ Fault("reread")
          /\ part' = DiskSize - PartStart
          /\ UNCHANGED <<kpart, node>>
       \/ /\ Fault("sfdisk")
          /\ UNCHANGED <<part, kpart, node>>
    /\ UNCHANGED <<fs, clean, mounted, offs>>

ueventd ==
    /\ bpc # "off" /\ ~ node
    /\ node' = TRUE
    /\ UNCHANGED <<bpc, part, kpart, fs, clean, mounted, failed, faults, offs>>

\* e2fsck and resize2fs are on /system; without it neither runs
mount_system ==
    /\ \/ BootGo("system", "e2fsck") /\ NoFault
       \/ BootGo("system", "mount") /\ Fault("system")
    /\ UNCHANGED <<part, kpart, node, fs, clean, mounted, offs>>

\* Mutant: the file system is not checked
e2fsck_skipped ==
    /\ BootGo("e2fsck", "resize2fs")
    /\ NoFault
    /\ UNCHANGED <<part, kpart, node, fs, clean, mounted, offs>>

\* without a node it finds nothing to check
e2fsck ==
    /\ BootGo("e2fsck", "resize2fs")
    /\ \/ clean' = (clean \/ node) /\ NoFault
       \/ UNCHANGED clean /\ Fault("e2fsck")
    /\ UNCHANGED <<part, kpart, node, fs, mounted, offs>>

\* resize2fs refuses a file system that needs a check
resize2fs ==
    /\ \/ /\ BootGo("resize2fs", "moving")
          /\ node /\ clean /\ fs < kpart
          /\ clean' = FALSE
          /\ NoFault
       \/ /\ BootGo("resize2fs", "mount")
          /\ ~ (node /\ clean /\ fs < kpart) /\ UNCHANGED clean /\ NoFault
       \/ /\ BootGo("resize2fs", "mount")
          /\ Fault("resize2fs") /\ UNCHANGED clean
    /\ UNCHANGED <<part, kpart, node, fs, mounted, offs>>

\* it finishes, or gives up in the middle
resize2fs_done ==
    /\ BootGo("moving", "mount")
    /\ \/ fs' = kpart /\ clean' = TRUE /\ NoFault
       \/ Fault("resize2fs") /\ UNCHANGED <<fs, clean>>
    /\ UNCHANGED <<part, kpart, node, mounted, offs>>

\* mount_all waits for the node; the mount may fail and the wait end without it
mount_all ==
    /\ BootGo("mount", "up")
    /\ \/ node /\ mounted' = TRUE /\ NoFault
       \/ mounted' = FALSE /\ Fault("mount")
    /\ UNCHANGED <<part, kpart, node, fs, clean, offs>>

\* shut down or switched off once it runs; the file system has a journal
shut_down ==
    /\ BootGo("up", "off")
    /\ mounted' = FALSE /\ node' = FALSE /\ failed' = {}
    /\ UNCHANGED <<part, kpart, fs, clean, faults, offs>>

\* the power goes during the boot
power_loss ==
    /\ bpc \notin {"off", "up"} /\ offs < MaxOffs
    /\ bpc' = "off" /\ offs' = offs + 1
    /\ node' = FALSE /\ failed' = {}
    /\ UNCHANGED <<part, kpart, fs, clean, mounted, faults>>

BootStep ==
    \/ should_resize_partition \/ resize_partition \/ mount_system \/ e2fsck
    \/ resize2fs \/ resize2fs_done \/ mount_all
BootNext == boot \/ BootStep \/ ueventd \/ shut_down \/ power_loss

BootSpec == BootInit /\ [][BootNext]_bootVars
-----------------------------------------------------------------------------
(* Properties *)

\* a command failed in this boot that could have kept a torn file system from
\* being mounted, or tore it
Harmed == failed \intersect {"query", "system", "e2fsck", "resize2fs"} # {}

(* A mounted file system lies within what the kernel knows of the          *)
(* partition, which is within the table's, which is on the disk.  It is    *)
(* intact wherever an earlier boot ended or failed, in the middle of       *)
(* moving blocks too, unless in this boot itself the query of the sizes,   *)
(* the mount of /system, e2fsck or resize2fs failed: none of their results *)
(* keeps the scripts from going on to mount_all, so a boot with such a     *)
(* failure does mount a torn file system.                                  *)
MountSafe ==
    /\ mounted => (clean \/ Harmed) /\ fs <= kpart
    /\ bpc # "off" => kpart <= part
    /\ PartStart + part <= DiskSize
=============================================================================
