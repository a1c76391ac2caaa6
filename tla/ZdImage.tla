------------------------------- MODULE ZdImage -------------------------------
(***************************************************************************)
(* The update file of the sugar-combiner: zhashfs.c writes the blocks of a *)
(* disk image that hold data as a sequence of records (the .zd file), the  *)
(* firmware applies the records to the disk in their order.                *)
(*                                                                         *)
(* A step of zhashfs is one record, or one block it skips; it may fail and *)
(* leave a truncated file.  A step of the firmware is one record; it may   *)
(* lose power between two records or inside one.  Hashes, compression and  *)
(* the .zsp file are left out.                                             *)
(***************************************************************************)
EXTENDS Integers, Sequences

CONSTANTS
    zblocksize,     \* bytes (here: allocation units) of a block
    Layouts,        \* images: a length and the extents FIEMAP reports
    MaxBlock,       \* the disk has the blocks 0..MaxBlock
    MaxFailures,    \* bound: failures of zhashfs
    MaxCrashes,     \* bound: power losses
    None

Blocks == 0..MaxBlock
Extents == [logical : Nat, length : Nat \ {0}]

LastByte(ex) == ex.logical + ex.length - 1
\* the blocks an extent occupies
Occupies(ex) == {b \in Blocks : zblocksize * b <= LastByte(ex)
                                /\ ex.logical < zblocksize * (b + 1)}
\* reference definition: the blocks of the image that hold some data, and the
\* one with the partition table
Occupied(l) == {0} \union UNION {Occupies(l.extents[k]) : k \in DOMAIN l.extents}

ASSUME SizesAssumption ==
    /\ zblocksize \in Nat \ {0}
    /\ MaxBlock \in Nat
    /\ MaxFailures \in Nat
    /\ MaxCrashes \in Nat
\* FIEMAP reports extents in the order of the file, none of which reaches past
\* the block that holds the end of the file; the disk has room for the image
ASSUME LayoutAssumption ==
    \A l \in Layouts :
        /\ l \in [length : Nat, extents : Seq(Extents)]
        /\ l.length <= zblocksize * (MaxBlock + 1)
        /\ \A k \in DOMAIN l.extents :
             /\ zblocksize * (LastByte(l.extents[k]) \div zblocksize) < l.length
             /\ \A j \in DOMAIN l.extents :
                  j < k => LastByte(l.extents[j]) < l.extents[k].logical

VARIABLES
    layout,         \* the image zhashfs is given
    zpc,            \* where zhashfs is
    eblocks, used,  \* its variables eblocks and eblocks_used
    block,          \* its loop variable i
    zd,             \* the records of the .zd file
    failures,       \* how often zhashfs has failed
    fpc, pos,       \* the firmware: "off", "flash"; the record it is at
    disk,           \* what each block of the disk holds
    crashes         \* how often power was lost

toolVars == <<layout, zpc, eblocks, used, block, zd, failures>>
flashVars == <<fpc, pos, disk, crashes>>
zdVars == <<toolVars, flashVars>>

Records == [block : Blocks, data : {"zeros", "new"}]

ToolTypes ==
    /\ layout \in Layouts
    /\ zpc \in {"start", "wipe", "loop", "table", "done"}
    /\ eblocks \in 0..(MaxBlock + 1)
    /\ used \subseteq Blocks
    /\ block \in 0..(MaxBlock + 1)
    /\ zd \in Seq(Records)
    /\ failures \in 0..MaxFailures
FlashTypes ==
    /\ fpc \in {"off", "flash"}
    /\ pos \in 1..(Len(zd) + 1)
    /\ disk \in [Blocks -> {"old", "zeros", "new", "torn"}]
    /\ crashes \in 0..MaxCrashes
ZdTypeOK == ToolTypes /\ FlashTypes

\* eblocks is 0 for the code's -1, which nothing here reads
ZdInit ==
    /\ layout \in Layouts
    /\ zpc = "start" /\ eblocks = 0 /\ used = {} /\ block = 0
    /\ zd = << >> /\ failures = 0
    /\ fpc = "off" /\ pos = 1 /\ crashes = 0
    /\ disk = [b \in Blocks |-> "old"]

-----------------------------------------------------------------------------
(* zhashfs *)

\* Mutant: the last block of an extent is left out
process_extent_short(ex) ==
    {b \in Blocks : ex.logical \div zblocksize <= b /\ b < LastByte(ex) \div zblocksize}

process_extent(ex) ==
    {b \in Blocks : ex.logical \div zblocksize <= b /\ b <= LastByte(ex) \div zblocksize}

\* Mutant: the block in which the last extent begins
LastEblock_begin(l) ==
    IF l.extents = << >> THEN 0
    ELSE l.extents[Len(l.extents)].logical \div zblocksize

\* what read_extents returns: the last block of the last extent
LastEblock(l) ==
    IF l.extents = << >> THEN 0
    ELSE LastByte(l.extents[Len(l.extents)]) \div zblocksize

read_extents ==
    /\ zpc = "start" /\ fpc = "off"
    /\ used' = UNION {process_extent(layout.extents[k]) : k \in DOMAIN layout.extents}
    /\ eblocks' = LastEblock(layout) + 1
    /\ zd' = << >>
    /\ zpc' = "wipe"
    /\ UNCHANGED <<layout, block, failures, flashVars>>

write_block(b, data) == zd' = Append(zd, [block |-> b, data |-> data])

\* Mutant: the file begins with the first block of data
wipe_table_skipped ==
    /\ zpc = "wipe"
    /\ zpc' = "loop" /\ block' = 1
    /\ UNCHANGED <<layout, eblocks, used, zd, failures, flashVars>>

wipe_table ==
    /\ zpc = "wipe"
    /\ write_block(0, "zeros")
    /\ block' = 1
    /\ zpc' = "loop"
    /\ UNCHANGED <<layout, eblocks, used, failures, flashVars>>

\* how much of the block fread finds, and read_block's result after padding
Found(b) == IF layout.length >= zblocksize * (b + 1) THEN zblocksize
            ELSE IF layout.length > zblocksize * b THEN layout.length - zblocksize * b
            ELSE 0
\* Mutant: a short last block is not padded
read_block_unpadded(b) == Found(b)

read_block(b) ==
    IF Found(b) # 0 /\ b = eblocks - 1 THEN zblocksize ELSE Found(b)

hash_block ==
    /\ zpc = "loop" /\ block < eblocks
    /\ IF block \in used
       THEN read_block(block) = zblocksize /\ write_block(block, "new")
       ELSE UNCHANGED zd
    /\ block' = block + 1
    /\ UNCHANGED <<layout, zpc, eblocks, used, failures, flashVars>>

write_table ==
    /\ zpc = "loop" /\ block >= eblocks
    /\ read_block(0) = zblocksize
    /\ write_block(0, "new")
    /\ zpc' = "done"
    /\ UNCHANGED <<layout, eblocks, used, block, failures, flashVars>>

\* LTC_ARGCHK aborts: the records that were not flushed are lost
Truncate(k) ==
    /\ zd' = SubSeq(zd, 1, k)
    /\ zpc' = "done"
    /\ UNCHANGED <<layout, eblocks, used, block, flashVars>>

\* a block that cannot be read, or a file that cannot be written
zhashfs_fails ==
    /\ zpc \in {"wipe", "loop"} /\ failures < MaxFailures
    /\ failures' = failures + 1
    /\ \E k \in 0..Len(zd) : Truncate(k)

\* LTC_ARGCHK(readlen == zblocksize)
zhashfs_aborts ==
    /\ zpc = "loop"
    /\ \/ block < eblocks /\ block \in used /\ read_block(block) # zblocksize
       \/ block >= eblocks /\ read_block(0) # zblocksize
    /\ UNCHANGED failures
    /\ \E k \in 0..Len(zd) : Truncate(k)

\* the image is built again
zhashfs_again ==
    /\ zpc = "done" /\ fpc = "off"
    /\ zpc' = "start"
    /\ block' = 0
    /\ UNCHANGED <<layout, eblocks, used, zd, failures, flashVars>>

-----------------------------------------------------------------------------
(* The firmware, as the file format means it to be used *)

flash ==
    /\ fpc = "off" /\ zpc = "done"
    /\ fpc' = "flash"
    /\ UNCHANGED <<toolVars, pos, disk, crashes>>

apply_record ==
    /\ fpc = "flash" /\ pos <= Len(zd)
    /\ disk' = [disk EXCEPT ![zd[pos].block] = zd[pos].data]
    /\ pos' = pos + 1
    /\ UNCHANGED <<toolVars, fpc, crashes>>

\* zblocks-end, or the end of a truncated file
flash_ends ==
    /\ fpc = "flash" /\ pos > Len(zd)
    /\ fpc' = "off" /\ pos' = 1
    /\ UNCHANGED <<toolVars, disk, crashes>>

\* the power goes, perhaps in the middle of a write
flash_crashes ==
    /\ fpc = "flash" /\ crashes < MaxCrashes
    /\ crashes' = crashes + 1
    /\ fpc' = "off" /\ pos' = 1
    /\ disk' \in {disk} \union
                 {[disk EXCEPT ![zd[pos].block] = "torn"] : x \in {pos} \intersect DOMAIN zd}
    /\ UNCHANGED toolVars

ToolNext ==
    \/ read_extents \/ wipe_table \/ hash_block \/ write_table
    \/ zhashfs_fails \/ zhashfs_aborts \/ zhashfs_again
FlashNext == flash \/ apply_record \/ flash_ends \/ flash_crashes
ZdNext == ToolNext \/ FlashNext

ZdSpec == ZdInit /\ [][ZdNext]_zdVars
-----------------------------------------------------------------------------
(* Properties *)

(* "wipe the partition table first in case of partial completion": a disk  *)
(* that has a partition table has all the blocks that belong to it, however *)
(* many updates were begun, with whatever file, and however they ended.    *)
TableMeansComplete ==
    /\ disk[0] = "new" => \A b \in Occupied(layout) : disk[b] = "new"
    /\ disk[0] = "old" => \A b \in Blocks : disk[b] = "old"

(* A .zd file zhashfs finished holds every block of the image that has     *)
(* data, once, in order, between the two records of block 0, and no other, *)
(* whatever extents the file system reports and however the file ends.     *)
FileHasImage ==
    zpc = "done" /\ zd # << >> /\ zd[Len(zd)] = [block |-> 0, data |-> "new"] =>
        /\ zd[1] = [block |-> 0, data |-> "zeros"]
        /\ {zd[k].block : k \in DOMAIN zd} = Occupied(layout)
        /\ \A j, k \in 2..Len(zd) - 1 : j < k => zd[j].block < zd[k].block

(* A run of zhashfs that nothing fails is not aborted by a check of its    *)
(* own, but for an empty image: every block it marks used can be read in   *)
(* full, the last one after padding.                                       *)
NoCheckFails ==
    zpc = "loop" /\ layout.length > 0 =>
        /\ block < eblocks /\ block \in used => read_block(block) = zblocksize
        /\ block >= eblocks => read_block(0) = zblocksize

\* what the disk is to somebody who looks at the table, and behind it
Boots == IF disk[0] \in {"old", "new"} THEN disk[0] ELSE None
Data  == IF \A b \in Occupied(layout) \ {0} : disk[b] = "new" THEN "new"
         ELSE IF \A b \in Blocks \ {0} : disk[b] = "old" THEN "old" ELSE "mixed"

(* The update implements the atomic one: data changes only while the disk  *)
(* has no table, the new table comes last, the old one never comes back.   *)
Atomic == INSTANCE AtomicUpdate WITH boots <- Boots, data <- Data
UpdateIsAtomic == Atomic!Spec
=============================================================================
