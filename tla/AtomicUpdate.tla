---------------------------- MODULE AtomicUpdate ----------------------------
(***************************************************************************)
(* What an update of the disk promises to somebody who only looks at the   *)
(* partition table: the data changes only while there is no table, and the *)
(* table of the new system appears only when its data is complete.  A      *)
(* power loss may leave the disk without a table, never with a wrong one.  *)
(***************************************************************************)
CONSTANT None

VARIABLES
    boots,      \* the system whose partition table is on the disk, or None
    data        \* the system the blocks behind the table make up, or "mixed"

vars == <<boots, data>>

Init == boots = "old" /\ data \in {"old", "new"}

Wipe   == boots' = None /\ UNCHANGED data
Write  == boots = None /\ data' \in {"old", "mixed", "new"} /\ UNCHANGED boots
Commit == boots = None /\ data = "new" /\ boots' = "new" /\ UNCHANGED data

Next == Wipe \/ Write \/ Commit
Spec == Init /\ [][Next]_vars
=============================================================================
