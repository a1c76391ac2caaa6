------------------------------ MODULE ZdExtract ------------------------------
(***************************************************************************)
(* zdextract.c: the blocks of a .zd file from want_start to want_end, both *)
(* included, written to a file at their place counted from want_start.     *)
(* mkzd.sh takes the partitions of a released system out of its .zd file   *)
(* with it.                                                                *)
(***************************************************************************)
EXTENDS ZdImage

Offsets == 0..(MaxBlock + 1)

\* Mutant: offsets counted from the start of the image
seek_offset_absolute(rec, want_start) == rec.block

seek_offset(rec, want_start) == rec.block - want_start

Wanted(rec, want_start, want_end) ==
    want_start = -1 \/ rec.block \in want_start..want_end

\* the file zdextract writes over one that holds nothing: at each offset the
\* last of the records written there
Extract(file, want_start, want_end) ==
    [o \in Offsets |->
        LET at == {k \in DOMAIN file : /\ Wanted(file[k], want_start, want_end)
                                       /\ seek_offset(file[k], want_start) = o}
        IN IF at = {} THEN None ELSE file[CHOOSE k \in at : \A j \in at : j <= k]]

(* "extracts the specified block and length following blocks": of a file   *)
(* zhashfs finished, each block of the range that has data is at its place *)
(* (for block 0 the real one, not the zeros written first), and nothing    *)
(* else is written.                                                        *)
ExtractedRange ==
    zpc = "done" /\ zd # << >> /\ zd[Len(zd)] = [block |-> 0, data |-> "new"] =>
        \A start \in Blocks : \A length \in 0..(MaxBlock - start) : \A o \in Offsets :
            Extract(zd, start, start + length)[o] =
                IF o <= length /\ start + o \in Occupied(layout)
                THEN [block |-> start + o, data |-> "new"]
                ELSE None
=============================================================================
