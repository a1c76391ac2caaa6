---------------------------- MODULE InstallProofs ----------------------------
(***************************************************************************)
(* Proofs about Install for every disk, block size and set of images, any  *)
(* number of failures and of power losses.                                 *)
(***************************************************************************)
EXTENDS Install, ZdExtract, TLAPS

-----------------------------------------------------------------------------
(* Blocks and bytes *)

LEMMA DivMul ==
    ASSUME NEW a \in Nat, NEW z \in Nat \ {0}
    PROVE  /\ a \div z \in Nat
           /\ z * (a \div z) <= a
           /\ a < z * (a \div z) + z
  BY SMTT(30)

LEMMA MulMono ==
    ASSUME NEW z \in Nat \ {0}, NEW a \in Nat, NEW b \in Nat
    PROVE  /\ z * a \in Nat
           /\ z * (a + 1) = z * a + z
           /\ a < b <=> z * a < z * b
           /\ a <= b <=> z * a <= z * b
  BY SMTT(30)

(* Dividing finds the block a byte is in. *)
LEMMA DivLeq ==
    ASSUME NEW a \in Nat, NEW b \in Nat, NEW z \in Nat \ {0}
    PROVE  /\ z * b <= a <=> b <= a \div z
           /\ a < z * (b + 1) <=> a \div z <= b
<1> DEFINE q == a \div z
<1>1. q \in Nat /\ z * q <= a /\ a < z * q + z
  BY DivMul
<1>2. z * (q + 1) = z * q + z /\ z * q \in Nat /\ z * (q + 1) \in Nat
  BY <1>1, MulMono
<1>3. z * b \in Nat /\ z * (b + 1) \in Nat
  BY MulMono
<1> HIDE DEF q
<1>4. z * b <= a <=> b <= q
  <2>1. ASSUME b <= q PROVE z * b <= a
    <3>1. z * b <= z * q
      BY <1>1, <2>1, MulMono
    <3> QED BY <3>1, <1>1, <1>2, <1>3
  <2>2. ASSUME ~ (b <= q) PROVE ~ (z * b <= a)
    <3>1. q + 1 <= b
      BY <1>1, <2>2
    <3>2. z * (q + 1) <= z * b
      BY <1>1, <3>1, MulMono
    <3> QED BY <3>2, <1>1, <1>2, <1>3
  <2> QED BY <2>1, <2>2
<1>5. a < z * (b + 1) <=> q <= b
  <2>1. ASSUME q <= b PROVE a < z * (b + 1)
    <3>1. z * (q + 1) <= z * (b + 1)
      BY <1>1, <2>1, MulMono
    <3> QED BY <3>1, <1>1, <1>2, <1>3
  <2>2. ASSUME ~ (q <= b) PROVE ~ (a < z * (b + 1))
    <3>1. b + 1 <= q
      BY <1>1, <2>2
    <3>2. z * (b + 1) <= z * q
      BY <1>1, <3>1, MulMono
    <3> QED BY <3>2, <1>1, <1>2, <1>3
  <2> QED BY <2>1, <2>2
<1> QED BY <1>4, <1>5 DEF q

LEMMA DivMono ==
    ASSUME NEW a \in Nat, NEW b \in Nat, NEW z \in Nat \ {0}, a <= b
    PROVE  a \div z <= b \div z
<1> DEFINE q == a \div z
<1>1. q \in Nat /\ z * q <= a
  BY DivMul
<1>2. z * q \in Nat
  BY <1>1, MulMono
<1>3. z * q <= b <=> q <= b \div z
  BY <1>1, DivLeq
<1> HIDE DEF q
<1>4. q <= b \div z
  BY <1>1, <1>2, <1>3
<1> QED BY <1>4 DEF q

LEMMA DivBelow ==
    ASSUME NEW a \in Nat, NEW m \in Nat, NEW c \in Nat, NEW z \in Nat \ {0},
           z * (a \div z) < c, c <= z * (m + 1)
    PROVE  a \div z \in 0..m
<1> DEFINE q == a \div z
           t == z * (m + 1)
<1>1. q \in Nat /\ t \in Nat /\ z * q \in Nat
  BY DivMul, MulMono
<1>2. z * q < c /\ c <= t
  OBVIOUS
<1>3. q < m + 1 <=> z * q < t
  BY <1>1, MulMono
<1> HIDE DEF q, t
<1>4. q \in 0..m
  BY <1>1, <1>2, <1>3
<1> QED BY <1>4 DEF q

(* process_extent marks the blocks an extent occupies, as the reference    *)
(* definition has them.                                                    *)
LEMMA ProcessExtent ==
    ASSUME NEW ex \in Extents
    PROVE  /\ process_extent(ex) = Occupies(ex)
           /\ LastByte(ex) \in Nat /\ LastByte(ex) \div zblocksize \in Nat
<1>1. ex.logical \in Nat /\ LastByte(ex) \in Nat
  BY DEF Extents, LastByte
<1>2. zblocksize \in Nat \ {0} /\ \A b \in Blocks : b \in Nat
  BY SizesAssumption DEF Blocks
<1>3. \A b \in Blocks : zblocksize * b <= LastByte(ex) <=> b <= LastByte(ex) \div zblocksize
  BY <1>1, <1>2, DivLeq
<1>4. \A b \in Blocks : ex.logical < zblocksize * (b + 1) <=> ex.logical \div zblocksize <= b
  BY <1>1, <1>2, DivLeq
<1>5. LastByte(ex) \div zblocksize \in Nat
  BY <1>1, <1>2, DivMul
<1> QED BY <1>1, <1>3, <1>4, <1>5 DEF process_extent, Occupies

(* The last extent ends in the last block that any extent occupies, which  *)
(* the disk has and which begins before the end of the file.               *)
LEMMA LastEblockIsLast ==
    ASSUME NEW l \in Layouts
    PROVE  /\ LastEblock(l) \in 0..MaxBlock
           /\ \A k \in DOMAIN l.extents : \A b \in process_extent(l.extents[k]) : b <= LastEblock(l)
           /\ l.length > 0 => zblocksize * LastEblock(l) < l.length
<1> DEFINE z == zblocksize
           n == Len(l.extents)
           q(k) == LastByte(l.extents[k]) \div z
<1>1. z \in Nat \ {0} /\ MaxBlock \in Nat
  BY SizesAssumption
<1>2. l.length \in Nat /\ l.extents \in Seq(Extents) /\ l.length <= z * (MaxBlock + 1)
  BY LayoutAssumption
<1>3. CASE l.extents = << >>
  <2>1. LastEblock(l) = 0 /\ z * 0 = 0 /\ DOMAIN l.extents = {}
    BY <1>1, <1>3 DEF LastEblock
  <2> QED BY <2>1, <1>1, <1>2
<1>4. CASE l.extents # << >>
  <2>1. n \in Nat \ {0} /\ DOMAIN l.extents = 1..n /\ n \in DOMAIN l.extents
    BY <1>2, <1>4
  <2>2. \A k \in 1..n : /\ l.extents[k] \in Extents
                         /\ LastByte(l.extents[k]) \in Nat /\ q(k) \in Nat
    BY <1>2, <2>1, ProcessExtent
  <2>3. z * q(n) < l.length
    BY <2>1, LayoutAssumption
  <2>4. q(n) \in 0..MaxBlock
    BY <1>1, <1>2, <2>1, <2>2, <2>3, DivBelow
  <2>5. ASSUME NEW k \in 1..n PROVE q(k) <= q(n)
    <3>1. LastByte(l.extents[k]) <= LastByte(l.extents[n])
      <4>1. CASE k = n
        BY <4>1, <2>1, <2>2
      <4>2. CASE k < n
        <5>1. LastByte(l.extents[k]) < l.extents[n].logical
          BY <4>2, <2>1, LayoutAssumption
        <5>2. l.extents[n].logical <= LastByte(l.extents[n]) /\ l.extents[n].logical \in Nat
          BY <2>1, <2>2 DEF Extents, LastByte
        <5> QED BY <5>1, <5>2, <2>1, <2>2, SMTT(30)
      <4> QED BY <4>1, <4>2, <2>1
    <3> QED BY <3>1, <1>1, <2>1, <2>2, DivMono
  <2>6. LastEblock(l) = q(n)
    BY <1>4 DEF LastEblock
  <2>7. ASSUME NEW k \in DOMAIN l.extents, NEW b \in process_extent(l.extents[k])
        PROVE  b <= q(n)
    <3>1. b \in Nat /\ b <= q(k) /\ k \in 1..n
      BY <2>1, <2>7 DEF process_extent, Blocks
    <3> QED BY <3>1, <2>5, <2>1, <2>2, SMTT(30)
  <2> QED BY <2>3, <2>4, <2>6, <2>7
<1> QED BY <1>3, <1>4

-----------------------------------------------------------------------------
(* The inductive invariant of zhashfs and the firmware *)

\* between read_extents and the end, zhashfs knows the blocks it will write
SourceInv ==
    zpc \in {"wipe", "loop"} =>
        /\ used \union {0} = Occupied(layout)
        /\ eblocks = LastEblock(layout) + 1

\* every .zd file, whole or truncated, that zhashfs leaves: zeros for block 0
\* come first, its real content comes last and after everything else
FileInv ==
    /\ zd # << >> => zd[1] = [block |-> 0, data |-> "zeros"]
    /\ \A k \in 2..Len(zd) : zd[k].data = "new" /\ zd[k].block \in Occupied(layout)
    /\ \A j, k \in 2..Len(zd) : j < k /\ zd[k].block # 0 => zd[j].block < zd[k].block
    /\ \A k \in 2..Len(zd) : zd[k].block = 0 =>
         /\ k = Len(zd) /\ zpc \in {"done", "start"}
         /\ \A b \in Occupied(layout) \ {0} : \E j \in 2..Len(zd) - 1 : zd[j].block = b
    /\ zpc = "wipe" => zd = << >>
    /\ zpc = "loop" =>
         /\ zd # << >> /\ block \in 1..eblocks
         /\ \A k \in 2..Len(zd) : zd[k].block < block
         /\ \A b \in used \ {0} : b < block => \E j \in 2..Len(zd) : zd[j].block = b

\* what the firmware has applied is on the disk, which has no table meanwhile
FlashInv ==
    /\ fpc = "off" => pos = 1
    /\ fpc = "flash" => zpc = "done"
    /\ \A k \in 2..pos - 1 : disk[zd[k].block] = "new"
    /\ pos \in 2..Len(zd) => disk[0] = "zeros"

ZdInv == ZdTypeOK /\ SourceInv /\ FileInv /\ FlashInv /\ TableMeansComplete

LEMMA OccupiedBlocks == \A l \in Layouts : Occupied(l) \subseteq Blocks /\ 0 \in Occupied(l)
  BY SizesAssumption DEF Occupied, Occupies, Blocks

LEMMA ZdInitInv == ZdInit => ZdInv
<1> SUFFICES ASSUME ZdInit PROVE ZdInv
  OBVIOUS
<1> USE SizesAssumption DEF ZdInit
<1>1. ZdTypeOK
  BY DEF ZdTypeOK, ToolTypes, FlashTypes, Blocks
<1>2. SourceInv /\ FileInv /\ FlashInv
  BY DEF SourceInv, FileInv, FlashInv
<1>3. TableMeansComplete
  BY OccupiedBlocks DEF TableMeansComplete, Blocks
<1> QED BY <1>1, <1>2, <1>3 DEF ZdInv

(* zhashfs leaves the disk alone, and works while the firmware is off. *)
LEMMA ToolFlashInv ==
    ASSUME ZdInv, UNCHANGED flashVars, layout' = layout, pos = 1, fpc = "off"
    PROVE  FlashInv' /\ TableMeansComplete'
  BY DEF ZdInv, ZdTypeOK, FlashTypes, FlashInv, TableMeansComplete, flashVars

LEMMA RecordTypes ==
    ASSUME zd \in Seq(Records), NEW k \in 2..Len(zd)
    PROVE  /\ zd[k] \in Records /\ zd[k].block \in Nat /\ zd[k].block \in Blocks
           /\ k \in DOMAIN zd /\ k \in Nat \ {0, 1} /\ Len(zd) \in Nat
<1>1. k \in 1..Len(zd) /\ k \in Nat \ {0, 1} /\ Len(zd) \in Nat
  OBVIOUS
<1>2. zd[k] \in Records
  BY <1>1
<1> QED BY <1>1, <1>2 DEF Records, Blocks

LEMMA ReadExtentsInv ==
    ASSUME ZdInv, read_extents
    PROVE  ZdInv'
<1> USE DEF ZdInv, ZdTypeOK, ToolTypes, FlashTypes, read_extents, flashVars
<1>1. pos = 1 /\ fpc = "off"
  BY DEF FlashInv
<1>2. FlashInv' /\ TableMeansComplete'
  BY <1>1, ToolFlashInv
<1>3. LastEblock(layout) \in 0..MaxBlock /\ MaxBlock \in Nat
  BY LastEblockIsLast, SizesAssumption
<1>4. used' = UNION {Occupies(layout.extents[k]) : k \in DOMAIN layout.extents}
  <2>1. \A k \in DOMAIN layout.extents : layout.extents[k] \in Extents
    BY LayoutAssumption
  <2>2. \A k \in DOMAIN layout.extents :
          process_extent(layout.extents[k]) = Occupies(layout.extents[k])
    BY <2>1, ProcessExtent
  <2> QED BY <2>2
<1>5. ZdTypeOK'
  <2>1. used' \subseteq Blocks
    BY <1>4 DEF Occupies
  <2>2. zd' = << >> /\ zd' \in Seq(Records) /\ Len(zd') = 0
    OBVIOUS
  <2> QED BY <1>1, <1>3, <2>1, <2>2
<1>6. SourceInv'
  BY <1>4 DEF SourceInv, Occupied
<1>7. FileInv'
  BY DEF FileInv
<1> QED BY <1>2, <1>5, <1>6, <1>7

(* A record appended to the file. *)
LEMMA Appended ==
    ASSUME zd \in Seq(Records), NEW b \in Blocks, NEW d \in {"zeros", "new"}, write_block(b, d)
    PROVE  /\ zd' \in Seq(Records) /\ Len(zd') = Len(zd) + 1 /\ Len(zd) \in Nat
           /\ \A k \in 1..Len(zd) : zd'[k] = zd[k]
           /\ zd'[Len(zd) + 1] = [block |-> b, data |-> d]
           /\ zd' # << >>
  BY DEF write_block, Records

LEMMA WipeTableInv ==
    ASSUME ZdInv, wipe_table
    PROVE  ZdInv'
<1> USE DEF ZdInv, ZdTypeOK, ToolTypes, FlashTypes, wipe_table, flashVars
<1>1. pos = 1 /\ fpc = "off"
  BY DEF FlashInv
<1>2. FlashInv' /\ TableMeansComplete'
  BY <1>1, ToolFlashInv
<1>3. zd = << >> /\ eblocks = LastEblock(layout) + 1 /\ eblocks \in 1..(MaxBlock + 1)
  BY LastEblockIsLast, SizesAssumption DEF FileInv, SourceInv
<1>4. 0 \in Blocks
  BY SizesAssumption DEF Blocks
<1>5. zd' \in Seq(Records) /\ Len(zd') = 1 /\ zd'[1] = [block |-> 0, data |-> "zeros"]
  BY <1>3, <1>4 DEF write_block, Records
<1>6. ZdTypeOK'
  BY <1>1, <1>3, <1>5, SizesAssumption
<1>7. SourceInv'
  BY DEF SourceInv
<1>8. FileInv'
  <2>1. \A b \in used \ {0} : ~ (b < block')
    BY SizesAssumption DEF Blocks
  <2>2. 2..Len(zd') = {} /\ zd' # << >>
    <3>1. 2..1 = {}
      OBVIOUS
    <3> QED BY <3>1, <1>4, <1>5, Appended
  <2>3. block' = 1 /\ eblocks' = eblocks /\ 1 \in 1..eblocks
    BY <1>3, SizesAssumption
  <2> QED BY <1>5, <2>1, <2>2, <2>3 DEF FileInv
<1> QED BY <1>2, <1>6, <1>7, <1>8

LEMMA HashBlockInv ==
    ASSUME ZdInv, hash_block
    PROVE  ZdInv'
<1> USE DEF ZdInv, ZdTypeOK, ToolTypes, FlashTypes, hash_block, flashVars
<1>1. pos = 1 /\ fpc = "off"
  BY DEF FlashInv
<1>2. FlashInv' /\ TableMeansComplete'
  BY <1>1, ToolFlashInv
<1>3. /\ block \in 1..eblocks /\ block < eblocks /\ eblocks \in 0..(MaxBlock + 1)
      /\ MaxBlock \in Nat /\ zd # << >> /\ Len(zd) \in Nat \ {0}
  BY SizesAssumption DEF FileInv
<1>4. SourceInv'
  BY DEF SourceInv
<1>5. CASE block \notin used
  <2>1. ZdTypeOK'
    BY <1>1, <1>3, <1>5
  <2>2. FileInv'
    <3>1. \A b \in used \ {0} : b < block' => b < block
      BY <1>3, <1>5 DEF Blocks
    <3>2. \A k \in 2..Len(zd) : zd[k].block < block'
      <4>1. \A k \in 2..Len(zd) : zd[k].block < block /\ zd[k].block \in Nat
        BY RecordTypes DEF FileInv
      <4> QED BY <4>1, <1>3
    <3> QED BY <1>3, <1>5, <3>1, <3>2 DEF FileInv
  <2> QED BY <1>2, <1>4, <2>1, <2>2
<1>6. CASE block \in used
  <2> DEFINE n == Len(zd)
  <2>1. write_block(block, "new") /\ block \in Blocks /\ block # 0 /\ block \in Occupied(layout)
    BY <1>3, <1>6 DEF SourceInv
  <2>2. /\ zd' \in Seq(Records) /\ Len(zd') = n + 1 /\ zd' # << >>
        /\ \A k \in 1..n : zd'[k] = zd[k]
        /\ zd'[n + 1] = [block |-> block, data |-> "new"]
    BY <2>1, Appended
  <2>3. ZdTypeOK'
    BY <1>1, <1>3, <2>2
  <2>4. \A k \in 2..n : zd'[k] = zd[k] /\ zd[k].block < block /\ zd[k].block \in Nat
    <3>1. \A k \in 2..n : zd[k].block \in Nat /\ k \in 1..n
      BY RecordTypes
    <3> QED BY <3>1, <2>2 DEF FileInv
  <2>5. \A k \in 2..Len(zd') : k \in 2..n \/ k = n + 1
    BY <1>3, <2>2
  <2>6. FileInv'
    <3>1. zd'[1] = [block |-> 0, data |-> "zeros"]
      BY <1>3, <2>2 DEF FileInv
    <3>2. \A k \in 2..Len(zd') : zd'[k].data = "new" /\ zd'[k].block \in Occupied(layout)
      BY <2>1, <2>2, <2>4, <2>5 DEF FileInv
    <3>3. \A j, k \in 2..Len(zd') : j < k /\ zd'[k].block # 0 => zd'[j].block < zd'[k].block
      <4>1. ASSUME NEW j \in 2..Len(zd'), NEW k \in 2..Len(zd'), j < k, zd'[k].block # 0
            PROVE  zd'[j].block < zd'[k].block
        <5>1. j \in 2..n
          BY <4>1, <2>5, <1>3
        <5>2. CASE k \in 2..n
          <6>1. zd[k].block # 0 /\ zd'[k] = zd[k] /\ zd'[j] = zd[j]
            BY <4>1, <5>1, <5>2, <2>4
          <6>2. zd[j].block < zd[k].block
            BY <4>1, <5>1, <5>2, <6>1 DEF FileInv
          <6> QED BY <6>1, <6>2
        <5>3. CASE k = n + 1
          BY <5>1, <5>3, <2>2, <2>4
        <5> QED BY <5>2, <5>3, <2>5
      <4> QED BY <4>1
    <3>4. \A k \in 2..Len(zd') : zd'[k].block # 0
      <4>1. \A k \in 2..n : zd[k].block # 0
        BY DEF FileInv
      <4>2. ASSUME NEW k \in 2..Len(zd'), k \in 2..n
            PROVE  zd'[k].block # 0
        BY <4>1, <4>2, <2>4
      <4>3. zd'[n + 1].block # 0
        BY <2>1, <2>2
      <4> HIDE DEF ZdInv, hash_block, n
      <4> QED BY <4>2, <4>3, <2>5
    <3>5. \A k \in 2..Len(zd') : zd'[k].block < block'
      BY <1>3, <2>2, <2>4, <2>5
    <3>6. ASSUME NEW b \in used \ {0}, b < block'
          PROVE  \E j \in 2..Len(zd') : zd'[j].block = b
      <4>1. CASE b = block
        BY <4>1, <2>2, <1>3
      <4>2. CASE b < block
        <5>1. PICK j \in 2..n : zd[j].block = b
          BY <4>2 DEF FileInv
        <5>2. j \in 2..Len(zd') /\ zd'[j] = zd[j]
          BY <5>1, <2>2, <2>4, <1>3
        <5> QED BY <5>1, <5>2
      <4>3. b \in Nat /\ block \in Nat /\ b < block + 1
        BY <3>6, <1>3 DEF Blocks
      <4>4. b = block \/ b < block
        BY <4>3
      <4> QED BY <4>1, <4>2, <4>4
    <3>7. block' \in 1..eblocks'
      BY <1>3
    <3> QED BY <3>1, <3>2, <3>3, <3>4, <3>5, <3>6, <3>7, <2>2 DEF FileInv
  <2> QED BY <1>2, <1>4, <2>3, <2>6
<1> QED BY <1>5, <1>6

LEMMA WriteTableInv ==
    ASSUME ZdInv, write_table
    PROVE  ZdInv'
<1> DEFINE n == Len(zd)
<1> USE DEF ZdInv, ZdTypeOK, ToolTypes, FlashTypes, write_table, flashVars
<1>1. pos = 1 /\ fpc = "off"
  BY DEF FlashInv
<1>2. FlashInv' /\ TableMeansComplete'
  BY <1>1, ToolFlashInv
<1>3. block = eblocks /\ eblocks \in Nat /\ zd # << >> /\ n \in Nat \ {0}
  BY SizesAssumption DEF FileInv
<1>4. 0 \in Blocks /\ 0 \in Occupied(layout)
  BY SizesAssumption, OccupiedBlocks DEF Blocks
<1>5. /\ zd' \in Seq(Records) /\ Len(zd') = n + 1 /\ zd' # << >>
      /\ \A k \in 1..n : zd'[k] = zd[k]
      /\ zd'[n + 1] = [block |-> 0, data |-> "new"]
  BY <1>4, Appended
<1>6. ZdTypeOK' /\ SourceInv'
  BY <1>1, <1>3, <1>5 DEF SourceInv
<1>7. \A k \in 2..n : zd'[k] = zd[k] /\ zd[k].block # 0
  <2>1. \A k \in 2..n : k \in 1..n
    BY RecordTypes
  <2> QED BY <2>1, <1>5 DEF FileInv
<1>8. \A k \in 2..Len(zd') : k \in 2..n \/ k = n + 1
  BY <1>3, <1>5
<1>9. FileInv'
  <2>1. zd'[1] = [block |-> 0, data |-> "zeros"]
    BY <1>3, <1>5 DEF FileInv
  <2>2. \A k \in 2..Len(zd') : zd'[k].data = "new" /\ zd'[k].block \in Occupied(layout)
    BY <1>4, <1>5, <1>7, <1>8 DEF FileInv
  <2>3. ASSUME NEW j \in 2..Len(zd'), NEW k \in 2..Len(zd'), j < k, zd'[k].block # 0
        PROVE  zd'[j].block < zd'[k].block
    <3>1. k \in 2..n
      BY <2>3, <1>5, <1>8
    <3>2. j \in 2..n
      BY <2>3, <3>1, <1>3, <1>8
    <3> QED BY <2>3, <3>1, <3>2, <1>7 DEF FileInv
  <2>4. ASSUME NEW k \in 2..Len(zd'), zd'[k].block = 0
        PROVE  k = Len(zd')
    BY <2>4, <1>5, <1>7, <1>8
  <2>5. ASSUME NEW b \in Occupied(layout) \ {0}
        PROVE  \E j \in 2..Len(zd') - 1 : zd'[j].block = b
    <3>1. b \in used \ {0} /\ b \in Nat
      BY OccupiedBlocks DEF SourceInv, Blocks
    <3>2. b <= LastEblock(layout)
      <4>1. PICK k \in DOMAIN layout.extents : b \in Occupies(layout.extents[k])
        BY <2>5 DEF Occupied
      <4>2. layout.extents[k] \in Extents
        BY LayoutAssumption
      <4> QED BY <4>1, <4>2, ProcessExtent, LastEblockIsLast
    <3>3. b < block
      BY <3>1, <3>2, <1>3, LastEblockIsLast, SizesAssumption DEF SourceInv
    <3>4. PICK j \in 2..n : zd[j].block = b
      BY <3>1, <3>3 DEF FileInv
    <3>5. j \in 2..Len(zd') - 1
      BY <3>4, <1>3, <1>5
    <3> QED BY <3>4, <3>5, <1>7
  <2> QED BY <2>1, <2>2, <2>3, <2>4, <2>5, <1>5 DEF FileInv
<1> QED BY <1>2, <1>6, <1>9

(* A file that loses its end is one of the files FileInv allows. *)
LEMMA TruncateInv ==
    ASSUME ZdInv, zpc \in {"wipe", "loop"}, NEW n \in 0..Len(zd), Truncate(n),
           failures' \in 0..MaxFailures
    PROVE  ZdInv'
<1> USE DEF ZdInv, ZdTypeOK, ToolTypes, FlashTypes, Truncate, flashVars
<1>1. pos = 1 /\ fpc = "off"
  BY DEF FlashInv
<1>2. FlashInv' /\ TableMeansComplete'
  BY <1>1, ToolFlashInv
<1>3. /\ zd' \in Seq(Records) /\ Len(zd') = n /\ n \in Nat /\ n <= Len(zd) /\ Len(zd) \in Nat
      /\ \A k \in 1..n : zd'[k] = zd[k]
  OBVIOUS
<1>4. ZdTypeOK' /\ SourceInv'
  BY <1>1, <1>3 DEF SourceInv
<1>5. \A k \in 2..n : k \in 2..Len(zd) /\ k \in 1..n
  BY <1>3
<1>6. \A k \in 2..n : zd'[k] = zd[k] /\ zd[k].block # 0
  BY <1>3, <1>5 DEF FileInv
<1>7. zd' # << >> => zd # << >> /\ zd'[1] = zd[1]
  BY <1>3
<1>8. FileInv'
  BY <1>3, <1>5, <1>6, <1>7 DEF FileInv
<1> QED BY <1>2, <1>4, <1>8

LEMMA ToolInv ==
    ASSUME ZdInv, ToolNext
    PROVE  ZdInv'
<1>1. CASE read_extents
  BY <1>1, ReadExtentsInv
<1>2. CASE wipe_table
  BY <1>2, WipeTableInv
<1>3. CASE hash_block
  BY <1>3, HashBlockInv
<1>4. CASE write_table
  BY <1>4, WriteTableInv
<1>5. CASE zhashfs_fails
  <2>1. failures' \in 0..MaxFailures
    BY <1>5, SizesAssumption DEF zhashfs_fails, ZdInv, ZdTypeOK, ToolTypes
  <2> QED BY <1>5, <2>1, TruncateInv DEF zhashfs_fails
<1>6. CASE zhashfs_aborts
  <2>1. failures' \in 0..MaxFailures
    BY <1>6 DEF zhashfs_aborts, ZdInv, ZdTypeOK, ToolTypes
  <2> QED BY <1>6, <2>1, TruncateInv DEF zhashfs_aborts
<1>7. CASE zhashfs_again
  <2> USE <1>7 DEF zhashfs_again, ZdInv, ZdTypeOK, ToolTypes, FlashTypes, flashVars
  <2>1. pos = 1
    BY DEF FlashInv
  <2>2. FlashInv' /\ TableMeansComplete'
    BY <2>1, ToolFlashInv
  <2>3. ZdTypeOK'
    BY SizesAssumption
  <2>4. SourceInv' /\ FileInv'
    BY DEF SourceInv, FileInv
  <2> QED BY <2>2, <2>3, <2>4
<1> QED BY <1>1, <1>2, <1>3, <1>4, <1>5, <1>6, <1>7 DEF ToolNext

-----------------------------------------------------------------------------
(* The firmware *)

\* the firmware leaves the file alone
LEMMA FlashKeepsFile ==
    ASSUME ZdInv, UNCHANGED toolVars
    PROVE  ToolTypes' /\ SourceInv' /\ FileInv'
  BY DEF ZdInv, ZdTypeOK, ToolTypes, SourceInv, FileInv, toolVars

(* Where the record is, and what that says about the disk. *)
LEMMA RecordAt ==
    ASSUME ZdInv, pos <= Len(zd)
    PROVE  /\ pos \in Nat \ {0} /\ pos \in DOMAIN zd /\ Len(zd) \in Nat
           /\ zd[pos] \in Records /\ zd[pos].block \in Blocks
           /\ pos = 1 => zd[pos] = [block |-> 0, data |-> "zeros"]
           /\ pos # 1 => pos \in 2..Len(zd) /\ zd[pos].data = "new" /\ disk[0] = "zeros"
<1> USE DEF ZdInv, ZdTypeOK, ToolTypes, FlashTypes
<1>1. pos \in Nat \ {0} /\ pos \in DOMAIN zd /\ Len(zd) \in Nat /\ zd # << >>
  OBVIOUS
<1>2. zd[pos] \in Records
  BY <1>1
<1>3. pos # 1 => pos \in 2..Len(zd)
  BY <1>1
<1> QED BY <1>1, <1>2, <1>3 DEF FileInv, FlashInv, Records

LEMMA ApplyRecordInv ==
    ASSUME ZdInv, apply_record
    PROVE  ZdInv'
<1> USE DEF apply_record
<1> DEFINE b == zd[pos].block
<1>1. ToolTypes' /\ SourceInv' /\ FileInv'
  BY FlashKeepsFile
<1>2. /\ pos \in Nat \ {0} /\ pos \in DOMAIN zd /\ Len(zd) \in Nat /\ pos <= Len(zd)
      /\ zd[pos] \in Records /\ b \in Blocks /\ 0 \in Blocks
  BY RecordAt, SizesAssumption DEF Blocks
<1>3. /\ disk \in [Blocks -> {"old", "zeros", "new", "torn"}]
      /\ disk' = [disk EXCEPT ![b] = zd[pos].data] /\ pos' = pos + 1
      /\ zd' = zd /\ layout' = layout /\ zpc' = zpc /\ fpc' = fpc /\ fpc = "flash"
      /\ layout \in Layouts
  BY DEF ZdInv, ZdTypeOK, ToolTypes, FlashTypes, toolVars
<1>4. ZdTypeOK'
  <2>1. disk' \in [Blocks -> {"old", "zeros", "new", "torn"}]
    BY <1>2, <1>3 DEF Records
  <2>2. pos' \in 1..(Len(zd') + 1)
    BY <1>2, <1>3
  <2> QED BY <1>1, <2>1, <2>2 DEF ZdInv, ZdTypeOK, FlashTypes
<1>5. \A k \in 2..pos' - 1 : k \in 2..pos - 1 \/ k = pos
  BY <1>2, <1>3
<1>6. CASE pos = 1
  <2>1. b = 0 /\ disk'[0] = "zeros"
    BY <1>2, <1>3, <1>6, RecordAt
  <2>2. 2..pos' - 1 = {}
    BY <1>3, <1>6
  <2>3. FlashInv'
    BY <1>3, <2>1, <2>2 DEF FlashInv, ZdInv
  <2>4. TableMeansComplete'
    BY <1>3, <2>1 DEF TableMeansComplete
  <2> QED BY <1>1, <1>4, <2>3, <2>4 DEF ZdInv
<1>7. CASE pos # 1
  <2>1. pos \in 2..Len(zd) /\ zd[pos].data = "new" /\ disk[0] = "zeros"
    BY <1>2, <1>7, RecordAt
  <2>2. \A k \in 2..pos - 1 : zd[k].block \in Blocks /\ disk[zd[k].block] = "new"
    <3>1. \A k \in 2..pos - 1 : k \in 2..Len(zd)
      BY <1>2
    <3> QED BY <3>1, RecordTypes DEF ZdInv, FlashInv, ZdTypeOK, ToolTypes
  <2>3. \A k \in 2..pos' - 1 : disk'[zd[k].block] = "new"
    BY <1>2, <1>3, <1>5, <2>1, <2>2
  <2>4. b = 0 => /\ pos = Len(zd)
                 /\ \A c \in Occupied(layout) \ {0} : \E j \in 2..Len(zd) - 1 : zd[j].block = c
    BY <2>1 DEF ZdInv, FileInv
  <2>5. FlashInv'
    <3>1. pos' \in 2..Len(zd) => disk'[0] = "zeros"
      BY <1>2, <1>3, <2>1, <2>4
    <3> QED BY <1>3, <2>3, <3>1 DEF FlashInv, ZdInv
  <2>6. TableMeansComplete'
    <3>1. CASE b # 0
      BY <1>2, <1>3, <2>1, <3>1 DEF TableMeansComplete
    <3>2. CASE b = 0
      <4>1. disk'[0] = "new"
        BY <1>2, <1>3, <2>1, <3>2
      <4>2. ASSUME NEW c \in Occupied(layout) \ {0} PROVE disk'[c] = "new"
        <5>1. PICK j \in 2..Len(zd) - 1 : zd[j].block = c
          BY <2>4, <3>2
        <5>2. j \in 2..pos' - 1
          BY <1>2, <1>3, <5>1, SMTT(30)
        <5> QED BY <2>3, <5>1, <5>2
      <4> QED BY <1>3, <4>1, <4>2 DEF TableMeansComplete
    <3> QED BY <3>1, <3>2
  <2> QED BY <1>1, <1>4, <2>5, <2>6 DEF ZdInv
<1> QED BY <1>6, <1>7

LEMMA FlashCrashesInv ==
    ASSUME ZdInv, flash_crashes
    PROVE  ZdInv'
<1>1. ToolTypes' /\ SourceInv' /\ FileInv'
  BY FlashKeepsFile DEF flash_crashes
<1>2. /\ zd' = zd /\ layout' = layout /\ zpc' = zpc
      /\ fpc' = "off" /\ pos' = 1 /\ crashes' \in 0..MaxCrashes
      /\ layout \in Layouts /\ 0 \in Blocks
      /\ disk \in [Blocks -> {"old", "zeros", "new", "torn"}]
  BY SizesAssumption DEF flash_crashes, ZdInv, ZdTypeOK, ToolTypes, FlashTypes, toolVars, Blocks
<1>3. FlashInv'
  BY <1>2 DEF FlashInv
<1>4. CASE disk' = disk
  BY <1>1, <1>2, <1>3, <1>4
  DEF ZdInv, ZdTypeOK, FlashTypes, ToolTypes, TableMeansComplete
<1>5. CASE pos \in DOMAIN zd /\ disk' = [disk EXCEPT ![zd[pos].block] = "torn"]
  <2>1. zd[pos].block \in Blocks /\ (zd[pos].block = 0 \/ disk[0] = "zeros")
    <3>1. pos <= Len(zd)
      BY <1>5 DEF ZdInv, ZdTypeOK, ToolTypes
    <3> QED BY <3>1, RecordAt
  <2>2. disk'[0] \in {"zeros", "torn"} /\ disk' \in [Blocks -> {"old", "zeros", "new", "torn"}]
    BY <1>2, <1>5, <2>1
  <2>3. ZdTypeOK'
    BY <1>1, <1>2, <2>2 DEF ZdTypeOK, FlashTypes, ToolTypes, ZdInv
  <2>4. TableMeansComplete'
    BY <2>2 DEF TableMeansComplete
  <2> QED BY <1>1, <1>3, <2>3, <2>4 DEF ZdInv
<1> QED BY <1>4, <1>5 DEF flash_crashes

LEMMA FirmwareInv ==
    ASSUME ZdInv, FlashNext
    PROVE  ZdInv'
<1>1. CASE flash
  <2>1. ToolTypes' /\ SourceInv' /\ FileInv'
    BY <1>1, FlashKeepsFile DEF flash
  <2>2. ZdTypeOK' /\ TableMeansComplete'
    BY <1>1, <2>1
    DEF flash, ZdInv, ZdTypeOK, FlashTypes, ToolTypes, toolVars, TableMeansComplete
  <2>3. FlashInv'
    BY <1>1 DEF flash, ZdInv, FlashInv, toolVars
  <2> QED BY <2>1, <2>2, <2>3 DEF ZdInv
<1>2. CASE apply_record
  BY <1>2, ApplyRecordInv
<1>3. CASE flash_ends
  <2>1. ToolTypes' /\ SourceInv' /\ FileInv'
    BY <1>3, FlashKeepsFile DEF flash_ends
  <2>2. ZdTypeOK' /\ TableMeansComplete'
    BY <1>3, <2>1
    DEF flash_ends, ZdInv, ZdTypeOK, FlashTypes, ToolTypes, toolVars, TableMeansComplete
  <2>3. FlashInv'
    BY <1>3 DEF flash_ends, FlashInv, toolVars
  <2> QED BY <2>1, <2>2, <2>3 DEF ZdInv
<1>4. CASE flash_crashes
  BY <1>4, FlashCrashesInv
<1> QED BY <1>1, <1>2, <1>3, <1>4 DEF FlashNext

LEMMA ZdStepInv == ZdInv /\ [ZdNext]_zdVars => ZdInv'
<1> SUFFICES ASSUME ZdInv, [ZdNext]_zdVars PROVE ZdInv'
  OBVIOUS
<1>1. CASE UNCHANGED zdVars
  <2>1. ToolTypes' /\ SourceInv' /\ FileInv'
    BY <1>1, FlashKeepsFile DEF zdVars
  <2>2. FlashTypes' /\ FlashInv' /\ TableMeansComplete'
    BY <1>1 DEF zdVars, toolVars, flashVars, ZdInv, ZdTypeOK, FlashTypes, FlashInv, TableMeansComplete
  <2> QED BY <2>1, <2>2 DEF ZdInv, ZdTypeOK
<1>2. CASE ZdNext
  BY <1>2, ToolInv, FirmwareInv DEF ZdNext
<1> QED BY <1>1, <1>2

-----------------------------------------------------------------------------
(* What follows from the invariant *)

LEMMA InvFileHasImage == ZdInv => FileHasImage
<1> SUFFICES ASSUME ZdInv, zpc = "done", zd # << >>, zd[Len(zd)] = [block |-> 0, data |-> "new"]
             PROVE  /\ zd[1] = [block |-> 0, data |-> "zeros"]
                    /\ {zd[k].block : k \in DOMAIN zd} = Occupied(layout)
                    /\ \A j, k \in 2..Len(zd) - 1 : j < k => zd[j].block < zd[k].block
  BY DEF FileHasImage
<1> USE DEF ZdInv, ZdTypeOK, ToolTypes
<1>1. zd[1] = [block |-> 0, data |-> "zeros"]
  BY DEF FileInv
<1>2. Len(zd) \in Nat /\ DOMAIN zd = 1..Len(zd) /\ Len(zd) # 0
  OBVIOUS
<1>3. Len(zd) \in 2..Len(zd) /\ zd[Len(zd)].block = 0
  BY <1>1, <1>2
<1>4. \A b \in Occupied(layout) \ {0} : \E j \in 2..Len(zd) - 1 : zd[j].block = b
  BY <1>3 DEF FileInv
<1>5. \A k \in 2..Len(zd) - 1 : k \in 2..Len(zd) /\ k \in DOMAIN zd /\ k # Len(zd)
  <2>1. \A n \in Nat : \A k \in 2..n - 1 : k \in 2..n /\ k # n
    OBVIOUS
  <2>2. \A k \in 2..Len(zd) - 1 : k \in 2..Len(zd) /\ k # Len(zd)
    BY <1>2, <2>1
  <2> QED BY <2>2, RecordTypes
<1>6. \A j, k \in 2..Len(zd) - 1 : j < k => zd[j].block < zd[k].block
  BY <1>5 DEF FileInv
<1>7. \A k \in DOMAIN zd : zd[k].block \in Occupied(layout)
  <2>1. \A k \in DOMAIN zd : k = 1 \/ k \in 2..Len(zd)
    BY <1>2
  <2> QED BY <2>1, <1>1, OccupiedBlocks DEF FileInv
<1>8. \A b \in Occupied(layout) : \E k \in DOMAIN zd : zd[k].block = b
  <2>1. 1 \in DOMAIN zd /\ zd[1].block = 0
    BY <1>1, <1>2
  <2> QED BY <2>1, <1>4, <1>5
<1> QED BY <1>1, <1>6, <1>7, <1>8

\* the places of a block's records in the file, and the last of some places
PlacesOf(b) == {k \in DOMAIN zd : zd[k].block = b}
LastPlace(at) == CHOOSE k \in at : \A j \in at : j <= k

(* In a finished file the last record of a block holds its data.           *)
LEMMA LastOfBlock ==
    ASSUME ZdInv, zpc = "done", zd # << >>, zd[Len(zd)] = [block |-> 0, data |-> "new"],
           NEW b \in Nat
    PROVE  /\ b \notin Occupied(layout) => PlacesOf(b) = {}
           /\ b \in Occupied(layout) =>
                /\ PlacesOf(b) # {}
                /\ zd[LastPlace(PlacesOf(b))] = [block |-> b, data |-> "new"]
<1> USE DEF ZdInv, ZdTypeOK, ToolTypes
<1> DEFINE n == Len(zd)
           at == PlacesOf(b)
           LastAt(k) == \A j \in at : j <= k
<1>1. FileHasImage
  BY InvFileHasImage
<1>2. n \in Nat \ {0} /\ DOMAIN zd = 1..n /\ n \in 2..n /\ zd[1].block = 0
  <2>1. zd[1] = [block |-> 0, data |-> "zeros"]
    BY DEF FileInv
  <2> QED BY <2>1
<1>3. b \notin Occupied(layout) => at = {}
  BY <1>1 DEF FileHasImage, PlacesOf
<1>4. ASSUME b \in Occupied(layout)
      PROVE  \E k \in at : LastAt(k) /\ zd[k] = [block |-> b, data |-> "new"]
  <2>1. CASE b = 0
    <3>1. n \in at /\ LastAt(n)
      BY <1>2, <2>1 DEF PlacesOf
    <3> QED BY <3>1, <2>1
  <2>2. CASE b # 0
    <3>1. PICK k \in DOMAIN zd : zd[k].block = b
      BY <1>1, <1>4 DEF FileHasImage
    <3>2. \A j \in at : j \in 2..n
      BY <1>2, <2>2 DEF PlacesOf
    <3>3. k \in at /\ k \in 2..n
      BY <3>1, <3>2 DEF PlacesOf
    <3>4. \A j \in at : ~ (k < j)
      BY <3>1, <3>2, <3>3, <2>2 DEF FileInv, PlacesOf
    <3>5. LastAt(k)
      BY <3>2, <3>3, <3>4
    <3>6. zd[k] \in Records /\ zd[k].data = "new"
      BY <3>3, RecordTypes DEF FileInv
    <3>7. zd[k] = [block |-> b, data |-> "new"]
      BY <3>1, <3>6 DEF Records
    <3> QED BY <3>3, <3>5, <3>7
  <2> QED BY <2>1, <2>2
<1>5. ASSUME b \in Occupied(layout)
      PROVE  at # {} /\ zd[LastPlace(at)] = [block |-> b, data |-> "new"]
  <2>1. PICK k \in at : LastAt(k) /\ zd[k] = [block |-> b, data |-> "new"]
    BY <1>4, <1>5
  <2>2. \A j \in at : LastAt(j) => j = k
    <3>1. \A j \in at : j \in Nat
      BY <1>2 DEF PlacesOf
    <3> QED BY <2>1, <3>1
  <2>3. LastPlace(at) = k
    <3> HIDE DEF at
    <3> QED BY <2>1, <2>2 DEF LastPlace
  <2> QED BY <2>1, <2>3
<1> QED BY <1>3, <1>5

LEMMA InvExtractedRange == ZdInv => ExtractedRange
<1> SUFFICES ASSUME ZdInv, zpc = "done", zd # << >>,
                    zd[Len(zd)] = [block |-> 0, data |-> "new"],
                    NEW start \in Blocks, NEW length \in 0..(MaxBlock - start),
                    NEW o \in Offsets
             PROVE  Extract(zd, start, start + length)[o] =
                        IF o <= length /\ start + o \in Occupied(layout)
                        THEN [block |-> start + o, data |-> "new"]
                        ELSE None
  BY DEF ExtractedRange
<1> DEFINE at == {k \in DOMAIN zd : /\ Wanted(zd[k], start, start + length)
                                     /\ seek_offset(zd[k], start) = o}
           of == PlacesOf(start + o)
<1>1. start \in Nat /\ length \in Nat /\ o \in Nat /\ start # -1
  BY SizesAssumption DEF Blocks, Offsets
<1>2. \A k \in DOMAIN zd : zd[k].block \in Nat
  <2>1. zd \in Seq(Records)
    BY DEF ZdInv, ZdTypeOK, ToolTypes
  <2>2. \A k \in DOMAIN zd : zd[k] \in Records
    BY <2>1
  <2>3. \A r \in Records : r.block \in Nat
    BY DEF Records, Blocks
  <2> QED BY <2>2, <2>3
<1>3. at = IF o <= length THEN of ELSE {}
  <2>1. \A x \in Nat : (x \in start..(start + length) /\ x - start = o)
                       <=> (o <= length /\ x = start + o)
    BY <1>1
  <2>2. \A k \in DOMAIN zd : (/\ Wanted(zd[k], start, start + length)
                              /\ seek_offset(zd[k], start) = o)
                             <=> (o <= length /\ zd[k].block = start + o)
    BY <1>1, <1>2, <2>1 DEF Wanted, seek_offset
  <2> QED BY <2>2 DEF PlacesOf
<1>4. Extract(zd, start, start + length)[o]
      = IF at = {} THEN None ELSE zd[LastPlace(at)]
  BY DEF Extract, LastPlace
<1> HIDE DEF at, of
<1>5. CASE o <= length
  <2>1. at = of /\ start + o \in Nat
    BY <1>1, <1>3, <1>5
  <2>2. Extract(zd, start, start + length)[o]
        = IF of = {} THEN None ELSE zd[LastPlace(of)]
    BY <1>4, <2>1
  <2> QED BY <2>1, <2>2, <1>5, LastOfBlock DEF of
<1>6. CASE ~ (o <= length)
  BY <1>3, <1>4, <1>6
<1> QED BY <1>5, <1>6

(* A block up to the last one that holds data can be read in full. *)
LEMMA ReadsInFull ==
    ASSUME ZdInv, zpc = "loop", layout.length > 0, NEW b \in Blocks, b <= LastEblock(layout)
    PROVE  read_block(b) = zblocksize
<1> DEFINE z == zblocksize
           last == LastEblock(layout)
<1>1. z \in Nat \ {0} /\ last \in Nat /\ b \in Nat /\ eblocks = last + 1
  BY LastEblockIsLast, SizesAssumption DEF ZdInv, ZdTypeOK, ToolTypes, SourceInv, Blocks
<1>2. z * last < layout.length /\ layout.length \in Nat
  BY LastEblockIsLast, LayoutAssumption DEF ZdInv, ZdTypeOK, ToolTypes
<1>3. z * b \in Nat /\ z * last \in Nat /\ z * (b + 1) \in Nat /\ z * (b + 1) = z * b + z
  BY <1>1, MulMono
<1> HIDE DEF z, last
<1>4. CASE b = last
  <2>1. z * b < layout.length /\ b = eblocks - 1
    BY <1>1, <1>2, <1>4
  <2>2. Found(b) # 0
    BY <1>1, <1>2, <1>3, <2>1 DEF Found, z
  <2> QED BY <2>1, <2>2 DEF read_block, z
<1>5. CASE b < last
  <2>1. b + 1 <= last /\ b + 1 \in Nat
    BY <1>1, <1>5
  <2>2. z * (b + 1) <= z * last
    BY <1>1, <2>1, MulMono
  <2>3. layout.length >= z * (b + 1)
    BY <2>2, <1>2, <1>3
  <2>4. Found(b) = z
    BY <2>3 DEF Found, z
  <2> QED BY <2>4 DEF read_block, z
<1> QED BY <1>1, <1>4, <1>5 DEF z, last

LEMMA InvNoCheckFails == ZdInv => NoCheckFails
<1> SUFFICES ASSUME ZdInv, zpc = "loop", layout.length > 0
             PROVE  /\ block < eblocks /\ block \in used => read_block(block) = zblocksize
                    /\ block >= eblocks => read_block(0) = zblocksize
  BY DEF NoCheckFails
<1>1. /\ eblocks = LastEblock(layout) + 1 /\ LastEblock(layout) \in Nat
      /\ used \subseteq Blocks /\ 0 \in Blocks /\ \A b \in Blocks : b \in Nat
  BY LastEblockIsLast, SizesAssumption DEF ZdInv, ZdTypeOK, ToolTypes, SourceInv, Blocks
<1>2. 0 <= LastEblock(layout)
  BY <1>1
<1>3. \A b \in Blocks : b < eblocks => b <= LastEblock(layout)
  BY <1>1
<1> QED BY <1>1, <1>2, <1>3, ReadsInFull

(* Initial states map to initial states of the atomic update. *)
LEMMA AtomicInit == ZdInit => Atomic!Init
<1> SUFFICES ASSUME ZdInit PROVE Atomic!Init
  OBVIOUS
<1>1. 0 \in Blocks /\ \A b \in Blocks : disk[b] = "old"
  BY SizesAssumption DEF ZdInit, Blocks
<1>2. Boots = "old" /\ Data \in {"old", "new"}
  BY <1>1 DEF Boots, Data
<1> QED BY <1>2 DEF Atomic!Init

\* a step that leaves all but block 0 keeps the data behind the table
LEMMA DataKept ==
    ASSUME layout' = layout, layout \in Layouts, \A b \in Blocks \ {0} : disk'[b] = disk[b]
    PROVE  Data' = Data
<1>1. Occupied(layout) \subseteq Blocks
  BY OccupiedBlocks
<1> QED BY <1>1 DEF Data

LEMMA DataTypes == Data \in {"old", "mixed", "new"}
  BY DEF Data

(* A write to the disk is a wipe, a write or the commit of the atomic      *)
(* update, as the block and the disk's first one say.                      *)
LEMMA WriteIsAtomic ==
    ASSUME ZdInv, layout' = layout, NEW b \in Blocks, NEW d \in {"zeros", "new", "torn"},
           disk' = [disk EXCEPT ![b] = d],
           b # 0 => disk[0] = "zeros",
           b = 0 /\ d = "new" => disk[0] = "zeros" /\ TableMeansComplete'
    PROVE  Atomic!Next
<1>1. /\ disk \in [Blocks -> {"old", "zeros", "new", "torn"}] /\ 0 \in Blocks
      /\ layout \in Layouts
  BY SizesAssumption DEF ZdInv, ZdTypeOK, ToolTypes, FlashTypes, Blocks
<1>2. CASE b # 0
  <2>1. disk[0] = "zeros" /\ disk'[0] = "zeros"
    BY <1>1, <1>2
  <2>2. Boots = None /\ Boots' = None
    BY <2>1 DEF Boots
  <2>3. Data' \in {"old", "mixed", "new"}
    BY DEF Data
  <2> QED BY <2>2, <2>3 DEF Atomic!Next, Atomic!Write
<1>3. CASE b = 0
  <2>1. disk'[0] = d /\ \A c \in Blocks \ {0} : disk'[c] = disk[c]
    BY <1>1, <1>3
  <2>2. Data' = Data
    BY <1>1, <2>1, DataKept
  <2>3. CASE d # "new"
    <3>1. Boots' = None
      BY <2>1, <2>3 DEF Boots
    <3> QED BY <2>2, <3>1 DEF Atomic!Next, Atomic!Wipe
  <2>4. CASE d = "new"
    <3>1. Boots = None /\ Boots' = "new"
      BY <1>3, <2>1, <2>4 DEF Boots
    <3>2. Data' = "new"
      BY <1>1, <1>3, <2>1, <2>4 DEF TableMeansComplete, Data
    <3> QED BY <2>2, <3>1, <3>2 DEF Atomic!Next, Atomic!Commit
  <2> QED BY <2>3, <2>4
<1> QED BY <1>2, <1>3

(* Every step of the two programs is a step of the atomic update or none.  *)
LEMMA AtomicStep == ZdInv /\ ZdInv' /\ [ZdNext]_zdVars => [Atomic!Next]_(Atomic!vars)
<1> SUFFICES ASSUME ZdInv, ZdInv', [ZdNext]_zdVars PROVE [Atomic!Next]_(Atomic!vars)
  OBVIOUS
<1>1. layout' = layout
  BY DEF zdVars, toolVars, ZdNext, ToolNext, FlashNext, read_extents, wipe_table, hash_block,
         write_table, zhashfs_fails, zhashfs_aborts, zhashfs_again, Truncate, flash,
         apply_record, flash_ends, flash_crashes
<1>2. CASE disk' = disk
  BY <1>1, <1>2 DEF Boots, Data, Atomic!vars
<1>3. CASE apply_record
  <2>1. zd[pos].block \in Blocks /\ zd[pos].data \in {"zeros", "new"}
    BY <1>3, RecordAt DEF apply_record, Records
  <2>2. /\ zd[pos].block # 0 => disk[0] = "zeros"
        /\ zd[pos].block = 0 /\ zd[pos].data = "new" => disk[0] = "zeros"
    BY <1>3, RecordAt DEF apply_record
  <2>3. Atomic!Next
    BY <1>1, <1>3, <2>1, <2>2, WriteIsAtomic DEF apply_record, ZdInv
  <2> QED BY <2>3
<1>4. CASE flash_crashes /\ disk' # disk
  <2>1. pos \in DOMAIN zd /\ disk' = [disk EXCEPT ![zd[pos].block] = "torn"]
    BY <1>4 DEF flash_crashes
  <2>2. pos <= Len(zd)
    BY <2>1 DEF ZdInv, ZdTypeOK, ToolTypes
  <2>3. zd[pos].block \in Blocks /\ (zd[pos].block # 0 => disk[0] = "zeros")
    BY <2>2, RecordAt
  <2>4. Atomic!Next
    BY <1>1, <2>1, <2>3, WriteIsAtomic
  <2> QED BY <2>4
<1> QED BY <1>2, <1>3, <1>4
        DEF zdVars, flashVars, ZdNext, ToolNext, FlashNext, read_extents, wipe_table, hash_block,
            write_table, zhashfs_fails, zhashfs_aborts, zhashfs_again, Truncate, flash, flash_ends

-----------------------------------------------------------------------------
(* The boot scripts: a file system is torn only in a partition that fills  *)
(* the disk, so the boot that finds it so does not run sfdisk, unless its  *)
(* query fails, and has the node e2fsck needs.                             *)
BootInv ==
    /\ BootTypeOK
    /\ mounted => bpc = "up"
    /\ part # Full => fs = part /\ clean
    /\ fs <= part
    /\ bpc # "off" => kpart <= part /\ fs <= kpart
    /\ bpc \in {"check", "sfdisk"} => node
    /\ bpc = "sfdisk" => part # Full \/ Harmed
    /\ bpc \in {"system", "e2fsck"} => clean \/ node \/ Harmed
    /\ bpc \in {"resize2fs", "mount", "up"} => clean \/ Harmed

LEMMA Geometry ==
    /\ Full \in Nat /\ ImagePart \in 0..Full /\ Full \in 0..Full /\ PartStart \in Nat
    /\ PartStart + Full = DiskSize /\ DiskSize - PartStart = Full
    /\ \A p \in 0..Full : (PartStart + p - 1) + 1 = DiskSize <=> p = Full
    /\ MaxFaults \in Nat /\ MaxOffs \in Nat
  BY GeometryAssumption DEF Full

LEMMA BootInitInv == BootInit => BootInv
<1> SUFFICES ASSUME BootInit PROVE BootInv
  OBVIOUS
<1>1. part \in 0..Full /\ kpart = part /\ fs = part
  BY Geometry DEF BootInit
<1>2. BootTypeOK
  <2>1. 0 \in 0..MaxFaults /\ 0 \in 0..MaxOffs
    BY Geometry
  <2>2. bpc \in Places /\ {node, clean, mounted} \subseteq BOOLEAN
    BY DEF BootInit, Places
  <2> QED BY <1>1, <2>1, <2>2 DEF BootInit, BootTypeOK
<1> QED BY <1>1, <1>2 DEF BootInit, BootInv

(* A command that fails is counted, and remembered for the boot; what was  *)
(* remembered is not forgotten by a step of the scripts.                   *)
LEMMA FaultCounted ==
    ASSUME BootTypeOK, NEW f \in AllBootFaults, Fault(f)
    PROVE  /\ faults' \in 0..MaxFaults /\ failed' \subseteq AllBootFaults
           /\ f \in failed'
           /\ Harmed => Harmed'
           /\ f \in {"query", "system", "e2fsck", "resize2fs"} => Harmed'
<1>1. faults' \in 0..MaxFaults
  BY GeometryAssumption DEF Fault, BootTypeOK
<1>2. failed' = failed \union {f}
  BY DEF Fault
<1> QED BY <1>1, <1>2 DEF Harmed, BootTypeOK

LEMMA NoFaultKeeps ==
    ASSUME BootTypeOK, NoFault
    PROVE  /\ faults' \in 0..MaxFaults /\ failed' \subseteq AllBootFaults
           /\ Harmed' <=> Harmed
  BY DEF NoFault, Harmed, BootTypeOK

LEMMA BootStepInv ==
    ASSUME BootInv, BootNext
    PROVE  BootInv'
<1> DEFINE Counted == faults' \in 0..MaxFaults /\ failed' \subseteq AllBootFaults
<1>0. BootTypeOK
  BY DEF BootInv
<1>f. ASSUME NEW f \in AllBootFaults, Fault(f)
      PROVE  /\ Counted /\ (Harmed => Harmed')
             /\ f \in {"query", "system", "e2fsck", "resize2fs"} => Harmed'
  BY <1>0, <1>f, FaultCounted
<1>n. NoFault => Counted /\ (Harmed' <=> Harmed)
  BY <1>0, NoFaultKeeps
<1>i. UNCHANGED <<failed, faults>> => Counted /\ (Harmed' <=> Harmed)
  BY <1>n DEF NoFault
<1> HIDE DEF Counted
<1> USE DEF BootInv, BootTypeOK, Places, BootGo, AllBootFaults
<1>1. CASE boot
  BY <1>1, <1>i, Geometry DEF boot, Counted
<1>2. CASE should_resize_partition
  <2>1. (PartStart + part - 1) + 1 = DiskSize <=> part = Full
    BY Geometry
  <2>2. CASE Fault("query")
    <3>1. Counted /\ Harmed'
      BY <2>2, <1>f
    <3>2. bpc = "check" /\ bpc' \in {"system", "sfdisk"}
      BY <1>2 DEF should_resize_partition
    <3> QED BY <1>2, <3>1, <3>2 DEF should_resize_partition, Counted
  <2>3. CASE NoFault /\ BootGo("check", IF (PartStart + part - 1) + 1 = DiskSize THEN "system" ELSE "sfdisk")
    <3>1. Counted /\ (Harmed' <=> Harmed)
      BY <2>3, <1>n
    <3> QED BY <1>2, <2>1, <2>3, <3>1 DEF should_resize_partition, Counted
  <2> QED BY <1>2, <2>2, <2>3 DEF should_resize_partition
<1>3. CASE resize_partition
  <2>1. Counted /\ (Harmed => Harmed')
    BY <1>3, <1>f, <1>n DEF resize_partition
  <2>2. DiskSize - PartStart = Full /\ Full \in 0..Full /\ fs <= Full /\ kpart <= Full
    BY Geometry
  <2>3. part' \in {part, Full} /\ kpart' \in {kpart, part'} /\ (clean \/ Harmed) /\ bpc' = "system"
    BY <1>3, <2>2 DEF resize_partition
  <2>4. /\ UNCHANGED <<fs, clean, mounted, offs>> /\ node' \in BOOLEAN /\ bpc = "sfdisk"
        /\ part' = part => kpart' \in {kpart, part}
        /\ node' \in {node, FALSE}
    BY <1>3 DEF resize_partition
  <2>5. BootTypeOK'
    BY <2>1, <2>2, <2>3, <2>4 DEF Counted
  <2>6. part' # Full => fs' = part' /\ clean'
    BY <2>2, <2>3, <2>4
  <2> QED BY <2>1, <2>2, <2>3, <2>4, <2>5, <2>6
<1>4. CASE ueventd
  BY <1>4, <1>i DEF ueventd, Counted
<1>5. CASE mount_system
  <2>1. Counted /\ (Harmed => Harmed') /\ (bpc' = "mount" => Harmed')
    BY <1>5, <1>f, <1>n DEF mount_system
  <2> QED BY <1>5, <2>1 DEF mount_system, Counted
<1>6. CASE e2fsck
  <2>1. Counted /\ (Harmed => Harmed')
    BY <1>6, <1>f, <1>n DEF e2fsck
  <2>2. clean' \/ Harmed'
    BY <1>6, <2>1, <1>f DEF e2fsck
  <2>3. clean' \in BOOLEAN /\ (clean => clean')
    BY <1>6 DEF e2fsck
  <2> QED BY <1>6, <2>1, <2>2, <2>3 DEF e2fsck, Counted
<1>7. CASE resize2fs
  <2>1. Counted /\ (Harmed => Harmed')
    BY <1>7, <1>f, <1>n DEF resize2fs
  <2>2. fs < kpart => fs # part
    BY <1>7, Geometry DEF resize2fs
  <2> QED BY <1>7, <2>1, <2>2 DEF resize2fs, Counted
<1>8. CASE resize2fs_done
  <2>1. Counted /\ (Harmed => Harmed')
    BY <1>8, <1>f, <1>n DEF resize2fs_done
  <2>2. clean' \/ Harmed'
    BY <1>8, <1>f DEF resize2fs_done
  <2>3. part # Full => kpart = part /\ clean
    BY <1>8, Geometry DEF resize2fs_done
  <2>4. fs' \in {fs, kpart} /\ clean' \in BOOLEAN /\ (clean => clean')
    BY <1>8 DEF resize2fs_done
  <2> QED BY <1>8, <2>1, <2>2, <2>3, <2>4 DEF resize2fs_done, Counted
<1>9. CASE mount_all
  <2>1. Counted /\ (Harmed => Harmed')
    BY <1>9, <1>f, <1>n DEF mount_all
  <2> QED BY <1>9, <2>1 DEF mount_all, Counted
<1>10. CASE shut_down
  BY <1>10 DEF shut_down
<1>11. CASE power_loss
  <2>1. offs' \in 0..MaxOffs
    BY <1>11, Geometry DEF power_loss
  <2> QED BY <1>11, <2>1 DEF power_loss
<1> QED BY <1>1, <1>2, <1>3, <1>4, <1>5, <1>6, <1>7, <1>8, <1>9, <1>10, <1>11 DEF BootNext, BootStep

LEMMA NewSystemInv ==
    ASSUME BootInv, Update
    PROVE  BootInv'
<1>1. bpc = "off" /\ UNCHANGED <<bpc, node, mounted, failed, faults, offs>> /\ ~ mounted
  BY DEF Update, BootInv, BootTypeOK
<1>2. CASE UNCHANGED <<part, kpart, fs, clean>>
  BY <1>1, <1>2 DEF BootInv, BootTypeOK
<1>3. CASE part' = ImagePart /\ kpart' = ImagePart /\ fs' = ImagePart /\ clean' = TRUE
  <2>1. ImagePart \in 0..Full /\ ImagePart <= ImagePart
    BY Geometry
  <2>2. BootTypeOK'
    BY <1>1, <1>3, <2>1 DEF BootInv, BootTypeOK
  <2> QED BY <1>1, <1>3, <2>1, <2>2 DEF BootInv
<1> QED BY <1>2, <1>3 DEF Update, NewSystem

-----------------------------------------------------------------------------
(* The whole life of the disk *)

IInv == ZdInv /\ BootInv

LEMMA InitInv == Init => IInv
  BY ZdInitInv, BootInitInv DEF Init, IInv

LEMMA StepInv == IInv /\ [Next]_vars => IInv' /\ [ZdNext]_zdVars
<1> SUFFICES ASSUME IInv, [Next]_vars PROVE IInv' /\ [ZdNext]_zdVars
  OBVIOUS
<1>1. [ZdNext]_zdVars
  BY DEF Next, Update, Run, vars
<1>2. ZdInv'
  BY <1>1, ZdStepInv DEF IInv
<1>3. BootInv'
  <2>1. CASE Update
    BY <2>1, NewSystemInv DEF IInv
  <2>2. CASE Run
    BY <2>2, BootStepInv DEF IInv, Run
  <2>3. CASE UNCHANGED vars
    BY <2>3 DEF IInv, BootInv, BootTypeOK, Harmed, vars, bootVars
  <2> QED BY <2>1, <2>2, <2>3 DEF Next
<1> QED BY <1>1, <1>2, <1>3 DEF IInv

LEMMA AlwaysInv == Spec => []IInv
<1>1. Init => IInv
  BY InitInv
<1>2. IInv /\ [Next]_vars => IInv'
  BY StepInv
<1> QED BY <1>1, <1>2, PTL DEF Spec

(* Every variable keeps its type, for every disk, image and block size.    *)
THEOREM InstallTypes == Spec => []TypeOK
<1>1. IInv => TypeOK
  BY DEF IInv, ZdInv, BootInv, TypeOK
<1> QED BY <1>1, AlwaysInv, PTL

(* A disk with a partition table has all the blocks that belong to it: the *)
(* zeros zhashfs writes first and the table it writes last guard every     *)
(* truncated file and every power loss in between.                         *)
THEOREM TableTheorem == Spec => []TableMeansComplete
<1>1. IInv => TableMeansComplete
  BY DEF IInv, ZdInv
<1> QED BY <1>1, AlwaysInv, PTL

(* A finished .zd file has each block of the image that holds data, once   *)
(* and in order, whatever extents the file system reports.                 *)
THEOREM FileTheorem == Spec => []FileHasImage
<1>1. IInv => FileHasImage
  BY InvFileHasImage DEF IInv
<1> QED BY <1>1, AlwaysInv, PTL

(* zdextract takes exactly the blocks it is asked for out of such a file,  *)
(* each to its place, and of block 0 the content that was written last.    *)
THEOREM ExtractTheorem == Spec => []ExtractedRange
<1>1. IInv => ExtractedRange
  BY InvExtractedRange DEF IInv
<1> QED BY <1>1, AlwaysInv, PTL

(* No check of zhashfs stops the work on an image that is not empty.       *)
THEOREM CheckTheorem == Spec => []NoCheckFails
<1>1. IInv => NoCheckFails
  BY InvNoCheckFails DEF IInv
<1> QED BY <1>1, AlwaysInv, PTL

(* A mounted file system is inside its partition, and intact wherever an   *)
(* earlier boot lost power or a command of it failed, as long as in this   *)
(* boot the query of the sizes, the mount of /system, e2fsck and resize2fs *)
(* did not fail; nothing is said of a boot in which one of them did.       *)
THEOREM MountTheorem == Spec => []MountSafe
<1>1. IInv => MountSafe
  BY Geometry DEF IInv, BootInv, BootTypeOK, MountSafe
<1> QED BY <1>1, AlwaysInv, PTL

(* zhashfs and the firmware implement the atomic update.                   *)
THEOREM AtomicTheorem == Spec => UpdateIsAtomic
<1>1. Init => Atomic!Init
  BY AtomicInit DEF Init
<1>2. IInv /\ IInv' /\ [Next]_vars => [Atomic!Next]_(Atomic!vars)
  BY StepInv, AtomicStep DEF IInv
<1> QED BY <1>1, <1>2, AlwaysInv, PTL DEF Spec, UpdateIsAtomic, Atomic!Spec
=============================================================================
