------------------------------ MODULE MCInstall ------------------------------
EXTENDS Install, ZdExtract

Image(length, extents) == [length |-> length, extents |-> extents]
Ext(logical, length) == [logical |-> logical, length |-> length]

\* nothing; no extent; a short block; two extents in one block; a hole, and a
\* hole at the end; everything
MCLayouts ==
    {Image(0, << >>), Image(4, << >>), Image(1, <<Ext(0, 1)>>),
     Image(5, <<Ext(1, 1), Ext(2, 1), Ext(3, 2)>>),
     Image(7, <<Ext(0, 2), Ext(5, 2)>>), Image(8, <<Ext(0, 3)>>),
     Image(8, <<Ext(3, 2), Ext(7, 1)>>), Image(7, <<Ext(0, 7)>>)}
=============================================================================
