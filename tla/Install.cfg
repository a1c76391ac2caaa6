SPECIFICATION FairSpec
CONSTANTS
    zblocksize = 2
    Layouts <- MCLayouts
    MaxBlock = 3
    MaxFailures = 1
    MaxCrashes = 2
    None = None
    DiskSize = 6
    PartStart = 2
    ImagePart = 2
    BootFaults = {"query", "sfdisk", "reread", "system", "e2fsck", "resize2fs", "mount"}
    MaxFaults = 2
    MaxOffs = 1
INVARIANTS
    TypeOK
    TableMeansComplete
    FileHasImage
    NoCheckFails
    ExtractedRange
    MountSafe
PROPERTIES
    UpdateIsAtomic
    Grown
