\* two streams of each direction, no failures
SPECIFICATION Spec
CONSTANTS
    Threads = {t1, t2}
    Outs = {o1, o2}
    Ins = {i1, i2}
    Refs = {r1}
    OutDevices = {"speaker"}
    InDevices = {"mic"}
    Effects = {aec}
    AEC = {aec}
    MAX_PREPROCESSORS = 3
    Sources = {"default", "voice"}
    Modes = {"normal"}
    Dev = dev
    None = null
    Faults = {}
SYMMETRY StreamSymmetry
INVARIANTS LockOrder NoUseAfterClose
PROPERTIES OwnerWrites
