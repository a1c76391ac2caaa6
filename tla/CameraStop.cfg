\* stop_preview and release may miss their signals
SPECIFICATION FairSpec
CONSTANTS
    Clients = {c1}
    NumBufs = 2
    Calls = {"start_preview", "stop_preview", "release"}
    Faults = {}
    MaxHeld = 0
    NoBuf = noBuf
PROPERTIES MethodsReturn
CHECK_DEADLOCK FALSE
