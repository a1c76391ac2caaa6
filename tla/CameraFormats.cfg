\* methods called before the thread has first waited
SPECIFICATION Spec
CONSTANTS
    Clients = {c1}
    NumBufs = 2
    Calls = {"set_parameters", "start_preview", "start_recording"}
    Faults = {}
    MaxHeld = 1
    NoBuf = noBuf
INVARIANTS FormatsKnown
CHECK_DEADLOCK FALSE
