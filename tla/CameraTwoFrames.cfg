\* a recorder that keeps two frames
SPECIFICATION Spec
CONSTANTS
    Clients = {c1}
    NumBufs = 3
    Calls = {"start_preview", "start_recording", "stop_recording", "release_recording_frame"}
    Faults = {}
    MaxHeld = 2
    NoBuf = noBuf
INVARIANTS HeldFrameSafe
CHECK_DEADLOCK FALSE
