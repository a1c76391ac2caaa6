\* every method and every failure
SPECIFICATION Spec
CONSTANTS
    Clients = {c1}
    NumBufs = 2
    Calls = {"start_preview", "stop_preview", "set_parameters", "take_picture", "cancel_picture", "start_recording", "stop_recording", "release_recording_frame", "release"}
    Faults = {"STREAMON", "DQBUF", "QBUF", "S_FMT", "TRY_FMT", "REQBUFS", "window"}
    MaxHeld = 1
    NoBuf = noBuf
INVARIANTS TypeOK ParkedOnReturn
CHECK_DEADLOCK FALSE
