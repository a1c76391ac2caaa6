\* recording stopped and started again
SPECIFICATION FairSpec
CONSTANTS
    Clients = {c1}
    NumBufs = 3
    Calls = {"start_preview", "start_recording", "stop_recording",
             "release_recording_frame"}
    Faults = {}
    MaxHeld = 1
    NoBuf = noBuf
PROPERTIES RecordingOn
CHECK_DEADLOCK FALSE
