\* a fair scheduler, no failures, and recording that goes on
SPECIFICATION FairSpec
CONSTANTS
    Clients = {c1, c2}
    NumBufs = 3
    Calls = {"start_preview", "stop_preview", "set_parameters", "take_picture", "cancel_picture", "start_recording", "release_recording_frame", "release"}
    Faults = {}
    MaxHeld = 1
    NoBuf = noBuf
INVARIANTS ParkedIsReady PreviewUndisturbed FramesNotPicture
PROPERTIES PreviewFlows BuffersCircle
CHECK_DEADLOCK FALSE
