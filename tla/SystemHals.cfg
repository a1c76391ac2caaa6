SPECIFICATION FairSpec
CONSTANTS
    camera = camera
    hdmi = hdmi
    touchscreen = touchscreen
    Devices <- MCDevices
    Supported = {camera, touchscreen}
    Tries = 2
    MaxReadErrors = 1
    PowerFaults = {"write", "open_status", "read_status", "panel"}
    Colors <- MCColors
    LightFaults = {"monochrome", "brightness"}
    Axes = {x, y}
    Values = {0, 1}
    Count = 2
    QueueSize = 5
INVARIANTS
    TypeOK SuspendOrder ResumedActive ScreenFollows SampleIsReading
CONSTRAINT Apart
PROPERTY SetReturns
