\* fair threads; echo references are always created, PCMs always open
SPECIFICATION FairSpec
CONSTANTS
    Threads = {t1, t2}
    Outs = {o1}
    Ins = {i1}
    Refs = {r1}
    OutDevices = {"speaker", "headset"}
    InDevices = {"mic"}
    Effects = {aec, ns}
    AEC = {aec}
    MAX_PREPROCESSORS = 1
    Sources = {"default", "voice"}
    Modes = {"normal", "in_call"}
    Dev = dev
    None = null
    Faults = {"get_descriptor"}
INVARIANTS VoiceHasEcho EchoHasReader
PROPERTIES DevReleased
