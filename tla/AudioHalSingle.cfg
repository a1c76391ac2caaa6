\* the configuration of audio_policy.conf: one output and one input
SPECIFICATION Spec
CONSTANTS
    Threads = {t1, t2, t3}
    Outs = {o1}
    Ins = {i1}
    Refs = {r1, r2}
    OutDevices = {"speaker", "headset"}
    InDevices = {"mic"}
    Effects = {aec}
    AEC = {aec}
    MAX_PREPROCESSORS = 3
    Sources = {"default", "voice"}
    Modes = {"normal"}
    Dev = dev
    None = null
    Faults = {"pcm_open", "create_echo", "get_descriptor"}
SYMMETRY Symmetry
INVARIANTS TypeOK LockDiscipline PcmReady EchoSafe ActiveMatches EchoFed NoEchoLeak
