------------------------------ MODULE AudioHal ------------------------------
(***************************************************************************)
(* The audio HAL (audio/audio_hw.c): AudioFlinger threads calling the      *)
(* device and its streams, the device mutex and one mutex per stream, the  *)
(* standby flags, the active_output/active_input pointers and the echo     *)
(* reference an AEC capture stream shares with the playback stream.        *)
(*                                                                         *)
(* A step is what a thread does between two mutex acquisitions: it ends    *)
(* where the code would have to wait.  Sample data, volumes, mixer routes  *)
(* of the input side and the remix/resampler paths are left out.           *)
(***************************************************************************)
EXTENDS FiniteSets, Naturals

CONSTANTS
    Threads,            \* AudioFlinger threads (playback, record, binder)
    Outs, Ins,          \* stream objects the threads may open
    Refs,               \* memory the echo references are allocated from
    OutDevices,         \* output devices a routing request can name
    InDevices,          \* input devices a routing request can name
    Effects, AEC,       \* effect handles; those whose type is FX_IID_AEC
    MAX_PREPROCESSORS,
    Sources,            \* "voice" is AUDIO_SOURCE_VOICE_COMMUNICATION
    Modes,              \* telephony modes adev_set_mode is called with
    Dev,                \* the device mutex, adev->lock
    None,               \* NULL
    Faults              \* calls that may fail, of AllFaults

Streams == Outs \union Ins
Locks   == {Dev} \union Streams
Opt(S)  == S \union {None}

OutOps == {"out_write", "out_standby", "out_set_parameters", "close_output"}
InOps  == {"in_read", "in_standby", "in_set_parameters", "in_add_audio_effect",
           "in_remove_audio_effect", "close_input"}
Ops    == OutOps \union InOps \union {"adev_set_mode"}

AllFaults == {"pcm_open", "create_echo", "get_descriptor"}

ASSUME NamesAssumption ==
    /\ Outs \intersect Ins = {}
    /\ Dev \notin Streams
    /\ None \notin Threads \union Locks \union Refs \union InDevices \union Ops
ASSUME DeviceAssumption ==
    /\ "speaker" \in OutDevices
    /\ "mic" \in InDevices
    /\ AEC \subseteq Effects
    /\ MAX_PREPROCESSORS \in Nat
    /\ "normal" \in Modes
    /\ "default" \in Sources
    /\ Faults \subseteq AllFaults

VARIABLES
    lock,                               \* owner of each mutex
    pc, op, arg, inp, force,            \* the threads: see PC below
    open, standby, pcm,                 \* the streams
    activeOut, activeIn,                \* adev->active_output, active_input
    echo, live,                         \* adev->echo_reference; allocated refs
    outEcho, inEcho,                    \* echo_reference of each stream
    need, effects,                      \* need_echo_reference, preprocessors
    source, device,                     \* of each input stream
    mode, devOut, devIn                 \* adev->mode, adev->devices

threadVars == <<pc, op, arg, inp, force>>
streamVars == <<open, standby, pcm>>
echoVars   == <<echo, live, outEcho, inEcho>>
inVars     == <<need, effects, source, device>>
devVars    == <<mode, devOut, devIn>>
vars == <<lock, threadVars, streamVars, activeOut, activeIn, echoVars,
          inVars, devVars>>

(* Where a thread is.  arg is the stream it was called on, inp the input   *)
(* stream it is stopping or starting.                                      *)
(*   idle        in AudioFlinger                                           *)
(*   dev         waits for adev->lock                                      *)
(*   stream      has adev->lock, waits for arg's                           *)
(*   outIO       in out_write past the device unlock, has arg's lock       *)
(*   forceDev    tail of out_write, waits for adev->lock                   *)
(*   forceIn     has adev->lock, waits for inp's                           *)
(*   removeEcho  do_input_standby, waits for the active output's lock      *)
(*   dropEcho    start_input_stream, the same wait, old reference          *)
(*   createEcho  start_input_stream, about to create a reference           *)
(*   addEcho     start_input_stream, waits for the active output's lock    *)
(*   openPcm     start_input_stream, about to open the PCM                 *)
(*   inIO        in in_read past the device unlock, has arg's lock         *)
(*   free        in close_*_stream past the standby, about to free arg     *)
PC == {"idle", "dev", "stream", "outIO", "forceDev", "forceIn", "removeEcho",
       "dropEcho", "createEcho", "addEcho", "openPcm", "inIO", "free"}

ThreadTypes ==
    /\ lock \in [Locks -> Opt(Threads)]
    /\ pc \in [Threads -> PC]
    /\ op \in [Threads -> Opt(Ops)]
    /\ arg \in [Threads -> Opt(Streams)]
    /\ inp \in [Threads -> Opt(Ins)]
    /\ force \in [Threads -> BOOLEAN]
StreamTypes ==
    /\ open \subseteq Streams
    /\ standby \in [Streams -> BOOLEAN]
    /\ pcm \in [Streams -> {"null", "ready", "closed"}]
    /\ need \in [Ins -> BOOLEAN]
    /\ effects \in [Ins -> SUBSET Effects]
    /\ source \in [Ins -> Sources]
    /\ device \in [Ins -> InDevices]
EchoTypes ==
    /\ echo \in Opt(Refs)
    /\ live \subseteq Refs
    /\ outEcho \in [Outs -> Opt(Refs)]
    /\ inEcho \in [Ins -> Opt(Refs)]
DeviceTypes ==
    /\ activeOut \in Opt(Outs)
    /\ activeIn \in Opt(Ins)
    /\ mode \in Modes
    /\ devOut \in OutDevices
    /\ devIn \in Opt(InDevices)
TypeOK == ThreadTypes /\ StreamTypes /\ EchoTypes /\ DeviceTypes

Init ==
    /\ lock = [l \in Locks |-> None]
    /\ pc = [t \in Threads |-> "idle"]
    /\ op = [t \in Threads |-> None]
    /\ arg = [t \in Threads |-> None]
    /\ inp = [t \in Threads |-> None]
    /\ force = [t \in Threads |-> FALSE]
    /\ open = {}
    /\ standby = [s \in Streams |-> TRUE]
    /\ pcm = [s \in Streams |-> "null"]
    /\ activeOut = None /\ activeIn = None
    /\ echo = None /\ live = {}
    /\ outEcho = [o \in Outs |-> None]
    /\ inEcho = [i \in Ins |-> None]
    /\ need = [i \in Ins |-> FALSE]
    /\ effects = [i \in Ins |-> {}]
    /\ source = [i \in Ins |-> "default"]
    /\ device = [i \in Ins |-> "mic"]
    /\ mode = "normal" /\ devOut = "speaker" /\ devIn = "mic"

-----------------------------------------------------------------------------
(* Threads *)

Free(l) == lock[l] = None

\* t goes from one place to another with the locks that function says
Go(t, to) == pc' = [pc EXCEPT ![t] = to]

\* t leaves the operation; a close still has to free the stream
Return(t) ==
    /\ Go(t, IF op[t] \in {"close_output", "close_input"} THEN "free" ELSE "idle")
    /\ inp' = [inp EXCEPT ![t] = None]
    /\ force' = [force EXCEPT ![t] = FALSE]
    /\ IF op[t] \in {"close_output", "close_input"}
       THEN UNCHANGED <<op, arg>>
       ELSE /\ op' = [op EXCEPT ![t] = None]
            /\ arg' = [arg EXCEPT ![t] = None]

\* unlock the mutexes t holds
ReleaseAll(t) == lock' = [l \in Locks |-> IF lock[l] = t THEN None ELSE lock[l]]
Acquire(t, l) == lock' = [lock EXCEPT ![l] = t]
\* pthread_mutex_lock(l) followed by the unlock of the device
SwapDev(t, l) == lock' = [lock EXCEPT ![l] = t, ![Dev] = None]

(* AudioFlinger closes a stream only when no other call on it is running,  *)
(* and makes no call on a stream being closed.                             *)
InUse(s)   == \E u \in Threads : arg[u] = s
Closing(s) == \E u \in Threads : arg[u] = s /\ op[u] \in {"close_output", "close_input"}

Call(t, o, s) ==
    /\ pc[t] = "idle"
    /\ IF o = "adev_set_mode" THEN s = None
       ELSE /\ s \in open \intersect (IF o \in OutOps THEN Outs ELSE Ins)
            /\ IF o \in {"close_output", "close_input"} THEN ~ InUse(s)
               ELSE ~ Closing(s)
    /\ Go(t, "dev")
    /\ op' = [op EXCEPT ![t] = o]
    /\ arg' = [arg EXCEPT ![t] = s]
    /\ UNCHANGED <<lock, inp, force, streamVars, activeOut, activeIn, echoVars,
                   inVars, devVars>>

\* calloc and the assignments of adev_open_output_stream; the fields of a
\* stream that is not open have their values of a new one
OpenOutput(t, o) ==
    /\ pc[t] = "idle" /\ o \notin open
    /\ open' = open \union {o}
    /\ UNCHANGED <<lock, threadVars, standby, pcm, activeOut, activeIn, echoVars,
                   inVars, devVars>>

OpenInput(t, i, d) ==
    /\ pc[t] = "idle" /\ i \notin open
    /\ open' = open \union {i}
    /\ device' = [device EXCEPT ![i] = d]
    /\ UNCHANGED <<lock, threadVars, standby, pcm, activeOut, activeIn, echoVars,
                   need, effects, source, devVars>>

\* a field of a stream that is freed has its value after calloc, ready for the
\* next stream of the same name
Forget(f, s, new) == [x \in DOMAIN f |-> IF x = s THEN new ELSE f[x]]

\* free(stream), the last line of adev_close_*_stream, whatever state it is in
FreeStream(t) ==
    /\ pc[t] = "free"
    /\ open' = open \ {arg[t]}
    /\ standby' = Forget(standby, arg[t], TRUE)
    /\ pcm' = Forget(pcm, arg[t], "null")
    /\ outEcho' = Forget(outEcho, arg[t], None)
    /\ inEcho' = Forget(inEcho, arg[t], None)
    /\ need' = Forget(need, arg[t], FALSE)
    /\ effects' = Forget(effects, arg[t], {})
    /\ source' = Forget(source, arg[t], "default")
    /\ device' = Forget(device, arg[t], "mic")
    /\ Go(t, "idle")
    /\ op' = [op EXCEPT ![t] = None]
    /\ arg' = [arg EXCEPT ![t] = None]
    /\ UNCHANGED <<lock, inp, force, activeOut, activeIn, echo, live, devVars>>

\* Mutant: out_write of a running stream does not take the device mutex
LockDev_bypassed(t) ==
    /\ pc[t] = "dev" /\ op[t] # "adev_set_mode"
    /\ IF op[t] = "out_write" /\ ~ standby[arg[t]]
       THEN Free(arg[t]) /\ Acquire(t, arg[t]) /\ Go(t, "outIO")
       ELSE Free(Dev) /\ Acquire(t, Dev) /\ Go(t, "stream")
    /\ UNCHANGED <<op, arg, inp, force, streamVars, activeOut, activeIn, echoVars,
                   inVars, devVars>>

\* the first pthread_mutex_lock of every stream operation
LockDev(t) ==
    /\ pc[t] = "dev" /\ op[t] # "adev_set_mode" /\ Free(Dev)
    /\ Acquire(t, Dev)
    /\ Go(t, "stream")
    /\ UNCHANGED <<op, arg, inp, force, streamVars, activeOut, activeIn, echoVars,
                   inVars, devVars>>

adev_set_mode(t, m) ==
    /\ pc[t] = "dev" /\ op[t] = "adev_set_mode" /\ Free(Dev)
    /\ mode' = m
    /\ Return(t)
    /\ UNCHANGED <<lock, streamVars, activeOut, activeIn, echoVars, inVars,
                   devOut, devIn>>

\* t has the device lock and acquires its stream's, in operation o
Enter(t, o) == pc[t] = "stream" /\ op[t] = o /\ Free(arg[t])

-----------------------------------------------------------------------------
(* Output stream *)

\* Mutant: the device goes on pointing to the stream
do_output_standby_active(o) ==
    IF standby[o]
    THEN UNCHANGED <<standby, pcm, activeOut, devIn, outEcho>>
    ELSE /\ standby' = [standby EXCEPT ![o] = TRUE]
         /\ pcm' = [pcm EXCEPT ![o] = "null"]
         /\ outEcho' = [outEcho EXCEPT ![o] = None]
         /\ UNCHANGED <<activeOut, devIn>>

do_output_standby(o) ==
    IF standby[o]
    THEN UNCHANGED <<standby, pcm, activeOut, devIn, outEcho>>
    ELSE /\ standby' = [standby EXCEPT ![o] = TRUE]
         /\ pcm' = [pcm EXCEPT ![o] = "null"]
         /\ activeOut' = None
         /\ devIn' = IF mode = "in_call" THEN devIn ELSE None
         /\ outEcho' = [outEcho EXCEPT ![o] = None]

out_standby(t) ==
    /\ \E o \in {"out_standby", "close_output"} : Enter(t, o)
    /\ do_output_standby(arg[t])
    /\ ReleaseAll(t)
    /\ Return(t)
    /\ UNCHANGED <<open, activeIn, echo, live, inEcho, inVars, mode, devOut>>

VoiceCapture == activeIn # None /\ source[activeIn] = "voice"

\* a routing request for output device val; it changes nothing if val is in use
out_set_parameters(t, val) ==
    /\ Enter(t, "out_set_parameters")
    /\ LET reroute == devOut # val /\ arg[t] = activeOut IN
       /\ IF reroute THEN do_output_standby(arg[t])
          ELSE UNCHANGED <<standby, pcm, activeOut, devIn, outEcho>>
       /\ devOut' = val
       /\ IF reroute /\ VoiceCapture
          THEN /\ Go(t, "forceIn")
               /\ inp' = [inp EXCEPT ![t] = activeIn]
               /\ UNCHANGED <<lock, op, arg, force>>
          ELSE /\ ReleaseAll(t)
               /\ Return(t)
    /\ UNCHANGED <<open, activeIn, echo, live, inEcho, inVars, mode>>

\* out_write of a running stream
out_write_running(t) ==
    /\ Enter(t, "out_write") /\ ~ standby[arg[t]]
    /\ SwapDev(t, arg[t])
    /\ Go(t, "outIO")
    /\ UNCHANGED <<op, arg, inp, force, streamVars, activeOut, activeIn, echoVars,
                   inVars, devVars>>

\* Mutant: the new output is not given the echo reference in use
start_output_stream_unfed(t) ==
    /\ Enter(t, "out_write") /\ standby[arg[t]]
    /\ SwapDev(t, arg[t]) /\ Go(t, "outIO")
    /\ activeOut' = arg[t]
    /\ pcm' = [pcm EXCEPT ![arg[t]] = "ready"]
    /\ standby' = [standby EXCEPT ![arg[t]] = FALSE]
    /\ force' = [force EXCEPT ![t] = VoiceCapture]
    /\ UNCHANGED <<op, arg, inp, open, activeIn, echoVars, inVars, devVars>>

\* Mutant: a voice capture is not restarted
start_output_stream_unforced(t) ==
    /\ Enter(t, "out_write") /\ standby[arg[t]]
    /\ SwapDev(t, arg[t]) /\ Go(t, "outIO")
    /\ activeOut' = arg[t]
    /\ pcm' = [pcm EXCEPT ![arg[t]] = "ready"]
    /\ standby' = [standby EXCEPT ![arg[t]] = FALSE]
    /\ outEcho' = IF echo # None THEN [outEcho EXCEPT ![arg[t]] = echo] ELSE outEcho
    /\ UNCHANGED <<op, arg, inp, force, open, activeIn, echo, live, inEcho, inVars,
                   devVars>>

\* out_write of a stream in standby: start_output_stream succeeds
start_output_stream(t) ==
    /\ Enter(t, "out_write") /\ standby[arg[t]]
    /\ SwapDev(t, arg[t])
    /\ Go(t, "outIO")
    /\ activeOut' = arg[t]
    /\ pcm' = [pcm EXCEPT ![arg[t]] = "ready"]
    /\ standby' = [standby EXCEPT ![arg[t]] = FALSE]
    /\ outEcho' = IF echo # None THEN [outEcho EXCEPT ![arg[t]] = echo] ELSE outEcho
    /\ force' = [force EXCEPT ![t] = VoiceCapture]
    /\ UNCHANGED <<op, arg, inp, open, activeIn, echo, live, inEcho, inVars, devVars>>

\* Mutants: the error path does not unlock the stream; it leaves standby; it
\* leaves the stream the active output
start_output_fails_locked(t) ==
    /\ Enter(t, "out_write") /\ standby[arg[t]] /\ "pcm_open" \in Faults
    /\ activeOut' = None
    /\ pcm' = [pcm EXCEPT ![arg[t]] = "closed"]
    /\ SwapDev(t, arg[t]) /\ Return(t)
    /\ UNCHANGED <<open, standby, activeIn, echoVars, inVars, devVars>>

start_output_fails_awake(t) ==
    /\ Enter(t, "out_write") /\ standby[arg[t]] /\ "pcm_open" \in Faults
    /\ activeOut' = None
    /\ pcm' = [pcm EXCEPT ![arg[t]] = "closed"]
    /\ standby' = [standby EXCEPT ![arg[t]] = FALSE]
    /\ ReleaseAll(t) /\ Return(t)
    /\ UNCHANGED <<open, activeIn, echoVars, inVars, devVars>>

start_output_fails_active(t) ==
    /\ Enter(t, "out_write") /\ standby[arg[t]] /\ "pcm_open" \in Faults
    /\ activeOut' = arg[t]
    /\ pcm' = [pcm EXCEPT ![arg[t]] = "closed"]
    /\ ReleaseAll(t) /\ Return(t)
    /\ UNCHANGED <<open, standby, activeIn, echoVars, inVars, devVars>>

\* ... or pcm_open fails; the caller sleeps without a lock and returns
start_output_fails(t) ==
    /\ Enter(t, "out_write") /\ standby[arg[t]] /\ "pcm_open" \in Faults
    /\ activeOut' = None
    /\ pcm' = [pcm EXCEPT ![arg[t]] = "closed"]
    /\ ReleaseAll(t)
    /\ Return(t)
    /\ UNCHANGED <<open, standby, activeIn, echoVars, inVars, devVars>>

\* Mutant: the stream stays locked while the device mutex is taken again
write_pcm_locked(t) ==
    /\ pc[t] = "outIO"
    /\ IF force[t] THEN Go(t, "forceDev") /\ UNCHANGED <<lock, op, arg, inp, force>>
       ELSE Return(t) /\ ReleaseAll(t)
    /\ UNCHANGED <<streamVars, activeOut, activeIn, echoVars, inVars, devVars>>

\* feed the echo reference, write to the PCM, unlock the stream
write_pcm(t) ==
    /\ pc[t] = "outIO"
    /\ ReleaseAll(t)
    /\ IF force[t] THEN Go(t, "forceDev") /\ UNCHANGED <<op, arg, inp, force>>
       ELSE Return(t)
    /\ UNCHANGED <<streamVars, activeOut, activeIn, echoVars, inVars, devVars>>

\* the tail of out_write: active_input is read again under the device lock
force_input(t) ==
    /\ pc[t] = "forceDev" /\ Free(Dev)
    /\ IF activeIn = None THEN Return(t) /\ UNCHANGED lock
       ELSE /\ Acquire(t, Dev)
            /\ Go(t, "forceIn")
            /\ inp' = [inp EXCEPT ![t] = activeIn]
            /\ UNCHANGED <<op, arg, force>>
    /\ UNCHANGED <<streamVars, activeOut, activeIn, echoVars, inVars, devVars>>

-----------------------------------------------------------------------------
(* Input stream *)

Owns(i) == inEcho[i] # None /\ inEcho[i] = echo

(* do_input_standby up to the point where put_echo_reference needs the     *)
(* active output's lock; all of it, and the caller's unlocks, when it does *)
(* not.  The caller holds the device lock and has just acquired i's.       *)
do_input_standby(t, i) ==
    IF standby[i]
    THEN /\ ReleaseAll(t)
         /\ Return(t)
         /\ UNCHANGED <<standby, pcm, activeIn, devIn, echoVars>>
    ELSE /\ pcm' = [pcm EXCEPT ![i] = "null"]
         /\ activeIn' = None
         /\ devIn' = IF mode = "in_call" THEN devIn ELSE None
         /\ UNCHANGED outEcho
         /\ IF Owns(i) /\ activeOut # None
            THEN /\ Go(t, "removeEcho")
                 /\ inp' = [inp EXCEPT ![t] = i]
                 /\ Acquire(t, i)
                 /\ UNCHANGED <<op, arg, force, standby, echo, live, inEcho>>
            ELSE /\ standby' = [standby EXCEPT ![i] = TRUE]
                 /\ inEcho' = [inEcho EXCEPT ![i] = None]
                 /\ live' = IF Owns(i) THEN live \ {echo} ELSE live
                 /\ echo' = IF Owns(i) THEN None ELSE echo
                 /\ ReleaseAll(t)
                 /\ Return(t)

in_standby(t) ==
    /\ \E o \in {"in_standby", "close_input"} : Enter(t, o)
    /\ do_input_standby(t, arg[t])
    /\ UNCHANGED <<open, activeOut, inVars, mode, devOut>>

\* the input another thread's output change puts in standby
forced_standby(t) ==
    /\ pc[t] = "forceIn" /\ Free(inp[t])
    /\ do_input_standby(t, inp[t])
    /\ UNCHANGED <<open, activeOut, inVars, mode, devOut>>

\* Mutant: the output keeps the reference
remove_echo_reference_kept(reference) == UNCHANGED outEcho

\* remove_echo_reference(active_output, reference)
remove_echo_reference(reference) ==
    outEcho' = [outEcho EXCEPT ![activeOut] = IF @ = reference THEN None ELSE @]

\* Mutant: the reference is only taken from the output, not released
finish_standby_unreleased(t) ==
    /\ pc[t] = "removeEcho" /\ Free(activeOut)
    /\ remove_echo_reference(inEcho[inp[t]])
    /\ inEcho' = [inEcho EXCEPT ![inp[t]] = None]
    /\ standby' = [standby EXCEPT ![inp[t]] = TRUE]
    /\ ReleaseAll(t) /\ Return(t)
    /\ UNCHANGED <<open, pcm, activeOut, activeIn, echo, live, inVars, devVars>>

\* Mutant: the output's echo reference is taken without its mutex
finish_standby_unlocked(t) ==
    /\ pc[t] = "removeEcho"
    /\ remove_echo_reference(inEcho[inp[t]])
    /\ live' = live \ {echo} /\ echo' = None
    /\ inEcho' = [inEcho EXCEPT ![inp[t]] = None]
    /\ standby' = [standby EXCEPT ![inp[t]] = TRUE]
    /\ ReleaseAll(t) /\ Return(t)
    /\ UNCHANGED <<open, pcm, activeOut, activeIn, inVars, devVars>>

\* the rest of put_echo_reference and of do_input_standby
finish_standby(t) ==
    /\ pc[t] = "removeEcho" /\ Free(activeOut)
    /\ remove_echo_reference(inEcho[inp[t]])
    /\ live' = live \ {echo}
    /\ echo' = None
    /\ inEcho' = [inEcho EXCEPT ![inp[t]] = None]
    /\ standby' = [standby EXCEPT ![inp[t]] = TRUE]
    /\ ReleaseAll(t)
    /\ Return(t)
    /\ UNCHANGED <<open, pcm, activeOut, activeIn, inVars, devVars>>

\* both keys of in_set_parameters; a missing key is one equal to what is set,
\* and no request sets the default source (value 0)
in_set_parameters(t, src, d) ==
    /\ Enter(t, "in_set_parameters")
    /\ src = "default" => source[arg[t]] = src
    /\ source' = [source EXCEPT ![arg[t]] = src]
    /\ device' = [device EXCEPT ![arg[t]] = d]
    /\ IF src # source[arg[t]] \/ d # device[arg[t]]
       THEN do_input_standby(t, arg[t])
       ELSE /\ ReleaseAll(t)
            /\ Return(t)
            /\ UNCHANGED <<standby, pcm, activeIn, devIn, echoVars>>
    /\ UNCHANGED <<open, activeOut, need, effects, mode, devOut>>

\* the exit label of the effect operations: nothing stopped
Untouched(t) ==
    /\ ReleaseAll(t)
    /\ Return(t)
    /\ UNCHANGED <<standby, pcm, activeIn, devIn, echoVars>>

\* ok: whether the effect's get_descriptor succeeds; AudioFlinger attaches an
\* effect once
in_add_audio_effect(t, e, ok) ==
    /\ Enter(t, "in_add_audio_effect")
    /\ ok \/ "get_descriptor" \in Faults
    /\ LET i == arg[t]
           room == e \notin effects[i] /\ Cardinality(effects[i]) < MAX_PREPROCESSORS IN
       /\ effects' = IF room /\ ok THEN [effects EXCEPT ![i] = @ \union {e}] ELSE effects
       /\ IF room /\ ok /\ e \in AEC
          THEN /\ need' = [need EXCEPT ![i] = TRUE]
               /\ do_input_standby(t, i)
          ELSE UNCHANGED need /\ Untouched(t)
    /\ UNCHANGED <<open, activeOut, source, device, mode, devOut>>

in_remove_audio_effect(t, e, ok) ==
    /\ Enter(t, "in_remove_audio_effect")
    /\ ok \/ "get_descriptor" \in Faults
    /\ LET i == arg[t] IN
       /\ effects' = [effects EXCEPT ![i] = @ \ {e}]
       /\ IF e \in effects[i] /\ ok /\ e \in AEC
          THEN /\ need' = [need EXCEPT ![i] = FALSE]
               /\ do_input_standby(t, i)
          ELSE UNCHANGED need /\ Untouched(t)
    /\ UNCHANGED <<open, activeOut, source, device, mode, devOut>>

\* in_read of a running stream
in_read_running(t) ==
    /\ Enter(t, "in_read") /\ ~ standby[arg[t]]
    /\ SwapDev(t, arg[t])
    /\ Go(t, "inIO")
    /\ UNCHANGED <<op, arg, inp, force, streamVars, activeOut, activeIn, echoVars,
                   inVars, devVars>>

\* Mutant: the device's old reference is not put before a new one is created
start_input_stream_unput(t) ==
    /\ Enter(t, "in_read") /\ standby[arg[t]]
    /\ Acquire(t, arg[t])
    /\ activeIn' = arg[t]
    /\ devIn' = IF mode = "in_call" THEN devIn ELSE device[arg[t]]
    /\ inp' = [inp EXCEPT ![t] = arg[t]]
    /\ Go(t, IF need[arg[t]] /\ inEcho[arg[t]] = None /\ activeOut # None
             THEN "createEcho" ELSE "openPcm")
    /\ UNCHANGED <<op, arg, force, streamVars, activeOut, echoVars, inVars, mode, devOut>>

\* Mutant: the input is routed to the output's device
start_input_stream_misrouted(t) ==
    /\ Enter(t, "in_read") /\ standby[arg[t]]
    /\ Acquire(t, arg[t]) /\ Go(t, "openPcm")
    /\ activeIn' = arg[t]
    /\ devIn' = devOut
    /\ inp' = [inp EXCEPT ![t] = arg[t]]
    /\ UNCHANGED <<op, arg, force, streamVars, activeOut, echoVars, inVars, mode, devOut>>

(* start_input_stream: when the stream needs a reference, the device's old *)
(* one is put first, and without an active output there is no new one.     *)
start_input_stream(t) ==
    /\ Enter(t, "in_read") /\ standby[arg[t]]
    /\ Acquire(t, arg[t])
    /\ activeIn' = arg[t]
    /\ devIn' = IF mode = "in_call" THEN devIn ELSE device[arg[t]]
    /\ inp' = [inp EXCEPT ![t] = arg[t]]
    /\ LET get == need[arg[t]] /\ inEcho[arg[t]] = None IN
       /\ Go(t, CASE get /\ activeOut # None /\ echo # None -> "dropEcho"
                  [] get /\ activeOut # None /\ echo = None -> "createEcho"
                  [] OTHER -> "openPcm")
       /\ IF get /\ activeOut = None
          THEN echo' = None /\ live' = live \ {echo}
          ELSE UNCHANGED <<echo, live>>
    /\ UNCHANGED <<op, arg, force, streamVars, activeOut, outEcho, inEcho, inVars,
                   mode, devOut>>

\* put_echo_reference(adev, adev->echo_reference) with an active output
put_echo_reference(t) ==
    /\ pc[t] = "dropEcho" /\ Free(activeOut)
    /\ remove_echo_reference(echo)
    /\ live' = live \ {echo}
    /\ echo' = None
    /\ Go(t, "createEcho")
    /\ UNCHANGED <<lock, op, arg, inp, force, streamVars, activeOut, activeIn, inEcho,
                   inVars, devVars>>

create_echo_reference(t) ==
    /\ pc[t] = "createEcho"
    /\ \/ /\ "create_echo" \in Faults
          /\ Go(t, "openPcm")
          /\ UNCHANGED <<echo, live>>
       \/ \E r \in Refs \ live :
            /\ echo' = r
            /\ live' = live \union {r}
            /\ Go(t, "addEcho")
    /\ UNCHANGED <<lock, op, arg, inp, force, streamVars, activeOut, activeIn, outEcho,
                   inEcho, inVars, devVars>>

add_echo_reference(t) ==
    /\ pc[t] = "addEcho" /\ Free(activeOut)
    /\ outEcho' = [outEcho EXCEPT ![activeOut] = echo]
    /\ inEcho' = [inEcho EXCEPT ![inp[t]] = echo]
    /\ Go(t, "openPcm")
    /\ UNCHANGED <<lock, op, arg, inp, force, streamVars, activeOut, activeIn, echo,
                   live, inVars, devVars>>

\* pcm_open of the capture device; the device is unlocked whatever it returns
open_capture(t, ok) ==
    /\ pc[t] = "openPcm"
    /\ ok \/ "pcm_open" \in Faults
    /\ lock' = [lock EXCEPT ![Dev] = None]
    /\ pcm' = [pcm EXCEPT ![inp[t]] = IF ok THEN "ready" ELSE "closed"]
    /\ standby' = [standby EXCEPT ![inp[t]] = ~ ok]
    /\ activeIn' = IF ok THEN activeIn ELSE None
    /\ inp' = [inp EXCEPT ![t] = None]
    /\ Go(t, "inIO")
    /\ UNCHANGED <<op, arg, force, open, activeOut, echoVars, inVars, devVars>>

\* read and process the samples, or sleep when the start failed; unlock
read_pcm(t) ==
    /\ pc[t] = "inIO"
    /\ ReleaseAll(t)
    /\ Return(t)
    /\ UNCHANGED <<streamVars, activeOut, activeIn, echoVars, inVars, devVars>>

-----------------------------------------------------------------------------
\* the steps of a thread inside an operation
OutStep(t) ==
    \/ out_standby(t)
    \/ \E val \in OutDevices : out_set_parameters(t, val)
    \/ out_write_running(t) \/ start_output_stream(t) \/ start_output_fails(t)
    \/ write_pcm(t) \/ force_input(t)

InStep(t) ==
    \/ in_standby(t) \/ forced_standby(t) \/ finish_standby(t)
    \/ \E src \in Sources, d \in InDevices : in_set_parameters(t, src, d)
    \/ \E e \in Effects, ok \in BOOLEAN :
         in_add_audio_effect(t, e, ok) \/ in_remove_audio_effect(t, e, ok)
    \/ in_read_running(t) \/ start_input_stream(t) \/ put_echo_reference(t)
    \/ create_echo_reference(t) \/ add_echo_reference(t)
    \/ \E ok \in BOOLEAN : open_capture(t, ok)
    \/ read_pcm(t)

Step(t) ==
    \/ LockDev(t) \/ FreeStream(t)
    \/ \E m \in Modes : adev_set_mode(t, m)
    \/ OutStep(t) \/ InStep(t)

Request(t) ==
    \/ \E o \in Ops, s \in Opt(Streams) : Call(t, o, s)
    \/ \E o \in Outs : OpenOutput(t, o)
    \/ \E i \in Ins, d \in InDevices : OpenInput(t, i, d)

Next == \E t \in Threads : Request(t) \/ Step(t)

Spec == Init /\ [][Next]_vars

\* a thread inside an operation goes on: PCM transfers and sleeps end
FairSpec == Spec /\ \A t \in Threads : WF_vars(Step(t))
-----------------------------------------------------------------------------
(* Properties *)

\* start_input_stream and do_input_standby work under both mutexes
InputWork == {"removeEcho", "dropEcho", "createEcho", "addEcho", "openPcm"}

\* the mutexes t holds and the one it waits for, from its place in the code
Holds(t) ==
    {l \in Locks :
        \/ l = Dev /\ pc[t] \in {"stream", "forceIn"} \union InputWork
        \/ l = arg[t] /\ pc[t] \in {"outIO", "inIO"}
        \/ l = inp[t] /\ pc[t] \in InputWork}

WaitsFor(t) ==
    {l \in Locks :
        \/ l = Dev /\ pc[t] \in {"dev", "forceDev"}
        \/ l = arg[t] /\ pc[t] = "stream"
        \/ l = inp[t] /\ pc[t] = "forceIn"
        \/ l = activeOut /\ pc[t] \in {"removeEcho", "dropEcho", "addEcho"}}

\* "hw device > in stream > out stream"
Rank(l) == IF l = Dev THEN 0 ELSE IF l \in Ins THEN 1 ELSE 2

(* The note above the stream structures: "when multiple mutexes have to be *)
(* acquired, always respect the following order".  The mutex a thread      *)
(* waits for comes after every mutex it owns, so no set of threads can     *)
(* wait for one another in a circle.                                       *)
LockOrder ==
    \A t \in Threads, l \in Locks :
        lock[l] = t => \A w \in WaitsFor(t) : Rank(l) < Rank(w)

(* Every path out of an operation, the error paths too, unlocks exactly    *)
(* what it locked: what a thread owns is what its place in the code says.  *)
LockDiscipline ==
    \A t \in Threads, l \in Locks : lock[l] = t <=> l \in Holds(t)

(* adev_close_*_stream frees a stream without a lock.  No thread owns or   *)
(* waits for the mutex of a freed stream, and the device never points to   *)
(* one, although other streams' operations reach it through active_input   *)
(* and active_output.                                                      *)
NoUseAfterClose ==
    /\ activeOut \in open \union {None}
    /\ activeIn \in open \union {None}
    /\ \A t \in Threads : (Holds(t) \union WaitsFor(t)) \ {Dev} \subseteq open

(* While a thread owns a mutex, nobody else changes the data it protects:  *)
(* out_write and in_read use the standby flag, the PCM and the echo        *)
(* reference of a stream whose mutex is all they own, and the helpers that *)
(* "must be called with hw device and [...] stream mutexes locked" rely on *)
(* the device's pointers across their waits for another stream.            *)
DeviceData == <<activeOut, activeIn, echo, mode, devOut, devIn>>
StreamData(s) ==
    <<standby[s], pcm[s],
      IF s \in Outs THEN outEcho[s]
      ELSE <<inEcho[s], need[s], effects[s], source[s], device[s]>> >>
OwnerWrites ==
    [][\A t \in Threads : pc'[t] = pc[t] =>
         /\ lock[Dev] = t => DeviceData' = DeviceData
         /\ \A s \in Streams : lock[s] = t => StreamData(s)' = StreamData(s)]_vars

(* The only allocated echo reference is the device's: none is leaked when  *)
(* a new one is created and none is released twice.                        *)
NoEchoLeak == live = {echo} \ {None}

(* out_write uses the PCM and in_read reads it after the device mutex is   *)
(* unlocked: the PCM is open and the stream out of standby all that time,  *)
(* whatever other threads force into standby (a start that failed only     *)
(* sleeps).                                                                *)
PcmReady ==
    \A t \in Threads :
        /\ pc[t] = "outIO" => ~ standby[arg[t]]
        /\ pc[t] \in {"outIO", "inIO"} /\ ~ standby[arg[t]] => pcm[arg[t]] = "ready"

(* With one output and one input, the echo reference a stream holds is     *)
(* never one put_echo_reference has released: out_write and in_read use it *)
(* without the device mutex.                                               *)
EchoSafe ==
    /\ \A o \in Outs \intersect open : outEcho[o] \in live \union {None}
    /\ \A i \in Ins \intersect open : inEcho[i] \in live \union {None}

(* Seen under the device mutex, active_output and active_input are the     *)
(* streams out of standby: the routing and the forced standby of one       *)
(* stream by another rely on it.                                           *)
ActiveMatches ==
    Free(Dev) =>
        /\ \A o \in Outs \intersect open : activeOut = o <=> ~ standby[o]
        /\ \A i \in Ins \intersect open : activeIn = i <=> ~ standby[i]

(* An echo reference is always fed by the playing output, whichever of     *)
(* playback and capture started, stopped or failed to start first.         *)
EchoFed ==
    Free(Dev) /\ echo # None /\ activeOut # None => outEcho[activeOut] = echo

(* Without failures to create it, a voice capture with an echo canceller   *)
(* has a reference whenever an output plays, except between an output's    *)
(* start and the standby it forces on the capture.                         *)
VoiceHasEcho ==
    \A i \in Ins \intersect open :
        Free(Dev) /\ activeIn = i /\ source[i] = "voice" /\ need[i]
          /\ activeOut # None /\ (\A t \in Threads : ~ force[t])
        => inEcho[i] # None

(* When opening a PCM never fails, the device keeps a reference only while *)
(* a capture stream holds it: the last standby releases it.                *)
EchoHasReader ==
    Free(Dev) /\ echo # None => \E i \in Ins \intersect open : inEcho[i] = echo

(* "acquiring hw device mutex systematically is useful if a low priority   *)
(* thread is waiting on the output stream mutex [...] while holding the hw *)
(* device mutex": because each out_write and in_read passes through the    *)
(* device mutex, a thread that owns it and waits for a stream in a busy    *)
(* read or write loop gets the stream and releases the device.             *)
DevReleased == \A t \in Threads : lock[Dev] = t ~> lock[Dev] # t
=============================================================================
