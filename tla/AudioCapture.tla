---------------------------- MODULE AudioCapture ----------------------------
(***************************************************************************)
(* The samples of one capture stream of the audio HAL (audio_hw.c, in_read *)
(* and below it): from the kernel's PCM through in->buffer, the resampler, *)
(* proc_buf and the pre-processing effects to the buffer of AudioFlinger.  *)
(* AudioHal says when in_read runs; here the stream's mutex is held from   *)
(* its start to its return, and a step is one turn of a loop.              *)
(*                                                                         *)
(* A captured frame is its number.  A frame behind the resampler is the    *)
(* set of the captured frames it was made of.  Sample values, channels,    *)
(* delays and muting are left out.                                         *)
(***************************************************************************)
EXTENDS Naturals, Sequences, FiniteSets

CONSTANTS
    period_size,    \* in->config.period_size
    Ratios,         \* captured frames per frame asked for; 1: no resampler
    Requests,       \* frames AudioFlinger asks for in one call
    Chunk,          \* frames an effect processes at once (10 ms)
    MaxCaptured     \* bound: the PCM fails once it has given as many frames

ASSUME CaptureAssumption ==
    /\ period_size \in Nat \ {0}
    /\ Ratios \subseteq Nat \ {0}
    /\ Requests \subseteq Nat \ {0}
    /\ Chunk \in Nat \ {0}
    /\ MaxCaptured \in Nat

VARIABLES
    ratio,                  \* of the stream's resampler
    running,                \* ~ in->standby
    effects,                \* in->num_preprocessors: 0 or 1
    aec,                    \* in->echo_reference is not NULL
    captured,               \* frames the PCM has given so far
    buffer, frames_in,      \* in->buffer; how many frames of it are left
    pending,                \* in the resampler, not yet enough for a frame
    proc, proc_buf_size,    \* the proc_frames_in first frames of proc_buf
    ref_frames_in, ref_buf_size,
    fxIn, fxOut,            \* in the effect: of an unfinished chunk, finished
    pc, frames, want,       \* in_read: place, frames_rq, what read_frames is asked
    read,                   \* what read_frames has stored
    out,                    \* what AudioFlinger's buffer holds so far
    delivered, lost         \* history: frames returned per path; frames dropped

streamVars == <<ratio, running, effects, aec>>
sourceVars == <<captured, buffer, frames_in, pending>>
procVars   == <<proc, proc_buf_size, ref_frames_in, ref_buf_size, fxIn, fxOut>>
callVars   == <<pc, frames, want, read, out>>
vars == <<streamVars, sourceVars, procVars, callVars, delivered, lost>>

Min2(a, b) == IF a < b THEN a ELSE b
Max2(a, b) == IF a > b THEN a ELSE b
First(s, n) == SubSeq(s, 1, n)
Drop(s, n)  == SubSeq(s, n + 1, Len(s))
Elements(s) == {s[k] : k \in DOMAIN s}

\* the path a call takes, for the history
Path == IF effects > 0 THEN "processed" ELSE "plain"

Frame == SUBSET (1..MaxCaptured)
TypeOK ==
    /\ ratio \in Ratios /\ effects \in {0, 1} /\ {running, aec} \subseteq BOOLEAN
    /\ captured \in 0..MaxCaptured
    /\ buffer \in Seq(1..MaxCaptured) /\ frames_in \in 0..Len(buffer)
    /\ pending \in Seq(1..MaxCaptured) /\ Len(pending) < ratio
    /\ {proc, fxIn, fxOut, read, out} \subseteq Seq(Frame)
    /\ Len(fxIn) < Chunk
    /\ {proc_buf_size, ref_frames_in, ref_buf_size, frames, want} \subseteq Nat
    /\ pc \in {"idle", "direct", "process", "read", "effect", "return"}
    /\ delivered \in [{"plain", "processed"} -> Seq(Frame)]
    /\ lost \subseteq 1..captured

Init ==
    /\ ratio \in Ratios /\ running = FALSE /\ effects = 0 /\ aec = FALSE
    /\ captured = 0 /\ buffer = << >> /\ frames_in = 0 /\ pending = << >>
    /\ proc = << >> /\ proc_buf_size = 0 /\ ref_frames_in = 0 /\ ref_buf_size = 0
    /\ fxIn = << >> /\ fxOut = << >>
    /\ pc = "idle" /\ frames = 0 /\ want = 0 /\ read = << >> /\ out = << >>
    /\ delivered = [p \in {"plain", "processed"} |-> << >>] /\ lost = {}

\* the frames of in->buffer that are left
Left == SubSeq(buffer, Len(buffer) - frames_in + 1, Len(buffer))

-----------------------------------------------------------------------------
(* Standby and effects, under the stream's mutex *)

standby ==
    /\ pc = "idle" /\ running
    /\ running' = FALSE
    /\ aec' = FALSE
    /\ UNCHANGED <<ratio, effects, sourceVars, procVars, callVars, delivered, lost>>

\* an echo canceller also puts the stream in standby
in_add_audio_effect ==
    /\ pc = "idle" /\ effects = 0
    /\ effects' = 1
    /\ running' \in {running, FALSE}
    /\ UNCHANGED <<ratio, aec, sourceVars, procVars, callVars, delivered, lost>>

\* the effect goes with what it holds; the echo canceller's standby
in_remove_audio_effect ==
    /\ pc = "idle" /\ effects = 1
    /\ effects' = 0
    /\ running' = (running /\ ~ aec) /\ aec' = FALSE
    /\ fxIn' = << >> /\ fxOut' = << >>
    /\ lost' = lost \union UNION Elements(fxIn \o fxOut)
    /\ UNCHANGED <<ratio, sourceVars, proc, proc_buf_size, ref_frames_in,
                   ref_buf_size, callVars, delivered>>

-----------------------------------------------------------------------------
(* in_read *)

\* Mutant: in->buffer is marked full instead of empty
start_input_stream_full ==
    /\ pc = "idle" /\ ~ running
    /\ running' = TRUE /\ aec' = FALSE
    /\ frames_in' = period_size /\ pending' = << >>
    /\ UNCHANGED <<ratio, effects, captured, buffer, procVars, callVars, delivered, lost>>

(* start_input_stream succeeds, with an echo reference or without: only a  *)
(* stream with a resampler forgets what it had read before the standby.    *)
start_input_stream ==
    /\ pc = "idle" /\ ~ running
    /\ running' = TRUE
    /\ aec' \in {FALSE, effects > 0}
    /\ IF ratio > 1
       THEN /\ frames_in' = 0 /\ pending' = << >>
            /\ lost' = lost \union Elements(Left) \union Elements(pending)
       ELSE UNCHANGED <<frames_in, pending, lost>>
    /\ UNCHANGED <<ratio, effects, captured, buffer, procVars, callVars, delivered>>

in_read(n) ==
    /\ pc = "idle" /\ running
    /\ pc' = IF effects > 0 THEN "process" ELSE IF ratio > 1 THEN "read" ELSE "direct"
    /\ frames' = n /\ want' = n
    /\ UNCHANGED <<streamVars, sourceVars, procVars, read, out, delivered, lost>>

\* the frames pcm_read returns next
NextFrames(n) == [k \in 1..n |-> captured + k]
Singles(s) == [k \in DOMAIN s |-> {s[k]}]

\* without effect and resampler: the samples go to AudioFlinger's buffer
pcm_read ==
    /\ pc = "direct"
    /\ \/ /\ captured + frames <= MaxCaptured
          /\ out' = Singles(NextFrames(frames))
          /\ captured' = captured + frames
       \/ UNCHANGED <<out, captured>>       \* an error
    /\ pc' = "return"
    /\ UNCHANGED <<streamVars, buffer, frames_in, pending, procVars, frames, want, read,
                   delivered, lost>>

\* a turn of process_frames begins
process_frames ==
    /\ pc = "process"
    /\ IF Len(proc) < frames
       THEN /\ proc_buf_size' = Max2(proc_buf_size, frames)
            /\ want' = frames - Len(proc)
            /\ pc' = "read"
       ELSE pc' = "effect" /\ UNCHANGED <<proc_buf_size, want>>
    /\ UNCHANGED <<streamVars, sourceVars, proc, ref_frames_in, ref_buf_size, fxIn, fxOut,
                   frames, read, out, delivered, lost>>

\* what is asked of the kernel for the rest of this read_frames
Asked == (want - Len(read)) * ratio - Len(pending)

\* Mutant: the buffer is read from its start
Taken_from_start(b, left, n) == SubSeq(b, 1, n)

\* n frames of in->buffer, of which left are not yet taken
Taken(b, left, n) == SubSeq(b, period_size - left + 1, period_size - left + n)

\* the resampler: every ratio frames make one
Resampled(s) ==
    [k \in 1..(Len(s) \div ratio) |-> {s[j] : j \in (ratio * (k - 1) + 1)..(ratio * k)}]

\* get_next_buffer and release_buffer, with in->buffer holding b
provide(b, left) ==
    LET n   == Min2(Asked, left)
        got == pending \o Taken(b, left, n) IN
    /\ buffer' = b
    /\ frames_in' = left - n
    /\ read' = read \o Resampled(got)
    /\ pending' = Drop(got, ratio * (Len(got) \div ratio))

\* Mutant: an error is not returned, the read is tried again
read_error_retried ==
    /\ pc = "read" /\ Len(read) < want /\ frames_in = 0
    /\ UNCHANGED vars

(* pcm_read fails in get_next_buffer and read_frames returns the error: of *)
(* what it has read so far, AudioFlinger gets what is in its buffer, and   *)
(* process_frames does not count what is in proc_buf.                      *)
read_error ==
    /\ pc = "read" /\ Len(read) < want /\ frames_in = 0
    /\ read' = << >>
    /\ IF effects > 0
       THEN lost' = lost \union UNION Elements(read) /\ UNCHANGED out
       ELSE out' = read /\ UNCHANGED lost
    /\ pc' = "return"
    /\ UNCHANGED <<streamVars, sourceVars, procVars, frames, want, delivered>>

read_frames ==
    /\ pc = "read" /\ Len(read) < want
    /\ IF frames_in = 0
       THEN /\ captured + period_size <= MaxCaptured
            /\ provide(NextFrames(period_size), period_size)
            /\ captured' = captured + period_size
       ELSE provide(buffer, frames_in) /\ UNCHANGED captured
    /\ UNCHANGED <<streamVars, procVars, pc, frames, want, out, delivered, lost>>

\* Mutant: the frames read are put before those left over
frames_read_in_front ==
    /\ pc = "read" /\ Len(read) >= want
    /\ read' = << >>
    /\ IF effects > 0 THEN proc' = read \o proc /\ pc' = "effect" /\ UNCHANGED out
                      ELSE out' = read /\ pc' = "return" /\ UNCHANGED proc
    /\ UNCHANGED <<streamVars, sourceVars, proc_buf_size, ref_frames_in, ref_buf_size, fxIn,
                   fxOut, frames, want, delivered, lost>>

\* read_frames returns as many frames as it was asked for
frames_read ==
    /\ pc = "read" /\ Len(read) >= want
    /\ read' = << >>
    /\ IF effects > 0
       THEN /\ proc' = proc \o read
            /\ pc' = "effect" /\ UNCHANGED out
       ELSE /\ out' = read
            /\ pc' = "return" /\ UNCHANGED proc
    /\ UNCHANGED <<streamVars, sourceVars, proc_buf_size, ref_frames_in, ref_buf_size, fxIn,
                   fxOut, frames, want, delivered, lost>>

(* The echo reference, of which the effect takes some frames: it is filled *)
(* up to the n frames in proc_buf, unless reading it fails.                *)
RefFilled(n, ok) == IF ref_frames_in < n /\ ok THEN n ELSE ref_frames_in

\* Mutant: ref_buf grows only when it is empty
push_echo_reference_once(n) ==
    \E ok \in BOOLEAN : \E taken \in 0..Min2(RefFilled(n, ok), n) :
        /\ ref_buf_size' = IF ref_buf_size = 0 THEN n ELSE ref_buf_size
        /\ ref_frames_in' = RefFilled(n, ok) - taken

push_echo_reference(n) ==
    \E ok \in BOOLEAN : \E taken \in 0..Min2(RefFilled(n, ok), n) :
        /\ ref_buf_size' = IF ref_frames_in < n THEN Max2(ref_buf_size, n) ELSE ref_buf_size
        /\ ref_frames_in' = RefFilled(n, ok) - taken

(* process() of the effect library: finished frames go out first; frames   *)
(* are taken only if that was not enough, up to the end of a chunk.        *)
EffectTakes(n, room) ==
    IF Len(fxOut) >= room THEN 0 ELSE Min2(Chunk - Len(fxIn), n)

process_effects ==
    LET room     == frames - Len(out)
        consumed == EffectTakes(Len(proc), room)
        in       == fxIn \o First(proc, consumed)
        ready    == IF Len(in) = Chunk THEN fxOut \o in ELSE fxOut
        produced == Min2(Len(ready), room) IN
    /\ pc = "effect"
    /\ IF aec THEN push_echo_reference(Len(proc)) ELSE UNCHANGED <<ref_frames_in, ref_buf_size>>
    /\ proc' = Drop(proc, consumed)
    /\ fxIn' = IF Len(in) = Chunk THEN << >> ELSE in
    /\ fxOut' = Drop(ready, produced)
    /\ out' = out \o First(ready, produced)
    /\ pc' = IF Len(out') < frames THEN "process" ELSE "return"
    /\ UNCHANGED <<streamVars, sourceVars, proc_buf_size, frames, want, read, delivered, lost>>

\* AudioFlinger gets its buffer, also after an error
return ==
    /\ pc = "return"
    /\ pc' = "idle" /\ frames' = 0 /\ want' = 0 /\ out' = << >>
    /\ delivered' = [delivered EXCEPT ![Path] = @ \o out]
    /\ UNCHANGED <<streamVars, sourceVars, procVars, read, lost>>

-----------------------------------------------------------------------------
ReadStep ==
    \/ pcm_read \/ process_frames \/ read_error \/ read_frames \/ frames_read
    \/ process_effects \/ return
Next ==
    \/ standby \/ in_add_audio_effect \/ in_remove_audio_effect
    \/ start_input_stream \/ (\E n \in Requests : in_read(n)) \/ ReadStep

Spec == Init /\ [][Next]_vars

\* a call goes on: the PCM gives samples or an error
FairSpec == Spec /\ WF_vars(ReadStep)
-----------------------------------------------------------------------------
(* Properties *)

\* where frames are: on the way, in the order of the way, and at its ends
OnTheWay == fxOut \o fxIn \o proc \o read \o Singles(pending) \o Singles(Left)
Everywhere == delivered["plain"] \o delivered["processed"] \o out \o OnTheWay

(* Every frame the PCM has given is in exactly one place: returned to       *)
(* AudioFlinger, in one buffer of the way there, or dropped by an error, a *)
(* removed effect or a restart of the resampler.  The four buffers' counts  *)
(* and moves neither repeat a frame nor leave one out.                     *)
ExactlyOnce ==
    /\ \A j, k \in DOMAIN Everywhere : j # k => Everywhere[j] \intersect Everywhere[k] = {}
    /\ (UNION Elements(Everywhere)) \intersect lost = {}
    /\ (UNION Elements(Everywhere)) \union lost = 1..captured

(* Frames come in the order they were captured on each of the two paths,   *)
(* through standby, restarts, errors, and effects added and removed.       *)
InOrder ==
    \A p \in DOMAIN delivered : \A j, k \in DOMAIN delivered[p] :
        j < k => \A x \in delivered[p][j], y \in delivered[p][k] : x < y

(* read_frames and the copies write within proc_buf and ref_buf, whatever  *)
(* sizes are asked for one after the other and whatever the effect and the *)
(* echo reference leave over.                                              *)
BuffersHold ==
    /\ Len(proc) <= proc_buf_size
    /\ pc = "read" /\ effects > 0 => Len(proc) + want <= proc_buf_size
    /\ ref_frames_in <= ref_buf_size

(* in_read returns: "if not enough frames were passed to process(), read   *)
(* more and retry" ends however much the effect keeps, and a PCM that goes *)
(* on failing does not keep the stream's mutex.                            *)
ReadReturns == pc # "idle" ~> pc = "idle"
=============================================================================
