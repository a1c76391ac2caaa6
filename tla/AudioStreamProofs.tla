-------------------------- MODULE AudioStreamProofs --------------------------
(***************************************************************************)
(* Proofs about the streams of AudioHal, for any number of threads and     *)
(* streams: the PCM is there while it is used, no freed stream is reached, *)
(* no echo reference is leaked, and nobody changes what another thread's   *)
(* mutex protects.                                                         *)
(***************************************************************************)
EXTENDS AudioHalProofs

Closes == {"close_output", "close_input"}
Starting == {"dropEcho", "createEcho", "addEcho", "openPcm"}

\* a stream being closed is in no other thread's hands
Exclusive ==
    \A t, u \in Threads : t # u /\ op[t] \in Closes => arg[u] # arg[t]

\* where a thread stops an input that is not its own
StopPlace ==
    \A t \in Threads :
        /\ pc[t] = "forceIn" => op[t] \in {"out_write", "out_set_parameters"}
        /\ pc[t] = "removeEcho" => activeIn = None
        /\ pc[t] = "removeEcho" /\ op[t] \in Closes => inp[t] = arg[t]

OutAwake == \A t \in Threads : pc[t] = "outIO" => ~ standby[arg[t]]

PcmInv ==
    \A s \in Streams : ~ standby[s] =>
        pcm[s] = "ready" \/ \E t \in Threads : pc[t] = "removeEcho" /\ inp[t] = s

EchoInv == NoEchoLeak /\ \A t \in Threads : pc[t] = "createEcho" => echo = None

\* the device points to streams out of standby, or about to leave it
ActiveInv ==
    /\ activeOut # None => ~ standby[activeOut]
    /\ activeIn # None => \/ ~ standby[activeIn]
                          \/ \E t \in Threads : pc[t] \in Starting /\ inp[t] = activeIn

OpenInv ==
    /\ \A s \in Streams : ~ standby[s] => s \in open
    /\ \A t \in Threads : arg[t] # None => arg[t] \in open
    /\ \A t \in Threads : pc[t] \in {"forceIn", "removeEcho"} => inp[t] \in open

\* what a close is past the standby of stays in standby, and nobody stops it
FreeInv ==
    /\ \A t \in Threads : pc[t] = "free" => standby[arg[t]]
    /\ \A t, u \in Threads : pc[t] \in {"forceIn", "removeEcho"} /\ pc[u] = "free"
                               => inp[t] # arg[u]

StreamInv ==
    /\ Exclusive /\ StopPlace /\ OutAwake /\ PcmInv
    /\ EchoInv /\ ActiveInv /\ OpenInv /\ FreeInv

-----------------------------------------------------------------------------
(* What a step of t can do to the streams and the device's pointers.       *)

\* t's own place after the step: what it may newly rely on
OwnPlace(t) ==
    /\ \/ op'[t] = op[t] /\ arg'[t] = arg[t]
       \/ op'[t] = None /\ arg'[t] = None /\ pc'[t] = "idle"
    /\ pc'[t] = "free" => pc'[t] = pc[t] \/ op[t] \in Closes
    /\ pc'[t] = "forceIn" => /\ op[t] \in {"out_write", "out_set_parameters"}
                             /\ inp'[t] = activeIn /\ activeIn # None

\* nothing but echo references
Quiet(t) ==
    /\ UNCHANGED <<open, standby, pcm, activeOut, activeIn>>
    /\ pc[t] # "removeEcho" /\ pc'[t] # "removeEcho"
    /\ pc[t] \in Starting => pc'[t] \in Starting /\ inp'[t] = inp[t]
    /\ pc'[t] = "outIO" => ~ standby[arg[t]]
    /\ pc'[t] = "free" => standby[arg[t]] /\ lock[Dev] = t

StopsOut(t) ==
    /\ arg[t] \in Outs /\ pc[t] = "stream" /\ Free(arg[t]) /\ lock[Dev] = t
    /\ standby' = [standby EXCEPT ![arg[t]] = TRUE]
    /\ pcm' = [pcm EXCEPT ![arg[t]] = "null"]
    /\ activeOut' = None
    /\ UNCHANGED <<open, activeIn>>
    /\ pc'[t] \in {"idle", "free", "forceIn"}

StartsOut(t) ==
    /\ arg[t] \in Outs /\ pc[t] = "stream" /\ Free(arg[t]) /\ lock[Dev] = t
    /\ op[t] = "out_write" /\ arg'[t] = arg[t]
    /\ standby' = [standby EXCEPT ![arg[t]] = FALSE]
    /\ pcm' = [pcm EXCEPT ![arg[t]] = "ready"]
    /\ activeOut' = arg[t]
    /\ UNCHANGED <<open, activeIn>>
    /\ pc'[t] = "outIO"

FailsOut(t) ==
    /\ arg[t] \in Outs /\ pc[t] = "stream" /\ lock[Dev] = t
    /\ standby[arg[t]]
    /\ pcm' = [pcm EXCEPT ![arg[t]] = "closed"]
    /\ activeOut' = None
    /\ UNCHANGED <<open, standby, activeIn>>
    /\ pc'[t] = "idle"

\* the standby of input i, and the same up to the wait for the output
StopsIn(t, i) ==
    /\ i \in Ins /\ Free(i) /\ lock[Dev] = t /\ pc[t] \in {"stream", "forceIn"}
    /\ (pc[t] = "stream" /\ i = arg[t]) \/ (pc[t] = "forceIn" /\ i = inp[t])
    /\ pcm' = [pcm EXCEPT ![i] = "null"]
    /\ activeIn' = None
    /\ UNCHANGED <<open, activeOut>>
    /\ \/ pc'[t] = "removeEcho" /\ inp'[t] = i /\ op'[t] = op[t] /\ UNCHANGED standby
       \/ pc'[t] \in {"idle", "free"} /\ standby' = [standby EXCEPT ![i] = TRUE]

FinishesIn(t) ==
    /\ inp[t] \in Ins /\ pc[t] = "removeEcho" /\ lock[Dev] = t
    /\ standby' = [standby EXCEPT ![inp[t]] = TRUE]
    /\ UNCHANGED <<open, pcm, activeOut, activeIn>>
    /\ pc'[t] \in {"idle", "free"}

StartsIn(t) ==
    /\ arg[t] \in Ins /\ pc[t] = "stream" /\ lock[Dev] = t /\ op[t] = "in_read"
    /\ activeIn' = arg[t]
    /\ UNCHANGED <<open, standby, pcm, activeOut>>
    /\ pc'[t] \in Starting /\ inp'[t] = arg[t]

OpensIn(t, ok) ==
    /\ arg[t] \in Ins /\ pc[t] = "openPcm" /\ inp[t] = arg[t] /\ lock[Dev] = t
    /\ pcm' = [pcm EXCEPT ![arg[t]] = IF ok THEN "ready" ELSE "closed"]
    /\ standby' = [standby EXCEPT ![arg[t]] = ~ ok]
    /\ activeIn' = IF ok THEN activeIn ELSE None
    /\ UNCHANGED <<open, activeOut>>
    /\ pc'[t] = "inIO"

Frees(t) ==
    /\ pc[t] = "free" /\ arg[t] \in Streams /\ op[t] \in Closes
    /\ open' = open \ {arg[t]}
    /\ standby' = [standby EXCEPT ![arg[t]] = TRUE]
    /\ pcm' = [pcm EXCEPT ![arg[t]] = "null"]
    /\ UNCHANGED <<activeOut, activeIn>>
    /\ pc'[t] = "idle"

Shape(t) ==
    \/ Quiet(t) \/ StopsOut(t) \/ StartsOut(t) \/ FailsOut(t)
    \/ \E i \in Ins : StopsIn(t, i)
    \/ FinishesIn(t) \/ StartsIn(t)
    \/ \E ok \in BOOLEAN : OpensIn(t, ok)
    \/ Frees(t)

\* two threads do not both own the device mutex
LEMMA OneDev ==
    ASSUME LockInv, NEW t \in Threads, lock[Dev] = t
    PROVE  \A u \in Threads : u # t => pc[u] \notin {"stream", "forceIn"} \union InputWork
  BY DEF LockInv, LockDiscipline, Holds, Locks

LEMMA OwnsDev ==
    ASSUME LockInv, NEW t \in Threads, pc[t] \in {"stream", "forceIn"} \union InputWork
    PROVE  lock[Dev] = t
  BY DEF LockInv, LockDiscipline, Holds, Locks

LEMMA ReturnOwn ==
    ASSUME LockInv, NEW t \in Threads, Return(t), pc[t] # "free"
    PROVE  /\ OwnPlace(t)
           /\ pc'[t] \in {"idle", "free"}
           /\ pc'[t] = "free" => op[t] \in Closes /\ arg'[t] = arg[t]
  BY NamesAssumption
     DEF LockInv, TypeOK, ThreadTypes, Return, Go, OwnPlace, Closes

LEMMA OutputStandbyShape ==
    ASSUME LockInv, NEW t \in Threads, do_output_standby(arg[t]),
           arg[t] \in Outs, pc[t] = "stream", Free(arg[t]),
           pc'[t] \in {"idle", "free", "forceIn"}, UNCHANGED <<open, activeIn>>
    PROVE  Quiet(t) \/ StopsOut(t)
<1>1. lock[Dev] = t
  BY OwnsDev
<1>2. CASE standby[arg[t]]
  BY <1>1, <1>2 DEF do_output_standby, Quiet, Starting
<1>3. CASE ~ standby[arg[t]]
  BY <1>1, <1>3 DEF do_output_standby, StopsOut
<1> QED BY <1>2, <1>3

LEMMA InputStandbyShape ==
    ASSUME LockInv, NEW t \in Threads, NEW i \in Ins, do_input_standby(t, i),
           Free(i), (pc[t] = "stream" /\ i = arg[t]) \/ (pc[t] = "forceIn" /\ i = inp[t]),
           pc[t] = "forceIn" => op[t] \notin Closes,
           UNCHANGED <<open, activeOut>>
    PROVE  OwnPlace(t) /\ (Quiet(t) \/ StopsIn(t, i))
<1>1. lock[Dev] = t
  BY OwnsDev
<1>2. CASE standby[i]
  <2>1. Return(t) /\ UNCHANGED <<standby, pcm, activeIn>>
    BY <1>2 DEF do_input_standby
  <2> QED BY <1>1, <1>2, <2>1, ReturnOwn DEF Quiet, Starting
<1>3. CASE ~ standby[i] /\ Owns(i) /\ activeOut # None
  <2>1. /\ Go(t, "removeEcho") /\ inp' = [inp EXCEPT ![t] = i]
        /\ UNCHANGED <<op, arg, standby>> /\ pcm' = [pcm EXCEPT ![i] = "null"] /\ activeIn' = None
    BY <1>3 DEF do_input_standby
  <2>2. pc'[t] = "removeEcho" /\ inp'[t] = i /\ op'[t] = op[t] /\ arg'[t] = arg[t]
    BY <2>1 DEF LockInv, TypeOK, ThreadTypes, Go
  <2> QED BY <1>1, <2>1, <2>2 DEF OwnPlace, StopsIn
<1>4. CASE ~ standby[i] /\ ~ (Owns(i) /\ activeOut # None)
  <2>1. /\ Return(t) /\ pcm' = [pcm EXCEPT ![i] = "null"] /\ activeIn' = None
        /\ standby' = [standby EXCEPT ![i] = TRUE]
    BY <1>4 DEF do_input_standby
  <2> QED BY <1>1, <2>1, ReturnOwn DEF StopsIn
<1> QED BY <1>2, <1>3, <1>4

\* the steps that take or give back a mutex and change no stream
LEMMA GoShape ==
    ASSUME LockInv, NEW t \in Threads, NEW to \in {"stream", "outIO", "inIO", "forceDev"},
           Go(t, to), UNCHANGED <<op, arg, open, standby, pcm, activeOut, activeIn>>,
           pc[t] \in {"dev", "stream", "outIO", "openPcm"} \ Starting,
           to = "outIO" => ~ standby[arg[t]]
    PROVE  OwnPlace(t) /\ Quiet(t)
  BY DEF LockInv, TypeOK, ThreadTypes, Go, OwnPlace, Quiet, Starting

LEMMA LeaveShape ==
    ASSUME LockInv, NEW t \in Threads, Return(t), op[t] \notin Closes,
           pc[t] \notin Starting \union {"free", "removeEcho"},
           UNCHANGED <<open, standby, pcm, activeOut, activeIn>>
    PROVE  OwnPlace(t) /\ Quiet(t)
<1>1. OwnPlace(t) /\ pc'[t] = "idle"
  BY ReturnOwn
<1> QED BY <1>1 DEF Quiet

\* what each step of a thread does is one of the shapes
LEMMA StepShape ==
    ASSUME LockInv, StopPlace, NEW t \in Threads, Step(t)
    PROVE  OwnPlace(t) /\ Shape(t)
<1> USE DEF Shape
<1>0. /\ TypeOK /\ ThreadTypes /\ StreamTypes /\ Placed(t)
      /\ "out_write" \notin Closes /\ "out_set_parameters" \notin Closes /\ "in_read" \notin Closes
      /\ "in_set_parameters" \notin Closes /\ "in_add_audio_effect" \notin Closes
      /\ "in_remove_audio_effect" \notin Closes /\ "adev_set_mode" \notin Closes
  BY DEF LockInv, TypeOK, Closes
<1>1. CASE LockDev(t)
  BY <1>1, <1>0, GoShape DEF LockDev, Starting, streamVars
<1>2. CASE FreeStream(t)
  <2>1. /\ pc[t] = "free" /\ arg[t] \in Streams /\ op[t] \in Closes
    BY <1>2, <1>0 DEF FreeStream, Placed, Closes, OutOps, InOps, Streams
  <2>2. /\ standby' = [standby EXCEPT ![arg[t]] = TRUE]
        /\ pcm' = [pcm EXCEPT ![arg[t]] = "null"]
    BY <1>2, <1>0, <2>1 DEF FreeStream, Forget, StreamTypes
  <2>3. pc'[t] = "idle" /\ op'[t] = None /\ arg'[t] = None
    BY <1>2, <1>0 DEF FreeStream, Go, ThreadTypes
  <2> QED BY <1>2, <2>1, <2>2, <2>3 DEF FreeStream, Frees, OwnPlace
<1>3. ASSUME NEW m \in Modes, adev_set_mode(t, m) PROVE OwnPlace(t) /\ Shape(t)
  BY <1>3, <1>0, LeaveShape DEF adev_set_mode, Starting, streamVars
<1>4. CASE out_standby(t)
  <2>1. arg[t] \in Outs /\ pc[t] = "stream" /\ Free(arg[t])
    BY <1>4, EnterOutput DEF out_standby, OutOps, Enter
  <2>2. OwnPlace(t) /\ pc'[t] \in {"idle", "free"}
    BY <1>4, <2>1, ReturnOwn DEF out_standby
  <2> QED BY <1>4, <2>1, <2>2, OutputStandbyShape DEF out_standby
<1>5. ASSUME NEW val \in OutDevices, out_set_parameters(t, val) PROVE OwnPlace(t) /\ Shape(t)
  <2>1. arg[t] \in Outs /\ pc[t] = "stream" /\ Free(arg[t]) /\ op[t] = "out_set_parameters"
    BY <1>5, EnterOutput DEF out_set_parameters, OutOps, Enter
  <2>2. OwnPlace(t) /\ pc'[t] \in {"idle", "forceIn"}
    <3>1. CASE Return(t)
      BY <3>1, <2>1, <1>0, ReturnOwn
    <3>2. CASE ~ Return(t)
      <4>1. /\ Go(t, "forceIn") /\ inp' = [inp EXCEPT ![t] = activeIn] /\ activeIn # None
            /\ UNCHANGED <<op, arg>>
        BY <1>5, <3>2 DEF out_set_parameters, VoiceCapture
      <4> QED BY <4>1, <2>1, <1>0 DEF Go, ThreadTypes, OwnPlace
    <3> QED BY <3>1, <3>2
  <2>3. UNCHANGED <<open, activeIn>>
    BY <1>5 DEF out_set_parameters
  <2>4. CASE do_output_standby(arg[t])
    BY <2>1, <2>2, <2>3, <2>4, OutputStandbyShape
  <2>5. CASE UNCHANGED <<standby, pcm, activeOut>>
    BY <2>1, <2>2, <2>3, <2>5 DEF Quiet, Starting
  <2>6. do_output_standby(arg[t]) \/ UNCHANGED <<standby, pcm, activeOut>>
    BY <1>5 DEF out_set_parameters
  <2> QED BY <2>4, <2>5, <2>6
<1>6. CASE out_write_running(t)
  BY <1>6, <1>0, GoShape DEF out_write_running, Enter, Starting, streamVars
<1>7. CASE start_output_stream(t)
  <2>1. arg[t] \in Outs /\ pc[t] = "stream" /\ Free(arg[t]) /\ op[t] = "out_write" /\ lock[Dev] = t
    BY <1>7, EnterOutput, OwnsDev DEF start_output_stream, OutOps, Enter
  <2>2. pc'[t] = "outIO" /\ op'[t] = op[t] /\ arg'[t] = arg[t]
    BY <1>7, <1>0 DEF start_output_stream, Go, ThreadTypes
  <2> QED BY <1>7, <2>1, <2>2 DEF start_output_stream, StartsOut, OwnPlace
<1>8. CASE start_output_fails(t)
  <2>1. arg[t] \in Outs /\ pc[t] = "stream" /\ op[t] = "out_write" /\ lock[Dev] = t
    BY <1>8, EnterOutput, OwnsDev DEF start_output_fails, OutOps, Enter
  <2>2. OwnPlace(t) /\ pc'[t] = "idle"
    BY <1>8, <1>0, <2>1, ReturnOwn DEF start_output_fails
  <2> QED BY <1>8, <2>1, <2>2 DEF start_output_fails, FailsOut
<1>9. CASE write_pcm(t)
  <2>1. op[t] = "out_write" /\ pc[t] = "outIO"
    BY <1>9, <1>0 DEF write_pcm, Placed
  <2>2. CASE Return(t)
    BY <1>9, <1>0, <2>1, <2>2, LeaveShape DEF write_pcm, Starting, streamVars
  <2>3. CASE ~ Return(t)
    BY <1>9, <1>0, <2>1, <2>3, GoShape DEF write_pcm, Starting, streamVars
  <2> QED BY <2>2, <2>3
<1>10. CASE force_input(t)
  <2>1. op[t] = "out_write" /\ pc[t] = "forceDev"
    BY <1>10, <1>0 DEF force_input, Placed
  <2>2. CASE activeIn = None
    BY <1>10, <1>0, <2>1, <2>2, LeaveShape DEF force_input, Starting, streamVars
  <2>3. CASE activeIn # None
    <3>1. /\ pc'[t] = "forceIn" /\ inp'[t] = activeIn /\ op'[t] = op[t] /\ arg'[t] = arg[t]
      BY <1>10, <1>0, <2>3 DEF force_input, Go, ThreadTypes
    <3> QED BY <1>10, <2>1, <2>3, <3>1 DEF force_input, OwnPlace, Quiet, Starting, streamVars
  <2> QED BY <2>2, <2>3
<1>11. CASE in_standby(t)
  <2>1. arg[t] \in Ins /\ pc[t] = "stream" /\ Free(arg[t])
    BY <1>11, EnterInput DEF in_standby, InOps, Enter
  <2> QED BY <1>11, <2>1, InputStandbyShape DEF in_standby
<1>12. CASE forced_standby(t)
  <2>1. inp[t] \in Ins /\ pc[t] = "forceIn" /\ Free(inp[t]) /\ op[t] \notin Closes
    BY <1>12, <1>0 DEF forced_standby, Placed, StopPlace
  <2> QED BY <1>12, <2>1, InputStandbyShape DEF forced_standby
<1>13. CASE finish_standby(t)
  <2>1. inp[t] \in Ins /\ pc[t] = "removeEcho" /\ lock[Dev] = t
    BY <1>13, <1>0, OwnsDev DEF finish_standby, Placed, InputWork
  <2> QED BY <1>13, <2>1, ReturnOwn DEF finish_standby, FinishesIn
<1>14. ASSUME NEW src \in Sources, NEW d \in InDevices, in_set_parameters(t, src, d)
       PROVE  OwnPlace(t) /\ Shape(t)
  <2>1. arg[t] \in Ins /\ pc[t] = "stream" /\ Free(arg[t]) /\ op[t] = "in_set_parameters"
    BY <1>14, EnterInput DEF in_set_parameters, InOps, Enter
  <2>2. CASE do_input_standby(t, arg[t])
    BY <1>14, <2>1, <2>2, InputStandbyShape DEF in_set_parameters
  <2>3. CASE ~ do_input_standby(t, arg[t])
    BY <1>14, <1>0, <2>1, <2>3, LeaveShape DEF in_set_parameters, Starting
  <2> QED BY <2>2, <2>3
<1>15. ASSUME NEW e \in Effects, NEW ok \in BOOLEAN, in_add_audio_effect(t, e, ok)
       PROVE  OwnPlace(t) /\ Shape(t)
  <2>1. arg[t] \in Ins /\ pc[t] = "stream" /\ Free(arg[t]) /\ op[t] = "in_add_audio_effect"
    BY <1>15, EnterInput DEF in_add_audio_effect, InOps, Enter
  <2>2. CASE do_input_standby(t, arg[t])
    BY <1>15, <2>1, <2>2, InputStandbyShape DEF in_add_audio_effect
  <2>3. CASE ~ do_input_standby(t, arg[t])
    BY <1>15, <1>0, <2>1, <2>3, LeaveShape DEF in_add_audio_effect, Untouched, Starting
  <2> QED BY <2>2, <2>3
<1>16. ASSUME NEW e \in Effects, NEW ok \in BOOLEAN, in_remove_audio_effect(t, e, ok)
       PROVE  OwnPlace(t) /\ Shape(t)
  <2>1. arg[t] \in Ins /\ pc[t] = "stream" /\ Free(arg[t]) /\ op[t] = "in_remove_audio_effect"
    BY <1>16, EnterInput DEF in_remove_audio_effect, InOps, Enter
  <2>2. CASE do_input_standby(t, arg[t])
    BY <1>16, <2>1, <2>2, InputStandbyShape DEF in_remove_audio_effect
  <2>3. CASE ~ do_input_standby(t, arg[t])
    BY <1>16, <1>0, <2>1, <2>3, LeaveShape DEF in_remove_audio_effect, Untouched, Starting
  <2> QED BY <2>2, <2>3
<1>17. CASE in_read_running(t)
  BY <1>17, <1>0, GoShape DEF in_read_running, Enter, Starting, streamVars
<1>18. CASE start_input_stream(t)
  <2>1. arg[t] \in Ins /\ pc[t] = "stream" /\ op[t] = "in_read" /\ lock[Dev] = t
    BY <1>18, EnterInput, OwnsDev DEF start_input_stream, InOps, Enter
  <2>2. PICK to \in Starting : Go(t, to)
    BY <1>18 DEF start_input_stream, Starting
  <2>3. pc'[t] \in Starting /\ inp'[t] = arg[t] /\ op'[t] = op[t] /\ arg'[t] = arg[t]
    BY <1>18, <1>0, <2>2 DEF start_input_stream, Go, ThreadTypes
  <2> QED BY <1>18, <2>1, <2>3 DEF start_input_stream, StartsIn, OwnPlace, Starting, streamVars
<1>19. ASSUME put_echo_reference(t) \/ create_echo_reference(t) \/ add_echo_reference(t)
       PROVE  OwnPlace(t) /\ Shape(t)
  <2>1. PICK to \in Starting : Go(t, to)
    BY <1>19 DEF put_echo_reference, create_echo_reference, add_echo_reference, Starting
  <2>2. /\ pc[t] \in Starting
        /\ UNCHANGED <<op, arg, inp, open, standby, pcm, activeOut, activeIn>>
    BY <1>19 DEF put_echo_reference, create_echo_reference, add_echo_reference, Starting, streamVars
  <2>3. pc'[t] \in Starting
    BY <2>1, <1>0 DEF Go, ThreadTypes
  <2> QED BY <2>2, <2>3 DEF OwnPlace, Quiet, Starting
<1>20. ASSUME NEW ok \in BOOLEAN, open_capture(t, ok) PROVE OwnPlace(t) /\ Shape(t)
  <2>1. /\ pc[t] = "openPcm" /\ op[t] = "in_read" /\ arg[t] \in Ins /\ inp[t] = arg[t]
        /\ lock[Dev] = t
    BY <1>20, <1>0, OwnsDev DEF open_capture, Placed, InOps, InputWork
  <2>2. pc'[t] = "inIO" /\ op'[t] = op[t] /\ arg'[t] = arg[t]
    BY <1>20, <1>0 DEF open_capture, Go, ThreadTypes
  <2>3. OpensIn(t, ok)
    BY <1>20, <2>1, <2>2 DEF open_capture, OpensIn
  <2> QED BY <2>2, <2>3 DEF OwnPlace
<1>21. CASE read_pcm(t)
  <2>1. op[t] = "in_read" /\ pc[t] = "inIO"
    BY <1>21, <1>0 DEF read_pcm, Placed
  <2> QED BY <1>21, <1>0, <2>1, LeaveShape DEF read_pcm, Starting, streamVars
<1> QED
  BY <1>1, <1>2, <1>3, <1>4, <1>5, <1>6, <1>7, <1>8, <1>9, <1>10, <1>11, <1>12, <1>13, <1>14,
     <1>15, <1>16, <1>17, <1>18, <1>19, <1>20, <1>21 DEF Step, OutStep, InStep

-----------------------------------------------------------------------------
(* Each part of the invariant is kept by every shape. *)

Moved(t) == LockInv /\ LockInv' /\ StreamInv /\ KeepsOrder(t) /\ OwnPlace(t)

\* what the parts use of the mutexes, the types and the other threads
LEMMA MovedFacts ==
    ASSUME NEW t \in Threads, Moved(t)
    PROVE  /\ \A u \in Threads \ {t} :
                pc'[u] = pc[u] /\ op'[u] = op[u] /\ arg'[u] = arg[u] /\ inp'[u] = inp[u]
           /\ standby \in [Streams -> BOOLEAN]
           /\ pcm \in [Streams -> {"null", "ready", "closed"}]
           /\ activeOut \in Opt(Outs) /\ activeIn \in Opt(Ins)
           /\ \A u \in Threads : Placed(u)
           /\ \A u \in Threads : op[u] \in Closes => arg[u] \in Streams
           /\ \A u \in Threads : pc[u] = "outIO" => arg[u] \in Outs /\ lock[arg[u]] = u
           /\ None \notin Streams /\ Outs \intersect Ins = {} /\ None \notin Closes
           /\ Streams = Outs \union Ins
<1>1. \A u \in Threads : Placed(u)
  BY DEF Moved, LockInv
<1>2. ASSUME NEW u \in Threads, pc[u] = "outIO" PROVE arg[u] \in Outs /\ lock[arg[u]] = u
  <2>1. arg[u] \in Outs /\ arg[u] \in Locks
    BY <1>1, <1>2 DEF Placed, OutOps, Locks, Streams
  <2>2. arg[u] \in Holds(u)
    BY <1>2, <2>1 DEF Holds
  <2> QED BY <2>1, <2>2 DEF Moved, LockInv, LockDiscipline
<1>3. \A u \in Threads : op[u] \in Closes => arg[u] \in Streams
  BY <1>1 DEF Placed, Closes, OutOps, InOps, Streams
<1>4. None \notin Closes /\ None \notin Streams
  BY NamesAssumption DEF Closes, Ops, OutOps, InOps, Locks
<1> QED
  BY <1>1, <1>2, <1>3, <1>4, NamesAssumption
     DEF Moved, KeepsOrder, OthersKeep, LockInv, TypeOK, StreamTypes, DeviceTypes, Streams

LEMMA ExclusiveKept ==
    ASSUME NEW t \in Threads, Moved(t)
    PROVE  Exclusive'
<1> SUFFICES ASSUME NEW u \in Threads, NEW v \in Threads, u # v, op'[u] \in Closes
             PROVE  arg'[v] # arg'[u]
  BY DEF Exclusive, Closes
<1>1. op'[u] = op[u] /\ arg'[u] = arg[u] /\ arg[u] \in Streams
  BY MovedFacts DEF Moved, OwnPlace
<1>2. arg'[v] = arg[v] \/ arg'[v] = None
  BY MovedFacts DEF Moved, OwnPlace
<1> QED BY <1>1, <1>2, MovedFacts DEF Moved, StreamInv, Exclusive

LEMMA StopPlaceKept ==
    ASSUME NEW t \in Threads, Moved(t), Shape(t)
    PROVE  StopPlace'
<1> SUFFICES ASSUME NEW u \in Threads
             PROVE  /\ pc'[u] = "forceIn" => op'[u] \in {"out_write", "out_set_parameters"}
                    /\ pc'[u] = "removeEcho" => activeIn' = None
                    /\ pc'[u] = "removeEcho" /\ op'[u] \in Closes => inp'[u] = arg'[u]
  BY DEF StopPlace, Closes
<1>1. CASE u = t
  <2>1. pc'[t] = "forceIn" => op'[t] \in {"out_write", "out_set_parameters"}
    BY DEF Moved, OwnPlace
  <2>2. ASSUME pc'[t] = "removeEcho"
        PROVE  activeIn' = None /\ (op'[t] \in Closes => inp'[t] = arg'[t])
    <3>1. PICK i \in Ins : StopsIn(t, i)
      BY <2>2 DEF Shape, Quiet, StopsOut, StartsOut, FailsOut, FinishesIn, StartsIn, OpensIn,
                  Frees, Starting
    <3>2. activeIn' = None /\ inp'[t] = i /\ op'[t] = op[t] /\ arg'[t] = arg[t]
      BY <2>2, <3>1 DEF StopsIn, Moved, OwnPlace
    <3>3. op[t] \in Closes => i = arg[t]
      BY <3>1 DEF StopsIn, Moved, StreamInv, StopPlace, Closes
    <3> QED BY <3>2, <3>3
  <2> QED BY <1>1, <2>1, <2>2
<1>2. CASE u # t
  <2>1. pc'[u] = pc[u] /\ op'[u] = op[u] /\ arg'[u] = arg[u] /\ inp'[u] = inp[u]
    BY <1>2, MovedFacts
  <2>2. ASSUME pc[u] = "removeEcho" PROVE activeIn' = None
    <3>1. lock[Dev] # t
      BY <1>2, <2>2, OneDev DEF Moved, InputWork
    <3>2. activeIn' = activeIn \/ activeIn' = None
      BY <3>1 DEF Shape, Quiet, StopsOut, StartsOut, FailsOut, StopsIn, FinishesIn, StartsIn,
                  OpensIn, Frees
    <3> QED BY <2>2, <3>2 DEF Moved, StreamInv, StopPlace
  <2> QED BY <2>1, <2>2 DEF Moved, StreamInv, StopPlace
<1> QED BY <1>1, <1>2

LEMMA OutAwakeKept ==
    ASSUME NEW t \in Threads, Moved(t), Shape(t)
    PROVE  OutAwake'
<1> SUFFICES ASSUME NEW u \in Threads, pc'[u] = "outIO" PROVE ~ standby'[arg'[u]]
  BY DEF OutAwake
<1>1. CASE u = t
  <2>1. arg'[t] = arg[t]
    BY <1>1 DEF Moved, OwnPlace
  <2>2. Quiet(t) \/ StartsOut(t)
    BY <1>1 DEF Shape, StopsOut, FailsOut, StopsIn, FinishesIn, StartsIn, OpensIn, Frees, Starting
  <2> QED BY <1>1, <2>1, <2>2, MovedFacts DEF Quiet, StartsOut
<1>2. CASE u # t
  <2>1. /\ pc[u] = "outIO" /\ arg'[u] = arg[u] /\ ~ standby[arg[u]]
        /\ arg[u] \in Outs /\ lock[arg[u]] = u /\ u # None
    BY <1>2, MovedFacts, NamesAssumption DEF Moved, StreamInv, OutAwake
  <2>2. op[t] \in Closes => arg[u] # arg[t]
    BY <1>2 DEF Moved, StreamInv, Exclusive
  <2>3. CASE Quiet(t) \/ FailsOut(t) \/ StartsIn(t)
    BY <2>1, <2>3 DEF Quiet, FailsOut, StartsIn
  <2>4. CASE StopsOut(t) \/ StartsOut(t)
    <3>1. arg[u] # arg[t]
      BY <2>1, <2>4 DEF StopsOut, StartsOut, Free
    <3> QED BY <2>1, <2>4, <3>1, MovedFacts DEF StopsOut, StartsOut
  <2>5. ASSUME NEW i \in Ins, StopsIn(t, i) PROVE ~ standby'[arg[u]]
    BY <2>1, <2>5, MovedFacts DEF StopsIn
  <2>6. CASE FinishesIn(t)
    BY <2>1, <2>6, MovedFacts DEF FinishesIn
  <2>7. ASSUME NEW ok \in BOOLEAN, OpensIn(t, ok) PROVE ~ standby'[arg[u]]
    BY <2>1, <2>7, MovedFacts DEF OpensIn
  <2>8. CASE Frees(t)
    BY <2>1, <2>2, <2>8, MovedFacts DEF Frees
  <2> QED BY <2>1, <2>3, <2>4, <2>5, <2>6, <2>7, <2>8 DEF Shape
<1> QED BY <1>1, <1>2

LEMMA PcmKept ==
    ASSUME NEW t \in Threads, Moved(t), Shape(t)
    PROVE  PcmInv'
<1> SUFFICES ASSUME NEW s \in Streams, ~ standby'[s], pcm'[s] # "ready"
             PROVE  \E v \in Threads : pc'[v] = "removeEcho" /\ inp'[v] = s
  BY DEF PcmInv
<1>0. ASSUME NEW v \in Threads, v # t, pc[v] = "removeEcho", inp[v] = s
      PROVE  pc'[v] = "removeEcho" /\ inp'[v] = s
  BY <1>0, MovedFacts
<1>1. ~ standby[s] /\ pcm[s] # "ready" => \E v \in Threads : pc[v] = "removeEcho" /\ inp[v] = s
  BY DEF Moved, StreamInv, PcmInv
<1>2. CASE Quiet(t) \/ StartsIn(t)
  <2>1. pc[t] # "removeEcho" /\ ~ standby[s] /\ pcm[s] # "ready"
    BY <1>2 DEF Quiet, StartsIn
  <2> QED BY <1>0, <1>1, <2>1
<1>3. CASE StopsOut(t) \/ StartsOut(t) \/ FailsOut(t)
  <2>1. pc[t] # "removeEcho" /\ ~ standby[s] /\ pcm[s] # "ready"
    BY <1>3, MovedFacts DEF StopsOut, StartsOut, FailsOut
  <2> QED BY <1>0, <1>1, <2>1
<1>4. ASSUME NEW i \in Ins, StopsIn(t, i)
      PROVE  \E v \in Threads : pc'[v] = "removeEcho" /\ inp'[v] = s
  <2>1. CASE s = i
    BY <1>4, <2>1, MovedFacts DEF StopsIn
  <2>2. CASE s # i
    <3>1. pc[t] # "removeEcho" /\ ~ standby[s] /\ pcm[s] # "ready"
      BY <1>4, <2>2, MovedFacts DEF StopsIn
    <3> QED BY <1>0, <1>1, <3>1
  <2> QED BY <2>1, <2>2
<1>5. CASE FinishesIn(t)
  <2>1. s # inp[t] /\ ~ standby[s] /\ pcm[s] # "ready"
    BY <1>5, MovedFacts DEF FinishesIn
  <2> QED BY <1>0, <1>1, <2>1
<1>6. ASSUME NEW ok \in BOOLEAN, OpensIn(t, ok)
      PROVE  \E v \in Threads : pc'[v] = "removeEcho" /\ inp'[v] = s
  <2>1. pc[t] # "removeEcho" /\ ~ standby[s] /\ pcm[s] # "ready"
    BY <1>6, MovedFacts, ZenonT(40) DEF OpensIn
  <2> QED BY <1>0, <1>1, <2>1
<1>7. CASE Frees(t)
  <2>1. pc[t] # "removeEcho" /\ ~ standby[s] /\ pcm[s] # "ready"
    BY <1>7, MovedFacts DEF Frees
  <2> QED BY <1>0, <1>1, <2>1
<1> QED BY <1>2, <1>3, <1>4, <1>5, <1>6, <1>7 DEF Shape

\* a thread that starts a stream is in an operation on it
LEMMA StartingOwn ==
    ASSUME NEW t \in Threads, Moved(t), NEW u \in Threads, pc[u] \in Starting
    PROVE  inp[u] = arg[u] /\ arg[u] \in Ins
  BY MovedFacts DEF Placed, Starting, InOps

LEMMA ActiveKept ==
    ASSUME NEW t \in Threads, Moved(t), Shape(t)
    PROVE  ActiveInv'
<1>0. ActiveInv /\ FreeInv /\ Exclusive /\ StopPlace
  BY DEF Moved, StreamInv
<1>1. ASSUME activeOut' # None PROVE ~ standby'[activeOut']
  <2>1. CASE Quiet(t) \/ StartsIn(t) \/ StopsOut(t) \/ FailsOut(t)
    BY <1>0, <1>1, <2>1 DEF Quiet, StartsIn, StopsOut, FailsOut, ActiveInv
  <2>2. CASE StartsOut(t)
    BY <2>2, MovedFacts DEF StartsOut
  <2>3. ASSUME activeOut' = activeOut, standby'[activeOut] = standby[activeOut]
        PROVE  ~ standby'[activeOut']
    BY <1>0, <1>1, <2>3 DEF ActiveInv
  <2>4. ASSUME NEW i \in Ins, StopsIn(t, i) PROVE ~ standby'[activeOut']
    <3>1. activeOut' = activeOut /\ standby'[activeOut] = standby[activeOut]
      BY <1>1, <2>4, MovedFacts DEF StopsIn, Opt
    <3> QED BY <2>3, <3>1
  <2>5. CASE FinishesIn(t)
    <3>1. activeOut' = activeOut /\ activeOut \in Outs
      BY <1>1, <2>5, MovedFacts DEF FinishesIn, Opt
    <3>2. activeOut \in Streams /\ activeOut # inp[t]
      BY <2>5, <3>1, MovedFacts DEF FinishesIn
    <3>3. standby'[activeOut] = standby[activeOut]
      BY <2>5, <3>2, MovedFacts DEF FinishesIn
    <3> QED BY <2>3, <3>1, <3>3
  <2>6. ASSUME NEW ok \in BOOLEAN, OpensIn(t, ok) PROVE ~ standby'[activeOut']
    <3>1. activeOut' = activeOut /\ standby'[activeOut] = standby[activeOut]
      BY <1>1, <2>6, MovedFacts DEF OpensIn, Opt
    <3> QED BY <2>3, <3>1
  <2>7. CASE Frees(t)
    <3>1. activeOut' = activeOut /\ activeOut # arg[t]
      BY <1>0, <1>1, <2>7 DEF Frees, FreeInv, ActiveInv
    <3>2. standby'[activeOut] = standby[activeOut]
      BY <1>1, <2>7, <3>1, MovedFacts DEF Frees, Opt
    <3> QED BY <2>3, <3>1, <3>2
  <2> QED BY <2>1, <2>2, <2>4, <2>5, <2>6, <2>7 DEF Shape
<1>2. ASSUME activeIn' # None
      PROVE  ~ standby'[activeIn'] \/ \E u \in Threads : pc'[u] \in Starting /\ inp'[u] = activeIn'
  <2>0. ASSUME activeIn' = activeIn, activeIn # None,
               standby'[activeIn] = standby[activeIn],
               pc[t] \in Starting => pc'[t] \in Starting /\ inp'[t] = inp[t]
        PROVE  ~ standby'[activeIn'] \/ \E u \in Threads : pc'[u] \in Starting /\ inp'[u] = activeIn'
    <3>1. CASE ~ standby[activeIn]
      BY <2>0, <3>1
    <3>2. CASE standby[activeIn]
      <4>1. PICK u \in Threads : pc[u] \in Starting /\ inp[u] = activeIn
        BY <1>0, <2>0, <3>2 DEF ActiveInv
      <4>2. pc'[u] \in Starting /\ inp'[u] = activeIn
        BY <2>0, <4>1, MovedFacts
      <4> QED BY <2>0, <4>2
    <3> QED BY <3>1, <3>2
  <2>1. CASE Quiet(t)
    BY <1>2, <2>0, <2>1 DEF Quiet
  <2>2. CASE StopsOut(t) \/ StartsOut(t) \/ FailsOut(t)
    BY <1>2, <2>0, <2>2, MovedFacts DEF StopsOut, StartsOut, FailsOut, Opt, Starting
  <2>3. ASSUME NEW i \in Ins, StopsIn(t, i) PROVE FALSE
    BY <1>2, <2>3 DEF StopsIn
  <2>4. CASE FinishesIn(t)
    BY <1>0, <1>2, <2>4 DEF FinishesIn, StopPlace
  <2>5. CASE StartsIn(t)
    BY <2>5 DEF StartsIn
  <2>6. ASSUME NEW ok \in BOOLEAN, OpensIn(t, ok)
        PROVE  ~ standby'[activeIn'] \/ \E u \in Threads : pc'[u] \in Starting /\ inp'[u] = activeIn'
    <3>1. ok /\ activeIn' = activeIn /\ activeIn \in Streams /\ arg[t] \in Streams
      BY <1>2, <2>6, MovedFacts DEF OpensIn, Opt
    <3>2. CASE ~ standby[activeIn] \/ activeIn = arg[t]
      <4>1. standby' = [standby EXCEPT ![arg[t]] = FALSE]
        BY <2>6, <3>1 DEF OpensIn
      <4> QED BY <3>1, <3>2, <4>1, MovedFacts
    <3>3. CASE standby[activeIn] /\ activeIn # arg[t]
      <4>1. PICK u \in Threads : pc[u] \in Starting /\ inp[u] = activeIn
        BY <1>0, <1>2, <3>1, <3>3 DEF ActiveInv
      <4>2. u # t
        BY <2>6, <3>3, <4>1 DEF OpensIn
      <4> QED BY <3>1, <4>1, <4>2, MovedFacts
    <3> QED BY <3>2, <3>3
  <2>7. CASE Frees(t)
    <3>1. activeIn' = activeIn /\ activeIn \in Streams
      BY <1>2, <2>7, MovedFacts DEF Frees, Opt
    <3>2. activeIn # arg[t]
      <4> SUFFICES ASSUME activeIn = arg[t] PROVE FALSE
        OBVIOUS
      <4>1. PICK u \in Threads : pc[u] \in Starting /\ inp[u] = arg[t]
        BY <1>0, <1>2, <2>7, <3>1 DEF ActiveInv, FreeInv, Frees
      <4>2. u # t /\ arg[u] = arg[t]
        BY <2>7, <4>1, StartingOwn DEF Frees, Starting
      <4> QED BY <1>0, <2>7, <4>2 DEF Frees, Exclusive
    <3> QED BY <1>2, <2>0, <2>7, <3>1, <3>2, MovedFacts DEF Frees, Starting
  <2> QED BY <2>1, <2>2, <2>3, <2>4, <2>5, <2>6, <2>7 DEF Shape
<1> QED BY <1>1, <1>2 DEF ActiveInv, Starting

\* the active input is open, and no closed or closing stream
LEMMA ActiveInUse ==
    ASSUME NEW t \in Threads, Moved(t), activeIn # None
    PROVE  /\ activeIn \in open
           /\ \A v \in Threads : pc[v] = "free" => activeIn # arg[v]
<1>0. ActiveInv /\ OpenInv /\ FreeInv /\ Exclusive
  BY DEF Moved, StreamInv
<1>1. activeIn \in Streams
  BY MovedFacts DEF Opt
<1>2. CASE ~ standby[activeIn]
  BY <1>0, <1>1, <1>2 DEF OpenInv, FreeInv
<1>3. CASE standby[activeIn]
  <2>1. PICK u \in Threads : pc[u] \in Starting /\ inp[u] = activeIn
    BY <1>0, <1>3 DEF ActiveInv
  <2>2. arg[u] = activeIn
    BY <2>1, StartingOwn
  <2>3. activeIn \in open
    BY <1>0, <2>2 DEF OpenInv
  <2>4. ASSUME NEW v \in Threads, pc[v] = "free" PROVE activeIn # arg[v]
    <3>1. u # v /\ op[v] \in Closes
      BY <2>1, <2>4, MovedFacts DEF Starting, Placed, Closes
    <3> QED BY <1>0, <2>2, <3>1 DEF Exclusive
  <2> QED BY <2>3, <2>4
<1> QED BY <1>2, <1>3

LEMMA OpenKept ==
    ASSUME NEW t \in Threads, Moved(t), Shape(t)
    PROVE  OpenInv'
<1>0. OpenInv /\ FreeInv /\ Exclusive /\ StopPlace
  BY DEF Moved, StreamInv
<1>1. arg[t] \in Streams => arg[t] \in open
  BY <1>0, MovedFacts DEF OpenInv
<1>2. open' = open \/ Frees(t)
  BY DEF Shape, Quiet, StopsOut, StartsOut, FailsOut, StopsIn, FinishesIn, StartsIn, OpensIn
<1>3. Frees(t) => open' = open \ {arg[t]}
  BY DEF Frees
<1>4. ASSUME NEW s \in Streams, ~ standby'[s] PROVE s \in open'
  <2>1. CASE ~ standby[s]
    BY <1>0, <1>2, <1>4, <2>1, MovedFacts DEF OpenInv, Frees
  <2>2. CASE standby[s]
    <3>1. s = arg[t] /\ ~ Frees(t)
      <4>1. ~ Quiet(t) /\ ~ StartsIn(t) /\ ~ FailsOut(t)
        BY <1>4, <2>2 DEF Quiet, StartsIn, FailsOut
      <4>2. ~ StopsOut(t) /\ ~ FinishesIn(t) /\ ~ Frees(t)
        BY <1>4, <2>2, MovedFacts DEF StopsOut, FinishesIn, Frees
      <4>3. ASSUME NEW i \in Ins, StopsIn(t, i) PROVE FALSE
        BY <1>4, <2>2, <4>3, MovedFacts DEF StopsIn
      <4>4. StartsOut(t) => s = arg[t]
        BY <1>4, <2>2, MovedFacts DEF StartsOut
      <4>5. ASSUME NEW ok \in BOOLEAN, OpensIn(t, ok) PROVE s = arg[t]
        BY <1>4, <2>2, <4>5, MovedFacts DEF OpensIn
      <4> QED BY <4>1, <4>2, <4>3, <4>4, <4>5 DEF Shape
    <3> QED BY <1>1, <1>2, <3>1
  <2> QED BY <2>1, <2>2
<1>5. ASSUME NEW u \in Threads, arg'[u] # None PROVE arg'[u] \in open'
  <2>1. arg'[u] = arg[u] /\ arg[u] \in open
    BY <1>0, <1>5, MovedFacts DEF Moved, OwnPlace, OpenInv
  <2>2. ASSUME Frees(t) PROVE arg[u] # arg[t]
    <3>1. CASE u = t
      <4>1. op'[t] = None /\ op[t] \in Closes
        BY <2>2 DEF Frees, Moved, LockInv, Placed
      <4> QED BY <1>5, <3>1, <4>1, MovedFacts DEF Moved, OwnPlace
    <3>2. CASE u # t
      BY <1>0, <2>2, <3>2 DEF Frees, Exclusive
    <3> QED BY <3>1, <3>2
  <2> QED BY <1>2, <1>3, <2>1, <2>2
<1>6. ASSUME NEW u \in Threads, pc'[u] \in {"forceIn", "removeEcho"} PROVE inp'[u] \in open'
  <2>1. CASE u # t
    BY <1>0, <1>2, <1>3, <1>6, <2>1, MovedFacts DEF OpenInv, FreeInv, Frees
  <2>2. CASE u = t /\ pc'[t] = "forceIn"
    <3>1. inp'[t] = activeIn /\ activeIn # None
      BY <2>2 DEF Moved, OwnPlace
    <3>2. ~ Frees(t)
      BY <2>2 DEF Frees
    <3> QED BY <1>2, <2>2, <3>1, <3>2, ActiveInUse
  <2>3. CASE u = t /\ pc'[t] = "removeEcho"
    <3>1. PICK i \in Ins : StopsIn(t, i)
      BY <2>3 DEF Shape, Quiet, StopsOut, StartsOut, FailsOut, FinishesIn, StartsIn, OpensIn,
                  Frees, Starting
    <3>2. inp'[t] = i /\ open' = open /\ i \in Streams
      BY <2>3, <3>1, MovedFacts DEF StopsIn
    <3>3. i \in open
      BY <1>0, <1>1, <3>1, <3>2 DEF StopsIn, OpenInv
    <3> QED BY <2>3, <3>2, <3>3
  <2> QED BY <1>6, <2>1, <2>2, <2>3
<1> QED BY <1>4, <1>5, <1>6 DEF OpenInv

LEMMA FreeKept ==
    ASSUME NEW t \in Threads, Moved(t), Shape(t)
    PROVE  FreeInv'
<1>0. OpenInv /\ FreeInv /\ Exclusive /\ StopPlace
  BY DEF Moved, StreamInv
<1>1. \A u \in Threads : pc[u] = "free" => op[u] \in Closes /\ arg[u] \in Streams
  BY MovedFacts DEF Placed, Closes
<1>2. pc'[t] = "free" => op[t] \in Closes /\ op'[t] = op[t] /\ arg'[t] = arg[t]
  BY DEF Moved, OwnPlace, LockInv, Placed, Closes
<1>3. pc'[t] = "free" => lock[Dev] = t /\ standby'[arg[t]]
  <2> SUFFICES ASSUME pc'[t] = "free" PROVE lock[Dev] = t /\ standby'[arg[t]]
    OBVIOUS
  <2>1. CASE Quiet(t)
    BY <2>1 DEF Quiet
  <2>2. CASE StopsOut(t)
    BY <2>2, MovedFacts DEF StopsOut
  <2>3. ASSUME NEW i \in Ins, StopsIn(t, i) PROVE lock[Dev] = t /\ standby'[arg[t]]
    <3>1. i = arg[t]
      BY <1>0, <1>2, <2>3 DEF StopsIn, StopPlace, Closes
    <3> QED BY <2>3, <3>1, MovedFacts DEF StopsIn
  <2>4. CASE FinishesIn(t)
    <3>1. inp[t] = arg[t]
      BY <1>0, <1>2, <2>4 DEF FinishesIn, StopPlace
    <3> QED BY <2>4, <3>1, MovedFacts DEF FinishesIn
  <2> QED
    BY <2>1, <2>2, <2>3, <2>4 DEF Shape, StartsOut, FailsOut, StartsIn, OpensIn, Frees, Starting
<1>4. ASSUME NEW u \in Threads, pc'[u] = "free" PROVE standby'[arg'[u]]
  <2>1. CASE u = t
    BY <1>2, <1>3, <1>4, <2>1
  <2>2. CASE u # t
    <3>1. pc[u] = "free" /\ arg'[u] = arg[u] /\ standby[arg[u]] /\ arg[u] # arg[t]
          /\ arg[u] \in Streams
      BY <1>0, <1>1, <1>4, <2>2, MovedFacts DEF FreeInv, Exclusive
    <3>2. CASE Quiet(t) \/ StartsIn(t) \/ FailsOut(t)
      BY <3>1, <3>2 DEF Quiet, StartsIn, FailsOut
    <3>3. CASE StopsOut(t) \/ StartsOut(t) \/ FinishesIn(t) \/ Frees(t)
      BY <3>1, <3>3, MovedFacts DEF StopsOut, StartsOut, FinishesIn, Frees
    <3>4. ASSUME NEW i \in Ins, StopsIn(t, i) PROVE standby'[arg[u]]
      BY <3>1, <3>4, MovedFacts DEF StopsIn
    <3>5. ASSUME NEW ok \in BOOLEAN, OpensIn(t, ok) PROVE standby'[arg[u]]
      BY <3>1, <3>5, MovedFacts DEF OpensIn
    <3> QED BY <3>1, <3>2, <3>3, <3>4, <3>5 DEF Shape
  <2> QED BY <2>1, <2>2
<1>5. ASSUME NEW u \in Threads, NEW v \in Threads,
             pc'[u] \in {"forceIn", "removeEcho"}, pc'[v] = "free"
      PROVE  inp'[u] # arg'[v]
  <2>1. CASE u # t /\ v # t
    BY <1>0, <1>5, <2>1, MovedFacts DEF FreeInv
  <2>2. CASE u # t /\ v = t
    <3>1. lock[Dev] = t /\ pc[u] \in {"forceIn", "removeEcho"}
      BY <1>3, <1>5, <2>2, MovedFacts
    <3> QED BY <2>2, <3>1, OneDev DEF Moved, InputWork
  <2>3. CASE u = t /\ v # t
    <3>1. pc[v] = "free" /\ arg'[v] = arg[v] /\ op[v] \in Closes
      BY <1>1, <1>5, <2>3, MovedFacts
    <3>2. CASE pc'[t] = "forceIn"
      <4>1. inp'[t] = activeIn /\ activeIn # None
        BY <3>2 DEF Moved, OwnPlace
      <4> QED BY <2>3, <3>1, <4>1, ActiveInUse
    <3>3. CASE pc'[t] = "removeEcho"
      <4>1. PICK i \in Ins : StopsIn(t, i)
        BY <3>3 DEF Shape, Quiet, StopsOut, StartsOut, FailsOut, FinishesIn, StartsIn, OpensIn,
                    Frees, Starting
      <4>2. inp'[t] = i
        BY <3>3, <4>1 DEF StopsIn
      <4>3. i # arg[v]
        BY <1>0, <2>3, <3>1, <4>1 DEF StopsIn, FreeInv, Exclusive
      <4> QED BY <2>3, <3>1, <4>2, <4>3
    <3> QED BY <1>5, <2>3, <3>2, <3>3
  <2>4. CASE u = t /\ v = t
    BY <1>5, <2>4
  <2> QED BY <2>1, <2>2, <2>3, <2>4
<1> QED BY <1>4, <1>5 DEF FreeInv

-----------------------------------------------------------------------------
(* The echo reference changes hands only under the device mutex. *)

LEMMA StandbyEcho ==
    ASSUME NEW t \in Threads, NEW i \in Ins, do_input_standby(t, i), NoEchoLeak
    PROVE  NoEchoLeak' /\ (echo = None => echo' = None)
<1>1. CASE standby[i]
  BY <1>1 DEF do_input_standby, echoVars, NoEchoLeak
<1>2. CASE ~ standby[i] /\ Owns(i) /\ activeOut # None
  BY <1>2 DEF do_input_standby, NoEchoLeak
<1>3. CASE ~ standby[i] /\ ~ (Owns(i) /\ activeOut # None)
  <2>1. live' = (IF Owns(i) THEN live \ {echo} ELSE live) /\ echo' = (IF Owns(i) THEN None ELSE echo)
    BY <1>3 DEF do_input_standby
  <2> QED BY <2>1 DEF NoEchoLeak
<1> QED BY <1>1, <1>2, <1>3

\* a step that releases the reference it finds, or leaves it alone
Unechoed == NoEchoLeak' /\ (echo' = echo \/ echo' = None)

LEMMA StepUnechoed ==
    ASSUME LockInv, NEW t \in Threads, Step(t), NoEchoLeak, ~ create_echo_reference(t)
    PROVE  Unechoed
<1> USE DEF Unechoed, NoEchoLeak
<1>1. ASSUME NEW i \in Ins, do_input_standby(t, i) PROVE Unechoed
  <2>1. echo' = echo \/ echo' = None
    BY <1>1 DEF do_input_standby, echoVars
  <2> QED BY <1>1, <2>1, StandbyEcho
<1>2. ASSUME UNCHANGED <<echo, live>> PROVE Unechoed
  BY <1>2
<1>3. CASE LockDev(t) \/ FreeStream(t)
  BY <1>2, <1>3 DEF LockDev, FreeStream, echoVars
<1>4. ASSUME NEW m \in Modes, adev_set_mode(t, m) PROVE Unechoed
  BY <1>2, <1>4 DEF adev_set_mode, echoVars
<1>5. CASE OutStep(t)
  BY <1>2, <1>5 DEF OutStep, out_standby, out_set_parameters, out_write_running,
     start_output_stream, start_output_fails, write_pcm, force_input, echoVars
<1>6. CASE in_standby(t)
  BY <1>1, <1>6, EnterInput DEF in_standby, InOps, Enter
<1>7. CASE forced_standby(t)
  BY <1>1, <1>7 DEF forced_standby, LockInv, Placed
<1>8. CASE finish_standby(t) \/ put_echo_reference(t)
  BY <1>8 DEF finish_standby, put_echo_reference
<1>9. ASSUME NEW src \in Sources, NEW d \in InDevices, in_set_parameters(t, src, d)
      PROVE  Unechoed
  <2>1. arg[t] \in Ins
    BY <1>9, EnterInput DEF in_set_parameters, InOps, Enter
  <2> QED BY <1>1, <1>2, <1>9, <2>1 DEF in_set_parameters, echoVars
<1>10. ASSUME NEW e \in Effects, NEW ok \in BOOLEAN,
              in_add_audio_effect(t, e, ok) \/ in_remove_audio_effect(t, e, ok)
       PROVE  Unechoed
  <2>1. arg[t] \in Ins
    BY <1>10, EnterInput DEF in_add_audio_effect, in_remove_audio_effect, InOps, Enter
  <2>2. CASE do_input_standby(t, arg[t])
    BY <1>1, <2>1, <2>2
  <2>3. CASE ~ do_input_standby(t, arg[t])
    BY <1>2, <1>10, <2>3 DEF in_add_audio_effect, in_remove_audio_effect, Untouched, echoVars
  <2> QED BY <2>2, <2>3
<1>11. CASE in_read_running(t) \/ add_echo_reference(t) \/ read_pcm(t)
  BY <1>2, <1>11 DEF in_read_running, add_echo_reference, read_pcm, echoVars
<1>12. CASE start_input_stream(t)
  <2>1. (echo' = None /\ live' = live \ {echo}) \/ UNCHANGED <<echo, live>>
    BY <1>12 DEF start_input_stream
  <2> QED BY <2>1
<1>13. ASSUME NEW ok \in BOOLEAN, open_capture(t, ok) PROVE Unechoed
  BY <1>2, <1>13 DEF open_capture, echoVars
<1> QED
  BY <1>3, <1>4, <1>5, <1>6, <1>7, <1>8, <1>9, <1>10, <1>11, <1>12, <1>13
     DEF Step, InStep

\* only start_input_stream and put_echo_reference go on to create a reference
LEMMA StepCreates ==
    ASSUME LockInv, NEW t \in Threads, Step(t), pc'[t] = "createEcho", pc[t] # "createEcho"
    PROVE  put_echo_reference(t) \/ start_input_stream(t)
<1>0. ThreadTypes
  BY DEF LockInv, TypeOK
<1>1. ASSUME Return(t) PROVE FALSE
  BY <1>0, <1>1 DEF Return, Go, ThreadTypes
<1>2. ASSUME NEW to, Go(t, to), to # "createEcho" PROVE FALSE
  BY <1>0, <1>2 DEF Go, ThreadTypes
<1>3. ASSUME NEW i, do_input_standby(t, i) PROVE FALSE
  BY <1>1, <1>2, <1>3 DEF do_input_standby
<1>4. ~ LockDev(t) /\ ~ FreeStream(t) /\ ~ \E m \in Modes : adev_set_mode(t, m)
  BY <1>1, <1>2 DEF LockDev, FreeStream, adev_set_mode
<1>5. ~ OutStep(t)
  BY <1>1, <1>2 DEF OutStep, out_standby, out_set_parameters, out_write_running,
     start_output_stream, start_output_fails, write_pcm, force_input
<1>6. ~ in_standby(t) /\ ~ forced_standby(t) /\ ~ finish_standby(t)
  BY <1>1, <1>3 DEF in_standby, forced_standby, finish_standby
<1>7. ~ \E src \in Sources, d \in InDevices : in_set_parameters(t, src, d)
  BY <1>1, <1>3 DEF in_set_parameters
<1>8. ~ \E e \in Effects, ok \in BOOLEAN :
          in_add_audio_effect(t, e, ok) \/ in_remove_audio_effect(t, e, ok)
  BY <1>1, <1>3 DEF in_add_audio_effect, in_remove_audio_effect, Untouched
<1>9. ~ in_read_running(t) /\ ~ create_echo_reference(t) /\ ~ add_echo_reference(t)
  BY <1>2 DEF in_read_running, create_echo_reference, add_echo_reference
<1>10. ~ read_pcm(t) /\ ~ \E ok \in BOOLEAN : open_capture(t, ok)
  BY <1>1, <1>2 DEF read_pcm, open_capture
<1> QED BY <1>4, <1>5, <1>6, <1>7, <1>8, <1>9, <1>10 DEF Step, InStep

LEMMA EchoKept ==
    ASSUME NEW t \in Threads, Moved(t), Step(t)
    PROVE  EchoInv'
<1>0. LockInv /\ EchoInv
  BY DEF Moved, StreamInv
<1>1. CASE create_echo_reference(t)
  <2>1. echo = None /\ live = {}
    BY <1>0, <1>1 DEF create_echo_reference, EchoInv, NoEchoLeak
  <2>2. lock[Dev] = t
    BY <1>0, <1>1, OwnsDev DEF create_echo_reference, InputWork
  <2>3. \A u \in Threads : pc'[u] # "createEcho"
    <3>1. PICK to \in {"addEcho", "openPcm"} : Go(t, to)
      BY <1>1 DEF create_echo_reference
    <3>2. pc'[t] # "createEcho"
      BY <1>0, <3>1 DEF Go, LockInv, TypeOK, ThreadTypes
    <3> QED BY <1>0, <2>2, <3>2, OneDev, MovedFacts DEF InputWork
  <2>4. NoEchoLeak'
    BY <1>1, <2>1, NamesAssumption DEF create_echo_reference, NoEchoLeak
  <2> QED BY <2>3, <2>4 DEF EchoInv
<1>2. CASE ~ create_echo_reference(t)
  <2>1. Unechoed
    BY <1>0, <1>2, StepUnechoed DEF EchoInv
  <2>2. ASSUME NEW u \in Threads, pc'[u] = "createEcho" PROVE echo' = None
    <3>1. CASE pc[u] = "createEcho"
      BY <1>0, <2>1, <3>1 DEF EchoInv, Unechoed
    <3>2. CASE pc[u] # "createEcho"
      <4>1. u = t
        BY <2>2, <3>2, MovedFacts
      <4>2. CASE put_echo_reference(t)
        BY <4>2 DEF put_echo_reference
      <4>3. CASE start_input_stream(t)
        <5>1. PICK to : Go(t, to) /\ (to = "createEcho" => echo = None)
          BY <4>3 DEF start_input_stream
        <5>2. echo = None
          BY <1>0, <2>2, <4>1, <5>1 DEF Go, LockInv, TypeOK, ThreadTypes
        <5> QED BY <2>1, <5>2 DEF Unechoed
      <4> QED BY <1>0, <1>2, <2>2, <3>2, <4>1, <4>2, <4>3, StepCreates
    <3> QED BY <3>1, <3>2
  <2> QED BY <2>1, <2>2 DEF EchoInv, Unechoed
<1> QED BY <1>1, <1>2

-----------------------------------------------------------------------------
(* The invariant, and the properties it is for. *)

LEMMA StepStreams ==
    ASSUME LockInv, LockInv', StreamInv, NEW t \in Threads, Step(t)
    PROVE  StreamInv'
<1>1. Moved(t) /\ Shape(t)
  BY StepOrder, StepShape DEF Moved, StreamInv
<1> QED
  BY <1>1, ExclusiveKept, StopPlaceKept, OutAwakeKept, PcmKept, EchoKept, ActiveKept,
     OpenKept, FreeKept DEF StreamInv

LEMMA CallStreams ==
    ASSUME LockInv, StreamInv, NEW t \in Threads, NEW o \in Ops, NEW s \in Opt(Streams),
           Call(t, o, s)
    PROVE  StreamInv'
<1>1. /\ pc[t] = "idle" /\ pc' = [pc EXCEPT ![t] = "dev"]
      /\ op' = [op EXCEPT ![t] = o] /\ arg' = [arg EXCEPT ![t] = s]
      /\ UNCHANGED <<inp, open, standby, pcm, activeOut, activeIn, echo, live>>
      /\ pc \in [Threads -> PC] /\ op \in [Threads -> Opt(Ops)]
      /\ arg \in [Threads -> Opt(Streams)]
  BY DEF Call, Go, streamVars, echoVars, LockInv, TypeOK, ThreadTypes
<1>2. /\ s # None => s \in open
      /\ o \in Closes => s # None /\ \A u \in Threads : arg[u] # s
      /\ s # None => \A u \in Threads : op[u] \in Closes => arg[u] # s
  BY NamesAssumption DEF Call, InUse, Closing, Closes, Streams, Locks
<1>3. \A u \in Threads \ {t} : pc'[u] = pc[u] /\ op'[u] = op[u] /\ arg'[u] = arg[u]
  BY <1>1
<1>4. pc'[t] = "dev" /\ op'[t] = o /\ arg'[t] = s
  BY <1>1
<1>5. \A u \in Threads : op[u] \in Closes => arg[u] # None
  BY NamesAssumption DEF LockInv, Placed, Closes, OutOps, InOps, Streams, Locks
<1>6. Exclusive'
  BY <1>2, <1>3, <1>4, <1>5 DEF StreamInv, Exclusive, Closes
<1>7. StopPlace' /\ OutAwake'
  BY <1>1, <1>3, <1>4 DEF StreamInv, StopPlace, OutAwake, Closes
<1>8. PcmInv'
  BY <1>1, <1>3 DEF StreamInv, PcmInv
<1>9. EchoInv'
  BY <1>1, <1>3, <1>4 DEF StreamInv, EchoInv, NoEchoLeak
<1>10. ActiveInv'
  BY <1>1, <1>3 DEF StreamInv, ActiveInv, Starting
<1>11. OpenInv'
  BY <1>1, <1>2, <1>3, <1>4 DEF StreamInv, OpenInv
<1>12. FreeInv'
  BY <1>1, <1>3, <1>4 DEF StreamInv, FreeInv
<1> QED BY <1>6, <1>7, <1>8, <1>9, <1>10, <1>11, <1>12 DEF StreamInv

LEMMA OpenStreams ==
    ASSUME StreamInv, open \subseteq open',
           UNCHANGED <<pc, op, arg, inp, standby, pcm, activeOut, activeIn, echo, live>>
    PROVE  StreamInv'
  BY DEF StreamInv, Exclusive, StopPlace, OutAwake, PcmInv, EchoInv, NoEchoLeak, ActiveInv,
         OpenInv, FreeInv, Closes, Starting

LEMMA InitStreams == Init => StreamInv
  BY NamesAssumption
     DEF Init, StreamInv, Exclusive, StopPlace, OutAwake, PcmInv, EchoInv, NoEchoLeak,
         ActiveInv, OpenInv, FreeInv, Closes, Ops, OutOps, InOps, Streams

LEMMA NextStreams == LockInv /\ StreamInv /\ [Next]_vars => LockInv' /\ StreamInv'
<1> SUFFICES ASSUME LockInv, StreamInv, [Next]_vars PROVE LockInv' /\ StreamInv'
  OBVIOUS
<1>1. LockInv'
  BY NextInv
<1>2. ASSUME NEW t \in Threads, Step(t) PROVE StreamInv'
  BY <1>1, <1>2, StepStreams
<1>3. ASSUME NEW t \in Threads, Request(t) PROVE StreamInv'
  <2>1. CASE \E o \in Ops, s \in Opt(Streams) : Call(t, o, s)
    BY <2>1, CallStreams
  <2>2. CASE ~ \E o \in Ops, s \in Opt(Streams) : Call(t, o, s)
    <3>1. open \subseteq open'
          /\ UNCHANGED <<pc, op, arg, inp, standby, pcm, activeOut, activeIn, echo, live>>
      BY <1>3, <2>2 DEF Request, OpenOutput, OpenInput, threadVars, echoVars
    <3> QED BY <3>1, OpenStreams
  <2> QED BY <2>1, <2>2
<1>4. CASE UNCHANGED vars
  <2>1. open \subseteq open'
        /\ UNCHANGED <<pc, op, arg, inp, standby, pcm, activeOut, activeIn, echo, live>>
    BY <1>4 DEF vars, threadVars, streamVars, echoVars
  <2> QED BY <1>1, <2>1, OpenStreams
<1> QED BY <1>1, <1>2, <1>3, <1>4 DEF Next

\* whose mutex is taken in outIO or inIO is in no standby another thread finishes
LEMMA InvPcmReady == LockInv /\ StreamInv => PcmReady
<1> SUFFICES ASSUME LockInv, StreamInv, NEW t \in Threads
             PROVE  /\ pc[t] = "outIO" => ~ standby[arg[t]]
                    /\ pc[t] \in {"outIO", "inIO"} /\ ~ standby[arg[t]] => pcm[arg[t]] = "ready"
  BY DEF PcmReady
<1>1. pc[t] = "outIO" => ~ standby[arg[t]]
  BY DEF StreamInv, OutAwake
<1>2. ASSUME pc[t] \in {"outIO", "inIO"}, ~ standby[arg[t]], pcm[arg[t]] # "ready"
      PROVE  FALSE
  <2>1. arg[t] \in Streams /\ arg[t] \in Locks
    BY <1>2 DEF LockInv, Placed, OutOps, InOps, Streams, Locks
  <2>2. PICK u \in Threads : pc[u] = "removeEcho" /\ inp[u] = arg[t]
    BY <1>2, <2>1 DEF StreamInv, PcmInv
  <2>3. arg[t] \in Holds(t) /\ arg[t] \in Holds(u)
    BY <1>2, <2>1, <2>2 DEF Holds, InputWork
  <2>4. lock[arg[t]] = t /\ lock[arg[t]] = u
    BY <2>1, <2>3 DEF LockInv, LockDiscipline
  <2> QED BY <1>2, <2>2, <2>4
<1> QED BY <1>1, <1>2

LEMMA InvNoUseAfterClose == LockInv /\ StreamInv => NoUseAfterClose
<1> SUFFICES ASSUME LockInv, StreamInv PROVE NoUseAfterClose
  OBVIOUS
<1>0. ActiveInv /\ OpenInv /\ activeOut \in Opt(Outs) /\ activeIn \in Opt(Ins)
  BY DEF StreamInv, LockInv, TypeOK, DeviceTypes
<1>1. activeOut \in open \union {None}
  BY <1>0 DEF ActiveInv, OpenInv, Opt, Streams
<1>2. ASSUME NEW t \in Threads, pc[t] \in Starting PROVE inp[t] = arg[t] /\ inp[t] \in open
  <2>1. inp[t] = arg[t] /\ arg[t] \in Ins
    BY <1>2 DEF LockInv, Placed, Starting, InOps
  <2>2. arg[t] # None
    BY <2>1, NamesAssumption DEF Streams, Locks
  <2> QED BY <1>0, <2>1, <2>2 DEF OpenInv
<1>3. activeIn \in open \union {None}
  BY <1>0, <1>2 DEF ActiveInv, OpenInv, Opt, Streams
<1>4. ASSUME NEW t \in Threads, NEW l \in (Holds(t) \union WaitsFor(t)) \ {Dev} PROVE l \in open
  <2>1. l \in Locks /\ l # Dev /\ l # None
    BY <1>4, NamesAssumption DEF Holds, WaitsFor
  <2>2. CASE l = arg[t]
    BY <1>0, <2>1, <2>2 DEF OpenInv
  <2>3. CASE l = inp[t] /\ pc[t] \in {"forceIn", "removeEcho"} \union Starting
    BY <1>0, <1>2, <2>3 DEF OpenInv
  <2>4. CASE l = activeOut
    BY <1>1, <2>1, <2>4
  <2> QED BY <1>4, <2>1, <2>2, <2>3, <2>4 DEF Holds, WaitsFor, InputWork, Starting
<1> QED BY <1>1, <1>3, <1>4 DEF NoUseAfterClose

-----------------------------------------------------------------------------
(* What a step changes of the data a mutex protects. *)

SameDevice == UNCHANGED <<activeOut, activeIn, echo, mode, devOut, devIn>>
SamePlay(s) ==
    /\ standby'[s] = standby[s] /\ pcm'[s] = pcm[s]
    /\ s \in Outs => outEcho'[s] = outEcho[s]
    /\ s \in Ins => inEcho'[s] = inEcho[s]
SameInput(s) ==
    s \in Ins => /\ need'[s] = need[s] /\ effects'[s] = effects[s]
                 /\ source'[s] = source[s] /\ device'[s] = device[s]
SameStream(s) == SamePlay(s) /\ SameInput(s)

\* only stream s, and nothing of the settings of another input
Only(s) == \A x \in Streams \ {s} : SameStream(x)

Mine(t, l) == lock[l] \in {None, t}

\* t moves on, and changes only what no other thread's mutex protects
OwnWrites(t) ==
    /\ pc'[t] # pc[t]
    /\ SameDevice \/ Mine(t, Dev)
    /\ \A s \in Streams : SameStream(s) \/ Mine(t, s)

LEMMA SameStreamData ==
    ASSUME NEW s \in Streams, SameStream(s)
    PROVE  StreamData(s)' = StreamData(s)
<1>1. CASE s \in Outs
  BY <1>1 DEF SameStream, SamePlay, StreamData
<1>2. CASE s \notin Outs
  BY <1>2 DEF SameStream, SamePlay, SameInput, StreamData, Streams
<1> QED BY <1>1, <1>2

LEMMA ReturnMoves ==
    ASSUME LockInv, NEW t \in Threads, Return(t), pc[t] \notin {"idle", "free"}
    PROVE  pc'[t] # pc[t]
  BY DEF LockInv, TypeOK, ThreadTypes, Return, Go

LEMMA GoMoves ==
    ASSUME LockInv, NEW t \in Threads, NEW to, Go(t, to), to # pc[t]
    PROVE  pc'[t] # pc[t]
  BY DEF LockInv, TypeOK, ThreadTypes, Go

\* a step that changes no stream
LEMMA RestWrites ==
    ASSUME NEW t \in Threads, pc'[t] # pc[t],
           UNCHANGED <<standby, pcm, outEcho, inEcho, inVars>>, SameDevice \/ Mine(t, Dev)
    PROVE  OwnWrites(t)
  BY DEF OwnWrites, SameStream, SamePlay, SameInput, inVars

\* a step that changes one stream, as the owner of the device mutex
LEMMA OneWrites ==
    ASSUME NEW t \in Threads, NEW s \in Streams, pc'[t] # pc[t],
           Only(s), Mine(t, s), Mine(t, Dev)
    PROVE  OwnWrites(t)
  BY DEF OwnWrites, Only

\* the stream and its mutex an operation works on
LEMMA EnterMine ==
    ASSUME LockInv, NEW t \in Threads, NEW o \in OutOps \union InOps, Enter(t, o)
    PROVE  /\ arg[t] \in Streams /\ Mine(t, arg[t]) /\ Mine(t, Dev) /\ pc[t] = "stream"
           /\ o \in OutOps => arg[t] \in Outs
           /\ o \in InOps => arg[t] \in Ins
<1>1. pc[t] = "stream" /\ Free(arg[t])
  BY DEF Enter
<1>2. lock[Dev] = t
  BY <1>1, OwnsDev
<1>3. /\ o \in OutOps => arg[t] \in Outs
      /\ o \in InOps => arg[t] \in Ins
  BY EnterOutput, EnterInput
<1> QED BY <1>1, <1>2, <1>3 DEF Mine, Free, Streams

LEMMA OutputStandbyOnly ==
    ASSUME LockInv, NEW o \in Outs, do_output_standby(o), UNCHANGED <<inEcho, inVars>>
    PROVE  Only(o)
<1>1. StreamTypes /\ EchoTypes
  BY DEF LockInv, TypeOK
<1> QED
  BY <1>1 DEF do_output_standby, StreamTypes, EchoTypes, inVars, Only, SameStream,
              SamePlay, SameInput

LEMMA InputStandbyPlay ==
    ASSUME LockInv, NEW t \in Threads, NEW i \in Ins, do_input_standby(t, i),
           pc[t] \in {"stream", "forceIn"}
    PROVE  pc'[t] # pc[t] /\ \A x \in Streams \ {i} : SamePlay(x)
<1>1. StreamTypes /\ EchoTypes
  BY DEF LockInv, TypeOK
<1>2. CASE standby[i]
  <2>1. Return(t) /\ UNCHANGED <<standby, pcm, outEcho, inEcho>>
    BY <1>2 DEF do_input_standby, echoVars
  <2> QED BY <2>1, ReturnMoves DEF SamePlay
<1>3. CASE ~ standby[i] /\ Owns(i) /\ activeOut # None
  <2>1. /\ Go(t, "removeEcho") /\ pcm' = [pcm EXCEPT ![i] = "null"]
        /\ UNCHANGED <<standby, outEcho, inEcho>>
    BY <1>3 DEF do_input_standby
  <2> QED BY <1>1, <2>1, GoMoves DEF SamePlay, StreamTypes
<1>4. CASE ~ standby[i] /\ ~ (Owns(i) /\ activeOut # None)
  <2>1. /\ Return(t) /\ pcm' = [pcm EXCEPT ![i] = "null"] /\ UNCHANGED outEcho
        /\ standby' = [standby EXCEPT ![i] = TRUE]
        /\ inEcho' = [inEcho EXCEPT ![i] = None]
    BY <1>4 DEF do_input_standby
  <2> QED BY <1>1, <2>1, ReturnMoves DEF SamePlay, StreamTypes, EchoTypes
<1> QED BY <1>2, <1>3, <1>4

\* the standby of an input whose mutex is free, with settings changed at most there
LEMMA InputStandbyWrites ==
    ASSUME LockInv, NEW t \in Threads, NEW i \in Ins, do_input_standby(t, i), Free(i),
           pc[t] \in {"stream", "forceIn"}, \A x \in Streams \ {i} : SameInput(x)
    PROVE  OwnWrites(t)
<1>1. pc'[t] # pc[t] /\ Only(i)
  BY InputStandbyPlay DEF Only, SameStream
<1>2. Mine(t, i) /\ Mine(t, Dev) /\ i \in Streams
  BY OwnsDev DEF Mine, Free, Streams
<1> QED BY <1>1, <1>2, OneWrites

\* nobody owns the mutex of the stream a close is about to free
LEMMA FreedMine ==
    ASSUME LockInv, StreamInv, NEW t \in Threads, pc[t] = "free"
    PROVE  arg[t] \in Streams /\ Mine(t, arg[t])
<1>1. op[t] \in Closes /\ arg[t] \in Streams
  BY DEF LockInv, Placed, Closes, OutOps, InOps, Streams
<1>2. ASSUME NEW u \in Threads, u # t PROVE lock[arg[t]] # u
  <2>1. arg[u] # arg[t]
    BY <1>1, <1>2 DEF StreamInv, Exclusive
  <2>2. pc[u] \in InputWork => inp[u] # arg[t]
    BY <1>2, <2>1 DEF LockInv, Placed, StreamInv, FreeInv, InputWork
  <2>3. arg[t] \in Locks /\ arg[t] # Dev
    BY <1>1, NamesAssumption DEF Locks
  <2> QED BY <2>1, <2>2, <2>3 DEF LockInv, LockDiscipline, Holds
<1>3. lock[arg[t]] \in Opt(Threads)
  BY <1>1 DEF LockInv, TypeOK, ThreadTypes, Locks
<1> QED BY <1>1, <1>2, <1>3 DEF Mine, Opt

LEMMA FreeStreamWrites ==
    ASSUME LockInv, StreamInv, NEW t \in Threads, FreeStream(t)
    PROVE  OwnWrites(t)
<1>1. arg[t] \in Streams /\ Mine(t, arg[t]) /\ pc[t] = "free"
  BY FreedMine DEF FreeStream
<1>2. pc'[t] # pc[t] /\ SameDevice
  BY <1>1, GoMoves DEF FreeStream, SameDevice, devVars
<1>3. ThreadTypes /\ StreamTypes /\ EchoTypes
  BY DEF LockInv, TypeOK
<1>4. \A x \in Streams \ {arg[t]} : SamePlay(x)
  BY <1>3 DEF FreeStream, Forget, SamePlay, StreamTypes, EchoTypes
<1>5. \A x \in Streams \ {arg[t]} : SameInput(x)
  BY <1>3 DEF FreeStream, Forget, SameInput, StreamTypes
<1> QED BY <1>1, <1>2, <1>4, <1>5 DEF OwnWrites, SameStream

LEMMA SetModeWrites ==
    ASSUME LockInv, NEW t \in Threads, NEW m \in Modes, adev_set_mode(t, m)
    PROVE  OwnWrites(t)
<1>1. pc'[t] # pc[t] /\ Mine(t, Dev)
  BY ReturnMoves DEF adev_set_mode, Mine, Free
<1> QED BY <1>1, RestWrites DEF adev_set_mode, streamVars, echoVars

LEMMA OutputWrites ==
    ASSUME LockInv, NEW t \in Threads, OutStep(t)
    PROVE  OwnWrites(t)
<1>0. /\ StreamTypes /\ EchoTypes
      /\ pc[t] = "forceDev" => op[t] = "out_write"
  BY DEF LockInv, TypeOK, Placed
<1>1. CASE out_standby(t)
  <2>1. arg[t] \in Outs /\ Mine(t, arg[t]) /\ Mine(t, Dev) /\ pc[t] = "stream"
    BY <1>1, EnterMine DEF out_standby, OutOps
  <2>2. Only(arg[t])
    BY <1>1, <2>1, OutputStandbyOnly DEF out_standby
  <2>3. pc'[t] # pc[t]
    BY <1>1, <2>1, ReturnMoves DEF out_standby
  <2> QED BY <2>1, <2>2, <2>3, OneWrites DEF Streams
<1>2. ASSUME NEW val \in OutDevices, out_set_parameters(t, val) PROVE OwnWrites(t)
  <2>1. arg[t] \in Outs /\ Mine(t, arg[t]) /\ Mine(t, Dev) /\ pc[t] = "stream"
    BY <1>2, EnterMine DEF out_set_parameters, OutOps
  <2>2. pc'[t] # pc[t]
    BY <1>2, <2>1, ReturnMoves, GoMoves DEF out_set_parameters
  <2>3. UNCHANGED <<inEcho, inVars>>
    BY <1>2 DEF out_set_parameters
  <2>4. CASE do_output_standby(arg[t])
    BY <2>1, <2>2, <2>3, <2>4, OutputStandbyOnly, OneWrites DEF Streams
  <2>5. CASE UNCHANGED <<standby, pcm, outEcho>>
    BY <2>1, <2>2, <2>3, <2>5, RestWrites
  <2> QED BY <1>2, <2>4, <2>5 DEF out_set_parameters
<1>3. CASE out_write_running(t)
  <2>1. pc'[t] # pc[t]
    BY <1>3, GoMoves DEF out_write_running, Enter
  <2> QED BY <1>3, <2>1, RestWrites
          DEF out_write_running, streamVars, echoVars, devVars, SameDevice
<1>4. CASE start_output_stream(t)
  <2>1. arg[t] \in Outs /\ Mine(t, arg[t]) /\ Mine(t, Dev) /\ pc[t] = "stream"
    BY <1>4, EnterMine DEF start_output_stream, OutOps
  <2>2. pc'[t] # pc[t]
    BY <1>4, <2>1, GoMoves DEF start_output_stream
  <2>3. Only(arg[t])
    BY <1>0, <1>4, <2>1
       DEF start_output_stream, StreamTypes, EchoTypes, inVars, Only, SameStream, SamePlay,
           SameInput
  <2> QED BY <2>1, <2>2, <2>3, OneWrites DEF Streams
<1>5. CASE start_output_fails(t)
  <2>1. arg[t] \in Outs /\ Mine(t, arg[t]) /\ Mine(t, Dev) /\ pc[t] = "stream"
    BY <1>5, EnterMine DEF start_output_fails, OutOps
  <2>2. pc'[t] # pc[t]
    BY <1>5, <2>1, ReturnMoves DEF start_output_fails
  <2>3. Only(arg[t])
    BY <1>0, <1>5, <2>1
       DEF start_output_fails, StreamTypes, inVars, echoVars, Only, SameStream, SamePlay,
           SameInput
  <2> QED BY <2>1, <2>2, <2>3, OneWrites DEF Streams
<1>6. CASE write_pcm(t)
  <2>1. pc'[t] # pc[t]
    BY <1>6, ReturnMoves, GoMoves DEF write_pcm
  <2> QED BY <1>6, <2>1, RestWrites DEF write_pcm, streamVars, echoVars, devVars, SameDevice
<1>7. CASE force_input(t)
  <2>1. pc'[t] # pc[t]
    BY <1>7, ReturnMoves, GoMoves DEF force_input
  <2> QED BY <1>7, <2>1, RestWrites DEF force_input, streamVars, echoVars, devVars, SameDevice
<1> QED BY <1>1, <1>2, <1>3, <1>4, <1>5, <1>6, <1>7 DEF OutStep

\* the steps that stop an input, whose settings the same step may change
LEMMA StopWrites ==
    ASSUME LockInv, NEW t \in Threads,
           \/ in_standby(t) \/ forced_standby(t)
           \/ \E src \in Sources, d \in InDevices : in_set_parameters(t, src, d)
           \/ \E e \in Effects, ok \in BOOLEAN :
                in_add_audio_effect(t, e, ok) \/ in_remove_audio_effect(t, e, ok)
    PROVE  OwnWrites(t)
<1>0. StreamTypes
  BY DEF LockInv, TypeOK
<1>1. CASE in_standby(t)
  <2>1. arg[t] \in Ins /\ pc[t] = "stream" /\ Free(arg[t])
    BY <1>1, EnterInput DEF in_standby, InOps
  <2> QED BY <1>1, <2>1, InputStandbyWrites DEF in_standby, inVars, SameInput
<1>2. CASE forced_standby(t)
  <2>1. inp[t] \in Ins /\ pc[t] = "forceIn" /\ Free(inp[t])
    BY <1>2 DEF forced_standby, LockInv, Placed
  <2> QED BY <1>2, <2>1, InputStandbyWrites DEF forced_standby, inVars, SameInput
<1>3. ASSUME NEW src \in Sources, NEW d \in InDevices, in_set_parameters(t, src, d)
      PROVE  OwnWrites(t)
  <2>1. arg[t] \in Ins /\ pc[t] = "stream" /\ Free(arg[t])
    BY <1>3, EnterInput DEF in_set_parameters, InOps
  <2>2. \A x \in Streams \ {arg[t]} : SameInput(x)
    BY <1>0, <1>3 DEF in_set_parameters, StreamTypes, SameInput
  <2>3. CASE do_input_standby(t, arg[t])
    BY <2>1, <2>2, <2>3, InputStandbyWrites
  <2>4. CASE ~ do_input_standby(t, arg[t])
    <3>1. Return(t) /\ UNCHANGED <<standby, pcm, outEcho, inEcho>>
      BY <1>3, <2>4 DEF in_set_parameters, echoVars
    <3>2. pc'[t] # pc[t] /\ Only(arg[t])
      BY <2>1, <2>2, <3>1, ReturnMoves DEF Only, SameStream, SamePlay
    <3>3. Mine(t, arg[t]) /\ Mine(t, Dev) /\ arg[t] \in Streams
      BY <1>3, EnterMine DEF in_set_parameters, InOps
    <3> QED BY <3>2, <3>3, OneWrites
  <2> QED BY <2>3, <2>4
<1>4. ASSUME NEW e \in Effects, NEW ok \in BOOLEAN,
             in_add_audio_effect(t, e, ok) \/ in_remove_audio_effect(t, e, ok)
      PROVE  OwnWrites(t)
  <2>1. PICK o \in {"in_add_audio_effect", "in_remove_audio_effect"} : Enter(t, o)
    BY <1>4 DEF in_add_audio_effect, in_remove_audio_effect
  <2>2. arg[t] \in Ins /\ pc[t] = "stream" /\ Free(arg[t])
    BY <2>1, EnterInput DEF InOps
  <2>3. \A x \in Streams \ {arg[t]} : SameInput(x)
    BY <1>0, <1>4 DEF in_add_audio_effect, in_remove_audio_effect, StreamTypes, SameInput
  <2>4. CASE do_input_standby(t, arg[t])
    BY <2>2, <2>3, <2>4, InputStandbyWrites
  <2>5. CASE Untouched(t)
    <3>1. pc'[t] # pc[t] /\ Only(arg[t])
      BY <2>2, <2>3, <2>5, ReturnMoves DEF Untouched, Only, SameStream, SamePlay, echoVars
    <3>2. Mine(t, arg[t]) /\ Mine(t, Dev) /\ arg[t] \in Streams
      BY <2>1, EnterMine DEF InOps
    <3> QED BY <3>1, <3>2, OneWrites
  <2> QED BY <1>4, <2>4, <2>5 DEF in_add_audio_effect, in_remove_audio_effect
<1> QED BY <1>1, <1>2, <1>3, <1>4

(* The steps under both mutexes that reach over to the active output: they *)
(* wait for its mutex first.                                               *)
LEMMA EchoWrites ==
    ASSUME LockInv, NEW t \in Threads,
           finish_standby(t) \/ put_echo_reference(t) \/ create_echo_reference(t)
             \/ add_echo_reference(t)
    PROVE  OwnWrites(t)
<1>0. StreamTypes /\ EchoTypes
  BY DEF LockInv, TypeOK
<1>1. pc[t] \in {"removeEcho", "dropEcho", "createEcho", "addEcho"}
  BY DEF finish_standby, put_echo_reference, create_echo_reference, add_echo_reference
<1>2. /\ inp[t] \in Ins /\ activeOut \in Outs
      /\ Mine(t, Dev) /\ Mine(t, inp[t])
  <2>1. inp[t] \in Ins /\ activeOut \in Outs
    BY <1>1 DEF LockInv, Placed, InOps
  <2>2. lock[Dev] = t /\ lock[inp[t]] = t
    BY <1>1, <2>1 DEF LockInv, LockDiscipline, Holds, InputWork, Locks, Streams
  <2> QED BY <2>1, <2>2 DEF Mine
<1>3. CASE finish_standby(t)
  <2>1. pc'[t] # pc[t] /\ Mine(t, activeOut)
    BY <1>1, <1>3, ReturnMoves DEF finish_standby, Mine, Free
  <2>2. \A s \in Streams : s # inp[t] /\ s # activeOut => SameStream(s)
    BY <1>0, <1>2, <1>3
       DEF finish_standby, remove_echo_reference, StreamTypes, EchoTypes, inVars, SameStream,
           SamePlay, SameInput
  <2> QED BY <1>2, <2>1, <2>2 DEF OwnWrites
<1>4. CASE put_echo_reference(t)
  <2>1. pc'[t] # pc[t] /\ Mine(t, activeOut)
    BY <1>4, GoMoves DEF put_echo_reference, Mine, Free
  <2>2. \A s \in Streams : s # activeOut => SameStream(s)
    BY <1>0, <1>2, <1>4
       DEF put_echo_reference, remove_echo_reference, EchoTypes, streamVars, inVars,
           SameStream, SamePlay, SameInput
  <2> QED BY <1>2, <2>1, <2>2 DEF OwnWrites
<1>5. CASE create_echo_reference(t)
  <2>1. pc'[t] # pc[t]
    BY <1>5, GoMoves DEF create_echo_reference
  <2> QED BY <1>2, <1>5, <2>1, RestWrites DEF create_echo_reference, streamVars
<1>6. CASE add_echo_reference(t)
  <2>1. pc'[t] # pc[t] /\ Mine(t, activeOut)
    BY <1>6, GoMoves DEF add_echo_reference, Mine, Free
  <2>2. \A s \in Streams : s # inp[t] /\ s # activeOut => SameStream(s)
    BY <1>0, <1>2, <1>6
       DEF add_echo_reference, EchoTypes, streamVars, inVars, SameStream, SamePlay, SameInput
  <2> QED BY <1>2, <2>1, <2>2 DEF OwnWrites
<1> QED BY <1>3, <1>4, <1>5, <1>6

LEMMA ReadWrites ==
    ASSUME LockInv, NEW t \in Threads,
           \/ in_read_running(t) \/ start_input_stream(t) \/ read_pcm(t)
           \/ \E ok \in BOOLEAN : open_capture(t, ok)
    PROVE  OwnWrites(t)
<1>1. CASE in_read_running(t)
  <2>1. pc'[t] # pc[t]
    BY <1>1, GoMoves DEF in_read_running, Enter
  <2> QED BY <1>1, <2>1, RestWrites
          DEF in_read_running, streamVars, echoVars, devVars, SameDevice
<1>2. CASE start_input_stream(t)
  <2>1. pc[t] = "stream" /\ Mine(t, Dev)
    BY <1>2, EnterMine DEF start_input_stream, InOps
  <2>2. pc'[t] # pc[t]
    BY <1>2, <2>1, GoMoves DEF start_input_stream
  <2> QED BY <1>2, <2>1, <2>2, RestWrites DEF start_input_stream, streamVars
<1>3. CASE read_pcm(t)
  <2>1. pc'[t] # pc[t]
    BY <1>3, ReturnMoves DEF read_pcm
  <2> QED BY <1>3, <2>1, RestWrites DEF read_pcm, streamVars, echoVars, devVars, SameDevice
<1>4. ASSUME NEW ok \in BOOLEAN, open_capture(t, ok) PROVE OwnWrites(t)
  <2>1. inp[t] \in Ins /\ pc[t] = "openPcm"
    BY <1>4 DEF open_capture, LockInv, Placed, InOps
  <2>2. lock[Dev] = t /\ lock[inp[t]] = t
    BY <2>1 DEF LockInv, LockDiscipline, Holds, InputWork, Locks, Streams
  <2>3. pc'[t] # pc[t]
    BY <1>4, <2>1, GoMoves DEF open_capture
  <2>4. Only(inp[t])
    BY <1>4 DEF open_capture, LockInv, TypeOK, StreamTypes, echoVars, inVars, Only, SameStream,
                SamePlay, SameInput
  <2> QED BY <2>1, <2>2, <2>3, <2>4, OneWrites DEF Mine, Streams
<1> QED BY <1>1, <1>2, <1>3, <1>4

LEMMA StepWrites ==
    ASSUME LockInv, StreamInv, NEW t \in Threads, Step(t)
    PROVE  OwnWrites(t)
<1>1. CASE LockDev(t)
  <2>1. pc'[t] # pc[t]
    BY <1>1, GoMoves DEF LockDev
  <2> QED BY <1>1, <2>1, RestWrites DEF LockDev, streamVars, echoVars, devVars, SameDevice
<1>2. CASE InStep(t)
  BY <1>2, StopWrites, EchoWrites, ReadWrites DEF InStep
<1> QED BY <1>1, <1>2, FreeStreamWrites, SetModeWrites, OutputWrites DEF Step

\* a request changes no data but the device of a new input, whose mutex is free
LEMMA RequestWrites ==
    ASSUME LockInv, StreamInv, NEW t \in Threads, Request(t)
    PROVE  SameDevice /\ \A s \in Streams : SameStream(s) \/ lock[s] = None
<1>1. CASE \/ \E o \in Ops, s \in Opt(Streams) : Call(t, o, s)
           \/ \E o \in Outs : OpenOutput(t, o)
  BY <1>1 DEF Call, OpenOutput, streamVars, echoVars, inVars, devVars, SameDevice, SameStream,
              SamePlay, SameInput
<1>2. ASSUME NEW i \in Ins, NEW d \in InDevices, OpenInput(t, i, d)
      PROVE  SameDevice /\ \A s \in Streams : SameStream(s) \/ lock[s] = None
  <2>1. i \in Locks /\ i # Dev /\ i \notin open
    BY <1>2, NamesAssumption DEF OpenInput, Locks, Streams
  <2>2. \A u \in Threads : lock[i] # u
    BY <2>1, InvNoUseAfterClose DEF NoUseAfterClose, LockInv, LockDiscipline
  <2>3. lock[i] = None
    BY <2>1, <2>2 DEF LockInv, TypeOK, ThreadTypes, Opt
  <2>4. SameDevice /\ \A s \in Streams \ {i} : SameStream(s)
    BY <1>2 DEF OpenInput, LockInv, TypeOK, StreamTypes, echoVars, devVars, SameDevice,
                SameStream, SamePlay, SameInput
  <2> QED BY <2>3, <2>4
<1> QED BY <1>1, <1>2 DEF Request

LEMMA NextWrites ==
    ASSUME LockInv, StreamInv, [Next]_vars, NEW u \in Threads, pc'[u] = pc[u]
    PROVE  /\ lock[Dev] = u => DeviceData' = DeviceData
           /\ \A s \in Streams : lock[s] = u => StreamData(s)' = StreamData(s)
<1> DEFINE Spared == /\ SameDevice \/ lock[Dev] # u
                     /\ \A s \in Streams : SameStream(s) \/ lock[s] # u
<1>1. Spared
  <2>1. u # None
    BY NamesAssumption
  <2>2. ASSUME NEW t \in Threads, Step(t) PROVE Spared
    <3>1. OwnWrites(t)
      BY <2>2, StepWrites
    <3>2. u # t
      BY <3>1 DEF OwnWrites
    <3> QED BY <2>1, <3>1, <3>2 DEF OwnWrites, Mine
  <2>3. ASSUME NEW t \in Threads, Request(t) PROVE Spared
    BY <2>1, <2>3, RequestWrites
  <2>4. CASE UNCHANGED vars
    BY <2>4 DEF vars, streamVars, echoVars, inVars, devVars, SameDevice, SameStream, SamePlay,
                SameInput
  <2> QED BY <2>2, <2>3, <2>4 DEF Next
<1>2. SameDevice => DeviceData' = DeviceData
  BY DEF SameDevice, DeviceData
<1> QED BY <1>1, <1>2, SameStreamData

-----------------------------------------------------------------------------
(* What DevReleased rests on, but for the scheduler: the owner of the      *)
(* device mutex gets nearer to giving it back.                             *)

\* how far the owner is
Stage(place) ==
    CASE place = "stream" -> 0
      [] place = "forceIn" -> 1
      [] place \in {"removeEcho", "dropEcho"} -> 2
      [] place = "createEcho" -> 3
      [] place = "addEcho" -> 4
      [] OTHER -> 5

(* While a thread owns the device mutex no other takes a mutex, not the    *)
(* one the owner waits for either, and the owner's steps lead one way.     *)
DevAdvances ==
    [][\A t \in Threads : lock[Dev] = t =>
         /\ \A u \in Threads \ {t}, l \in Locks : lock'[l] = u => lock[l] = u
         /\ lock'[Dev] = t => pc'[t] = pc[t] \/ Stage(pc[t]) < Stage(pc'[t])]_vars

(* Whoever has the mutex the owner of the device waits for is in a         *)
(* transfer, and needs no other mutex to give it back.                     *)
DevServed ==
    \A t, u \in Threads, l \in Locks :
        lock[Dev] = t /\ l \in WaitsFor(t) /\ lock[l] = u => WaitsFor(u) = {}

\* a step of a thread that is not the device's owner takes no mutex
LEMMA OtherTakesNone ==
    ASSUME LockInv, NEW t \in Threads, NEW u \in Threads, u # t, lock[Dev] = t, Step(u)
    PROVE  \A l \in Locks : lock'[l] = u => lock[l] = u
<1>1. pc[u] \notin {"stream", "forceIn"} \union InputWork
  BY OneDev
<1>2. ~ Free(Dev)
  BY NamesAssumption DEF Free
<1>3. UNCHANGED lock \/ ReleaseAll(u)
  <2>1. CASE LockDev(u) \/ FreeStream(u) \/ \E m \in Modes : adev_set_mode(u, m)
    BY <1>2, <2>1 DEF LockDev, FreeStream, adev_set_mode
  <2>2. CASE OutStep(u)
    BY <1>1, <1>2, <2>2
       DEF OutStep, out_standby, out_set_parameters, out_write_running, start_output_stream,
           start_output_fails, write_pcm, force_input, Enter
  <2>3. CASE InStep(u)
    BY <1>1, <2>3
       DEF InStep, in_standby, forced_standby, finish_standby, in_set_parameters,
           in_add_audio_effect, in_remove_audio_effect, in_read_running, start_input_stream,
           put_echo_reference, create_echo_reference, add_echo_reference, open_capture,
           read_pcm, Enter, InputWork
  <2> QED BY <2>1, <2>2, <2>3 DEF Step
<1> QED BY <1>3, NamesAssumption DEF ReleaseAll

\* where the owner of the device mutex can go without giving it back
LEMMA OwnerGoes ==
    ASSUME LockInv, NEW t \in Threads, Step(t), lock[Dev] = t, lock'[Dev] = t
    PROVE  Stage(pc[t]) < Stage(pc'[t])
<1>1. pc[t] \in {"stream", "forceIn"} \union InputWork
  <2>1. Dev \in Holds(t) /\ arg[t] # Dev /\ inp[t] # Dev
    BY NamesAssumption
       DEF LockInv, LockDiscipline, TypeOK, ThreadTypes, Opt, Locks, Streams
  <2> QED BY <2>1 DEF Holds
<1>2. pc'[t] \in {"stream", "forceIn"} \union InputWork
  <2>1. Dev \in Holds(t)'
    BY StepOrder DEF KeepsOrder, Locks
  <2>2. arg'[t] # Dev /\ inp'[t] # Dev
    BY StepTypes, NamesAssumption DEF TypeOK, ThreadTypes, Opt, Locks, Streams
  <2> QED BY <2>1, <2>2 DEF Holds
<1>3. \A to : Go(t, to) => pc'[t] = to
  BY DEF LockInv, TypeOK, ThreadTypes, Go
<1>4. ~ Return(t)
  BY <1>2, <1>3 DEF Return, InputWork
<1>5. \A i \in Ins : do_input_standby(t, i) => pc'[t] = "removeEcho"
  BY <1>3, <1>4 DEF do_input_standby
<1>6. ~ Free(Dev)
  BY NamesAssumption DEF Free
<1>7. CASE OutStep(t)
  <2>1. pc[t] = "stream" /\ pc'[t] \in {"outIO", "forceIn"}
    BY <1>1, <1>3, <1>4, <1>6, <1>7
       DEF OutStep, out_standby, out_set_parameters, out_write_running, start_output_stream,
           start_output_fails, write_pcm, force_input, Enter, InputWork
  <2> QED BY <1>2, <2>1 DEF Stage, InputWork
<1>8. CASE \/ in_standby(t) \/ forced_standby(t) \/ finish_standby(t)
           \/ \E src \in Sources, d \in InDevices : in_set_parameters(t, src, d)
           \/ \E e \in Effects, ok \in BOOLEAN :
                in_add_audio_effect(t, e, ok) \/ in_remove_audio_effect(t, e, ok)
  <2>1. pc[t] \in {"stream", "forceIn"}
    BY <1>4, <1>8 DEF in_standby, forced_standby, finish_standby, in_set_parameters,
                      in_add_audio_effect, in_remove_audio_effect, Enter
  <2>2. pc[t] = "stream" => arg[t] \in Ins
    BY <1>4, <1>8, EnterInput
       DEF in_standby, forced_standby, finish_standby, in_set_parameters,
           in_add_audio_effect, in_remove_audio_effect, InOps
  <2>3. pc[t] = "forceIn" => inp[t] \in Ins
    BY DEF LockInv, Placed
  <2>4. pc'[t] = "removeEcho"
    BY <1>4, <1>5, <1>8, <2>2, <2>3
       DEF in_standby, forced_standby, finish_standby, in_set_parameters,
           in_add_audio_effect, in_remove_audio_effect, Untouched, Enter
  <2> QED BY <2>1, <2>4 DEF Stage
<1>9. CASE \/ in_read_running(t) \/ start_input_stream(t) \/ put_echo_reference(t)
           \/ create_echo_reference(t) \/ add_echo_reference(t) \/ read_pcm(t)
           \/ \E ok \in BOOLEAN : open_capture(t, ok)
  BY <1>2, <1>3, <1>4, <1>9
     DEF in_read_running, start_input_stream, put_echo_reference, create_echo_reference,
         add_echo_reference, read_pcm, open_capture, Enter, Stage, InputWork
<1> QED
  BY <1>1, <1>6, <1>7, <1>8, <1>9
     DEF Step, InStep, LockDev, FreeStream, adev_set_mode, InputWork

LEMMA NextAdvances ==
    ASSUME LockInv, [Next]_vars, NEW t \in Threads, lock[Dev] = t
    PROVE  /\ \A u \in Threads \ {t}, l \in Locks : lock'[l] = u => lock[l] = u
           /\ lock'[Dev] = t => pc'[t] = pc[t] \/ Stage(pc[t]) < Stage(pc'[t])
<1>1. CASE Step(t)
  BY <1>1, StepOrder, OwnerGoes DEF KeepsOrder, OthersKeep
<1>2. ASSUME NEW u \in Threads \ {t}, Step(u)
      PROVE  pc'[t] = pc[t] /\ \A v \in Threads \ {t}, l \in Locks : lock'[l] = v => lock[l] = v
  BY <1>2, StepOrder, OtherTakesNone DEF KeepsOrder, OthersKeep
<1>3. ASSUME NEW u \in Threads, Request(u) PROVE UNCHANGED lock /\ pc'[t] = pc[t]
  <2>1. pc[t] # "idle"
    BY DEF LockInv, LockDiscipline, Holds, InputWork, Locks
  <2> QED BY <1>3, <2>1
          DEF Request, Call, OpenOutput, OpenInput, threadVars, Go, LockInv, TypeOK, ThreadTypes
<1>4. CASE UNCHANGED vars
  BY <1>4 DEF vars, threadVars
<1> QED BY <1>1, <1>2, <1>3, <1>4 DEF Next

LEMMA InvDevServed == LockInv => DevServed
<1> SUFFICES ASSUME LockInv, NEW t \in Threads, NEW u \in Threads, NEW l \in Locks,
                    lock[Dev] = t, l \in WaitsFor(t), lock[l] = u
             PROVE  WaitsFor(u) = {}
  BY DEF DevServed
<1>1. Rank(Dev) < Rank(l)
  BY InvLockOrder DEF LockOrder, Locks
<1>2. l # Dev /\ l \notin Holds(t)
  <2>1. l # Dev
    BY <1>1 DEF Rank
  <2>2. lock[l] = t => Rank(l) < Rank(l)
    BY InvLockOrder DEF LockOrder
  <2>3. Rank(l) \in Nat
    BY DEF Rank
  <2> QED BY <2>1, <2>2, <2>3 DEF LockInv, LockDiscipline
<1>3. u # t /\ l \in Holds(u)
  BY <1>2 DEF LockInv, LockDiscipline
<1>4. pc[u] \in {"outIO", "inIO"}
  BY <1>2, <1>3, OneDev DEF Holds
<1> QED BY <1>4 DEF WaitsFor

(* While out_write and in_read use the PCM without the device mutex, no    *)
(* routing change, effect or standby of any other thread has closed it.    *)
THEOREM AudioPcmReady == Spec => []PcmReady
<1>1. Init => LockInv /\ StreamInv
  BY InitInv, InitStreams
<1> QED BY <1>1, NextStreams, InvPcmReady, PTL DEF Spec

(* Whatever the order in which streams that need an echo canceller start   *)
(* and stop, and whichever calls fail, the device's echo reference is the  *)
(* only one allocated.                                                     *)
THEOREM AudioNoEchoLeak == Spec => []NoEchoLeak
<1>1. Init => LockInv /\ StreamInv
  BY InitInv, InitStreams
<1>2. StreamInv => NoEchoLeak
  BY DEF StreamInv, EchoInv
<1> QED BY <1>1, <1>2, NextStreams, PTL DEF Spec

(* adev_close_*_stream frees a stream that no thread has or waits for the  *)
(* mutex of and the device does not point to, for any number of streams.   *)
THEOREM AudioNoUseAfterClose == Spec => []NoUseAfterClose
<1>1. Init => LockInv /\ StreamInv
  BY InitInv, InitStreams
<1> QED BY <1>1, NextStreams, InvNoUseAfterClose, PTL DEF Spec

(* What out_write and in_read read under a stream's mutex alone, and what  *)
(* the helpers read under the device's across a wait for another stream,   *)
(* no other thread changes: for any number of threads and streams.         *)
THEOREM AudioOwnerWrites == Spec => OwnerWrites
<1>1. Init => LockInv /\ StreamInv
  BY InitInv, InitStreams
<1>2. LockInv /\ StreamInv /\ [Next]_vars
        => \A t \in Threads : pc'[t] = pc[t] =>
             /\ lock[Dev] = t => DeviceData' = DeviceData
             /\ \A s \in Streams : lock[s] = t => StreamData(s)' = StreamData(s)
  BY NextWrites
<1> QED BY <1>1, <1>2, NextStreams, PTL DEF Spec, OwnerWrites

(* Why taking the device mutex "systematically is useful": its owner       *)
(* passes at most six places before it gives the mutex back, and no other  *)
(* thread gets a stream in between. DevReleased adds the fair scheduler.   *)
THEOREM AudioDevAdvances == Spec => DevAdvances
<1>1. LockInv /\ [Next]_vars
        => \A t \in Threads : lock[Dev] = t =>
             /\ \A u \in Threads \ {t}, l \in Locks : lock'[l] = u => lock[l] = u
             /\ lock'[Dev] = t => pc'[t] = pc[t] \/ Stage(pc[t]) < Stage(pc'[t])
  BY NextAdvances
<1> QED BY <1>1, InitInv, NextInv, PTL DEF Spec, DevAdvances

(* ... and the thread it waits for is in a transfer that ends by itself.   *)
THEOREM AudioDevServed == Spec => []DevServed
  BY InitInv, NextInv, InvDevServed, PTL DEF Spec

=============================================================================
