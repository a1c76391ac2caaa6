--------------------------- MODULE AudioHalProofs ---------------------------
(***************************************************************************)
(* Proofs about AudioHal for any number of threads and streams.            *)
(***************************************************************************)
EXTENDS AudioHal, TLAPS

(* Where a thread can be in which operation, and on which stream. *)
Placed(t) ==
    /\ pc[t] = "idle" <=> op[t] = None
    /\ op[t] \in OutOps => arg[t] \in Outs
    /\ op[t] \in InOps => arg[t] \in Ins
    /\ op[t] = "adev_set_mode" => pc[t] = "dev"
    /\ pc[t] \in {"outIO", "forceDev"} => op[t] = "out_write"
    /\ pc[t] = "inIO" => op[t] = "in_read"
    /\ pc[t] = "free" => op[t] \in {"close_output", "close_input"}
    /\ pc[t] \in {"forceIn", "removeEcho"} => inp[t] \in Ins
    /\ pc[t] \in {"dropEcho", "createEcho", "addEcho", "openPcm"}
         => op[t] = "in_read" /\ inp[t] = arg[t]
    /\ pc[t] \in {"removeEcho", "dropEcho", "createEcho", "addEcho"} => activeOut \in Outs

(* The inductive invariant: who owns which mutex follows from the places. *)
LockInv == TypeOK /\ LockDiscipline /\ \A t \in Threads : Placed(t)

-----------------------------------------------------------------------------
\* what every step of thread t leaves alone of the other threads
OthersKeep(t) ==
    \A u \in Threads \ {t} :
        /\ pc'[u] = pc[u] /\ op'[u] = op[u] /\ arg'[u] = arg[u] /\ inp'[u] = inp[u]
        /\ \A l \in Locks : lock'[l] = u <=> lock[l] = u

(* A step of t that keeps the other threads' places and mutexes, ends with *)
(* the mutexes its new place says and changes active_output only as the    *)
(* owner of the device mutex, keeps the relation between mutexes and       *)
(* places.                                                                 *)
LEMMA StepKeepsPlaces ==
    ASSUME LockInv, NEW t \in Threads, OthersKeep(t),
           \A l \in Locks : lock'[l] = t <=> l \in Holds(t)',
           Placed(t)',
           lock[Dev] = t \/ activeOut' = activeOut
    PROVE  LockDiscipline' /\ \A u \in Threads : Placed(u)'
<1>1. LockDiscipline'
  <2> SUFFICES ASSUME NEW u \in Threads, NEW l \in Locks
               PROVE lock'[l] = u <=> l \in Holds(u)'
    BY DEF LockDiscipline
  <2>1. CASE u = t
    BY <2>1
  <2>2. CASE u # t
    BY <2>2 DEF LockInv, LockDiscipline, OthersKeep, Holds
  <2> QED BY <2>1, <2>2
<1>2. ASSUME NEW u \in Threads PROVE Placed(u)'
  <2>1. CASE u = t
    BY <2>1
  <2>2. CASE u # t /\ activeOut' = activeOut
    BY <2>2 DEF LockInv, OthersKeep, Placed
  <2>3. CASE u # t /\ lock[Dev] = t
    <3>1. lock[Dev] # u /\ Dev \in Locks
      BY <2>3 DEF Locks
    <3>2. Dev \notin Holds(u)
      BY <3>1 DEF LockInv, LockDiscipline
    <3>3. pc[u] \notin {"removeEcho", "dropEcho", "createEcho", "addEcho"}
      BY <3>2 DEF Holds, InputWork, Locks
    <3> QED BY <2>3, <3>3 DEF LockInv, OthersKeep, Placed
  <2> QED BY <2>1, <2>2, <2>3
<1> QED BY <1>1, <1>2

(* The helpers every operation ends with keep the threads' types. *)
LEMMA ReturnTypes ==
    ASSUME ThreadTypes, NEW t \in Threads, Return(t)
    PROVE  /\ pc' \in [Threads -> PC]
           /\ op' \in [Threads -> Opt(Ops)]
           /\ arg' \in [Threads -> Opt(Streams)]
           /\ inp' \in [Threads -> Opt(Ins)]
           /\ force' \in [Threads -> BOOLEAN]
  BY DEF ThreadTypes, Return, Go, PC, Opt

LEMMA ReleaseTypes ==
    ASSUME ThreadTypes, NEW t \in Threads, ReleaseAll(t)
    PROVE  lock' \in [Locks -> Opt(Threads)]
  BY DEF ThreadTypes, ReleaseAll, Opt

LEMMA AcquireTypes ==
    ASSUME ThreadTypes, NEW t \in Threads, NEW l \in Locks, Acquire(t, l) \/ SwapDev(t, l)
    PROVE  lock' \in [Locks -> Opt(Threads)]
  BY DEF ThreadTypes, Acquire, SwapDev, Opt, Locks

LEMMA GoTypes ==
    ASSUME ThreadTypes, NEW t \in Threads, NEW to \in PC, Go(t, to)
    PROVE  pc' \in [Threads -> PC]
  BY DEF ThreadTypes, Go

(* do_output_standby and do_input_standby keep the types of what they change. *)
LEMMA OutputStandbyTypes ==
    ASSUME TypeOK, NEW o \in Outs, do_output_standby(o)
    PROVE  /\ standby' \in [Streams -> BOOLEAN]
           /\ pcm' \in [Streams -> {"null", "ready", "closed"}]
           /\ activeOut' \in Opt(Outs)
           /\ devIn' \in Opt(InDevices)
           /\ outEcho' \in [Outs -> Opt(Refs)]
  BY DEF TypeOK, StreamTypes, EchoTypes, DeviceTypes, do_output_standby, Streams, Opt

LEMMA InputStandbyTypes ==
    ASSUME TypeOK, NEW t \in Threads, NEW i \in Ins, do_input_standby(t, i)
    PROVE  /\ ThreadTypes'
           /\ EchoTypes'
           /\ standby' \in [Streams -> BOOLEAN]
           /\ pcm' \in [Streams -> {"null", "ready", "closed"}]
           /\ activeIn' \in Opt(Ins)
           /\ devIn' \in Opt(InDevices)
<1>1. i \in Streams /\ i \in Locks
  BY DEF Streams, Locks
<1>2. CASE standby[i]
  BY <1>1, <1>2, ReturnTypes, ReleaseTypes
     DEF TypeOK, ThreadTypes, StreamTypes, EchoTypes, DeviceTypes, do_input_standby, echoVars
<1>3. CASE ~ standby[i]
  <2>1. /\ pcm' \in [Streams -> {"null", "ready", "closed"}]
        /\ activeIn' \in Opt(Ins)
        /\ devIn' \in Opt(InDevices)
    BY <1>3 DEF TypeOK, StreamTypes, DeviceTypes, do_input_standby, Opt
  <2>2. CASE Owns(i) /\ activeOut # None
    <3>1. pc' \in [Threads -> PC]
      BY <1>3, <2>2, GoTypes DEF TypeOK, do_input_standby, PC
    <3>2. lock' \in [Locks -> Opt(Threads)]
      BY <1>1, <1>3, <2>2, AcquireTypes DEF TypeOK, do_input_standby
    <3>3. inp' \in [Threads -> Opt(Ins)]
      BY <1>3, <2>2 DEF TypeOK, ThreadTypes, do_input_standby, Opt
    <3> QED
      BY <1>3, <2>1, <2>2, <3>1, <3>2, <3>3
         DEF TypeOK, ThreadTypes, StreamTypes, EchoTypes, do_input_standby
  <2>3. CASE ~ (Owns(i) /\ activeOut # None)
    <3>1. standby' \in [Streams -> BOOLEAN]
      BY <1>3, <2>3 DEF TypeOK, StreamTypes, do_input_standby
    <3>2. EchoTypes'
      BY <1>3, <2>3 DEF TypeOK, EchoTypes, do_input_standby, Opt
    <3>3. ThreadTypes'
      BY <1>3, <2>3, ReturnTypes, ReleaseTypes DEF TypeOK, ThreadTypes, do_input_standby
    <3> QED BY <2>1, <3>1, <3>2, <3>3
  <2> QED BY <2>2, <2>3
<1> QED BY <1>2, <1>3

(* An operation has entered its critical section with a stream of its kind. *)
LEMMA EnterOutput ==
    ASSUME LockInv, NEW t \in Threads, NEW o \in OutOps, Enter(t, o)
    PROVE  arg[t] \in Outs /\ arg[t] \in Locks /\ pc[t] = "stream" /\ Free(arg[t])
  BY DEF LockInv, Placed, Enter, Locks, Streams

LEMMA EnterInput ==
    ASSUME LockInv, NEW t \in Threads, NEW o \in InOps, Enter(t, o)
    PROVE  arg[t] \in Ins /\ arg[t] \in Locks /\ pc[t] = "stream" /\ Free(arg[t])
  BY DEF LockInv, Placed, Enter, Locks, Streams

(* Every step of a thread inside an operation preserves the types. *)
LEMMA StepTypes ==
    ASSUME LockInv, NEW t \in Threads, Step(t)
    PROVE  TypeOK'
<1> USE DEF LockInv, TypeOK
<1>1. CASE LockDev(t)
  <2>1. ThreadTypes'
    BY <1>1, AcquireTypes, GoTypes DEF LockDev, ThreadTypes, Opt, PC, Locks
  <2>2. StreamTypes'
    BY <1>1, <2>1 DEF LockDev, StreamTypes, streamVars, inVars, Streams, Locks
  <2>3. EchoTypes'
    BY <1>1, <2>1, <2>2 DEF LockDev, EchoTypes, echoVars, Opt
  <2>4. DeviceTypes'
    BY <1>1, <2>1, <2>2, <2>3 DEF LockDev, DeviceTypes, devVars, Opt
  <2> QED BY <2>1, <2>2, <2>3, <2>4
<1>2. CASE FreeStream(t)
  <2>1. ThreadTypes'
    BY <1>2, GoTypes DEF FreeStream, ThreadTypes, Opt, PC
  <2>2. StreamTypes'
    BY <1>2, <2>1, DeviceAssumption DEF FreeStream, StreamTypes, streamVars, inVars, Streams, Locks, Forget
  <2>3. EchoTypes'
    BY <1>2, <2>1, <2>2 DEF FreeStream, EchoTypes, echoVars, Opt, Forget
  <2>4. DeviceTypes'
    BY <1>2, <2>1, <2>2, <2>3 DEF FreeStream, DeviceTypes, devVars, Opt
  <2> QED BY <2>1, <2>2, <2>3, <2>4
<1>3. CASE out_standby(t)
  <2>1. arg[t] \in Outs
    BY <1>3, EnterOutput DEF out_standby, OutOps
  <2>2. ThreadTypes'
    BY <1>3, <2>1, ReturnTypes, ReleaseTypes DEF out_standby, ThreadTypes, Opt
  <2>3. /\ standby' \in [Streams -> BOOLEAN] /\ DeviceTypes' /\ pcm' \in [Streams -> {"null", "ready", "closed"}]
        /\ outEcho' \in [Outs -> Opt(Refs)]
    BY <1>3, <2>1, <2>2, OutputStandbyTypes DEF out_standby, DeviceTypes
  <2>4. StreamTypes'
    BY <1>3, <2>1, <2>2, <2>3 DEF out_standby, StreamTypes, streamVars, inVars, Streams, Locks
  <2>5. EchoTypes'
    BY <1>3, <2>1, <2>2, <2>3, <2>4 DEF out_standby, EchoTypes, echoVars, Opt
  <2> QED BY <2>1, <2>2, <2>3, <2>4, <2>5
<1>4. CASE out_write_running(t)
  <2>1. arg[t] \in Outs
    BY <1>4, EnterOutput DEF out_write_running, OutOps
  <2>2. ThreadTypes'
    BY <1>4, <2>1, AcquireTypes, GoTypes DEF out_write_running, ThreadTypes, Opt, PC, Locks, Streams
  <2>3. StreamTypes'
    BY <1>4, <2>1, <2>2 DEF out_write_running, StreamTypes, streamVars, inVars, Streams, Locks
  <2>4. EchoTypes'
    BY <1>4, <2>1, <2>2, <2>3 DEF out_write_running, EchoTypes, echoVars, Opt
  <2>5. DeviceTypes'
    BY <1>4, <2>1, <2>2, <2>3, <2>4 DEF out_write_running, DeviceTypes, devVars, Opt
  <2> QED BY <2>1, <2>2, <2>3, <2>4, <2>5
<1>5. CASE start_output_stream(t)
  <2>1. arg[t] \in Outs
    BY <1>5, EnterOutput DEF start_output_stream, OutOps
  <2>2. lock' \in [Locks -> Opt(Threads)] /\ pc' \in [Threads -> PC]
    BY <1>5, <2>1, AcquireTypes, GoTypes DEF start_output_stream, PC, Locks, Streams
  <2>3. ThreadTypes'
    BY <1>5, <2>1, <2>2 DEF start_output_stream, ThreadTypes, VoiceCapture
  <2>4. StreamTypes'
    BY <1>5, <2>1, <2>2, <2>3 DEF start_output_stream, StreamTypes, streamVars, inVars, Streams, Locks
  <2>5. EchoTypes'
    BY <1>5, <2>1, <2>2, <2>3, <2>4 DEF start_output_stream, EchoTypes, echoVars, Opt
  <2>6. DeviceTypes'
    BY <1>5, <2>1, <2>2, <2>3, <2>4, <2>5 DEF start_output_stream, DeviceTypes, devVars, Opt
  <2> QED BY <2>1, <2>2, <2>3, <2>4, <2>5, <2>6
<1>6. CASE start_output_fails(t)
  <2>1. arg[t] \in Outs
    BY <1>6, EnterOutput DEF start_output_fails, OutOps
  <2>2. ThreadTypes'
    BY <1>6, <2>1, ReturnTypes, ReleaseTypes DEF start_output_fails, ThreadTypes, Opt
  <2>3. StreamTypes'
    BY <1>6, <2>1, <2>2 DEF start_output_fails, StreamTypes, streamVars, inVars, Streams, Locks
  <2>4. EchoTypes'
    BY <1>6, <2>1, <2>2, <2>3 DEF start_output_fails, EchoTypes, echoVars, Opt
  <2>5. DeviceTypes'
    BY <1>6, <2>1, <2>2, <2>3, <2>4 DEF start_output_fails, DeviceTypes, devVars, Opt
  <2> QED BY <2>1, <2>2, <2>3, <2>4, <2>5
<1>7. CASE write_pcm(t)
  <2>1. ThreadTypes'
    BY <1>7, ReturnTypes, ReleaseTypes, GoTypes DEF write_pcm, ThreadTypes, Opt, PC
  <2>2. StreamTypes'
    BY <1>7, <2>1 DEF write_pcm, StreamTypes, streamVars, inVars, Streams, Locks
  <2>3. EchoTypes'
    BY <1>7, <2>1, <2>2 DEF write_pcm, EchoTypes, echoVars, Opt
  <2>4. DeviceTypes'
    BY <1>7, <2>1, <2>2, <2>3 DEF write_pcm, DeviceTypes, devVars, Opt
  <2> QED BY <2>1, <2>2, <2>3, <2>4
<1>8. CASE force_input(t)
  <2>1. activeIn \in Opt(Ins)
    BY <1>8 DEF force_input, DeviceTypes
  <2>2. ThreadTypes'
    BY <1>8, <2>1, ReturnTypes, AcquireTypes, GoTypes DEF force_input, ThreadTypes, Opt, PC, Locks
  <2>3. StreamTypes'
    BY <1>8, <2>1, <2>2 DEF force_input, StreamTypes, streamVars, inVars, Streams, Locks
  <2>4. EchoTypes'
    BY <1>8, <2>1, <2>2, <2>3 DEF force_input, EchoTypes, echoVars, Opt
  <2>5. DeviceTypes'
    BY <1>8, <2>1, <2>2, <2>3, <2>4 DEF force_input, DeviceTypes, devVars, Opt
  <2> QED BY <2>1, <2>2, <2>3, <2>4, <2>5
<1>9. CASE in_standby(t)
  <2>1. arg[t] \in Ins
    BY <1>9, EnterInput DEF in_standby, InOps
  <2>2. /\ ThreadTypes' /\ EchoTypes' /\ activeIn' \in Opt(Ins) /\ devIn' \in Opt(InDevices)
        /\ standby' \in [Streams -> BOOLEAN] /\ pcm' \in [Streams -> {"null", "ready", "closed"}]
    BY <1>9, <2>1, InputStandbyTypes DEF in_standby
  <2>3. StreamTypes'
    BY <1>9, <2>1, <2>2 DEF in_standby, StreamTypes, streamVars, inVars, Streams, Locks
  <2>4. DeviceTypes'
    BY <1>9, <2>1, <2>2, <2>3 DEF in_standby, DeviceTypes, devVars, Opt
  <2> QED BY <2>1, <2>2, <2>3, <2>4
<1>10. CASE forced_standby(t)
  <2>1. inp[t] \in Ins
    BY <1>10 DEF forced_standby, Placed
  <2>2. /\ ThreadTypes' /\ EchoTypes' /\ activeIn' \in Opt(Ins) /\ devIn' \in Opt(InDevices)
        /\ standby' \in [Streams -> BOOLEAN] /\ pcm' \in [Streams -> {"null", "ready", "closed"}]
    BY <1>10, <2>1, InputStandbyTypes DEF forced_standby
  <2>3. StreamTypes'
    BY <1>10, <2>1, <2>2 DEF forced_standby, StreamTypes, streamVars, inVars, Streams, Locks
  <2>4. DeviceTypes'
    BY <1>10, <2>1, <2>2, <2>3 DEF forced_standby, DeviceTypes, devVars, Opt
  <2> QED BY <2>1, <2>2, <2>3, <2>4
<1>11. CASE finish_standby(t)
  <2>1. inp[t] \in Ins
    BY <1>11 DEF finish_standby, Placed
  <2>2. ThreadTypes'
    BY <1>11, <2>1, ReturnTypes, ReleaseTypes DEF finish_standby, ThreadTypes, Opt
  <2>3. StreamTypes'
    BY <1>11, <2>1, <2>2 DEF finish_standby, StreamTypes, streamVars, inVars, Streams, Locks
  <2>4. EchoTypes'
    BY <1>11, <2>1, <2>2, <2>3 DEF finish_standby, EchoTypes, echoVars, Opt, remove_echo_reference
  <2>5. DeviceTypes'
    BY <1>11, <2>1, <2>2, <2>3, <2>4 DEF finish_standby, DeviceTypes, devVars, Opt
  <2> QED BY <2>1, <2>2, <2>3, <2>4, <2>5
<1>12. CASE in_read_running(t)
  <2>1. arg[t] \in Ins
    BY <1>12, EnterInput DEF in_read_running, InOps
  <2>2. ThreadTypes'
    BY <1>12, <2>1, AcquireTypes, GoTypes DEF in_read_running, ThreadTypes, Opt, PC, Locks, Streams
  <2>3. StreamTypes'
    BY <1>12, <2>1, <2>2 DEF in_read_running, StreamTypes, streamVars, inVars, Streams, Locks
  <2>4. EchoTypes'
    BY <1>12, <2>1, <2>2, <2>3 DEF in_read_running, EchoTypes, echoVars, Opt
  <2>5. DeviceTypes'
    BY <1>12, <2>1, <2>2, <2>3, <2>4 DEF in_read_running, DeviceTypes, devVars, Opt
  <2> QED BY <2>1, <2>2, <2>3, <2>4, <2>5
<1>13. CASE start_input_stream(t)
  <2>1. arg[t] \in Ins
    BY <1>13, EnterInput DEF start_input_stream, InOps
  <2>2. lock' \in [Locks -> Opt(Threads)]
    BY <1>13, <2>1, AcquireTypes DEF start_input_stream, Locks, Streams
  <2>3. pc' \in [Threads -> PC]
    BY <1>13, <2>1, <2>2, GoTypes DEF start_input_stream, PC
  <2>4. ThreadTypes'
    BY <1>13, <2>1, <2>2, <2>3 DEF start_input_stream, ThreadTypes, Opt
  <2>5. StreamTypes'
    BY <1>13, <2>1, <2>2, <2>3, <2>4 DEF start_input_stream, StreamTypes, streamVars, inVars, Streams, Locks
  <2>6. EchoTypes'
    BY <1>13, <2>1, <2>2, <2>3, <2>4, <2>5 DEF start_input_stream, EchoTypes, echoVars, Opt
  <2>7. DeviceTypes'
    BY <1>13, <2>1, <2>2, <2>3, <2>4, <2>5, <2>6 DEF start_input_stream, DeviceTypes, devVars, Opt, StreamTypes
  <2> QED BY <2>1, <2>2, <2>3, <2>4, <2>5, <2>6, <2>7
<1>14. CASE put_echo_reference(t)
  <2>1. ThreadTypes'
    BY <1>14, GoTypes DEF put_echo_reference, ThreadTypes, Opt, PC
  <2>2. StreamTypes'
    BY <1>14, <2>1 DEF put_echo_reference, StreamTypes, streamVars, inVars, Streams, Locks
  <2>3. EchoTypes'
    BY <1>14, <2>1, <2>2 DEF put_echo_reference, EchoTypes, echoVars, Opt, remove_echo_reference
  <2>4. DeviceTypes'
    BY <1>14, <2>1, <2>2, <2>3 DEF put_echo_reference, DeviceTypes, devVars, Opt
  <2> QED BY <2>1, <2>2, <2>3, <2>4
<1>15. CASE create_echo_reference(t)
  <2>1. ThreadTypes'
    BY <1>15, GoTypes DEF create_echo_reference, ThreadTypes, Opt, PC
  <2>2. StreamTypes'
    BY <1>15, <2>1 DEF create_echo_reference, StreamTypes, streamVars, inVars, Streams, Locks
  <2>3. EchoTypes'
    BY <1>15, <2>1, <2>2 DEF create_echo_reference, EchoTypes, echoVars, Opt
  <2>4. DeviceTypes'
    BY <1>15, <2>1, <2>2, <2>3 DEF create_echo_reference, DeviceTypes, devVars, Opt
  <2> QED BY <2>1, <2>2, <2>3, <2>4
<1>16. CASE add_echo_reference(t)
  <2>1. ThreadTypes'
    BY <1>16, GoTypes DEF add_echo_reference, ThreadTypes, Opt, PC
  <2>2. StreamTypes'
    BY <1>16, <2>1 DEF add_echo_reference, StreamTypes, streamVars, inVars, Streams, Locks
  <2>3. EchoTypes'
    BY <1>16, <2>1, <2>2 DEF add_echo_reference, EchoTypes, echoVars, Opt
  <2>4. DeviceTypes'
    BY <1>16, <2>1, <2>2, <2>3 DEF add_echo_reference, DeviceTypes, devVars, Opt
  <2> QED BY <2>1, <2>2, <2>3, <2>4
<1>17. CASE read_pcm(t)
  <2>1. ThreadTypes'
    BY <1>17, ReturnTypes, ReleaseTypes DEF read_pcm, ThreadTypes, Opt
  <2>2. StreamTypes'
    BY <1>17, <2>1 DEF read_pcm, StreamTypes, streamVars, inVars, Streams, Locks
  <2>3. EchoTypes'
    BY <1>17, <2>1, <2>2 DEF read_pcm, EchoTypes, echoVars, Opt
  <2>4. DeviceTypes'
    BY <1>17, <2>1, <2>2, <2>3 DEF read_pcm, DeviceTypes, devVars, Opt
  <2> QED BY <2>1, <2>2, <2>3, <2>4
<1>18. ASSUME NEW m \in Modes, adev_set_mode(t, m)
     PROVE  TypeOK'
  <2>1. ThreadTypes'
    BY <1>18, ReturnTypes DEF adev_set_mode, ThreadTypes, Opt
  <2>2. StreamTypes'
    BY <1>18, <2>1 DEF adev_set_mode, StreamTypes, streamVars, inVars, Streams, Locks
  <2>3. EchoTypes'
    BY <1>18, <2>1, <2>2 DEF adev_set_mode, EchoTypes, echoVars, Opt
  <2>4. DeviceTypes'
    BY <1>18, <2>1, <2>2, <2>3 DEF adev_set_mode, DeviceTypes, devVars, Opt
  <2> QED BY <2>1, <2>2, <2>3, <2>4
<1>19. ASSUME NEW val \in OutDevices, out_set_parameters(t, val)
     PROVE  TypeOK'
  <2>1. arg[t] \in Outs
    BY <1>19, EnterOutput DEF out_set_parameters, OutOps
  <2>2. /\ standby' \in [Streams -> BOOLEAN] /\ DeviceTypes' /\ pcm' \in [Streams -> {"null", "ready", "closed"}]
        /\ outEcho' \in [Outs -> Opt(Refs)]
    BY <1>19, <2>1, OutputStandbyTypes DEF out_set_parameters, DeviceTypes, StreamTypes, EchoTypes
  <2>3. ThreadTypes'
    BY <1>19, <2>1, <2>2, ReturnTypes, ReleaseTypes, GoTypes DEF out_set_parameters, ThreadTypes, PC, DeviceTypes, VoiceCapture, Opt
  <2>4. StreamTypes'
    BY <1>19, <2>1, <2>2, <2>3 DEF out_set_parameters, StreamTypes, streamVars, inVars, Streams, Locks
  <2>5. EchoTypes'
    BY <1>19, <2>1, <2>2, <2>3, <2>4 DEF out_set_parameters, EchoTypes, echoVars, Opt
  <2> QED BY <2>1, <2>2, <2>3, <2>4, <2>5
<1>20. ASSUME NEW src \in Sources, NEW d \in InDevices, in_set_parameters(t, src, d)
     PROVE  TypeOK'
  <2>1. arg[t] \in Ins
    BY <1>20, EnterInput DEF in_set_parameters, InOps
  <2>2. /\ ThreadTypes' /\ EchoTypes' /\ activeIn' \in Opt(Ins) /\ devIn' \in Opt(InDevices)
        /\ standby' \in [Streams -> BOOLEAN] /\ pcm' \in [Streams -> {"null", "ready", "closed"}]
    BY <1>20, <2>1, InputStandbyTypes, ReturnTypes, ReleaseTypes DEF in_set_parameters, ThreadTypes, EchoTypes, StreamTypes, DeviceTypes, echoVars
  <2>3. StreamTypes'
    BY <1>20, <2>1, <2>2 DEF in_set_parameters, StreamTypes, streamVars, inVars, Streams, Locks
  <2>4. DeviceTypes'
    BY <1>20, <2>1, <2>2, <2>3 DEF in_set_parameters, DeviceTypes, devVars, Opt
  <2> QED BY <2>1, <2>2, <2>3, <2>4
<1>21. ASSUME NEW e \in Effects, NEW ok \in BOOLEAN, in_add_audio_effect(t, e, ok)
     PROVE  TypeOK'
  <2>1. arg[t] \in Ins
    BY <1>21, EnterInput DEF in_add_audio_effect, InOps
  <2>2. /\ ThreadTypes' /\ EchoTypes' /\ activeIn' \in Opt(Ins) /\ devIn' \in Opt(InDevices)
        /\ standby' \in [Streams -> BOOLEAN] /\ pcm' \in [Streams -> {"null", "ready", "closed"}]
    BY <1>21, <2>1, InputStandbyTypes, ReturnTypes, ReleaseTypes DEF in_add_audio_effect, Untouched, ThreadTypes, EchoTypes, StreamTypes, DeviceTypes, echoVars
  <2>3. StreamTypes'
    BY <1>21, <2>1, <2>2 DEF in_add_audio_effect, StreamTypes, streamVars, inVars, Streams, Locks
  <2>4. DeviceTypes'
    BY <1>21, <2>1, <2>2, <2>3 DEF in_add_audio_effect, DeviceTypes, devVars, Opt
  <2> QED BY <2>1, <2>2, <2>3, <2>4
<1>22. ASSUME NEW e \in Effects, NEW ok \in BOOLEAN, in_remove_audio_effect(t, e, ok)
     PROVE  TypeOK'
  <2>1. arg[t] \in Ins
    BY <1>22, EnterInput DEF in_remove_audio_effect, InOps
  <2>2. /\ ThreadTypes' /\ EchoTypes' /\ activeIn' \in Opt(Ins) /\ devIn' \in Opt(InDevices)
        /\ standby' \in [Streams -> BOOLEAN] /\ pcm' \in [Streams -> {"null", "ready", "closed"}]
    BY <1>22, <2>1, InputStandbyTypes, ReturnTypes, ReleaseTypes DEF in_remove_audio_effect, Untouched, ThreadTypes, EchoTypes, StreamTypes, DeviceTypes, echoVars
  <2>3. StreamTypes'
    BY <1>22, <2>1, <2>2 DEF in_remove_audio_effect, StreamTypes, streamVars, inVars, Streams, Locks
  <2>4. DeviceTypes'
    BY <1>22, <2>1, <2>2, <2>3 DEF in_remove_audio_effect, DeviceTypes, devVars, Opt
  <2> QED BY <2>1, <2>2, <2>3, <2>4
<1>23. ASSUME NEW ok \in BOOLEAN, open_capture(t, ok)
     PROVE  TypeOK'
  <2>1. ThreadTypes'
    BY <1>23, GoTypes DEF open_capture, ThreadTypes, Opt, PC
  <2>2. StreamTypes'
    BY <1>23, <2>1 DEF open_capture, StreamTypes, streamVars, inVars, Streams, Locks
  <2>3. EchoTypes'
    BY <1>23, <2>1, <2>2 DEF open_capture, EchoTypes, echoVars, Opt
  <2>4. DeviceTypes'
    BY <1>23, <2>1, <2>2, <2>3 DEF open_capture, DeviceTypes, devVars, Opt
  <2> QED BY <2>1, <2>2, <2>3, <2>4
<1> QED
  BY <1>1, <1>2, <1>3, <1>4, <1>5, <1>6, <1>7, <1>8, <1>9, <1>10, <1>11, <1>12, <1>13, <1>14, <1>15, <1>16, <1>17, <1>18, <1>19, <1>20, <1>21, <1>22, <1>23 DEF Step, OutStep, InStep

-----------------------------------------------------------------------------
\* what StepKeepsPlaces asks of a step of t
KeepsOrder(t) ==
    /\ OthersKeep(t)
    /\ \A l \in Locks : lock'[l] = t <=> l \in Holds(t)'
    /\ Placed(t)'
    /\ lock[Dev] = t \/ activeOut' = activeOut

\* the same for the mutexes of t alone, and for its place alone
KeepsLocks(t) ==
    /\ \A u \in Threads \ {t}, l \in Locks : lock'[l] = u <=> lock[l] = u
    /\ \A l \in Locks : lock'[l] = t <=> l \in Holds(t)'

KeepsPlace(t) ==
    /\ \A u \in Threads \ {t} :
         pc'[u] = pc[u] /\ op'[u] = op[u] /\ arg'[u] = arg[u] /\ inp'[u] = inp[u]
    /\ Placed(t)'

LEMMA LocksAndPlace ==
    ASSUME NEW t \in Threads, KeepsLocks(t), KeepsPlace(t),
           lock[Dev] = t \/ activeOut' = activeOut
    PROVE  KeepsOrder(t)
  BY DEF KeepsOrder, KeepsLocks, KeepsPlace, OthersKeep

(* Leaving an operation moves t to a place without mutexes. *)
LEMMA ReturnPlace ==
    ASSUME LockInv, NEW t \in Threads, Return(t)
    PROVE  KeepsPlace(t) /\ pc'[t] \in {"idle", "free"}
  BY NamesAssumption
     DEF LockInv, TypeOK, ThreadTypes, Placed, Return, Go, KeepsPlace, OutOps, InOps, Ops

LEMMA LeaveOrder ==
    ASSUME LockInv, NEW t \in Threads, Return(t), ReleaseAll(t),
           lock[Dev] = t \/ activeOut' = activeOut
    PROVE  KeepsOrder(t)
<1>1. KeepsPlace(t) /\ pc'[t] \in {"idle", "free"}
  BY ReturnPlace
<1>2. KeepsLocks(t)
  BY <1>1, NamesAssumption
     DEF LockInv, TypeOK, ThreadTypes, ReleaseAll, KeepsLocks, Holds, InputWork
<1> QED BY <1>1, <1>2, LocksAndPlace

(* The owner of the device mutex that takes a free input's and puts it in  *)
(* standby keeps the order, whether or not it then waits for the output.   *)
LEMMA InputStandbyOrder ==
    ASSUME LockInv, NEW t \in Threads, NEW i \in Ins, do_input_standby(t, i),
           pc[t] \in {"stream", "forceIn"}, op[t] # "adev_set_mode",
           Free(i), activeOut' = activeOut
    PROVE  KeepsOrder(t)
<1>1. CASE Return(t) /\ ReleaseAll(t)
  BY <1>1, LeaveOrder
<1>2. CASE ~ (Return(t) /\ ReleaseAll(t))
  <2>1. /\ activeOut # None
        /\ Go(t, "removeEcho")
        /\ inp' = [inp EXCEPT ![t] = i]
        /\ Acquire(t, i)
        /\ op' = op /\ arg' = arg
    BY <1>2 DEF do_input_standby
  <2>2. KeepsPlace(t) /\ pc'[t] = "removeEcho" /\ inp'[t] = i
    BY <2>1 DEF LockInv, TypeOK, ThreadTypes, DeviceTypes, Opt, Placed, Go, KeepsPlace
  <2>3. \A l \in Locks : lock[l] = t <=> l = Dev
    BY NamesAssumption DEF LockInv, LockDiscipline, Holds, InputWork
  <2>4. KeepsLocks(t)
    BY <2>1, <2>2, <2>3, NamesAssumption
       DEF LockInv, TypeOK, ThreadTypes, Acquire, Free, KeepsLocks, Holds, InputWork, Locks, Streams
  <2> QED BY <2>2, <2>4, LocksAndPlace
<1> QED BY <1>1, <1>2

(* The steps that go on inside the operation: what t holds before is known *)
(* from its place, what it holds after from the lock it took or gave back. *)
LEMMA GoOrder ==
    ASSUME LockInv, NEW t \in Threads, NEW to \in PC, Go(t, to),
           KeepsLocks(t), Placed(t)', op' = op, arg' = arg,
           \A u \in Threads \ {t} : inp'[u] = inp[u],
           lock[Dev] = t \/ activeOut' = activeOut
    PROVE  KeepsOrder(t)
  BY LocksAndPlace DEF LockInv, TypeOK, ThreadTypes, Go, KeepsPlace

(* Taking the stream's mutex and giving the device's back before the I/O. *)
LEMMA SwapLocks ==
    ASSUME LockInv, NEW t \in Threads, arg[t] \in Streams, pc[t] = "stream",
           Free(arg[t]), SwapDev(t, arg[t]), pc'[t] \in {"outIO", "inIO"}, arg' = arg
    PROVE  KeepsLocks(t)
<1>1. \A l \in Locks : lock[l] = t <=> l = Dev
  BY DEF LockInv, LockDiscipline, Holds, InputWork
<1>2. Dev \in Locks /\ arg[t] \in Locks /\ arg[t] # Dev
  BY NamesAssumption DEF Locks
<1>3. \A l \in Locks : lock'[l] = IF l = Dev THEN None ELSE IF l = arg[t] THEN t ELSE lock[l]
  BY <1>2 DEF LockInv, TypeOK, ThreadTypes, SwapDev
<1> QED BY <1>1, <1>2, <1>3, NamesAssumption DEF Free, KeepsLocks, Holds, InputWork

(* Every step of a thread inside an operation keeps the order. *)
LEMMA StepOrder ==
    ASSUME LockInv, NEW t \in Threads, Step(t)
    PROVE  KeepsOrder(t)
<1> DEFINE Owned == \A l \in Locks : lock[l] = t <=> l \in Holds(t)
<1>0. Owned /\ Placed(t) /\ ThreadTypes /\ DeviceTypes
  BY DEF LockInv, LockDiscipline, TypeOK
<1>1. CASE LockDev(t)
  <2>1. pc[t] = "dev"
    BY <1>1, <1>0 DEF LockDev, Placed
  <2>2. KeepsLocks(t)
    BY <1>1, <2>1, <1>0, NamesAssumption
       DEF LockDev, ThreadTypes, Go, Acquire, SwapDev, Free, KeepsLocks, Holds, InputWork, Locks, Streams
  <2>3. Placed(t)' /\ (\A u \in Threads \ {t} : inp'[u] = inp[u])
    BY <1>1, <2>1, <1>0, NamesAssumption
       DEF LockDev, ThreadTypes, DeviceTypes, Opt, Placed, Go, Ops, OutOps, InOps
  <2>4. activeOut' = activeOut
    BY <1>1, <2>1, <1>0 DEF LockDev, Holds, InputWork, Locks
  <2> QED BY <1>1, <2>1, <2>2, <2>3, <2>4, GoOrder DEF LockDev, PC
<1>2. CASE FreeStream(t)
  <2>1. KeepsPlace(t) /\ pc[t] = "free" /\ pc'[t] = "idle"
    BY <1>2, <1>0, NamesAssumption DEF FreeStream, ThreadTypes, Placed, Go, KeepsPlace, OutOps, InOps, Ops
  <2>2. KeepsLocks(t)
    BY <1>2, <2>1, <1>0 DEF FreeStream, KeepsLocks, Holds, InputWork
  <2> QED BY <1>2, <2>1, <2>2, LocksAndPlace DEF FreeStream
<1>3. CASE out_standby(t)
  <2>1. lock[Dev] = t
    BY <1>3, <1>0 DEF out_standby, Enter, Holds, Locks
  <2> QED BY <1>3, <2>1, LeaveOrder DEF out_standby
<1>4. ASSUME NEW val \in OutDevices, out_set_parameters(t, val)
     PROVE  KeepsOrder(t)
  <2>1. lock[Dev] = t
    BY <1>4, <1>0 DEF out_set_parameters, Enter, Holds, Locks
  <2>2. CASE Return(t) /\ ReleaseAll(t)
    BY <2>1, <2>2, LeaveOrder
  <2>3. CASE ~ (Return(t) /\ ReleaseAll(t))
    <3>1. /\ Go(t, "forceIn") /\ VoiceCapture /\ pc[t] = "stream"
          /\ inp' = [inp EXCEPT ![t] = activeIn]
          /\ lock' = lock /\ op' = op /\ arg' = arg
      BY <1>4, <2>3 DEF out_set_parameters, Enter
    <3>2. KeepsLocks(t)
      BY <3>1, <1>0 DEF ThreadTypes, Go, KeepsLocks, Holds, InputWork
    <3>3. Placed(t)' /\ (\A u \in Threads \ {t} : inp'[u] = inp[u])
      BY <1>4, <3>1, <1>0, NamesAssumption
         DEF ThreadTypes, DeviceTypes, VoiceCapture, Opt, Placed, Go, Enter, out_set_parameters
    <3> QED BY <2>1, <3>1, <3>2, <3>3, GoOrder DEF PC
  <2> QED BY <2>2, <2>3
<1>5. CASE out_write_running(t)
  <2>1. pc[t] = "stream" /\ Free(arg[t]) /\ op[t] = "out_write" /\ arg[t] \in Outs
    BY <1>5, <1>0 DEF out_write_running, Enter, Placed, OutOps
  <2>2. KeepsLocks(t)
    BY <1>5, <2>1, <1>0, SwapLocks DEF out_write_running, ThreadTypes, Go, Streams
  <2>3. Placed(t)' /\ (\A u \in Threads \ {t} : inp'[u] = inp[u])
    BY <1>5, <2>1, <1>0, NamesAssumption
       DEF out_write_running, ThreadTypes, DeviceTypes, Opt, Placed, Go, Ops, OutOps, InOps
  <2>4. activeOut' = activeOut
    BY <1>5, <2>1, <1>0 DEF out_write_running, Holds, InputWork, Locks
  <2> QED BY <1>5, <2>1, <2>2, <2>3, <2>4, GoOrder DEF out_write_running, PC
<1>6. CASE start_output_stream(t)
  <2>1. pc[t] = "stream" /\ Free(arg[t]) /\ op[t] = "out_write" /\ arg[t] \in Outs
    BY <1>6, <1>0 DEF start_output_stream, Enter, Placed, OutOps
  <2>2. KeepsLocks(t)
    BY <1>6, <2>1, <1>0, SwapLocks DEF start_output_stream, ThreadTypes, Go, Streams
  <2>3. Placed(t)' /\ (\A u \in Threads \ {t} : inp'[u] = inp[u])
    BY <1>6, <2>1, <1>0, NamesAssumption
       DEF start_output_stream, ThreadTypes, DeviceTypes, Opt, Placed, Go, Ops, OutOps, InOps
  <2>4. lock[Dev] = t
    BY <1>6, <2>1, <1>0 DEF start_output_stream, Holds, InputWork, Locks
  <2> QED BY <1>6, <2>1, <2>2, <2>3, <2>4, GoOrder DEF start_output_stream, PC
<1>7. CASE start_output_fails(t)
  <2>1. lock[Dev] = t
    BY <1>7, <1>0 DEF start_output_fails, Enter, Holds, Locks
  <2> QED BY <1>7, <2>1, LeaveOrder DEF start_output_fails
<1>8. CASE write_pcm(t)
  <2>1. CASE Return(t)
    BY <1>8, <2>1, LeaveOrder DEF write_pcm
  <2>2. CASE ~ Return(t)
    <3>1. Go(t, "forceDev") /\ pc[t] = "outIO" /\ ReleaseAll(t) /\ UNCHANGED <<op, arg, inp>>
      BY <1>8, <2>2 DEF write_pcm
    <3>2. KeepsLocks(t)
      BY <3>1, <1>0, NamesAssumption DEF ThreadTypes, Go, ReleaseAll, KeepsLocks, Holds, InputWork
    <3>3. Placed(t)'
      BY <3>1, <1>0, NamesAssumption DEF ThreadTypes, Go, Placed, Ops, OutOps
    <3> QED BY <1>8, <3>1, <3>2, <3>3, GoOrder DEF write_pcm, PC
  <2> QED BY <2>1, <2>2
<1>9. CASE force_input(t)
  <2>1. CASE activeIn = None
    <3>1. Return(t) /\ lock' = lock /\ activeOut' = activeOut /\ pc[t] = "forceDev"
      BY <1>9, <2>1 DEF force_input
    <3>2. KeepsPlace(t) /\ pc'[t] \in {"idle", "free"}
      BY <3>1, ReturnPlace
    <3>3. KeepsLocks(t)
      BY <3>1, <3>2, <1>0 DEF KeepsLocks, Holds, InputWork
    <3> QED BY <3>1, <3>2, <3>3, LocksAndPlace
  <2>2. CASE activeIn # None
    <3>1. /\ Go(t, "forceIn") /\ pc[t] = "forceDev" /\ Free(Dev) /\ Acquire(t, Dev)
          /\ inp' = [inp EXCEPT ![t] = activeIn] /\ op' = op /\ arg' = arg
      BY <1>9, <2>2 DEF force_input
    <3>2. KeepsLocks(t)
      BY <3>1, <1>0, NamesAssumption
         DEF ThreadTypes, Go, Acquire, Free, KeepsLocks, Holds, InputWork, Locks
    <3>3. Placed(t)' /\ (\A u \in Threads \ {t} : inp'[u] = inp[u])
      BY <2>2, <3>1, <1>0, NamesAssumption DEF ThreadTypes, DeviceTypes, Opt, Go, Placed, Ops, OutOps
    <3> QED BY <1>9, <3>1, <3>2, <3>3, GoOrder DEF force_input, PC
  <2> QED BY <2>1, <2>2
<1>10. CASE in_standby(t)
  <2>1. arg[t] \in Ins /\ pc[t] = "stream" /\ Free(arg[t]) /\ op[t] # "adev_set_mode"
    BY <1>10, EnterInput DEF in_standby, Enter, InOps
  <2>2. CASE do_input_standby(t, arg[t])
    BY <1>10, <2>1, <2>2, InputStandbyOrder DEF in_standby
  <2>3. CASE ~ do_input_standby(t, arg[t])
    BY <1>10, <2>3, LeaveOrder DEF in_standby, Untouched
  <2> QED BY <2>2, <2>3
<1>11. CASE forced_standby(t)
  <2>1. inp[t] \in Ins /\ pc[t] = "forceIn" /\ Free(inp[t]) /\ op[t] # "adev_set_mode"
    BY <1>11, <1>0 DEF forced_standby, Placed
  <2> QED BY <1>11, <2>1, InputStandbyOrder DEF forced_standby
<1>12. CASE finish_standby(t)
  BY <1>12, LeaveOrder DEF finish_standby
<1>13. ASSUME NEW src \in Sources, NEW d \in InDevices, in_set_parameters(t, src, d)
     PROVE  KeepsOrder(t)
  <2>1. arg[t] \in Ins /\ pc[t] = "stream" /\ Free(arg[t]) /\ op[t] # "adev_set_mode"
    BY <1>13, EnterInput DEF in_set_parameters, Enter, InOps
  <2>2. CASE do_input_standby(t, arg[t])
    BY <1>13, <2>1, <2>2, InputStandbyOrder DEF in_set_parameters
  <2>3. CASE ~ do_input_standby(t, arg[t])
    BY <1>13, <2>3, LeaveOrder DEF in_set_parameters, Untouched
  <2> QED BY <2>2, <2>3
<1>14. ASSUME NEW e \in Effects, NEW ok \in BOOLEAN, in_add_audio_effect(t, e, ok)
     PROVE  KeepsOrder(t)
  <2>1. arg[t] \in Ins /\ pc[t] = "stream" /\ Free(arg[t]) /\ op[t] # "adev_set_mode"
    BY <1>14, EnterInput DEF in_add_audio_effect, Enter, InOps
  <2>2. CASE do_input_standby(t, arg[t])
    BY <1>14, <2>1, <2>2, InputStandbyOrder DEF in_add_audio_effect
  <2>3. CASE ~ do_input_standby(t, arg[t])
    BY <1>14, <2>3, LeaveOrder DEF in_add_audio_effect, Untouched
  <2> QED BY <2>2, <2>3
<1>15. ASSUME NEW e \in Effects, NEW ok \in BOOLEAN, in_remove_audio_effect(t, e, ok)
     PROVE  KeepsOrder(t)
  <2>1. arg[t] \in Ins /\ pc[t] = "stream" /\ Free(arg[t]) /\ op[t] # "adev_set_mode"
    BY <1>15, EnterInput DEF in_remove_audio_effect, Enter, InOps
  <2>2. CASE do_input_standby(t, arg[t])
    BY <1>15, <2>1, <2>2, InputStandbyOrder DEF in_remove_audio_effect
  <2>3. CASE ~ do_input_standby(t, arg[t])
    BY <1>15, <2>3, LeaveOrder DEF in_remove_audio_effect, Untouched
  <2> QED BY <2>2, <2>3
<1>16. CASE in_read_running(t)
  <2>1. pc[t] = "stream" /\ Free(arg[t]) /\ op[t] = "in_read" /\ arg[t] \in Ins
    BY <1>16, <1>0 DEF in_read_running, Enter, Placed, InOps
  <2>2. KeepsLocks(t)
    BY <1>16, <2>1, <1>0, SwapLocks DEF in_read_running, ThreadTypes, Go, Streams
  <2>3. Placed(t)' /\ (\A u \in Threads \ {t} : inp'[u] = inp[u])
    BY <1>16, <2>1, <1>0, NamesAssumption
       DEF in_read_running, ThreadTypes, DeviceTypes, Opt, Placed, Go, Ops, OutOps, InOps
  <2>4. activeOut' = activeOut
    BY <1>16, <2>1, <1>0 DEF in_read_running, Holds, InputWork, Locks
  <2> QED BY <1>16, <2>1, <2>2, <2>3, <2>4, GoOrder DEF in_read_running, PC
<1>17. CASE start_input_stream(t)
  <2>1. arg[t] \in Ins /\ pc[t] = "stream" /\ op[t] = "in_read" /\ Free(arg[t])
    BY <1>17, EnterInput DEF start_input_stream, Enter, InOps
  <2>2. PICK to \in {"dropEcho", "createEcho", "openPcm"} :
          Go(t, to) /\ (to # "openPcm" => activeOut # None)
    BY <1>17 DEF start_input_stream
  <2>3. KeepsLocks(t)
    BY <1>17, <2>1, <2>2, <1>0, NamesAssumption
       DEF start_input_stream, ThreadTypes, Go, Acquire, Free, KeepsLocks, Holds, InputWork, Locks, Streams
  <2>4. Placed(t)' /\ (\A u \in Threads \ {t} : inp'[u] = inp[u])
    BY <1>17, <2>1, <2>2, <1>0, NamesAssumption
       DEF start_input_stream, ThreadTypes, DeviceTypes, Opt, Placed, Go, Ops, OutOps, InOps
  <2> QED BY <1>17, <2>2, <2>3, <2>4, GoOrder DEF start_input_stream, PC
<1>18. CASE put_echo_reference(t)
  <2>1. pc[t] = "dropEcho"
    BY <1>18, <1>0 DEF put_echo_reference, Placed
  <2>2. KeepsLocks(t)
    BY <1>18, <2>1, <1>0, NamesAssumption
       DEF put_echo_reference, ThreadTypes, Go, Acquire, SwapDev, Free, KeepsLocks, Holds, InputWork, Locks, Streams
  <2>3. Placed(t)' /\ (\A u \in Threads \ {t} : inp'[u] = inp[u])
    BY <1>18, <2>1, <1>0, NamesAssumption
       DEF put_echo_reference, ThreadTypes, DeviceTypes, Opt, Placed, Go, Ops, OutOps, InOps
  <2>4. activeOut' = activeOut
    BY <1>18, <2>1, <1>0 DEF put_echo_reference, Holds, InputWork, Locks
  <2> QED BY <1>18, <2>1, <2>2, <2>3, <2>4, GoOrder DEF put_echo_reference, PC
<1>19. CASE create_echo_reference(t)
  <2>1. PICK to \in {"addEcho", "openPcm"} : Go(t, to)
    BY <1>19 DEF create_echo_reference
  <2>2. KeepsLocks(t)
    BY <1>19, <2>1, <1>0 DEF create_echo_reference, ThreadTypes, Go, KeepsLocks, Holds, InputWork
  <2>3. Placed(t)'
    BY <1>19, <2>1, <1>0, NamesAssumption
       DEF create_echo_reference, ThreadTypes, DeviceTypes, Opt, Placed, Go, Ops, OutOps, InOps
  <2> QED BY <1>19, <2>1, <2>2, <2>3, GoOrder DEF create_echo_reference, PC
<1>20. CASE add_echo_reference(t)
  <2>1. pc[t] = "addEcho"
    BY <1>20, <1>0 DEF add_echo_reference, Placed
  <2>2. KeepsLocks(t)
    BY <1>20, <2>1, <1>0, NamesAssumption
       DEF add_echo_reference, ThreadTypes, Go, Acquire, SwapDev, Free, KeepsLocks, Holds, InputWork, Locks, Streams
  <2>3. Placed(t)' /\ (\A u \in Threads \ {t} : inp'[u] = inp[u])
    BY <1>20, <2>1, <1>0, NamesAssumption
       DEF add_echo_reference, ThreadTypes, DeviceTypes, Opt, Placed, Go, Ops, OutOps, InOps
  <2>4. activeOut' = activeOut
    BY <1>20, <2>1, <1>0 DEF add_echo_reference, Holds, InputWork, Locks
  <2> QED BY <1>20, <2>1, <2>2, <2>3, <2>4, GoOrder DEF add_echo_reference, PC
<1>21. ASSUME NEW ok \in BOOLEAN, open_capture(t, ok)
     PROVE  KeepsOrder(t)
  <2>1. pc[t] = "openPcm" /\ op[t] = "in_read" /\ arg[t] \in Ins /\ inp[t] = arg[t]
    BY <1>21, <1>0 DEF open_capture, Placed, InOps
  <2>2. KeepsLocks(t)
    BY <1>21, <2>1, <1>0, NamesAssumption
       DEF open_capture, ThreadTypes, Go, Acquire, SwapDev, Free, KeepsLocks, Holds, InputWork, Locks, Streams
  <2>3. Placed(t)' /\ (\A u \in Threads \ {t} : inp'[u] = inp[u])
    BY <1>21, <2>1, <1>0, NamesAssumption
       DEF open_capture, ThreadTypes, DeviceTypes, Opt, Placed, Go, Ops, OutOps, InOps
  <2>4. activeOut' = activeOut
    BY <1>21, <2>1, <1>0 DEF open_capture, Holds, InputWork, Locks
  <2> QED BY <1>21, <2>1, <2>2, <2>3, <2>4, GoOrder DEF open_capture, PC
<1>22. CASE read_pcm(t)
  BY <1>22, LeaveOrder DEF read_pcm
<1>23. ASSUME NEW m \in Modes, adev_set_mode(t, m)
     PROVE  KeepsOrder(t)
  <2>1. KeepsPlace(t) /\ pc'[t] \in {"idle", "free"}
    BY <1>23, ReturnPlace DEF adev_set_mode
  <2>2. KeepsLocks(t)
    BY <1>23, <2>1, <1>0 DEF adev_set_mode, KeepsLocks, Holds, InputWork
  <2> QED BY <1>23, <2>1, <2>2, LocksAndPlace DEF adev_set_mode
<1> QED
  BY <1>1, <1>2, <1>3, <1>4, <1>5, <1>6, <1>7, <1>8, <1>9, <1>10, <1>11, <1>12, <1>13, <1>14, <1>15, <1>16, <1>17, <1>18, <1>19, <1>20, <1>21, <1>22, <1>23 DEF Step, OutStep, InStep

-----------------------------------------------------------------------------
(* A step that leaves the threads alone. *)
LEMMA SamePlaces ==
    ASSUME LockInv, UNCHANGED <<lock, threadVars, activeOut>>, TypeOK'
    PROVE  LockInv'
<1>1. LockDiscipline'
  BY DEF LockInv, LockDiscipline, Holds, threadVars
<1>2. \A t \in Threads : Placed(t)'
  BY DEF LockInv, Placed, threadVars
<1> QED BY <1>1, <1>2 DEF LockInv

(* AudioFlinger's requests only start an operation or make a stream. *)
LEMMA RequestInv ==
    ASSUME LockInv, NEW t \in Threads, Request(t)
    PROVE  LockInv'
<1>1. ASSUME NEW o \in Ops, NEW s \in Opt(Streams), Call(t, o, s)
      PROVE  LockInv'
  <2>1. /\ pc[t] = "idle" /\ Go(t, "dev")
        /\ op' = [op EXCEPT ![t] = o] /\ arg' = [arg EXCEPT ![t] = s]
        /\ UNCHANGED <<lock, inp, activeOut>>
        /\ o \in OutOps => s \in Outs
        /\ o \in InOps => s \in Ins
    BY <1>1 DEF Call, Ops, OutOps, InOps
  <2>2. TypeOK'
    BY <1>1, <2>1, GoTypes
       DEF LockInv, TypeOK, ThreadTypes, StreamTypes, EchoTypes, DeviceTypes, PC, Opt, Call,
           streamVars, echoVars, inVars, devVars
  <2>3. KeepsPlace(t)
    BY <2>1, NamesAssumption
       DEF LockInv, TypeOK, ThreadTypes, Placed, Go, KeepsPlace, OutOps, InOps, Ops
  <2>4. KeepsLocks(t)
    BY <2>1 DEF LockInv, LockDiscipline, TypeOK, ThreadTypes, Go, KeepsLocks, Holds, InputWork
  <2>5. KeepsOrder(t)
    BY <2>1, <2>3, <2>4, LocksAndPlace
  <2> QED BY <2>2, <2>5, StepKeepsPlaces DEF KeepsOrder, LockInv
<1>2. ASSUME NEW o \in Outs, OpenOutput(t, o)
      PROVE  LockInv'
  <2>1. TypeOK'
    BY <1>2 DEF LockInv, TypeOK, ThreadTypes, StreamTypes, EchoTypes, DeviceTypes, Streams,
                OpenOutput, threadVars, echoVars, inVars, devVars
  <2>2. UNCHANGED <<lock, threadVars, activeOut>>
    BY <1>2 DEF OpenOutput
  <2> QED BY <2>1, <2>2, SamePlaces
<1>3. ASSUME NEW i \in Ins, NEW d \in InDevices, OpenInput(t, i, d)
      PROVE  LockInv'
  <2>1. TypeOK'
    BY <1>3 DEF LockInv, TypeOK, ThreadTypes, StreamTypes, EchoTypes, DeviceTypes, Streams,
                OpenInput, threadVars, echoVars, devVars
  <2>2. UNCHANGED <<lock, threadVars, activeOut>>
    BY <1>3 DEF OpenInput
  <2> QED BY <2>1, <2>2, SamePlaces
<1> QED BY <1>1, <1>2, <1>3 DEF Request

LEMMA InitInv == Init => LockInv
<1> SUFFICES ASSUME Init PROVE LockInv
  OBVIOUS
<1>1. TypeOK
  BY NamesAssumption, DeviceAssumption
     DEF Init, TypeOK, ThreadTypes, StreamTypes, EchoTypes, DeviceTypes, PC, Opt
<1>2. LockDiscipline
  BY NamesAssumption DEF Init, LockDiscipline, Holds, InputWork
<1>3. \A t \in Threads : Placed(t)
  BY NamesAssumption DEF Init, Placed, Ops, OutOps, InOps
<1> QED BY <1>1, <1>2, <1>3 DEF LockInv

LEMMA NextInv == LockInv /\ [Next]_vars => LockInv'
<1> SUFFICES ASSUME LockInv, [Next]_vars PROVE LockInv'
  OBVIOUS
<1>1. ASSUME NEW t \in Threads, Step(t) PROVE LockInv'
  BY <1>1, StepTypes, StepOrder, StepKeepsPlaces DEF KeepsOrder, LockInv
<1>2. CASE UNCHANGED vars
  BY <1>2 DEF LockInv, TypeOK, ThreadTypes, StreamTypes, EchoTypes, DeviceTypes,
              LockDiscipline, Holds, Placed, vars, threadVars, streamVars, echoVars,
              inVars, devVars
<1> QED BY <1>1, <1>2, RequestInv DEF Next

(* A mutex a thread waits for ranks above each it owns. *)
LEMMA InvLockOrder == LockInv => LockOrder
<1> SUFFICES ASSUME LockInv, NEW t \in Threads, NEW l \in Locks, lock[l] = t,
                    NEW w \in WaitsFor(t)
             PROVE  Rank(l) < Rank(w)
  BY DEF LockOrder
<1>1. l \in Holds(t) /\ Placed(t)
  BY DEF LockInv, LockDiscipline
<1>2. CASE pc[t] = "stream"
  <2>1. l = Dev /\ w = arg[t] /\ w # Dev
    BY <1>1, <1>2, NamesAssumption
       DEF Holds, WaitsFor, InputWork, LockInv, Placed, TypeOK, ThreadTypes, Opt, Locks, Ops,
           OutOps, InOps
  <2> QED BY <2>1 DEF Rank
<1>3. CASE pc[t] = "forceIn"
  <2>1. l = Dev /\ w \in Ins /\ w # Dev
    BY <1>1, <1>3, NamesAssumption DEF Holds, WaitsFor, InputWork, Placed, Streams
  <2> QED BY <2>1 DEF Rank
<1>4. CASE pc[t] \in {"removeEcho", "dropEcho", "addEcho"}
  <2>1. (l = Dev \/ l \in Ins) /\ w \in Outs /\ w # Dev /\ w \notin Ins
    BY <1>1, <1>4, NamesAssumption
       DEF Holds, WaitsFor, InputWork, Placed, Streams, InOps
  <2> QED BY <2>1 DEF Rank
<1>5. CASE pc[t] \in {"dev", "forceDev"}
  BY <1>1, <1>5 DEF Holds, InputWork
<1>6. pc[t] \in {"stream", "forceIn", "removeEcho", "dropEcho", "addEcho", "dev", "forceDev"}
  BY DEF WaitsFor
<1> QED BY <1>2, <1>3, <1>4, <1>5, <1>6

(* The types hold in every reachable state. *)
THEOREM AudioTypes == Spec => []TypeOK
<1>1. LockInv => TypeOK
  BY DEF LockInv
<1> QED BY <1>1, InitInv, NextInv, PTL DEF Spec

(* Whatever the interleaving, each thread owns exactly the mutexes its     *)
(* place in the code says: no path leaks one or unlocks another's.         *)
THEOREM AudioLockDiscipline == Spec => []LockDiscipline
<1>1. LockInv => LockDiscipline
  BY DEF LockInv
<1> QED BY <1>1, InitInv, NextInv, PTL DEF Spec

(* The documented acquisition order is kept by any number of threads on    *)
(* any number of streams, so the HAL cannot deadlock on its mutexes.       *)
THEOREM AudioLockOrder == Spec => []LockOrder
  BY InitInv, NextInv, InvLockOrder, PTL DEF Spec

=============================================================================
