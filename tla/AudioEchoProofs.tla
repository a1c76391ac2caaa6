--------------------------- MODULE AudioEchoProofs --------------------------
(***************************************************************************)
(* Proofs about the active streams and the echo reference of AudioHal, for *)
(* any number of threads and the streams audio_policy.conf configures: at  *)
(* most one output and one input are open.                                 *)
(***************************************************************************)
EXTENDS AudioStreamProofs

OneEach == (\A o, p \in Outs : o = p) /\ (\A i, j \in Ins : i = j)

\* start_input_stream from where it needs a new reference to where it has one
Getting == {"dropEcho", "createEcho", "addEcho"}

(* The output: active while it is out of standby, and only then with a     *)
(* reference, which is the device's.                                       *)
OutPair ==
    \A o \in Outs :
        /\ activeOut = o <=> ~ standby[o]
        /\ standby[o] => outEcho[o] = None
        /\ outEcho[o] \in {echo, None}

(* The input: the same, except while a thread stops it.                    *)
InPair ==
    \A i \in Ins :
        /\ ~ standby[i] => activeIn = i \/ \E t \in Threads : pc[t] = "removeEcho" /\ inp[t] = i
        /\ inEcho[i] \in {echo, None}

(* What the threads that start or stop the input rely on.                  *)
WorkPair ==
    \A t \in Threads :
        /\ pc[t] \in Starting => activeIn = inp[t] /\ standby[inp[t]]
        /\ pc[t] \in Getting => inEcho[inp[t]] = None
        /\ pc[t] = "addEcho" => echo # None
        /\ pc[t] = "removeEcho" => /\ ~ standby[inp[t]]
                                   /\ echo # None /\ inEcho[inp[t]] = echo

(* The active output feeds the device's reference, but for a new one.      *)
FedPair ==
    echo # None /\ activeOut # None =>
        outEcho[activeOut] = echo \/ \E t \in Threads : pc[t] = "addEcho"

PairInv == OutPair /\ InPair /\ WorkPair /\ FedPair

-----------------------------------------------------------------------------
(* What a step of t does to the active streams and the references. *)

\* t does not start or stop the input
Away(t) == pc[t] \notin InputWork /\ pc'[t] \notin InputWork

Rests(t) ==
    /\ UNCHANGED <<standby, activeOut, activeIn, echo, outEcho, inEcho>>
    /\ Away(t)

EndsOut(t) ==
    /\ arg[t] \in Outs /\ lock[Dev] = t
    /\ standby' = [standby EXCEPT ![arg[t]] = TRUE]
    /\ outEcho' = [outEcho EXCEPT ![arg[t]] = None]
    /\ activeOut' = None
    /\ UNCHANGED <<activeIn, echo, inEcho>>
    /\ Away(t)

BeginsOut(t) ==
    /\ arg[t] \in Outs /\ lock[Dev] = t /\ standby[arg[t]]
    /\ standby' = [standby EXCEPT ![arg[t]] = FALSE]
    /\ outEcho' = IF echo # None THEN [outEcho EXCEPT ![arg[t]] = echo] ELSE outEcho
    /\ activeOut' = arg[t]
    /\ UNCHANGED <<activeIn, echo, inEcho>>
    /\ Away(t)

MissesOut(t) ==
    /\ arg[t] \in Outs /\ lock[Dev] = t
    /\ standby[arg[t]]
    /\ activeOut' = None
    /\ UNCHANGED <<standby, activeIn, echo, outEcho, inEcho>>
    /\ Away(t)

\* the standby of the input, and the same up to the wait for the output
EndsIn(t, i) ==
    /\ lock[Dev] = t /\ ~ standby[i] /\ ~ (Owns(i) /\ activeOut # None)
    /\ standby' = [standby EXCEPT ![i] = TRUE]
    /\ inEcho' = [inEcho EXCEPT ![i] = None]
    /\ echo' = IF Owns(i) THEN None ELSE echo
    /\ activeIn' = None
    /\ UNCHANGED <<activeOut, outEcho>>
    /\ Away(t)

WaitsIn(t, i) ==
    /\ lock[Dev] = t /\ ~ standby[i] /\ Owns(i) /\ activeOut # None
    /\ activeIn' = None
    /\ UNCHANGED <<standby, activeOut, echo, outEcho, inEcho>>
    /\ pc[t] \notin InputWork /\ pc'[t] = "removeEcho" /\ inp'[t] = i

Pairing(t) ==
    \/ Rests(t) \/ EndsOut(t) \/ BeginsOut(t) \/ MissesOut(t)
    \/ \E i \in Ins : EndsIn(t, i) \/ WaitsIn(t, i)
    \/ finish_standby(t) \/ start_input_stream(t) \/ put_echo_reference(t)
    \/ create_echo_reference(t) \/ add_echo_reference(t)
    \/ \E ok \in BOOLEAN : open_capture(t, ok)
    \/ FreeStream(t)

LEMMA ReturnsAway ==
    ASSUME LockInv, NEW t \in Threads, Return(t), pc[t] \notin InputWork
    PROVE  Away(t)
  BY DEF LockInv, TypeOK, ThreadTypes, Return, Go, Away, InputWork

LEMMA GoesAway ==
    ASSUME LockInv, NEW t \in Threads, NEW to, Go(t, to), to \notin InputWork,
           pc[t] \notin InputWork
    PROVE  Away(t)
  BY DEF LockInv, TypeOK, ThreadTypes, Go, Away

LEMMA InputStandbyPairing ==
    ASSUME LockInv, NEW t \in Threads, NEW i \in Ins, do_input_standby(t, i),
           pc[t] \in {"stream", "forceIn"}, UNCHANGED activeOut
    PROVE  Pairing(t)
<1>1. lock[Dev] = t /\ pc[t] \notin InputWork
  BY OwnsDev DEF InputWork
<1>2. CASE standby[i]
  <2>1. Return(t) /\ UNCHANGED <<standby, activeIn, echo, outEcho, inEcho>>
    BY <1>2 DEF do_input_standby, echoVars
  <2> QED BY <1>1, <2>1, ReturnsAway DEF Pairing, Rests
<1>3. CASE ~ standby[i] /\ Owns(i) /\ activeOut # None
  <2>1. /\ Go(t, "removeEcho") /\ inp' = [inp EXCEPT ![t] = i] /\ activeIn' = None
        /\ UNCHANGED <<standby, echo, outEcho, inEcho>>
    BY <1>3 DEF do_input_standby
  <2>2. pc'[t] = "removeEcho" /\ inp'[t] = i
    BY <2>1 DEF LockInv, TypeOK, ThreadTypes, Go
  <2>3. WaitsIn(t, i)
    BY <1>1, <1>3, <2>1, <2>2 DEF WaitsIn
  <2> QED BY <2>3 DEF Pairing
<1>4. CASE ~ standby[i] /\ ~ (Owns(i) /\ activeOut # None)
  <2>1. /\ Return(t) /\ activeIn' = None /\ UNCHANGED outEcho
        /\ standby' = [standby EXCEPT ![i] = TRUE]
        /\ inEcho' = [inEcho EXCEPT ![i] = None]
        /\ echo' = IF Owns(i) THEN None ELSE echo
    BY <1>4 DEF do_input_standby
  <2>2. EndsIn(t, i)
    BY <1>1, <1>4, <2>1, ReturnsAway DEF EndsIn
  <2> QED BY <2>2 DEF Pairing
<1> QED BY <1>2, <1>3, <1>4

LEMMA OutputStandbyPairing ==
    ASSUME LockInv, NEW t \in Threads, do_output_standby(arg[t]), arg[t] \in Outs,
           pc[t] = "stream", Away(t), UNCHANGED <<activeIn, echo, inEcho>>
    PROVE  Pairing(t)
<1>1. lock[Dev] = t
  BY OwnsDev
<1>2. CASE standby[arg[t]]
  BY <1>2 DEF do_output_standby, Rests, Pairing
<1>3. CASE ~ standby[arg[t]]
  BY <1>1, <1>3 DEF do_output_standby, EndsOut, Pairing
<1> QED BY <1>2, <1>3

LEMMA StepPairing ==
    ASSUME LockInv, NEW t \in Threads, Step(t)
    PROVE  Pairing(t)
<1>0. Placed(t) /\ "stream" \notin InputWork /\ "forceIn" \notin InputWork
  BY DEF LockInv, InputWork
<1>1. CASE LockDev(t)
  BY <1>1, GoesAway DEF LockDev, Rests, Pairing, InputWork, streamVars, echoVars
<1>2. ASSUME NEW m \in Modes, adev_set_mode(t, m) PROVE Pairing(t)
  BY <1>2, ReturnsAway DEF adev_set_mode, Rests, Pairing, InputWork, streamVars, echoVars
<1>3. CASE out_standby(t)
  <2>1. arg[t] \in Outs /\ pc[t] = "stream"
    BY <1>3, EnterOutput DEF out_standby, OutOps
  <2>2. Away(t)
    BY <1>0, <1>3, <2>1, ReturnsAway DEF out_standby
  <2> QED BY <1>3, <2>1, <2>2, OutputStandbyPairing DEF out_standby
<1>4. ASSUME NEW val \in OutDevices, out_set_parameters(t, val) PROVE Pairing(t)
  <2>1. arg[t] \in Outs /\ pc[t] = "stream"
    BY <1>4, EnterOutput DEF out_set_parameters, OutOps
  <2>2. Away(t)
    <3>1. Return(t) \/ Go(t, "forceIn")
      BY <1>4 DEF out_set_parameters
    <3> QED BY <1>0, <2>1, <3>1, ReturnsAway, GoesAway
  <2>3. UNCHANGED <<activeIn, echo, inEcho>>
        /\ (do_output_standby(arg[t]) \/ UNCHANGED <<standby, activeOut, outEcho>>)
    BY <1>4 DEF out_set_parameters
  <2>4. CASE do_output_standby(arg[t])
    BY <2>1, <2>2, <2>3, <2>4, OutputStandbyPairing
  <2>5. CASE UNCHANGED <<standby, activeOut, outEcho>>
    BY <2>2, <2>3, <2>5 DEF Rests, Pairing
  <2> QED BY <2>3, <2>4, <2>5
<1>5. CASE out_write_running(t)
  BY <1>5, GoesAway DEF out_write_running, Enter, Rests, Pairing, InputWork, streamVars, echoVars
<1>6. CASE start_output_stream(t)
  <2>1. arg[t] \in Outs /\ pc[t] = "stream" /\ lock[Dev] = t
    BY <1>6, EnterOutput, OwnsDev DEF start_output_stream, OutOps
  <2>2. Away(t)
    BY <1>6, <2>1, GoesAway DEF start_output_stream, InputWork
  <2> QED BY <1>6, <2>1, <2>2 DEF start_output_stream, BeginsOut, Pairing
<1>7. CASE start_output_fails(t)
  <2>1. arg[t] \in Outs /\ pc[t] = "stream" /\ lock[Dev] = t
    BY <1>7, EnterOutput, OwnsDev DEF start_output_fails, OutOps
  <2>2. Away(t)
    BY <1>7, <2>1, ReturnsAway DEF start_output_fails, InputWork
  <2> QED BY <1>7, <2>1, <2>2 DEF start_output_fails, MissesOut, Pairing, echoVars
<1>8. CASE write_pcm(t)
  <2>1. Away(t)
    BY <1>8, ReturnsAway, GoesAway DEF write_pcm, InputWork
  <2> QED BY <1>8, <2>1 DEF write_pcm, Rests, Pairing, streamVars, echoVars
<1>9. CASE force_input(t)
  <2>1. Away(t)
    BY <1>9, ReturnsAway, GoesAway DEF force_input, InputWork
  <2> QED BY <1>9, <2>1 DEF force_input, Rests, Pairing, streamVars, echoVars
<1>10. CASE in_standby(t)
  <2>1. arg[t] \in Ins /\ pc[t] = "stream"
    BY <1>10, EnterInput DEF in_standby, InOps
  <2> QED BY <1>10, <2>1, InputStandbyPairing DEF in_standby
<1>11. CASE forced_standby(t)
  BY <1>0, <1>11, InputStandbyPairing DEF forced_standby, Placed
<1>12. ASSUME NEW src \in Sources, NEW d \in InDevices, in_set_parameters(t, src, d)
       PROVE  Pairing(t)
  <2>1. arg[t] \in Ins /\ pc[t] = "stream"
    BY <1>12, EnterInput DEF in_set_parameters, InOps
  <2>2. CASE do_input_standby(t, arg[t])
    BY <1>12, <2>1, <2>2, InputStandbyPairing DEF in_set_parameters
  <2>3. CASE ~ do_input_standby(t, arg[t])
    <3>1. Return(t) /\ UNCHANGED <<standby, activeOut, activeIn, echoVars>>
      BY <1>12, <2>3 DEF in_set_parameters
    <3> QED BY <1>0, <2>1, <3>1, ReturnsAway DEF Rests, Pairing, echoVars
  <2> QED BY <2>2, <2>3
<1>13. ASSUME NEW e \in Effects, NEW ok \in BOOLEAN,
              in_add_audio_effect(t, e, ok) \/ in_remove_audio_effect(t, e, ok)
       PROVE  Pairing(t)
  <2>1. arg[t] \in Ins /\ pc[t] = "stream"
    BY <1>13, EnterInput DEF in_add_audio_effect, in_remove_audio_effect, InOps
  <2>2. CASE do_input_standby(t, arg[t])
    BY <1>13, <2>1, <2>2, InputStandbyPairing DEF in_add_audio_effect, in_remove_audio_effect
  <2>3. CASE ~ do_input_standby(t, arg[t])
    <3>1. Return(t) /\ UNCHANGED <<standby, activeOut, activeIn, echoVars>>
      BY <1>13, <2>3 DEF in_add_audio_effect, in_remove_audio_effect, Untouched
    <3> QED BY <1>0, <2>1, <3>1, ReturnsAway DEF Rests, Pairing, echoVars
  <2> QED BY <2>2, <2>3
<1>14. CASE in_read_running(t)
  BY <1>14, GoesAway DEF in_read_running, Enter, Rests, Pairing, InputWork, streamVars, echoVars
<1>15. CASE read_pcm(t)
  BY <1>15, ReturnsAway DEF read_pcm, Rests, Pairing, InputWork, streamVars, echoVars
<1>16. CASE \/ finish_standby(t) \/ start_input_stream(t) \/ put_echo_reference(t)
            \/ create_echo_reference(t) \/ add_echo_reference(t)
            \/ (\E ok \in BOOLEAN : open_capture(t, ok)) \/ FreeStream(t)
  BY <1>16 DEF Pairing
<1> QED
  BY <1>1, <1>2, <1>3, <1>4, <1>5, <1>6, <1>7, <1>8, <1>9, <1>10, <1>11, <1>12, <1>13, <1>14,
     <1>15, <1>16 DEF Step, OutStep, InStep

-----------------------------------------------------------------------------
(* Every such step keeps the invariant. *)

Pairs(t) == Moved(t) /\ PairInv /\ OneEach

LEMMA PairFacts ==
    ASSUME NEW t \in Threads, Pairs(t)
    PROVE  /\ \A u \in Threads \ {t} : pc'[u] = pc[u] /\ inp'[u] = inp[u]
           /\ lock[Dev] = t => \A u \in Threads \ {t} : pc[u] \notin InputWork
           /\ pc[t] \in InputWork => lock[Dev] = t
           /\ standby \in [Streams -> BOOLEAN]
           /\ outEcho \in [Outs -> Opt(Refs)] /\ inEcho \in [Ins -> Opt(Refs)]
           /\ pc \in [Threads -> PC] /\ inp \in [Threads -> Opt(Ins)]
           /\ activeOut \in Opt(Outs) /\ activeIn \in Opt(Ins) /\ echo \in Opt(Refs)
           /\ \A u \in Threads : pc[u] \in InputWork => inp[u] \in Ins
           /\ None \notin Streams /\ None \notin Refs /\ Outs \intersect Ins = {}
           /\ Streams = Outs \union Ins
<1>1. LockInv /\ TypeOK /\ KeepsOrder(t)
  BY DEF Pairs, Moved, LockInv
<1>2. \A u \in Threads \ {t} : pc'[u] = pc[u] /\ inp'[u] = inp[u]
  BY <1>1 DEF KeepsOrder, OthersKeep
<1>3. lock[Dev] = t => \A u \in Threads \ {t} : pc[u] \notin InputWork
  BY <1>1, OneDev
<1>4. pc[t] \in InputWork => lock[Dev] = t
  BY <1>1, OwnsDev
<1>5. \A u \in Threads : pc[u] \in InputWork => inp[u] \in Ins
  BY <1>1 DEF LockInv, Placed, InputWork, InOps
<1> QED
  BY <1>1, <1>2, <1>3, <1>4, <1>5, NamesAssumption
     DEF TypeOK, ThreadTypes, StreamTypes, EchoTypes, DeviceTypes, Streams, Locks

\* away from the input, the threads go on relying on what does not change
LEMMA WorkAway ==
    ASSUME NEW t \in Threads, Pairs(t), Away(t),
           lock[Dev] = t \/ UNCHANGED <<standby, activeIn, echo, inEcho>>
    PROVE  WorkPair'
<1> USE PairFacts DEF Away, InputWork, Starting, Getting, WorkPair, PairInv, Pairs
<1>1. CASE lock[Dev] = t
  <2>1. \A u \in Threads : pc'[u] \notin InputWork
    BY <1>1
  <2> QED BY <2>1
<1>2. CASE UNCHANGED <<standby, activeIn, echo, inEcho>>
  BY <1>2
<1> QED BY <1>1, <1>2

\* ... and no thread starts or finishes to stop it
LEMMA NoneRemoves ==
    ASSUME NEW t \in Threads, Pairs(t), lock[Dev] = t, pc[t] \notin InputWork
    PROVE  \A u \in Threads : pc[u] # "removeEcho" /\ pc[u] # "addEcho"
  BY PairFacts DEF InputWork

LEMMA RestsKept ==
    ASSUME NEW t \in Threads, Pairs(t), Rests(t)
    PROVE  PairInv'
<1> USE DEF Rests
<1>1. WorkPair'
  BY WorkAway
<1>2. \A u \in Threads : pc[u] \in InputWork => pc'[u] = pc[u] /\ inp'[u] = inp[u]
  BY PairFacts DEF Away
<1>3. OutPair'
  BY DEF Pairs, PairInv, OutPair
<1>4. InPair'
  BY <1>2 DEF Pairs, PairInv, InPair, InputWork
<1>5. FedPair'
  BY <1>2 DEF Pairs, PairInv, FedPair, InputWork
<1> QED BY <1>1, <1>3, <1>4, <1>5 DEF PairInv

\* the three steps that start, fail to start or stop the output
LEMMA OutKept ==
    ASSUME NEW t \in Threads, Pairs(t), EndsOut(t) \/ BeginsOut(t) \/ MissesOut(t)
    PROVE  PairInv'
<1>1. WorkPair'
  BY WorkAway DEF EndsOut, BeginsOut, MissesOut
<1>2. \A o \in Outs : o = arg[t]
  BY DEF Pairs, OneEach, EndsOut, BeginsOut, MissesOut
<1>3. arg[t] \in Outs /\ arg[t] # None /\ arg[t] \in Streams
  BY PairFacts DEF EndsOut, BeginsOut, MissesOut
<1>4. OutPair'
  <2>1. CASE EndsOut(t)
    BY <1>2, <1>3, <2>1, PairFacts DEF EndsOut, OutPair
  <2>2. CASE BeginsOut(t)
    BY <1>2, <1>3, <2>2, PairFacts DEF BeginsOut, OutPair, Pairs, PairInv
  <2>3. CASE MissesOut(t)
    BY <1>2, <1>3, <2>3, PairFacts DEF MissesOut, OutPair, Pairs, PairInv
  <2> QED BY <2>1, <2>2, <2>3
<1>5. InPair'
  <2>1. \A i \in Ins : standby'[i] = standby[i] /\ inEcho'[i] = inEcho[i]
    BY <1>3, PairFacts DEF EndsOut, BeginsOut, MissesOut
  <2>2. \A u \in Threads : pc[u] # "removeEcho"
    BY NoneRemoves DEF EndsOut, BeginsOut, MissesOut, Away
  <2>3. activeIn' = activeIn /\ echo' = echo
    BY DEF EndsOut, BeginsOut, MissesOut
  <2> QED BY <2>1, <2>2, <2>3 DEF Pairs, PairInv, InPair
<1>6. FedPair'
  <2>1. CASE EndsOut(t) \/ MissesOut(t)
    BY <2>1 DEF EndsOut, MissesOut, FedPair
  <2>2. CASE BeginsOut(t)
    BY <1>3, <2>2, PairFacts DEF BeginsOut, FedPair
  <2> QED BY <2>1, <2>2
<1> QED BY <1>1, <1>4, <1>5, <1>6 DEF PairInv

LEMMA EndsInKept ==
    ASSUME NEW t \in Threads, Pairs(t), NEW i \in Ins, EndsIn(t, i)
    PROVE  PairInv'
<1>1. WorkPair'
  BY WorkAway DEF EndsIn
<1>2. \A j \in Ins : j = i
  BY DEF Pairs, OneEach
<1>3. \A o \in Outs : standby'[o] = standby[o]
  BY PairFacts DEF EndsIn
<1>4. activeOut = None => \A o \in Outs : outEcho[o] = None
  BY PairFacts DEF Pairs, PairInv, OutPair
<1>5. OutPair'
  BY <1>3, <1>4 DEF EndsIn, Pairs, PairInv, OutPair
<1>6. InPair'
  BY <1>2, PairFacts DEF EndsIn, Pairs, PairInv, InPair
<1>7. FedPair'
  <2>1. \A u \in Threads : pc[u] # "addEcho"
    BY NoneRemoves DEF EndsIn, Away
  <2> QED BY <2>1 DEF EndsIn, Pairs, PairInv, FedPair
<1> QED BY <1>1, <1>5, <1>6, <1>7 DEF PairInv

LEMMA WaitsInKept ==
    ASSUME NEW t \in Threads, Pairs(t), NEW i \in Ins, WaitsIn(t, i)
    PROVE  PairInv'
<1>1. WorkPair'
  BY PairFacts DEF WaitsIn, WorkPair, Starting, Getting, InputWork, Owns
<1>2. OutPair'
  BY DEF WaitsIn, Pairs, PairInv, OutPair
<1>3. InPair'
  BY DEF WaitsIn, Pairs, PairInv, InPair, OneEach
<1>4. FedPair'
  <2>1. \A u \in Threads : pc[u] # "addEcho"
    BY NoneRemoves DEF WaitsIn
  <2> QED BY <2>1 DEF WaitsIn, Pairs, PairInv, FedPair
<1> QED BY <1>1, <1>2, <1>3, <1>4 DEF PairInv

\* a thread that starts or stops the input is the only one
LEMMA AloneInside ==
    ASSUME NEW t \in Threads, Pairs(t), pc[t] \in InputWork
    PROVE  /\ \A u \in Threads \ {t} : pc[u] \notin InputWork /\ pc'[u] \notin InputWork
           /\ inp[t] \in Ins /\ \A i \in Ins : i = inp[t]
  BY PairFacts DEF Pairs, OneEach

LEMMA FinishKept ==
    ASSUME NEW t \in Threads, Pairs(t), finish_standby(t)
    PROVE  PairInv'
<1>1. pc[t] = "removeEcho" /\ pc[t] \in InputWork /\ LockInv
  BY DEF finish_standby, InputWork, Pairs, Moved
<1>2. Return(t) /\ activeOut \in Outs /\ echo # None /\ inEcho[inp[t]] = echo
  BY <1>1 DEF finish_standby, Pairs, PairInv, WorkPair, Moved, LockInv, Placed
<1>3. \A u \in Threads : pc'[u] \notin InputWork
  <2>1. pc'[t] \in {"idle", "free"}
    BY <1>1, <1>2, ReturnPlace
  <2> QED BY <1>1, <2>1, AloneInside DEF InputWork
<1>4. WorkPair'
  BY <1>3 DEF WorkPair, Starting, Getting, InputWork
<1>5. OutPair'
  BY <1>1, <1>2, AloneInside, PairFacts
     DEF finish_standby, remove_echo_reference, OutPair, Pairs, PairInv, OneEach
<1>6. InPair'
  BY <1>1, AloneInside, PairFacts DEF finish_standby, InPair, Pairs, PairInv
<1>7. FedPair'
  BY DEF finish_standby, FedPair
<1> QED BY <1>4, <1>5, <1>6, <1>7 DEF PairInv

LEMMA StartInKept ==
    ASSUME NEW t \in Threads, Pairs(t), start_input_stream(t)
    PROVE  PairInv'
<1>0. LockInv /\ ThreadTypes
  BY DEF Pairs, Moved, LockInv, TypeOK
<1>1. arg[t] \in Ins /\ pc[t] = "stream" /\ lock[Dev] = t /\ standby[arg[t]]
  BY <1>0, EnterInput, OwnsDev DEF start_input_stream, InOps
<1>2. PICK to \in Starting :
         /\ Go(t, to) /\ to # "addEcho"
         /\ to \in Getting => inEcho[arg[t]] = None
  BY DEF start_input_stream, Starting, Getting
<1>3. pc'[t] = to /\ inp'[t] = arg[t] /\ activeIn' = arg[t]
  BY <1>0, <1>2 DEF start_input_stream, Go, ThreadTypes
<1>4. /\ UNCHANGED <<standby, activeOut, outEcho, inEcho>>
      /\ echo' = echo \/ (echo' = None /\ activeOut = None /\ inEcho[arg[t]] = None)
  <2>1. UNCHANGED <<standby, activeOut, outEcho, inEcho>>
    BY DEF start_input_stream, streamVars
  <2>2. echo' = echo \/ (echo' = None /\ activeOut = None /\ inEcho[arg[t]] = None)
    BY DEF start_input_stream
  <2> QED BY <2>1, <2>2
<1>5. \A u \in Threads \ {t} : pc[u] \notin InputWork /\ pc'[u] \notin InputWork
  BY <1>1, PairFacts
<1>6. WorkPair'
  BY <1>1, <1>2, <1>3, <1>4, <1>5 DEF WorkPair, Starting, Getting, InputWork
<1>7. OutPair'
  BY <1>4, PairFacts DEF OutPair, Pairs, PairInv
<1>8. InPair'
  <2>1. \A i \in Ins : standby'[i] /\ inEcho'[i] = inEcho[i]
    BY <1>1, <1>4 DEF Pairs, OneEach
  <2>2. inEcho[arg[t]] \in {echo', None}
    BY <1>1, <1>4 DEF InPair, Pairs, PairInv
  <2> QED BY <1>1, <1>3, <2>1, <2>2 DEF InPair, Pairs, PairInv, OneEach
<1>9. FedPair'
  <2>1. \A u \in Threads : pc[u] # "addEcho"
    BY <1>1, NoneRemoves DEF InputWork
  <2> QED BY <1>4, <2>1 DEF FedPair, Pairs, PairInv
<1> QED BY <1>6, <1>7, <1>8, <1>9 DEF PairInv

\* the steps from dropEcho to openPcm
LEMMA GetKept ==
    ASSUME NEW t \in Threads, Pairs(t),
           put_echo_reference(t) \/ create_echo_reference(t) \/ add_echo_reference(t)
    PROVE  PairInv'
<1>0. LockInv /\ ThreadTypes
  BY DEF Pairs, Moved, LockInv, TypeOK
<1>1. pc[t] \in Getting /\ pc[t] \in InputWork /\ pc[t] # "removeEcho"
  BY DEF put_echo_reference, create_echo_reference, add_echo_reference, Getting, InputWork
<1>2. /\ inp[t] \in Ins /\ (\A i \in Ins : i = inp[t]) /\ inEcho[inp[t]] = None
      /\ activeOut \in Outs /\ (\A o \in Outs : o = activeOut) /\ ~ standby[activeOut]
      /\ activeIn = inp[t] /\ standby[inp[t]]
      /\ \A u \in Threads \ {t} : pc[u] \notin InputWork /\ pc'[u] \notin InputWork
  BY <1>1, AloneInside
     DEF Pairs, Moved, PairInv, WorkPair, OutPair, OneEach, Getting, Starting, LockInv, Placed
<1>3. UNCHANGED <<inp, standby, activeOut, activeIn>>
  BY DEF put_echo_reference, create_echo_reference, add_echo_reference, streamVars
<1>4. ThreadTypes
  BY DEF Pairs, Moved, LockInv, TypeOK
<1>5. CASE put_echo_reference(t)
  <2>1. pc'[t] = "createEcho" /\ echo' = None /\ UNCHANGED inEcho
    BY <1>4, <1>5 DEF put_echo_reference, Go, ThreadTypes
  <2>2. outEcho'[activeOut] = None
    BY <1>2, <1>5, PairFacts
       DEF put_echo_reference, remove_echo_reference, Pairs, PairInv, OutPair
  <2> QED BY <1>2, <1>3, <2>1, <2>2
          DEF PairInv, OutPair, InPair, WorkPair, FedPair, InputWork, Starting, Getting
<1>6. CASE create_echo_reference(t)
  <2>1. echo = None
    BY <1>6 DEF create_echo_reference, Pairs, Moved, StreamInv, EchoInv
  <2>2. \/ pc'[t] = "openPcm" /\ echo' = None
        \/ pc'[t] = "addEcho" /\ echo' \in Refs
    BY <1>4, <1>6, <2>1 DEF create_echo_reference, Go, ThreadTypes
  <2>3. UNCHANGED <<inEcho, outEcho>> /\ outEcho[activeOut] = None /\ None \notin Refs
    BY <1>2, <1>6, <2>1, PairFacts DEF create_echo_reference, Pairs, PairInv, OutPair
  <2> QED BY <1>2, <1>3, <2>1, <2>2, <2>3
          DEF PairInv, OutPair, InPair, WorkPair, FedPair, InputWork, Starting, Getting
<1>7. CASE add_echo_reference(t)
  <2>1. pc'[t] = "openPcm" /\ echo # None /\ UNCHANGED echo
    BY <1>1, <1>4, <1>7 DEF add_echo_reference, Go, ThreadTypes, Pairs, PairInv, WorkPair
  <2>2. outEcho'[activeOut] = echo /\ inEcho'[inp[t]] = echo
    BY <1>2, <1>7, PairFacts DEF add_echo_reference
  <2> QED BY <1>2, <1>3, <2>1, <2>2
          DEF PairInv, OutPair, InPair, WorkPair, FedPair, InputWork, Starting, Getting
<1> QED BY <1>5, <1>6, <1>7

LEMMA OpenInKept ==
    ASSUME NEW t \in Threads, Pairs(t), NEW ok \in BOOLEAN, open_capture(t, ok)
    PROVE  PairInv'
<1>1. pc[t] = "openPcm" /\ pc[t] \in InputWork /\ ThreadTypes
  BY DEF open_capture, InputWork, Pairs, Moved, LockInv, TypeOK
<1>2. /\ inp[t] \in Ins /\ (\A i \in Ins : i = inp[t]) /\ activeIn = inp[t]
      /\ \A u \in Threads \ {t} : pc[u] \notin InputWork /\ pc'[u] \notin InputWork
  BY <1>1, AloneInside DEF Pairs, PairInv, WorkPair, Starting
<1>3. pc'[t] = "inIO" /\ UNCHANGED <<activeOut, echo, inEcho, outEcho>>
  BY <1>1 DEF open_capture, Go, ThreadTypes, echoVars
<1>4. /\ standby'[inp[t]] = ~ ok /\ activeIn' = (IF ok THEN activeIn ELSE None)
      /\ \A o \in Outs : standby'[o] = standby[o]
  BY <1>2, PairFacts DEF open_capture
<1>5. WorkPair'
  BY <1>2, <1>3 DEF WorkPair, InputWork, Starting, Getting
<1>6. OutPair'
  BY <1>3, <1>4 DEF OutPair, Pairs, PairInv
<1>7. InPair'
  BY <1>2, <1>3, <1>4 DEF InPair, Pairs, PairInv
<1>8. FedPair'
  BY <1>1, <1>2, <1>3 DEF FedPair, InputWork, Pairs, PairInv
<1> QED BY <1>5, <1>6, <1>7, <1>8 DEF PairInv

\* nobody starts or stops a stream that is freed
LEMMA FreedApart ==
    ASSUME NEW t \in Threads, Pairs(t), FreeStream(t), NEW u \in Threads, pc[u] \in InputWork
    PROVE  u # t /\ inp[u] # arg[t] /\ pc'[u] = pc[u]
<1>1. pc[t] = "free" /\ op[t] \in Closes /\ arg[t] \in Streams
  BY DEF FreeStream, Pairs, Moved, LockInv, Placed, Closes, OutOps, InOps, Streams
<1>2. u # t
  BY <1>1 DEF InputWork
<1>3. CASE pc[u] \in Starting
  <2>1. inp[u] = arg[u]
    BY <1>3 DEF Starting, Pairs, Moved, LockInv, Placed
  <2> QED BY <1>1, <1>2, <2>1, PairFacts DEF Pairs, Moved, StreamInv, Exclusive
<1>4. CASE pc[u] = "removeEcho"
  BY <1>1, <1>2, <1>4, PairFacts DEF Pairs, Moved, StreamInv, FreeInv
<1> QED BY <1>3, <1>4 DEF InputWork, Starting

LEMMA FreeKeepsPair ==
    ASSUME NEW t \in Threads, Pairs(t), FreeStream(t)
    PROVE  PairInv'
<1>1. /\ pc[t] = "free" /\ pc'[t] = "idle" /\ op[t] \in Closes /\ arg[t] \in Streams
      /\ standby[arg[t]]
  BY DEF FreeStream, Go, Pairs, Moved, LockInv, TypeOK, ThreadTypes, Placed, Closes, OutOps,
         InOps, Streams, StreamInv, FreeInv
<1>2. standby' = standby
  <2>1. standby \in [Streams -> BOOLEAN]
    BY PairFacts
  <2>2. standby' = [x \in DOMAIN standby |-> IF x = arg[t] THEN TRUE ELSE standby[x]]
    BY DEF FreeStream, Forget
  <2>3. \A x \in Streams : standby'[x] = standby[x]
    BY <1>1, <2>1, <2>2
  <2>4. standby' \in [Streams -> BOOLEAN]
    BY <2>1, <2>2
  <2> QED BY <2>1, <2>3, <2>4
<1>3. /\ \A o \in Outs : outEcho'[o] = IF o = arg[t] THEN None ELSE outEcho[o]
      /\ \A i \in Ins : inEcho'[i] = IF i = arg[t] THEN None ELSE inEcho[i]
      /\ UNCHANGED <<inp, activeOut, activeIn, echo>>
  BY PairFacts DEF FreeStream, Forget
<1>4. \A u \in Threads : pc[u] \in InputWork => u # t /\ inp[u] # arg[t] /\ pc'[u] = pc[u]
  BY FreedApart
<1>5. \A u \in Threads : pc'[u] \in InputWork => pc[u] \in InputWork /\ pc'[u] = pc[u]
  BY <1>1, PairFacts DEF InputWork
<1>6. WorkPair'
  BY <1>2, <1>3, <1>4, <1>5, PairFacts
     DEF WorkPair, Pairs, PairInv, InputWork, Starting, Getting
<1>7. OutPair'
  BY <1>2, <1>3 DEF OutPair, Pairs, PairInv
<1>8. InPair'
  BY <1>2, <1>3, <1>4 DEF InPair, Pairs, PairInv, InputWork
<1>9. FedPair'
  <2>1. activeOut # arg[t]
    BY <1>1, PairFacts DEF Pairs, PairInv, OutPair, Opt
  <2>2. activeOut # None => outEcho'[activeOut] = outEcho[activeOut]
    BY <1>3, <2>1, PairFacts DEF Opt
  <2> QED BY <1>3, <1>4, <2>2 DEF FedPair, Pairs, PairInv, InputWork
<1> QED BY <1>6, <1>7, <1>8, <1>9 DEF PairInv

LEMMA StepPaired ==
    ASSUME LockInv, LockInv', StreamInv, PairInv, OneEach, NEW t \in Threads, Step(t)
    PROVE  Pairs(t)
  BY StepOrder, StepShape DEF Pairs, Moved, StreamInv

LEMMA StepPairs ==
    ASSUME LockInv, LockInv', StreamInv, PairInv, OneEach, NEW t \in Threads, Step(t)
    PROVE  PairInv'
<1>1. Pairs(t)
  BY StepPaired
<1> QED
  BY <1>1, StepPairing, RestsKept, OutKept, EndsInKept, WaitsInKept, FinishKept, StartInKept,
     GetKept, OpenInKept, FreeKeepsPair DEF Pairing

LEMMA InitPairs == Init => PairInv
  BY NamesAssumption
     DEF Init, PairInv, OutPair, InPair, WorkPair, FedPair, Starting, Getting, Streams, Locks

\* a request only moves a thread that is in no operation
LEMMA RequestMoves ==
    ASSUME LockInv, NEW t \in Threads, Request(t)
    PROVE  /\ UNCHANGED <<inp, force, standby, activeOut, activeIn, echo, outEcho, inEcho, need,
                         source>>
           /\ \A u \in Threads : pc'[u] = pc[u] \/ (pc[u] = "idle" /\ pc'[u] = "dev")
<1>1. UNCHANGED <<inp, force, standby, activeOut, activeIn, echo, outEcho, inEcho, need, source>>
  BY DEF Request, Call, OpenOutput, OpenInput, threadVars, streamVars, echoVars, inVars
<1>2. pc' = pc \/ (pc[t] = "idle" /\ pc' = [pc EXCEPT ![t] = "dev"])
  BY DEF Request, Call, OpenOutput, OpenInput, threadVars, Go
<1> QED BY <1>1, <1>2 DEF LockInv, TypeOK, ThreadTypes

LEMMA RequestPairs ==
    ASSUME LockInv, PairInv, NEW t \in Threads, Request(t)
    PROVE  PairInv'
  BY RequestMoves DEF PairInv, OutPair, InPair, WorkPair, FedPair, Starting, Getting

AudioInv == LockInv /\ StreamInv /\ PairInv

LEMMA InitAudio == Init => AudioInv
  BY InitInv, InitStreams, InitPairs DEF AudioInv

LEMMA NextAudio == OneEach /\ AudioInv /\ [Next]_vars => AudioInv'
<1> SUFFICES ASSUME OneEach, AudioInv, [Next]_vars PROVE AudioInv'
  OBVIOUS
<1>1. LockInv' /\ StreamInv'
  BY NextStreams DEF AudioInv
<1>2. ASSUME NEW t \in Threads, Step(t) PROVE PairInv'
  BY <1>1, <1>2, StepPairs DEF AudioInv
<1>3. ASSUME NEW t \in Threads, Request(t) PROVE PairInv'
  BY <1>3, RequestPairs DEF AudioInv
<1>4. CASE UNCHANGED vars
  <2>1. UNCHANGED <<pc, inp, standby, activeOut, activeIn, echo, outEcho, inEcho>>
    BY <1>4 DEF vars, threadVars, streamVars, echoVars
  <2>2. OutPair' /\ InPair'
    BY <2>1 DEF AudioInv, PairInv, OutPair, InPair
  <2>3. WorkPair'
    BY <2>1 DEF AudioInv, PairInv, WorkPair
  <2>4. FedPair'
    BY <2>1 DEF AudioInv, PairInv, FedPair
  <2> QED BY <1>1, <2>2, <2>3, <2>4 DEF AudioInv, PairInv
<1> QED BY <1>1, <1>2, <1>3, <1>4 DEF Next, AudioInv

-----------------------------------------------------------------------------
\* whoever starts or stops an input owns the device mutex
LEMMA FreeNoWork == LockInv /\ Free(Dev) => \A t \in Threads : pc[t] \notin InputWork
  BY OwnsDev, NamesAssumption DEF Free

LEMMA InvActiveMatches == AudioInv => ActiveMatches
<1> SUFFICES ASSUME AudioInv, Free(Dev)
             PROVE  /\ \A o \in Outs : activeOut = o <=> ~ standby[o]
                    /\ \A i \in Ins : activeIn = i <=> ~ standby[i]
  BY DEF ActiveMatches
<1>1. \A t \in Threads : pc[t] # "removeEcho" /\ pc[t] \notin Starting
  BY FreeNoWork DEF AudioInv, InputWork, Starting
<1>2. \A o \in Outs : activeOut = o <=> ~ standby[o]
  BY DEF AudioInv, PairInv, OutPair
<1>3. \A i \in Ins : activeIn = i => ~ standby[i]
  BY <1>1, NamesAssumption DEF AudioInv, StreamInv, ActiveInv, Locks, Streams
<1>4. \A i \in Ins : ~ standby[i] => activeIn = i
  BY <1>1 DEF AudioInv, PairInv, InPair
<1> QED BY <1>2, <1>3, <1>4

LEMMA InvEchoSafe == AudioInv => EchoSafe
<1> SUFFICES ASSUME AudioInv PROVE EchoSafe
  OBVIOUS
<1>1. live = {echo} \ {None}
  BY DEF AudioInv, StreamInv, EchoInv, NoEchoLeak
<1>2. {echo, None} \subseteq live \union {None}
  BY <1>1
<1>3. /\ \A o \in Outs : outEcho[o] \in {echo, None}
      /\ \A i \in Ins : inEcho[i] \in {echo, None}
  BY DEF AudioInv, PairInv, OutPair, InPair
<1> QED BY <1>2, <1>3 DEF EchoSafe

LEMMA InvEchoFed == AudioInv => EchoFed
<1> SUFFICES ASSUME AudioInv, Free(Dev), echo # None, activeOut # None
             PROVE  outEcho[activeOut] = echo
  BY DEF EchoFed
<1>1. \A t \in Threads : pc[t] # "addEcho"
  BY FreeNoWork DEF AudioInv, InputWork
<1> QED BY <1>1 DEF AudioInv, PairInv, FedPair

(* With one output and one input, active_output and active_input are the   *)
(* streams out of standby whenever the device mutex is free, whichever     *)
(* calls fail and however many threads start and stop the streams.         *)
THEOREM AudioActiveMatches == ASSUME OneEach PROVE Spec => []ActiveMatches
<1>1. AudioInv /\ [Next]_vars => AudioInv'
  BY NextAudio
<1> QED BY <1>1, InitAudio, InvActiveMatches, PTL DEF Spec

(* With one output and one input, out_write and in_read never use an echo  *)
(* reference that put_echo_reference has released.                         *)
THEOREM AudioEchoSafe == ASSUME OneEach PROVE Spec => []EchoSafe
<1>1. AudioInv /\ [Next]_vars => AudioInv'
  BY NextAudio
<1> QED BY <1>1, InitAudio, InvEchoSafe, PTL DEF Spec

(* With one output and one input, the output that plays feeds the device's *)
(* echo reference, in whatever order the two started.                      *)
THEOREM AudioEchoFed == ASSUME OneEach PROVE Spec => []EchoFed
<1>1. AudioInv /\ [Next]_vars => AudioInv'
  BY NextAudio
<1> QED BY <1>1, InitAudio, InvEchoFed, PTL DEF Spec

-----------------------------------------------------------------------------
(* The capture stream and the reference, when opening a PCM never fails.   *)

ReadPair ==
    /\ \A i \in Ins : standby[i] /\ inEcho[i] # None =>
          \E t \in Threads : pc[t] = "openPcm" /\ inp[t] = i
    /\ echo # None => \/ \E i \in Ins : inEcho[i] = echo
                      \/ \E t \in Threads : pc[t] = "addEcho"

LEMMA WorkStays ==
    ASSUME NEW t \in Threads, Pairs(t), Away(t)
    PROVE  \A u \in Threads : pc[u] \in InputWork => pc'[u] = pc[u] /\ inp'[u] = inp[u]
  BY PairFacts DEF Away

LEMMA AwayReads ==
    ASSUME NEW t \in Threads, Pairs(t), ReadPair, Away(t), UNCHANGED <<echo, inEcho>>,
           \A i \in Ins : standby'[i] = standby[i]
    PROVE  ReadPair'
  BY WorkStays DEF ReadPair, InputWork

LEMMA EndsInReads ==
    ASSUME NEW t \in Threads, Pairs(t), ReadPair, NEW i \in Ins, EndsIn(t, i)
    PROVE  ReadPair'
<1>1. \A j \in Ins : j = i
  BY DEF Pairs, OneEach
<1>2. inEcho'[i] = None
  BY PairFacts DEF EndsIn
<1>3. \A u \in Threads : pc[u] # "addEcho"
  BY NoneRemoves DEF EndsIn, Away
<1>4. echo # None => inEcho[i] = echo
  BY <1>1, <1>3 DEF ReadPair
<1>5. echo' = None
  BY <1>4 DEF EndsIn, Owns
<1> QED BY <1>1, <1>2, <1>5 DEF ReadPair

LEMMA WaitsInReads ==
    ASSUME NEW t \in Threads, Pairs(t), ReadPair, NEW i \in Ins, WaitsIn(t, i)
    PROVE  ReadPair'
<1>1. \A u \in Threads : pc[u] \in InputWork => pc'[u] = pc[u] /\ inp'[u] = inp[u]
  BY PairFacts DEF WaitsIn
<1> QED BY <1>1 DEF WaitsIn, ReadPair, InputWork

LEMMA GettingReads ==
    ASSUME NEW t \in Threads, Pairs(t), ReadPair,
           put_echo_reference(t) \/ create_echo_reference(t) \/ add_echo_reference(t)
    PROVE  ReadPair'
<1>0. ThreadTypes
  BY DEF Pairs, Moved, LockInv, TypeOK
<1>1. pc[t] \in Getting /\ pc[t] \in InputWork
  BY DEF put_echo_reference, create_echo_reference, add_echo_reference, Getting, InputWork
<1>2. inp[t] \in Ins /\ (\A i \in Ins : i = inp[t]) /\ inEcho[inp[t]] = None /\ inp' = inp
  BY <1>1, AloneInside
     DEF Pairs, PairInv, WorkPair, put_echo_reference, create_echo_reference, add_echo_reference
<1>3. CASE put_echo_reference(t)
  BY <1>2, <1>3 DEF put_echo_reference, ReadPair
<1>4. CASE create_echo_reference(t)
  <2>1. inEcho' = inEcho
    BY <1>4 DEF create_echo_reference
  <2>2. echo' = None \/ pc'[t] = "addEcho"
    <3>1. echo = None
      BY <1>4 DEF create_echo_reference, Pairs, Moved, StreamInv, EchoInv
    <3> QED BY <1>0, <1>4, <3>1 DEF create_echo_reference, Go, ThreadTypes
  <2> QED BY <1>2, <2>1, <2>2 DEF ReadPair
<1>5. CASE add_echo_reference(t)
  <2>1. pc'[t] = "openPcm" /\ echo' = echo /\ inEcho'[inp[t]] = echo
    BY <1>0, <1>2, <1>5, PairFacts DEF add_echo_reference, Go, ThreadTypes
  <2> QED BY <1>2, <2>1 DEF ReadPair
<1> QED BY <1>3, <1>4, <1>5

LEMMA StepReads ==
    ASSUME NEW t \in Threads, Pairs(t), ReadPair, Pairing(t), "pcm_open" \notin Faults
    PROVE  ReadPair'
<1>0. LockInv /\ ThreadTypes
  BY DEF Pairs, Moved, LockInv, TypeOK
<1>1. CASE Rests(t)
  BY <1>1, AwayReads DEF Rests
<1>2. CASE EndsOut(t) \/ BeginsOut(t) \/ MissesOut(t)
  <2>1. \A i \in Ins : standby'[i] = standby[i]
    BY <1>2, PairFacts DEF EndsOut, BeginsOut, MissesOut
  <2> QED BY <1>2, <2>1, AwayReads DEF EndsOut, BeginsOut, MissesOut
<1>3. ASSUME NEW i \in Ins, EndsIn(t, i) \/ WaitsIn(t, i) PROVE ReadPair'
  BY <1>3, EndsInReads, WaitsInReads
<1>4. CASE finish_standby(t)
  <2>1. pc[t] = "removeEcho" /\ pc[t] \in InputWork
    BY <1>4 DEF finish_standby, InputWork
  <2>2. echo' = None /\ inEcho'[inp[t]] = None
    BY <1>4, <2>1, PairFacts DEF finish_standby
  <2> QED BY <2>1, <2>2, AloneInside DEF ReadPair
<1>5. CASE start_input_stream(t)
  <2>1. arg[t] \in Ins /\ pc[t] = "stream" /\ lock[Dev] = t
    BY <1>0, <1>5, EnterInput, OwnsDev DEF start_input_stream, InOps
  <2>2. UNCHANGED <<standby, inEcho>> /\ (echo' = echo \/ echo' = None)
    BY <1>5 DEF start_input_stream, streamVars
  <2>3. \A u \in Threads : pc[u] \notin InputWork
    BY <2>1, PairFacts DEF InputWork
  <2> QED BY <2>2, <2>3 DEF ReadPair, InputWork
<1>6. CASE put_echo_reference(t) \/ create_echo_reference(t) \/ add_echo_reference(t)
  BY <1>6, GettingReads
<1>7. ASSUME NEW ok \in BOOLEAN, open_capture(t, ok) PROVE ReadPair'
  <2>1. pc[t] = "openPcm" /\ pc[t] \in InputWork /\ ok
    BY <1>7 DEF open_capture, InputWork
  <2>2. inp[t] \in Ins /\ (\A i \in Ins : i = inp[t]) /\ \A u \in Threads : pc[u] # "addEcho"
    BY <2>1, AloneInside DEF InputWork
  <2>3. ~ standby'[inp[t]] /\ UNCHANGED <<echo, inEcho>>
    BY <1>7, <2>1, <2>2, PairFacts DEF open_capture, echoVars
  <2> QED BY <2>2, <2>3 DEF ReadPair
<1>8. CASE FreeStream(t)
  <2>1. standby' = Forget(standby, arg[t], TRUE) /\ inEcho' = Forget(inEcho, arg[t], None)
        /\ UNCHANGED <<echo, inp>> /\ arg[t] \in Streams /\ standby[arg[t]]
    BY <1>8 DEF FreeStream, Pairs, Moved, LockInv, Placed, OutOps, InOps, Streams, StreamInv,
       FreeInv
  <2>2. \A u \in Threads : pc[u] \in InputWork => inp[u] # arg[t] /\ pc'[u] = pc[u]
    BY <1>8, FreedApart
  <2>3. \A i \in Ins : inEcho'[i] = (IF i = arg[t] THEN None ELSE inEcho[i])
                     /\ standby'[i] = standby[i]
    BY <2>1, PairFacts DEF Forget
  <2>4. arg[t] \in Ins => inEcho[arg[t]] = None
    BY <2>1, <2>2 DEF ReadPair, InputWork
  <2>5. \A i \in Ins : standby'[i] /\ inEcho'[i] # None =>
          \E u \in Threads : pc'[u] = "openPcm" /\ inp'[u] = i
    <3> SUFFICES ASSUME NEW i \in Ins, standby'[i], inEcho'[i] # None
                 PROVE  \E u \in Threads : pc'[u] = "openPcm" /\ inp'[u] = i
      OBVIOUS
    <3>1. standby[i] /\ inEcho[i] # None
      BY <2>3
    <3>2. PICK u \in Threads : pc[u] = "openPcm" /\ inp[u] = i
      BY <3>1 DEF ReadPair
    <3> QED BY <2>1, <2>2, <3>2 DEF InputWork
  <2>6. echo' # None => \/ \E i \in Ins : inEcho'[i] = echo'
                        \/ \E u \in Threads : pc'[u] = "addEcho"
    <3>1. echo # None => \A i \in Ins : inEcho[i] = echo => inEcho'[i] = echo'
      BY <2>1, <2>3, <2>4
    <3> QED BY <2>1, <2>2, <3>1 DEF ReadPair, InputWork
  <2> QED BY <2>5, <2>6 DEF ReadPair
<1> QED BY <1>1, <1>2, <1>3, <1>4, <1>5, <1>6, <1>7, <1>8 DEF Pairing

ReadInv == AudioInv /\ ReadPair

LEMMA NextReads ==
    ASSUME OneEach, "pcm_open" \notin Faults, ReadInv, [Next]_vars
    PROVE  ReadInv'
<1>1. AudioInv'
  BY NextAudio DEF ReadInv
<1>2. ASSUME NEW t \in Threads, Step(t) PROVE ReadPair'
  <2>1. Pairs(t)
    BY <1>1, <1>2, StepPaired DEF ReadInv, AudioInv
  <2> QED BY <1>2, <2>1, StepPairing, StepReads DEF ReadInv, AudioInv
<1>3. ASSUME NEW t \in Threads, Request(t) PROVE ReadPair'
  BY <1>3, RequestMoves DEF ReadInv, AudioInv, ReadPair
<1>4. CASE UNCHANGED vars
  <2>1. UNCHANGED <<pc, inp, standby, echo, inEcho>>
    BY <1>4 DEF vars, threadVars, streamVars, echoVars
  <2> QED BY <1>1, <2>1 DEF ReadInv, ReadPair
<1> QED BY <1>1, <1>2, <1>3, <1>4 DEF Next, ReadInv

LEMMA InvEchoHasReader == ReadInv => EchoHasReader
<1> SUFFICES ASSUME ReadInv, Free(Dev), echo # None
             PROVE  \E i \in Ins \intersect open : inEcho[i] = echo
  BY DEF EchoHasReader
<1>1. \A t \in Threads : pc[t] # "addEcho" /\ pc[t] # "openPcm"
  BY FreeNoWork DEF ReadInv, AudioInv, InputWork
<1>2. PICK i \in Ins : inEcho[i] = echo
  BY <1>1 DEF ReadInv, ReadPair
<1>3. ~ standby[i]
  BY <1>1, <1>2 DEF ReadInv, ReadPair
<1> QED BY <1>2, <1>3 DEF ReadInv, AudioInv, StreamInv, OpenInv, Streams

(* With one output and one input, and when opening a PCM never fails, the  *)
(* device keeps an echo reference only while an open capture stream has    *)
(* it: no order of standbys, routing requests and effects loses one.       *)
THEOREM AudioEchoHasReader ==
    ASSUME OneEach, "pcm_open" \notin Faults
    PROVE  Spec => []EchoHasReader
<1>1. Init => ReadInv
  <2>1. Init => ReadPair
    BY DEF Init, ReadPair
  <2> QED BY <2>1, InitAudio DEF ReadInv
<1>2. ReadInv /\ [Next]_vars => ReadInv'
  BY NextReads
<1> QED BY <1>1, <1>2, InvEchoHasReader, PTL DEF Spec

-----------------------------------------------------------------------------
(* The capture of a voice call, when no reference fails to be created.     *)

\* where a thread is that is to put the input in standby
Forcing == {"outIO", "forceDev", "forceIn", "removeEcho"}

VoicePair ==
    /\ \A t \in Threads : force[t] => pc[t] \in Forcing
    /\ \A t \in Threads : pc[t] = "openPcm" /\ need[inp[t]] /\ activeOut # None
                            => inEcho[inp[t]] # None
    /\ \A i \in Ins : activeIn = i /\ ~ standby[i] /\ source[i] = "voice" /\ need[i]
                         /\ activeOut # None
                       => inEcho[i] # None \/ \E t \in Threads : force[t]

\* the input i is not the active one, or only about to be
Quieted(i) == activeIn' # i \/ standby'[i]

(* What a step of t does to the requests to force the input into standby   *)
(* and to what the capture is for.                                         *)
Calm(t) ==
    /\ \A u \in Threads \ {t} : force'[u] = force[u]
    /\ force'[t] => pc'[t] \in Forcing
    /\ force[t] /\ ~ force'[t] => \A i \in Ins : Quieted(i)
    /\ activeOut = None /\ activeOut' # None => force'[t] = VoiceCapture
    /\ \A i \in Ins : /\ need'[i] => need[i] \/ (Quieted(i) /\ lock[Dev] = t)
                      /\ source'[i] = "voice" => source[i] = "voice" \/ Quieted(i)

LEMMA ReturnForce ==
    ASSUME LockInv, NEW t \in Threads, Return(t)
    PROVE  (\A u \in Threads \ {t} : force'[u] = force[u]) /\ ~ force'[t]
  BY DEF Return, LockInv, TypeOK, ThreadTypes

\* a thread that has not started an output only has other things to keep
LEMMA UnforcedCalm ==
    ASSUME LockInv, VoicePair, NEW t \in Threads, pc[t] \notin Forcing,
           Return(t) \/ force' = force,
           activeOut' = activeOut \/ activeOut' = None,
           \A i \in Ins : /\ need'[i] => need[i] \/ (Quieted(i) /\ lock[Dev] = t)
                          /\ source'[i] = "voice" => source[i] = "voice" \/ Quieted(i)
    PROVE  Calm(t)
<1>1. ~ force[t]
  BY DEF VoicePair
<1>2. (\A u \in Threads \ {t} : force'[u] = force[u]) /\ ~ force'[t]
  BY <1>1, ReturnForce
<1> QED BY <1>1, <1>2 DEF Calm

\* the input is stopped, or about to be
LEMMA InputStandbyQuiets ==
    ASSUME LockInv, NEW t \in Threads, NEW i \in Ins, do_input_standby(t, i)
    PROVE  /\ Quieted(i)
           /\ Return(t) \/ (force' = force /\ pc'[t] = "removeEcho")
<1>1. i # None
  BY NamesAssumption DEF Locks, Streams
<1>2. CASE standby[i]
  BY <1>2 DEF do_input_standby, Quieted
<1>3. CASE ~ standby[i] /\ Owns(i) /\ activeOut # None
  <2>1. activeIn' = None /\ force' = force /\ Go(t, "removeEcho")
    BY <1>3 DEF do_input_standby
  <2> QED BY <1>1, <2>1 DEF Quieted, Go, LockInv, TypeOK, ThreadTypes
<1>4. CASE ~ standby[i] /\ ~ (Owns(i) /\ activeOut # None)
  <2>1. activeIn' = None /\ Return(t)
    BY <1>4 DEF do_input_standby
  <2> QED BY <1>1, <2>1 DEF Quieted
<1> QED BY <1>2, <1>3, <1>4

LEMMA OutputCalm ==
    ASSUME LockInv, VoicePair, NEW t \in Threads, OutStep(t)
    PROVE  Calm(t)
<1>0. pc \in [Threads -> PC] /\ force \in [Threads -> BOOLEAN]
  BY DEF LockInv, TypeOK, ThreadTypes
<1>1. CASE out_standby(t)
  BY <1>1, UnforcedCalm DEF out_standby, Enter, Forcing, do_output_standby, inVars
<1>2. ASSUME NEW val \in OutDevices, out_set_parameters(t, val) PROVE Calm(t)
  <2>1. pc[t] \notin Forcing /\ UNCHANGED <<need, source>> /\ (Return(t) \/ force' = force)
    BY <1>2 DEF out_set_parameters, Enter, Forcing, inVars
  <2>2. activeOut' = activeOut \/ activeOut' = None
    BY <1>2 DEF out_set_parameters, do_output_standby
  <2> QED BY <2>1, <2>2, UnforcedCalm
<1>3. CASE out_write_running(t)
  BY <1>3, UnforcedCalm DEF out_write_running, Enter, Forcing, inVars
<1>4. CASE start_output_stream(t)
  <2>1. /\ pc[t] = "stream" /\ pc'[t] = "outIO" /\ force' = [force EXCEPT ![t] = VoiceCapture]
        /\ UNCHANGED <<need, source>>
    BY <1>0, <1>4 DEF start_output_stream, Enter, Go, inVars
  <2>2. ~ force[t]
    BY <2>1 DEF VoicePair, Forcing
  <2>3. /\ \A u \in Threads \ {t} : force'[u] = force[u]
        /\ force'[t] = VoiceCapture
    BY <1>0, <2>1
  <2>4. pc'[t] \in Forcing
    BY <2>1 DEF Forcing
  <2> QED BY <2>1, <2>2, <2>3, <2>4 DEF Calm
<1>5. CASE start_output_fails(t)
  BY <1>5, UnforcedCalm DEF start_output_fails, Enter, Forcing, inVars
<1>6. CASE write_pcm(t)
  <2>1. UNCHANGED <<activeOut, need, source>>
    BY <1>6 DEF write_pcm, inVars
  <2>2. CASE force[t]
    <3>1. force' = force /\ pc'[t] = "forceDev"
      BY <1>0, <1>6, <2>2 DEF write_pcm, Go
    <3> QED BY <2>1, <3>1 DEF Calm, Forcing
  <2>3. CASE ~ force[t]
    <3>1. Return(t)
      BY <1>6, <2>3 DEF write_pcm
    <3> QED BY <2>1, <2>3, <3>1, ReturnForce DEF Calm
  <2> QED BY <2>2, <2>3
<1>7. CASE force_input(t)
  <2>1. UNCHANGED <<activeOut, activeIn, need, source>>
    BY <1>7 DEF force_input, inVars
  <2>2. CASE activeIn = None
    <3>1. Return(t) /\ \A i \in Ins : Quieted(i)
      BY <1>7, <2>1, <2>2, NamesAssumption DEF force_input, Quieted, Locks, Streams
    <3> QED BY <2>1, <3>1, ReturnForce DEF Calm
  <2>3. CASE activeIn # None
    <3>1. force' = force /\ pc'[t] = "forceIn"
      BY <1>0, <1>7, <2>3 DEF force_input, Go
    <3> QED BY <2>1, <3>1 DEF Calm, Forcing
  <2> QED BY <2>2, <2>3
<1> QED BY <1>1, <1>2, <1>3, <1>4, <1>5, <1>6, <1>7 DEF OutStep

\* a standby of the thread's own input
LEMMA OwnStandbyCalm ==
    ASSUME LockInv, VoicePair, NEW t \in Threads, pc[t] = "stream", arg[t] \in Ins,
           do_input_standby(t, arg[t]), activeOut' = activeOut,
           \A i \in Ins : i # arg[t] => need'[i] = need[i] /\ source'[i] = source[i]
    PROVE  Calm(t)
<1>1. Quieted(arg[t]) /\ (Return(t) \/ force' = force) /\ lock[Dev] = t
  BY InputStandbyQuiets, OwnsDev
<1>2. pc[t] \notin Forcing
  BY DEF Forcing
<1> QED BY <1>1, <1>2, UnforcedCalm

LEMMA InputCalm ==
    ASSUME LockInv, VoicePair, OneEach, NEW t \in Threads, InStep(t)
    PROVE  Calm(t)
<1>0. /\ force \in [Threads -> BOOLEAN] /\ source \in [Ins -> Sources]
      /\ need \in [Ins -> BOOLEAN] /\ standby \in [Streams -> BOOLEAN] /\ Placed(t)
  BY DEF LockInv, TypeOK, ThreadTypes, StreamTypes
<1>1. CASE in_standby(t)
  <2>1. pc[t] = "stream" /\ arg[t] \in Ins
    BY <1>1, EnterInput DEF in_standby, InOps
  <2> QED BY <1>1, <2>1, OwnStandbyCalm DEF in_standby, inVars
<1>2. CASE forced_standby(t)
  <2>1. pc[t] = "forceIn" /\ inp[t] \in Ins /\ UNCHANGED <<activeOut, need, source>>
    BY <1>0, <1>2 DEF forced_standby, Placed, inVars
  <2>2. Quieted(inp[t]) /\ (Return(t) \/ (force' = force /\ pc'[t] = "removeEcho"))
    BY <1>2, <2>1, InputStandbyQuiets DEF forced_standby
  <2>3. \A i \in Ins : Quieted(i)
    BY <2>1, <2>2 DEF OneEach
  <2> QED BY <2>1, <2>2, <2>3, ReturnForce DEF Calm, Forcing
<1>3. CASE finish_standby(t)
  <2>1. inp[t] \in Ins /\ Return(t) /\ UNCHANGED <<activeOut, need, source>>
    BY <1>0, <1>3 DEF finish_standby, Placed, inVars
  <2>2. standby'[inp[t]]
    BY <1>0, <1>3, <2>1 DEF finish_standby, Streams
  <2>3. \A i \in Ins : Quieted(i)
    BY <2>1, <2>2 DEF OneEach, Quieted
  <2> QED BY <2>1, <2>3, ReturnForce DEF Calm
<1>4. ASSUME NEW src \in Sources, NEW d \in InDevices, in_set_parameters(t, src, d)
      PROVE  Calm(t)
  <2>1. pc[t] = "stream" /\ arg[t] \in Ins
    BY <1>4, EnterInput DEF in_set_parameters, InOps
  <2>2. /\ source' = [source EXCEPT ![arg[t]] = src] /\ UNCHANGED <<activeOut, need>>
        /\ do_input_standby(t, arg[t]) \/ (src = source[arg[t]] /\ Return(t))
    BY <1>4 DEF in_set_parameters
  <2>3. CASE do_input_standby(t, arg[t])
    BY <1>0, <2>1, <2>2, <2>3, OwnStandbyCalm
  <2>4. CASE src = source[arg[t]] /\ Return(t)
    <3>1. \A i \in Ins : source'[i] = source[i]
      BY <1>0, <2>2, <2>4
    <3> QED BY <2>1, <2>2, <2>4, <3>1, UnforcedCalm DEF Forcing
  <2> QED BY <2>2, <2>3, <2>4
<1>5. ASSUME NEW e \in Effects, NEW ok \in BOOLEAN,
             in_add_audio_effect(t, e, ok) \/ in_remove_audio_effect(t, e, ok)
      PROVE  Calm(t)
  <2>1. pc[t] = "stream" /\ arg[t] \in Ins
    BY <1>5, EnterInput DEF in_add_audio_effect, in_remove_audio_effect, InOps
  <2>2. UNCHANGED <<activeOut, source>>
    BY <1>5 DEF in_add_audio_effect, in_remove_audio_effect
  <2>3. \/ /\ do_input_standby(t, arg[t])
           /\ \E b \in BOOLEAN : need' = [need EXCEPT ![arg[t]] = b]
        \/ need' = need /\ Return(t)
    BY <1>5 DEF in_add_audio_effect, in_remove_audio_effect, Untouched
  <2>4. CASE do_input_standby(t, arg[t]) /\ \E b \in BOOLEAN : need' = [need EXCEPT ![arg[t]] = b]
    <3>1. \A i \in Ins : i # arg[t] => need'[i] = need[i]
      BY <1>0, <2>4
    <3> QED BY <2>1, <2>2, <2>4, <3>1, OwnStandbyCalm
  <2>5. CASE need' = need /\ Return(t)
    BY <2>1, <2>2, <2>5, UnforcedCalm DEF Forcing
  <2> QED BY <2>3, <2>4, <2>5
<1>6. CASE in_read_running(t) \/ start_input_stream(t)
  BY <1>6, UnforcedCalm DEF in_read_running, start_input_stream, Enter, Forcing, inVars
<1>7. CASE put_echo_reference(t) \/ create_echo_reference(t) \/ add_echo_reference(t)
  <2>1. pc[t] \notin Forcing /\ UNCHANGED <<force, activeOut, need, source>>
    BY <1>7 DEF put_echo_reference, create_echo_reference, add_echo_reference, Forcing, inVars
  <2> QED BY <2>1, UnforcedCalm
<1>8. ASSUME NEW ok \in BOOLEAN, open_capture(t, ok) PROVE Calm(t)
  BY <1>8, UnforcedCalm DEF open_capture, Forcing, inVars
<1>9. CASE read_pcm(t)
  BY <1>9, UnforcedCalm DEF read_pcm, Forcing, inVars
<1> QED BY <1>1, <1>2, <1>3, <1>4, <1>5, <1>6, <1>7, <1>8, <1>9 DEF InStep

LEMMA StepCalm ==
    ASSUME LockInv, VoicePair, OneEach, NEW t \in Threads, Step(t)
    PROVE  Calm(t)
<1>1. CASE LockDev(t)
  BY <1>1, UnforcedCalm DEF LockDev, Forcing, inVars
<1>2. ASSUME NEW m \in Modes, adev_set_mode(t, m) PROVE Calm(t)
  BY <1>2, UnforcedCalm DEF adev_set_mode, Forcing, inVars
<1>3. CASE FreeStream(t)
  <2>1. pc[t] \notin Forcing /\ UNCHANGED <<force, activeOut>>
    BY <1>3 DEF FreeStream, Forcing
  <2>2. \A i \in Ins : /\ need'[i] = (IF i = arg[t] THEN FALSE ELSE need[i])
                       /\ source'[i] = (IF i = arg[t] THEN "default" ELSE source[i])
    BY <1>3 DEF FreeStream, Forget, LockInv, TypeOK, StreamTypes
  <2> QED BY <2>1, <2>2, UnforcedCalm
<1> QED BY <1>1, <1>2, <1>3, OutputCalm, InputCalm DEF Step

Voiced(t) == Pairs(t) /\ Pairing(t) /\ VoicePair /\ Calm(t) /\ Faults \intersect
             {"pcm_open", "create_echo"} = {}

LEMMA VoiceForcing ==
    ASSUME NEW t \in Threads, Voiced(t)
    PROVE  \A u \in Threads : force'[u] => pc'[u] \in Forcing
  BY PairFacts DEF Voiced, Calm, VoicePair

\* the only way for t to openPcm
LEMMA VoiceOpening ==
    ASSUME NEW t \in Threads, Voiced(t), pc'[t] = "openPcm", need'[inp'[t]], activeOut' # None
    PROVE  inEcho'[inp'[t]] # None
<1>0. LockInv /\ ThreadTypes /\ StreamTypes
  BY DEF Voiced, Pairs, Moved, LockInv, TypeOK
<1>1. pc'[t] \in InputWork /\ pc'[t] \notin {"idle", "free", "removeEcho", "createEcho", "inIO"}
  BY DEF InputWork
<1>2. ~ (Rests(t) \/ EndsOut(t) \/ BeginsOut(t) \/ MissesOut(t))
      /\ \A i \in Ins : ~ (EndsIn(t, i) \/ WaitsIn(t, i))
  BY <1>1 DEF Rests, EndsOut, BeginsOut, MissesOut, EndsIn, WaitsIn, Away
<1>3. ~ finish_standby(t)
  BY <1>0, <1>1, ReturnPlace DEF finish_standby
<1>4. ~ (put_echo_reference(t) \/ (\E ok \in BOOLEAN : open_capture(t, ok)) \/ FreeStream(t))
  BY <1>0, <1>1 DEF put_echo_reference, open_capture, FreeStream, Go, ThreadTypes
<1>5. CASE start_input_stream(t)
  <2>1. arg[t] \in Ins /\ inp'[t] = arg[t] /\ UNCHANGED <<need, activeOut, inEcho>>
    BY <1>0, <1>5, EnterInput DEF start_input_stream, InOps, ThreadTypes, inVars
  <2>2. need[arg[t]] /\ inEcho[arg[t]] = None /\ activeOut # None => pc'[t] # "openPcm"
    BY <1>0, <1>5 DEF start_input_stream, Go, ThreadTypes
  <2> QED BY <2>1, <2>2
<1>6. CASE create_echo_reference(t)
  BY <1>0, <1>1, <1>6 DEF create_echo_reference, Go, ThreadTypes, Voiced
<1>7. CASE add_echo_reference(t)
  <2>1. pc[t] = "addEcho" /\ pc[t] \in InputWork /\ echo # None
    BY <1>7 DEF add_echo_reference, InputWork, Voiced, Pairs, PairInv, WorkPair
  <2>2. inp' = inp /\ inp[t] \in Ins
    BY <1>7, <2>1, AloneInside DEF add_echo_reference, Voiced
  <2>3. inEcho'[inp[t]] = echo
    BY <1>7, <2>2, PairFacts DEF add_echo_reference, Voiced
  <2> QED BY <2>1, <2>2, <2>3
<1> QED BY <1>2, <1>3, <1>4, <1>5, <1>6, <1>7 DEF Voiced, Pairing

\* without the device mutex, a step leaves an input that is started alone
LEMMA VoiceOthersOpening ==
    ASSUME NEW t \in Threads, Voiced(t), NEW u \in Threads \ {t}, pc[u] = "openPcm"
    PROVE  /\ activeOut' = activeOut /\ inEcho'[inp[u]] = inEcho[inp[u]]
           /\ need'[inp[u]] => need[inp[u]]
<1>0. LockInv
  BY DEF Voiced, Pairs, Moved
<1>1. pc[u] \in InputWork /\ lock[Dev] # t /\ pc[t] \notin InputWork
  BY <1>0, OneDev, OwnsDev DEF InputWork
<1>2. inp[u] \in Ins
  BY <1>1, PairFacts DEF Voiced
<1>3. need'[inp[u]] => need[inp[u]]
  BY <1>1, <1>2 DEF Voiced, Calm
<1>4. Rests(t) \/ FreeStream(t)
  <2>1. ~ start_input_stream(t)
    BY <1>0, <1>1, OwnsDev DEF start_input_stream, Enter
  <2> QED BY <1>1, <2>1
          DEF Voiced, Pairing, EndsOut, BeginsOut, MissesOut, EndsIn, WaitsIn, finish_standby,
              put_echo_reference, create_echo_reference, add_echo_reference, open_capture, InputWork
<1>5. CASE Rests(t)
  BY <1>3, <1>5 DEF Rests
<1>6. CASE FreeStream(t)
  <2>1. inp[u] # arg[t]
    BY <1>1, <1>6, FreedApart DEF Voiced
  <2> QED BY <1>2, <1>3, <1>6, <2>1, PairFacts DEF FreeStream, Forget, Voiced
<1> QED BY <1>4, <1>5, <1>6

\* the input that is active and captures after a step
Captures(i) == activeIn' = i /\ ~ standby'[i] /\ source'[i] = "voice" /\ need'[i] /\ activeOut' # None

LEMMA VoiceCaptures ==
    ASSUME NEW t \in Threads, Voiced(t), NEW i \in Ins, Captures(i)
    PROVE  inEcho'[i] # None \/ \E u \in Threads : force'[u]
<1>0. LockInv /\ ThreadTypes /\ StreamTypes /\ activeOut \in Opt(Outs) /\ i # None
  BY NamesAssumption DEF Voiced, Pairs, Moved, LockInv, TypeOK, DeviceTypes, Locks, Streams
<1>1. source[i] = "voice" /\ need[i]
  BY DEF Captures, Quieted, Voiced, Calm
<1>2. \A u \in Threads : force[u] => force'[u]
  BY DEF Captures, Quieted, Voiced, Calm
<1>3. CASE Rests(t)
  BY <1>1, <1>2, <1>3 DEF Rests, Captures, Voiced, VoicePair
<1>4. CASE EndsOut(t) \/ MissesOut(t) \/ \E j \in Ins : EndsIn(t, j) \/ WaitsIn(t, j)
  BY <1>0, <1>4 DEF EndsOut, MissesOut, EndsIn, WaitsIn, Captures
<1>5. CASE BeginsOut(t)
  <2>1. activeOut = None
    BY <1>0, <1>5 DEF BeginsOut, Voiced, Pairs, PairInv, OutPair, OneEach, Opt
  <2>2. VoiceCapture
    BY <1>0, <1>1, <1>5 DEF BeginsOut, Captures, VoiceCapture
  <2> QED BY <2>1, <2>2 DEF Voiced, Calm, Captures
<1>6. CASE finish_standby(t) \/ put_echo_reference(t) \/ create_echo_reference(t)
           \/ add_echo_reference(t)
  <2>1. pc[t] \in InputWork \ {"openPcm"}
    BY <1>6 DEF finish_standby, put_echo_reference, create_echo_reference, add_echo_reference,
       InputWork
  <2>2. i = inp[t]
    BY <2>1, AloneInside DEF Voiced
  <2>3. CASE finish_standby(t)
    BY <1>0, <2>2, <2>3 DEF finish_standby, Captures, StreamTypes, Streams
  <2>4. CASE put_echo_reference(t) \/ create_echo_reference(t) \/ add_echo_reference(t)
    <3>1. pc[t] \in Starting /\ standby' = standby
      BY <2>4 DEF put_echo_reference, create_echo_reference, add_echo_reference, Starting,
         streamVars
    <3> QED BY <2>2, <3>1 DEF Voiced, Pairs, PairInv, WorkPair, Captures
  <2> QED BY <1>6, <2>3, <2>4
<1>7. CASE start_input_stream(t)
  BY <1>7 DEF start_input_stream, streamVars, Captures
<1>8. ASSUME NEW ok \in BOOLEAN, open_capture(t, ok) PROVE inEcho'[i] # None
  <2>1. pc[t] = "openPcm" /\ pc[t] \in InputWork /\ UNCHANGED <<inEcho, activeOut>>
    BY <1>8 DEF open_capture, InputWork, echoVars
  <2>2. i = inp[t]
    BY <2>1, AloneInside DEF Voiced
  <2> QED BY <1>1, <2>1, <2>2 DEF Voiced, VoicePair, Captures
<1>9. CASE FreeStream(t)
  <2>1. \A x \in Streams : standby'[x] = IF x = arg[t] THEN TRUE ELSE standby[x]
    BY <1>0, <1>9 DEF FreeStream, Forget, StreamTypes
  <2>2. i # arg[t] /\ ~ standby[i]
    BY <2>1 DEF Captures, Streams
  <2>3. inEcho'[i] = inEcho[i] /\ UNCHANGED <<activeIn, activeOut>>
    BY <1>9, <2>2, PairFacts DEF FreeStream, Forget, Voiced
  <2> QED BY <1>1, <1>2, <2>2, <2>3 DEF Captures, Voiced, VoicePair
<1> QED BY <1>3, <1>4, <1>5, <1>6, <1>7, <1>8, <1>9 DEF Voiced, Pairing

LEMMA StepVoice ==
    ASSUME NEW t \in Threads, Voiced(t)
    PROVE  VoicePair'
<1>1. ASSUME NEW u \in Threads, pc'[u] = "openPcm", need'[inp'[u]], activeOut' # None
      PROVE  inEcho'[inp'[u]] # None
  <2>1. CASE u = t
    BY <1>1, <2>1, VoiceOpening
  <2>2. CASE u # t
    <3>1. pc[u] = "openPcm" /\ inp'[u] = inp[u]
      BY <1>1, <2>2, PairFacts DEF Voiced
    <3> QED BY <1>1, <2>2, <3>1, VoiceOthersOpening DEF Voiced, VoicePair
  <2> QED BY <2>1, <2>2
<1>2. ASSUME NEW i \in Ins, Captures(i)
      PROVE  inEcho'[i] # None \/ \E u \in Threads : force'[u]
  BY <1>2, VoiceCaptures
<1> QED BY <1>1, <1>2, VoiceForcing DEF VoicePair, Captures

VoiceInv == AudioInv /\ VoicePair

LEMMA InitVoice == Init => VoiceInv
<1>1. Init => VoicePair
  BY DEF Init, VoicePair
<1> QED BY <1>1, InitAudio DEF VoiceInv

LEMMA NextVoice ==
    ASSUME OneEach, Faults \intersect {"pcm_open", "create_echo"} = {}, VoiceInv, [Next]_vars
    PROVE  VoiceInv'
<1>1. AudioInv'
  BY NextAudio DEF VoiceInv
<1>2. ASSUME NEW t \in Threads, Step(t) PROVE VoicePair'
  <2>1. Pairs(t) /\ Pairing(t) /\ Calm(t)
    BY <1>1, <1>2, StepPaired, StepPairing, StepCalm DEF VoiceInv, AudioInv
  <2> QED BY <2>1, StepVoice DEF Voiced, VoiceInv
<1>3. ASSUME NEW t \in Threads, Request(t) PROVE VoicePair'
  <2>1. LockInv /\ VoicePair
    BY DEF VoiceInv, AudioInv
  <2> QED BY <1>3, <2>1, RequestMoves DEF VoicePair, Forcing
<1>4. CASE UNCHANGED vars
  <2>1. UNCHANGED <<pc, inp, force, standby, activeOut, activeIn, inEcho, need, source>>
    BY <1>4 DEF vars, threadVars, streamVars, echoVars, inVars
  <2> QED BY <1>1, <2>1 DEF VoiceInv, VoicePair
<1> QED BY <1>1, <1>2, <1>3, <1>4 DEF Next, VoiceInv

LEMMA InvVoiceHasEcho == VoiceInv => VoiceHasEcho
<1> SUFFICES ASSUME VoiceInv, NEW i \in Ins, Free(Dev), activeIn = i, source[i] = "voice", need[i],
                    activeOut # None, \A t \in Threads : ~ force[t]
             PROVE  inEcho[i] # None
  BY DEF VoiceHasEcho
<1>1. \A t \in Threads : pc[t] \notin Starting
  BY FreeNoWork DEF VoiceInv, AudioInv, InputWork, Starting
<1>2. ~ standby[i]
  BY <1>1, NamesAssumption DEF VoiceInv, AudioInv, StreamInv, ActiveInv, Locks, Streams
<1> QED BY <1>2 DEF VoiceInv, VoicePair

(* With one output and one input, and when neither a PCM nor an echo       *)
(* reference fails to be created, a voice capture with an echo canceller   *)
(* has a reference whenever an output plays: only between the start of an  *)
(* output and the standby it then forces on the capture it may have none.  *)
THEOREM AudioVoiceHasEcho ==
    ASSUME OneEach, Faults \intersect {"pcm_open", "create_echo"} = {}
    PROVE  Spec => []VoiceHasEcho
<1>1. VoiceInv /\ [Next]_vars => VoiceInv'
  BY NextVoice
<1> QED BY <1>1, InitVoice, InvVoiceHasEcho, PTL DEF Spec

=============================================================================
