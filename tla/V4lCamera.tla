----------------------------- MODULE V4lCamera ------------------------------
(***************************************************************************)
(* The camera HAL (v4l_camera/v4l_camera.c): the preview thread, the       *)
(* Android threads that call the device's methods, the flags they share,   *)
(* thread_mutex with its two condition variables, and the buffer queue of  *)
(* the V4L2 driver.                                                        *)
(*                                                                         *)
(* The methods set most flags without the mutex, so a step of the preview  *)
(* thread reads one of them; a stretch of code under the mutex is one step *)
(* when it reads at most one.  The mutex itself is implied: the preview    *)
(* thread owns it at the places Locked names and every method owns it for  *)
(* one step only.                                                          *)
(***************************************************************************)
EXTENDS FiniteSets, Naturals

CONSTANTS
    Clients,        \* Android threads calling the device's methods
    NumBufs,        \* buffers the driver grants (REQBUFS)
    Calls,          \* methods the clients use, of AllCalls
    Faults,         \* operations that may fail, of AllFaults
    MaxHeld,        \* recorded frames the consumer keeps at a time
    NoBuf           \* no buffer

AllCalls == {"start_preview", "stop_preview", "set_parameters", "take_picture",
             "cancel_picture", "start_recording", "stop_recording",
             "release_recording_frame", "release"}
AllFaults == {"STREAMON", "DQBUF", "QBUF", "S_FMT", "TRY_FMT", "REQBUFS", "window"}
Bufs == 0 .. NumBufs - 1

ASSUME CameraAssumption ==
    /\ NumBufs \in Nat \ {0}
    /\ MaxHeld \in Nat
    /\ Calls \subseteq AllCalls /\ Faults \subseteq AllFaults
    /\ NoBuf \notin Bufs

VARIABLES
    tpc, cur, shot, shots, set,         \* the preview thread
    need_init, pointers,                \* its locals of those names
    missed,                             \* history: it first saw preview already on
    pc, frame,                          \* the clients
    exit, configured, picture, preview, \* flags of struct v4l_cam
    record, record_start, record_stop,
    preview_lock, msgVideo,
    same,                               \* buf_record.fmt is buf_preview.fmt
    streaming, queued,                  \* the driver, and
    format,                             \* what its format is of the structure's
    held                                \* recorded frames the consumer has

threadVars == <<tpc, cur, shot, shots, set, need_init, pointers, missed>>
clientVars == <<pc, frame>>
recordVars == <<record, record_start, record_stop, preview_lock, msgVideo, held>>
driverVars == <<same, streaming, queued, format>>
vars == <<threadVars, clientVars, exit, configured, picture, preview, recordVars,
          driverVars>>

\* places of the preview thread with the mutex, and the others
Locked   == {"top", "chkPreview", "chkExit", "toPark", "picRestore", "picResume"}
Unlocked == {"start", "parked", "woken", "streamOn", "onFailed", "poll", "dequeue",
             "failed", "frame", "deliver", "show", "handover", "kept", "queue",
             "recordStart", "switchOff", "switchQueue", "switchOn", "recordStop",
             "picStop", "picQueue", "picOn", "picShot", "picOff", "picLast", "picClear",
             "segv", "done"}
\* places of a client in a method; those in release
InRelease == {"relPicture", "relPreview", "relConfigured", "relExit", "relOff", "relSignal",
              "relJoin"}
ClientPC == {"idle", "setRecord", "setConfigure", "spRecord", "spConfigure", "spGeometry",
             "spQueue", "spSet", "stClear", "stLock", "stWait", "stWoken", "stOff", "tpSet",
             "recStart", "recStop", "rfLock", "rfQueue"} \union InRelease

PlaceTypes ==
    /\ tpc \in Locked \union Unlocked
    /\ pc \in [Clients -> ClientPC]
    /\ need_init \in {"unset", "yes", "no"}
    /\ set \in {"preview", "record"}
FlagTypes ==
    {exit, configured, picture, preview, record, record_start, record_stop,
     preview_lock, msgVideo, streaming, same, pointers, missed} \subseteq BOOLEAN
BufferTypes ==
    /\ cur \in Bufs \union {NoBuf}
    /\ shot \in Bufs \union {NoBuf}
    /\ shots \in 0 .. NumBufs
    /\ frame \in [Clients -> Bufs \union {NoBuf}]
    /\ queued \subseteq Bufs
    /\ held \subseteq Bufs
    /\ format \in {"preview", "picture", "other"}
TypeOK == PlaceTypes /\ FlagTypes /\ BufferTypes

\* v4l_cam_open has created the thread; the structure is static and zero
Init ==
    /\ tpc = "start" /\ cur = NoBuf /\ shot = NoBuf /\ shots = 0 /\ set = "preview"
    /\ need_init = "unset" /\ pointers = FALSE /\ missed = FALSE
    /\ pc = [c \in Clients |-> "idle"] /\ frame = [c \in Clients |-> NoBuf]
    /\ exit = FALSE /\ configured = FALSE /\ picture = FALSE /\ preview = FALSE
    /\ record = FALSE /\ record_start = FALSE /\ record_stop = FALSE
    /\ preview_lock = FALSE /\ msgVideo = FALSE
    /\ same = TRUE /\ streaming = FALSE /\ queued = {} /\ format = "other" /\ held = {}

MutexFree == tpc \notin Locked
Go(to) == tpc' = to
Move(c, to) == pc' = [pc EXCEPT ![c] = to]
May(fault) == fault \in Faults

-----------------------------------------------------------------------------
(* The driver *)

v4l_cam_streaming_stop == streaming' = FALSE /\ queued' = {}

\* the set's first n buffers are queued; the driver refuses the next one, because
\* it has it already or fails
v4l_cam_buf_queue_set(n) ==
    /\ \A b \in Bufs : b < n => b \notin queued
    /\ n = NumBufs \/ n \in queued \/ May("QBUF")
    /\ queued' = queued \union {b \in Bufs : b < n}

-----------------------------------------------------------------------------
(* The preview thread *)

\* pthread_cond_signal(&cam->stop_cond): one waiting client, if there is one
SignalStop ==
    \/ \E c \in Clients : pc[c] = "stWait" /\ Move(c, "stWoken")
    \/ (\A c \in Clients : pc[c] # "stWait") /\ UNCHANGED pc

\* the thread takes the mutex, and methods may have been called before
begin ==
    /\ tpc = "start"
    /\ Go("top")
    /\ UNCHANGED <<cur, shot, shots, set, need_init, pointers, missed, clientVars, exit,
                   configured, picture, preview, recordVars, driverVars>>

check_picture ==
    /\ tpc = "top"
    /\ Go(IF picture THEN "picStop" ELSE "chkPreview")
    /\ UNCHANGED <<cur, shot, shots, set, need_init, pointers, missed, clientVars, exit,
                   configured, picture, preview, recordVars, driverVars>>

check_preview ==
    /\ tpc = "chkPreview"
    /\ IF preview
       THEN /\ missed' = (missed \/ need_init = "unset")
            /\ Go("poll") /\ UNCHANGED <<need_init, pc>>
       ELSE /\ need_init' = IF configured THEN "no" ELSE "yes"
            /\ SignalStop
            /\ Go("chkExit") /\ UNCHANGED missed
    /\ UNCHANGED <<cur, shot, shots, set, pointers, frame, exit, configured, picture, preview,
                   recordVars, driverVars>>

\* release sets exit and signals without the mutex: both may come between the
\* check and the wait, which releases the mutex and starts waiting in one step
check_exit ==
    /\ tpc = "chkExit"
    /\ Go(IF exit THEN "done" ELSE "toPark")
    /\ UNCHANGED <<cur, shot, shots, set, need_init, pointers, missed, clientVars, exit,
                   configured, picture, preview, recordVars, driverVars>>

park ==
    /\ tpc = "toPark"
    /\ Go("parked")
    /\ UNCHANGED <<cur, shot, shots, set, need_init, pointers, missed, clientVars, exit,
                   configured, picture, preview, recordVars, driverVars>>

wake_up ==
    /\ tpc = "woken"
    /\ Go(IF exit THEN "done" ELSE "streamOn")
    /\ pointers' = (pointers \/ (need_init = "yes" /\ ~ exit))
    /\ UNCHANGED <<cur, shot, shots, set, need_init, missed, clientVars, exit, configured,
                   picture, preview, recordVars, driverVars>>

stream_on ==
    /\ tpc = "streamOn"
    /\ \/ streaming' = TRUE /\ Go("poll")
       \/ May("STREAMON") /\ Go("onFailed") /\ UNCHANGED streaming
    /\ UNCHANGED <<cur, shot, shots, set, need_init, pointers, missed, clientVars, exit,
                   configured, picture, preview, recordVars, same, queued, format>>

\* "Streaming: ... failed, stopping", taken by four errors
stop_on_error ==
    /\ tpc \in {"onFailed", "failed"}
    /\ preview' = FALSE
    /\ cur' = NoBuf
    /\ Go("top")
    /\ UNCHANGED <<shot, shots, set, need_init, pointers, missed, clientVars, exit,
                   configured, picture, recordVars, driverVars>>

\* poll returns at once; the flags are read again under the mutex
poll ==
    /\ tpc = "poll"
    /\ Go(IF ~ preview \/ picture THEN "top" ELSE "dequeue")
    /\ UNCHANGED <<cur, shot, shots, set, need_init, pointers, missed, clientVars, exit,
                   configured, picture, preview, recordVars, driverVars>>

\* DQBUF waits for a frame while the stream is on
dequeue_frame ==
    /\ tpc = "dequeue"
    /\ \/ \E b \in queued :
            /\ streaming
            /\ cur' = b /\ queued' = queued \ {b} /\ Go("frame")
       \/ /\ ~ streaming \/ May("DQBUF")
          /\ Go("failed") /\ UNCHANGED <<cur, queued>>
    /\ UNCHANGED <<shot, shots, set, need_init, pointers, missed, clientVars, exit,
                   configured, picture, preview, recordVars, same, streaming, format>>

-----------------------------------------------------------------------------
(* v4l_cam_frame_done *)

Unchanged_frame_done == UNCHANGED <<shot, shots, set, need_init, pointers, missed, clientVars,
                                    exit, configured, picture, preview, record, record_start,
                                    record_stop, msgVideo, same, streaming, format>>

\* the recorded frames the consumer has, or is giving back
Releasing == {frame[c] : c \in Clients} \ {NoBuf}

(* A frame for the recorder: set the lock flag before the callback.  That  *)
(* the consumer is fast enough to have at most MaxHeld frames is assumed.  *)
record_frame ==
    /\ tpc = "frame"
    /\ IF record /\ msgVideo
       THEN /\ Cardinality(held \union Releasing) < MaxHeld
            /\ preview_lock' = TRUE /\ Go("deliver")
       ELSE Go("show") /\ UNCHANGED preview_lock
    /\ UNCHANGED <<cur, held, queued>> /\ Unchanged_frame_done

\* the data_ts callback; a frame whose message is disabled by now is dropped
deliver_frame ==
    /\ tpc = "deliver"
    /\ held' = IF msgVideo THEN held \union {cur} ELSE held
    /\ Go("show")
    /\ UNCHANGED <<cur, preview_lock, queued>> /\ Unchanged_frame_done

(* Copy the frame to the preview window.  Without a window the rest is     *)
(* skipped; when the window has no buffer and no error the frame counts as *)
(* done and is not queued again.                                           *)
show_frame ==
    /\ tpc = "show"
    /\ \/ Go("handover") /\ UNCHANGED cur
       \/ May("window") /\ Go("queue") /\ UNCHANGED cur
       \/ May("window") /\ Go("recordStart") /\ cur' = NoBuf
       \/ May("window") /\ Go("failed") /\ UNCHANGED cur
    /\ UNCHANGED <<preview_lock, held, queued>> /\ Unchanged_frame_done

\* Mutant: the lock flag stays, and the release leaves the buffer to the thread
hand_over_lock_stays ==
    /\ tpc = "handover"
    /\ Go(IF msgVideo /\ preview_lock THEN "kept" ELSE "queue")
    /\ UNCHANGED <<cur, preview_lock, held, queued>> /\ Unchanged_frame_done

\* whoever comes second, this step or the consumer's release, queues the buffer
hand_over ==
    /\ tpc = "handover"
    /\ IF msgVideo /\ preview_lock THEN preview_lock' = FALSE /\ Go("kept")
       ELSE Go("queue") /\ UNCHANGED preview_lock
    /\ UNCHANGED <<cur, held, queued>> /\ Unchanged_frame_done

\* "Always queue next?", unless the consumer will; the message is read again
Keep == tpc = "kept" /\ msgVideo

queue_frame ==
    /\ tpc \in {"kept", "queue"}
    /\ \/ /\ ~ Keep /\ cur \notin queued
          /\ queued' = queued \union {cur} /\ cur' = NoBuf /\ Go("recordStart")
       \/ /\ Keep
          /\ cur' = NoBuf /\ Go("recordStart") /\ UNCHANGED queued
       \/ /\ May("window") \/ (~ Keep /\ (cur \in queued \/ May("QBUF")))
          /\ Go("failed") /\ UNCHANGED <<cur, queued>>
    /\ UNCHANGED <<preview_lock, held>> /\ Unchanged_frame_done

Unchanged_switch == UNCHANGED <<cur, shot, shots, need_init, pointers, missed, clientVars,
                                exit, configured, picture, record_start, preview_lock,
                                msgVideo, held, same>>

\* the comparison of the formats reads them through the thread's pointers
start_record ==
    /\ tpc = "recordStart"
    /\ IF record_start /\ ~ record
       THEN /\ record_start' = FALSE
            /\ record' = (pointers /\ same)
            /\ Go(IF ~ pointers THEN "segv" ELSE IF same THEN "recordStop" ELSE "switchOff")
       ELSE Go("recordStop") /\ UNCHANGED <<record, record_start>>
    /\ UNCHANGED <<cur, shot, shots, set, need_init, pointers, missed, clientVars, exit,
                   configured, picture, preview, record_stop, preview_lock, msgVideo, held,
                   driverVars>>

stop_record ==
    /\ tpc = "recordStop"
    /\ record_stop' = (record_stop /\ ~ record)
    /\ IF record /\ record_stop /\ set = "record" THEN Go("switchOff") /\ UNCHANGED record
       ELSE Go("top") /\ record' = (record /\ ~ record_stop)
    /\ UNCHANGED <<set, preview, streaming, queued, format>> /\ Unchanged_switch

(* v4l_cam_format_switch, from the set in use to the other one, and what   *)
(* the caller makes of its result.                                         *)
SwitchEnds(ok) ==
    /\ set' = IF ok /\ set = "preview" THEN "record" ELSE "preview"
    /\ record' = (ok /\ set = "preview")
    /\ preview' = (preview /\ (ok \/ set = "preview"))
    /\ Go(IF set = "preview" THEN "recordStop" ELSE "top")

switch_off ==
    /\ tpc = "switchOff"
    /\ v4l_cam_streaming_stop
    /\ \/ /\ format' = IF set = "record" \/ same THEN "preview" ELSE "other"
          /\ Go("switchQueue") /\ UNCHANGED <<set, record, preview>>
       \/ May("S_FMT") /\ SwitchEnds(FALSE) /\ UNCHANGED format
    /\ UNCHANGED record_stop /\ Unchanged_switch

switch_queue ==
    /\ tpc = "switchQueue"
    /\ \/ /\ \E n \in 1 .. NumBufs : v4l_cam_buf_queue_set(n)
          /\ Go("switchOn") /\ UNCHANGED <<set, record, preview>>
       \/ v4l_cam_buf_queue_set(0) /\ SwitchEnds(FALSE)
    /\ UNCHANGED <<record_stop, streaming, format>> /\ Unchanged_switch

switch_on ==
    /\ tpc = "switchOn"
    /\ \/ streaming' = TRUE /\ SwitchEnds(TRUE)
       \/ May("STREAMON") /\ SwitchEnds(FALSE) /\ UNCHANGED streaming
    /\ UNCHANGED <<record_stop, queued, format>> /\ Unchanged_switch

-----------------------------------------------------------------------------
(* v4l_cam_picture; shot is the index it delivers, NoBuf its initial 0 or  *)
(* what a failed DQBUF returned                                            *)

Unchanged_picture == UNCHANGED <<cur, set, need_init, pointers, missed, clientVars, exit,
                                 configured, preview, recordVars, same>>

picture_stop ==
    /\ tpc = "picStop"
    /\ v4l_cam_streaming_stop
    /\ shot' = NoBuf /\ shots' = 0
    /\ \/ format' = "picture" /\ Go("picQueue") /\ UNCHANGED picture
       \/ May("S_FMT") /\ picture' = FALSE /\ Go("picOff") /\ UNCHANGED format
    /\ Unchanged_picture

\* Mutant: one shot more than buffers
picture_queue_off_by_one ==
    /\ tpc = "picQueue"
    /\ \E n \in 1 .. NumBufs : v4l_cam_buf_queue_set(n) /\ shots' = n + 1
    /\ Go("picOn")
    /\ UNCHANGED <<picture, shot, streaming, format>> /\ Unchanged_picture

picture_queue ==
    /\ tpc = "picQueue"
    /\ \/ /\ \E n \in 1 .. NumBufs : v4l_cam_buf_queue_set(n) /\ shots' = n
          /\ Go("picOn") /\ UNCHANGED picture
       \/ /\ v4l_cam_buf_queue_set(0)
          /\ picture' = FALSE /\ Go("picOff") /\ UNCHANGED shots
    /\ UNCHANGED <<shot, streaming, format>> /\ Unchanged_picture

picture_on ==
    /\ tpc = "picOn"
    /\ \/ streaming' = TRUE /\ Go("picShot") /\ UNCHANGED <<picture, shots>>
       \/ May("STREAMON") /\ picture' = FALSE /\ shots' = 0 /\ Go("picOff")
          /\ UNCHANGED streaming
    /\ UNCHANGED <<shot, queued, format>> /\ Unchanged_picture

\* one round of the loop over the queued buffers; its count is dead after it
picture_shot ==
    /\ tpc = "picShot"
    /\ \/ /\ shots = 0 \/ ~ picture
          /\ shots' = 0
          /\ Go("picOff") /\ UNCHANGED <<shot, queued>>
       \/ /\ shots # 0 /\ picture
          /\ \/ \E b \in queued : streaming /\ shot' = b /\ queued' = queued \ {b}
             \/ (~ streaming \/ May("DQBUF")) /\ shot' = NoBuf /\ UNCHANGED queued
          /\ shots' = shots - 1 /\ UNCHANGED tpc
    /\ UNCHANGED <<picture, streaming, format>> /\ Unchanged_picture

picture_off ==
    /\ tpc = "picOff"
    /\ v4l_cam_streaming_stop
    /\ Go("picRestore")
    /\ UNCHANGED <<format, shot, shots, picture>> /\ Unchanged_picture

\* Mutant: the preview format is not set again
picture_restore_format_lost ==
    /\ tpc = "picRestore"
    /\ Go("picResume")
    /\ UNCHANGED <<streaming, queued, format, shot, shots, picture>> /\ Unchanged_picture

\* under the mutex: set the preview's format ...
picture_restore ==
    /\ tpc = "picRestore"
    /\ \/ format' = "preview"
       \/ May("S_FMT") /\ UNCHANGED format
    /\ Go("picResume")
    /\ UNCHANGED <<streaming, queued, shot, shots, picture>> /\ Unchanged_picture

\* ... queue its buffers and start the stream again
picture_resume ==
    /\ tpc = "picResume"
    /\ \/ ~ preview /\ UNCHANGED <<queued, streaming>>
       \/ preview /\ v4l_cam_buf_queue_set(0) /\ UNCHANGED streaming
       \/ /\ preview /\ \E n \in 1 .. NumBufs : v4l_cam_buf_queue_set(n)
          /\ streaming' = TRUE \/ (May("STREAMON") /\ UNCHANGED streaming)
    /\ Go("picLast")
    /\ UNCHANGED <<shot, shots, picture, format>> /\ Unchanged_picture

\* the last check for a cancellation, and the delivery
picture_last ==
    /\ tpc = "picLast"
    /\ \/ picture /\ Go("picClear") /\ UNCHANGED shot
       \/ ~ picture /\ Go("chkPreview") /\ shot' = NoBuf
    /\ UNCHANGED <<shots, picture, driverVars>> /\ Unchanged_picture

picture_deliver ==
    /\ tpc = "picClear"
    /\ picture' = FALSE
    /\ shot' = NoBuf
    /\ Go("chkPreview")
    /\ UNCHANGED <<shots, driverVars>> /\ Unchanged_picture

-----------------------------------------------------------------------------
(* The methods *)

\* CameraService calls a method when the device is open, and runs one method
\* other than release_recording_frame at a time
Frees(c) == pc[c] \in {"rfLock", "rfQueue"}
CanCall(c, call) ==
    /\ pc[c] = "idle" /\ call \in Calls /\ ~ exit /\ tpc # "segv"
    /\ \A d \in Clients : pc[d] = "idle" \/ (Frees(d) /\ call # "release")

Unchanged_flags == UNCHANGED <<exit, configured, picture, preview>>

SignalPreview == IF tpc = "parked" THEN Go("woken") ELSE UNCHANGED tpc
RestOfThread == UNCHANGED <<cur, shot, shots, set, need_init, pointers, missed>>

(* v4l_cam_configure and how set_parameters takes its result: S_FMT fails  *)
(* with EBUSY while streaming, which counts as success, and buffers are    *)
(* allocated once.                                                         *)
v4l_cam_configure ==
    IF streaming THEN UNCHANGED <<configured, queued, format>>
    ELSE /\ format' = "preview"
         /\ configured' = TRUE
         /\ queued' = IF configured THEN queued ELSE {}

\* S_FMT fails otherwise, or, after it, REQBUFS or the allocation of a buffer
configure_fails ==
    /\ ~ streaming /\ UNCHANGED configured
    /\ \/ May("S_FMT") /\ UNCHANGED <<queued, format>>
       \/ May("REQBUFS") /\ ~ configured /\ format' = "preview" /\ queued' \in {queued, {}}

\* camera_param_parse_fmts and the conversion to buf_preview.fmt: the size the
\* structure has already, or another one, which may be the driver's
NewFormat ==
    \/ UNCHANGED <<same, format>>
    \/ /\ same' = FALSE
       /\ \/ format = "picture" /\ UNCHANGED format
          \/ format # "picture" /\ format' = "other"
          \/ format = "other" /\ format' = "preview"

\* the structure's formats are new before the preview is looked at
set_parameters(c) ==
    /\ CanCall(c, "set_parameters")
    /\ NewFormat
    /\ Move(c, "setRecord") \/ (May("TRY_FMT") /\ UNCHANGED pc)
    /\ UNCHANGED <<threadVars, frame, recordVars, streaming, queued>> /\ Unchanged_flags

\* without parameters it takes the default ones
start_preview(c) ==
    /\ CanCall(c, "start_preview") /\ ~ preview
    /\ \/ configured /\ Move(c, "spGeometry") /\ UNCHANGED <<same, format>>
       \/ ~ configured /\ NewFormat /\ (Move(c, "spRecord") \/ (May("TRY_FMT") /\ UNCHANGED pc))
    /\ UNCHANGED <<threadVars, frame, recordVars, streaming, queued>> /\ Unchanged_flags

\* buf_record.fmt from a copy of the preview's
set_record(c) ==
    /\ pc[c] \in {"setRecord", "spRecord"}
    /\ \/ same' = TRUE /\ Move(c, IF pc[c] = "setRecord" THEN "setConfigure" ELSE "spConfigure")
       \/ May("TRY_FMT") /\ same' \in BOOLEAN /\ Move(c, "idle")
    /\ UNCHANGED <<threadVars, frame, recordVars, streaming, queued, format>>
    /\ Unchanged_flags

\* "Do not reconfigure if preview is running"
set_configure(c) ==
    /\ pc[c] \in {"setConfigure", "spConfigure"}
    /\ \/ /\ IF preview THEN UNCHANGED <<configured, queued, format>> ELSE v4l_cam_configure
          /\ Move(c, IF pc[c] = "setConfigure" THEN "idle" ELSE "spGeometry")
       \/ ~ preview /\ configure_fails /\ Move(c, "idle")
    /\ UNCHANGED <<threadVars, frame, exit, picture, preview, recordVars, same, streaming>>

preview_geometry(c) ==
    /\ pc[c] = "spGeometry" /\ MutexFree
    /\ \/ Move(c, "spQueue")
       \/ May("window") /\ Move(c, "idle")
    /\ UNCHANGED <<threadVars, frame, recordVars, driverVars>> /\ Unchanged_flags

queue_preview(c) ==
    /\ pc[c] = "spQueue"
    /\ \/ (\E n \in 1 .. NumBufs : v4l_cam_buf_queue_set(n)) /\ Move(c, "spSet")
       \/ v4l_cam_buf_queue_set(0) /\ Move(c, "idle")
    /\ UNCHANGED <<threadVars, frame, recordVars, same, streaming, format>> /\ Unchanged_flags

\* Mutant: the preview thread is not woken
set_preview_unsignalled(c) ==
    /\ pc[c] = "spSet" /\ MutexFree
    /\ preview' = TRUE
    /\ Move(c, "idle")
    /\ UNCHANGED <<tpc, frame, exit, configured, picture, recordVars, driverVars>>
    /\ RestOfThread

set_preview(c) ==
    /\ pc[c] = "spSet" /\ MutexFree
    /\ preview' = TRUE
    /\ SignalPreview
    /\ Move(c, "idle")
    /\ UNCHANGED <<frame, exit, configured, picture, recordVars, driverVars>> /\ RestOfThread

\* the client stops recording, and VIDEO_FRAME messages, before the preview
stop_preview(c) ==
    /\ CanCall(c, "stop_preview") /\ preview /\ ~ msgVideo
    /\ Move(c, "stClear")
    /\ UNCHANGED <<threadVars, frame, recordVars, driverVars>> /\ Unchanged_flags

clear_preview(c) ==
    /\ pc[c] = "stClear"
    /\ preview' = FALSE
    /\ Move(c, "stLock")
    /\ UNCHANGED <<threadVars, frame, exit, configured, picture, recordVars, driverVars>>

\* Mutant: the method does not wait for the thread
wait_for_stop_skipped(c) ==
    /\ pc[c] = "stLock" /\ MutexFree
    /\ Move(c, "stOff")
    /\ UNCHANGED <<threadVars, frame, recordVars, driverVars>> /\ Unchanged_flags

wait_for_stop(c) ==
    /\ pc[c] = "stLock" /\ MutexFree
    /\ Move(c, "stWait")
    /\ UNCHANGED <<threadVars, frame, recordVars, driverVars>> /\ Unchanged_flags

\* Mutant: the signal alone lets the method go on
preview_stopped_unlocked(c) ==
    /\ pc[c] = "stWoken"
    /\ Move(c, "stOff")
    /\ UNCHANGED <<threadVars, frame, recordVars, driverVars>> /\ Unchanged_flags

preview_stopped(c) ==
    /\ pc[c] = "stWoken" /\ MutexFree
    /\ Move(c, "stOff")
    /\ UNCHANGED <<threadVars, frame, recordVars, driverVars>> /\ Unchanged_flags

\* Mutant: the stream stays on
stop_streaming_skipped(c) ==
    /\ pc[c] = "stOff"
    /\ Move(c, "idle")
    /\ UNCHANGED <<threadVars, frame, recordVars, driverVars>> /\ Unchanged_flags

stop_streaming(c) ==
    /\ pc[c] = "stOff"
    /\ v4l_cam_streaming_stop
    /\ Move(c, "idle")
    /\ UNCHANGED <<threadVars, frame, recordVars, same, format>> /\ Unchanged_flags

\* no picture is taken while recording, nor while another is being taken
take_picture(c) ==
    /\ CanCall(c, "take_picture") /\ preview /\ ~ picture /\ ~ msgVideo
    /\ Move(c, "tpSet")
    /\ UNCHANGED <<threadVars, frame, recordVars, driverVars>> /\ Unchanged_flags

set_picture(c) ==
    /\ pc[c] = "tpSet"
    /\ picture' = TRUE
    /\ Move(c, "idle")
    /\ UNCHANGED <<threadVars, frame, exit, configured, preview, recordVars, driverVars>>

cancel_picture(c) ==
    /\ CanCall(c, "cancel_picture")
    /\ picture' = FALSE
    /\ UNCHANGED <<threadVars, clientVars, exit, configured, preview, recordVars, driverVars>>

\* the client enables VIDEO_FRAME messages right before start_recording ...
enable_msg_type(c) ==
    /\ CanCall(c, "start_recording") /\ preview
    /\ msgVideo' = TRUE
    /\ Move(c, "recStart")
    /\ UNCHANGED <<threadVars, frame, record, record_start, record_stop, preview_lock, held,
                   driverVars>> /\ Unchanged_flags

start_recording(c) ==
    /\ pc[c] = "recStart"
    /\ record_start' = (record_start \/ ~ record)
    /\ Move(c, "idle")
    /\ UNCHANGED <<threadVars, frame, record, record_stop, preview_lock, msgVideo, held,
                   driverVars>> /\ Unchanged_flags

\* ... and disables them right before stop_recording: the HAL owns all frames
disable_msg_type(c) ==
    /\ CanCall(c, "stop_recording") /\ msgVideo
    /\ msgVideo' = FALSE
    /\ held' = {}
    /\ Move(c, "recStop")
    /\ UNCHANGED <<threadVars, frame, record, record_start, record_stop, preview_lock,
                   driverVars>> /\ Unchanged_flags

stop_recording(c) ==
    /\ pc[c] = "recStop"
    /\ record_stop' = (record_stop \/ record)
    /\ Move(c, "idle")
    /\ UNCHANGED <<threadVars, frame, record, record_start, preview_lock, msgVideo, held,
                   driverVars>> /\ Unchanged_flags

release_recording_frame(c, b) ==
    /\ pc[c] = "idle" /\ "release_recording_frame" \in Calls /\ ~ exit
    /\ \A d \in Clients : pc[d] \notin InRelease
    /\ b \in held
    /\ held' = held \ {b}
    /\ frame' = [frame EXCEPT ![c] = b]
    /\ Move(c, "rfLock")
    /\ UNCHANGED <<threadVars, record, record_start, record_stop, preview_lock, msgVideo,
                   driverVars>> /\ Unchanged_flags

take_preview_lock(c) ==
    /\ pc[c] = "rfLock" /\ MutexFree
    /\ preview_lock' = FALSE
    /\ IF preview_lock THEN Move(c, "idle") /\ frame' = [frame EXCEPT ![c] = NoBuf]
       ELSE Move(c, "rfQueue") /\ UNCHANGED frame
    /\ UNCHANGED <<threadVars, record, record_start, record_stop, msgVideo, held,
                   driverVars>> /\ Unchanged_flags

\* a QBUF the driver refuses is ignored
queue_released(c) ==
    /\ pc[c] = "rfQueue"
    /\ queued' = IF record THEN queued \union {frame[c]} ELSE queued
    /\ frame' = [frame EXCEPT ![c] = NoBuf]
    /\ Move(c, "idle")
    /\ UNCHANGED <<threadVars, recordVars, same, streaming, format>> /\ Unchanged_flags

\* five flags are cleared or set, one after the other and without the mutex
release(c) ==
    /\ CanCall(c, "release") /\ ~ msgVideo
    /\ record' = FALSE
    /\ Move(c, "relPicture")
    /\ UNCHANGED <<threadVars, frame, record_start, record_stop, preview_lock, msgVideo,
                   held, driverVars>> /\ Unchanged_flags

release_flags(c) ==
    /\ \/ /\ pc[c] = "relPicture" /\ picture' = FALSE /\ Move(c, "relPreview")
          /\ UNCHANGED <<preview, configured, exit>>
       \/ /\ pc[c] = "relPreview" /\ preview' = FALSE /\ Move(c, "relConfigured")
          /\ UNCHANGED <<picture, configured, exit>>
       \/ /\ pc[c] = "relConfigured" /\ configured' = FALSE /\ Move(c, "relExit")
          /\ UNCHANGED <<picture, preview, exit>>
       \/ /\ pc[c] = "relExit" /\ exit' = TRUE /\ Move(c, "relOff")
          /\ UNCHANGED <<picture, preview, configured>>
    /\ UNCHANGED <<threadVars, frame, recordVars, driverVars>>

release_streaming(c) ==
    /\ pc[c] = "relOff"
    /\ v4l_cam_streaming_stop
    /\ Move(c, "relSignal")
    /\ UNCHANGED <<threadVars, frame, recordVars, same, format>> /\ Unchanged_flags

release_signal(c) ==
    /\ pc[c] = "relSignal"
    /\ SignalPreview
    /\ Move(c, "relJoin")
    /\ UNCHANGED <<frame, recordVars, driverVars>> /\ Unchanged_flags /\ RestOfThread

\* pthread_join, then free the buffers and close the device
release_join(c) ==
    /\ pc[c] = "relJoin" /\ tpc = "done"
    /\ v4l_cam_streaming_stop
    /\ Move(c, "idle")
    /\ UNCHANGED <<threadVars, frame, recordVars, same, format>> /\ Unchanged_flags

(* close and open again: the flags release does not reset stay.            *)
v4l_cam_open(c) ==
    /\ exit /\ tpc = "done" /\ \A d \in Clients : pc[d] = "idle"
    /\ c \in Clients
    /\ exit' = FALSE
    /\ Go("start") /\ set' = "preview"
    /\ need_init' = "unset" /\ pointers' = FALSE /\ missed' = FALSE
    /\ UNCHANGED <<cur, shot, shots, clientVars, configured, picture, preview, recordVars,
                   driverVars>>

-----------------------------------------------------------------------------
ThreadStep ==
    \/ begin \/ check_picture \/ check_preview \/ check_exit \/ park \/ wake_up
    \/ stream_on \/ stop_on_error \/ poll \/ dequeue_frame
    \/ record_frame \/ deliver_frame \/ show_frame \/ hand_over \/ queue_frame
    \/ start_record \/ stop_record \/ switch_off \/ switch_queue \/ switch_on
    \/ picture_stop \/ picture_queue \/ picture_on \/ picture_shot \/ picture_off
    \/ picture_restore \/ picture_resume \/ picture_last \/ picture_deliver

\* the calls a client decides on, and the steps of a method it is in
Request(c) ==
    \/ set_parameters(c) \/ start_preview(c) \/ stop_preview(c)
    \/ take_picture(c) \/ cancel_picture(c) \/ enable_msg_type(c) \/ disable_msg_type(c)
    \/ \E b \in Bufs : release_recording_frame(c, b)
    \/ release(c) \/ v4l_cam_open(c)

ClientStep(c) ==
    \/ set_record(c) \/ set_configure(c)
    \/ preview_geometry(c) \/ queue_preview(c) \/ set_preview(c)
    \/ clear_preview(c) \/ wait_for_stop(c) \/ preview_stopped(c) \/ stop_streaming(c)
    \/ set_picture(c) \/ start_recording(c) \/ stop_recording(c)
    \/ take_preview_lock(c) \/ queue_released(c)
    \/ release_flags(c) \/ release_streaming(c) \/ release_signal(c) \/ release_join(c)

Next == ThreadStep \/ \E c \in Clients : Request(c) \/ ClientStep(c)

Spec == Init /\ [][Next]_vars

\* the scheduler runs the preview thread and a client inside a method; the
\* driver fills the buffers it has while it streams
FairSpec == Spec /\ WF_vars(ThreadStep) /\ \A c \in Clients : WF_vars(ClientStep(c))
-----------------------------------------------------------------------------
(* Properties *)

Quiet == \A c \in Clients : pc[c] = "idle"

(* "we shall not return from our .stop_preview() method until we really    *)
(* make sure, that the preview thread is safely parked": past its wait the *)
(* method finds the thread in cond_wait, or gone.                          *)
ParkedOnReturn ==
    \A c \in Clients : pc[c] = "stOff" => tpc \in {"parked", "done"}

(* "... and is ready to take a .start_preview() call": with the preview    *)
(* off, the thread parked and no method running, the driver is stopped and *)
(* has no buffer, so that start_preview can queue all of them.  Errors of  *)
(* the driver or the window leave the stream on and buffers queued.        *)
(* When start_preview comes before the thread has first looked at preview  *)
(* the thread never turns the stream on and parks with all buffers queued; *)
(* such a session is left out.                                             *)
ParkedIsReady ==
    tpc = "parked" /\ ~ preview /\ Quiet /\ ~ missed => ~ streaming /\ queued = {}

(* The methods never pull the stream from under the thread: without driver *)
(* failures only release makes DQBUF or QBUF fail.  It is checked without  *)
(* stop_recording, whose disabled message makes the thread queue a buffer  *)
(* the driver has: the property fails with it.  A start_preview before the *)
(* thread has first looked at preview makes DQBUF fail too.                *)
PreviewUndisturbed == tpc \in {"failed", "onFailed"} => exit \/ missed

(* A picture switches the driver to its own format; no frame the thread    *)
(* takes for a preview frame has it, whatever is cancelled or stopped.     *)
FramesNotPicture == tpc = "frame" /\ ~ exit => format # "picture"

(* A frame the recorder has not released is not given to the driver, and   *)
(* the thread does not queue one the release queues too.                   *)
HeldFrameSafe == held \intersect queued = {}

(* "The preview thread will switch record on after the next frame": it     *)
(* compares record and preview formats through pointers it has set when it *)
(* woke.                                                                   *)
FormatsKnown == tpc # "segv"

(* The buffer the thread passes to the callbacks and copies to the window  *)
(* is not given back to the driver meanwhile, by the recorder's release.   *)
FrameNotRefilled == tpc \in {"frame", "deliver", "show"} /\ ~ exit => cur \notin queued

\* the preview buffers the driver has: a picture has buffers of its own; and
\* the parts of the camera that use a buffer
DriverHas == IF tpc \in {"picQueue", "picOn", "picShot", "picOff"} THEN {} ELSE queued
ThreadUses(b) == cur = b /\ tpc \in {"frame", "deliver", "show", "handover", "queue"}
RecorderUses(b) == b \in held \/ \E c \in Clients : Frees(c) /\ frame[c] = b
UsersOf(b) == {u \in {"thread", "recorder"} : \/ u = "thread" /\ ThreadUses(b)
                                              \/ u = "recorder" /\ RecorderUses(b)}

(* The thread, the recorder's callback and its release implement the       *)
(* circle of the buffers: a frame is given back by the last that uses it,  *)
(* exactly once, and only the end of the stream takes buffers away.        *)
Buffers == INSTANCE CameraBuffers WITH
               driver <- DriverHas, users <- [b \in Bufs |-> UsersOf(b)]
BuffersCircle == Buffers!Spec

(* "The preview thread will switch record on after the next frame": once a *)
(* client has started recording it is on until the client stops it.  What  *)
(* comes of calls before the thread first looks at preview is left out:    *)
(* that is the camera_formats run.                                         *)
RecordingOn ==
    msgVideo /\ preview /\ Quiet /\ ~ missed
        ~> (record \/ ~ msgVideo \/ ~ preview \/ tpc = "segv")

(* A preview that is on shows a frame, unless it is stopped or a picture   *)
(* is being taken; after the picture it goes on.  The camera_formats run   *)
(* has the one way it ends, with the process.  Sessions whose first        *)
(* start_preview came too early for the thread are left out: the error     *)
(* that ends that preview may leave a picture to be taken without one, and *)
(* a start_preview during it queues buffers the picture takes away.        *)
PreviewFlows ==
    preview /\ ~ missed ~> (tpc = "frame" \/ ~ preview \/ picture \/ tpc = "segv")

(* "We have to take care to prevent races and lock-ups ourselves", and     *)
(* "Signal from .release: bye-bye": neither method waits for ever.         *)
MethodsReturn == \A c \in Clients : pc[c] \in {"stWait", "relJoin"} ~> pc[c] = "idle"
=============================================================================
