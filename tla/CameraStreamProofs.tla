-------------------------- MODULE CameraStreamProofs --------------------------
(***************************************************************************)
(* Proofs about what the preview thread and the methods of V4lCamera leave *)
(* each other: the formats, the stream and the driver's buffers, for any   *)
(* number of clients and buffers.                                          *)
(***************************************************************************)
EXTENDS V4lCameraProofs

In(places) == \E c \in Clients : pc[c] \in places
Gone   == {"relOff", "relSignal", "relJoin"}
Stops  == {"stLock", "stWait", "stWoken", "stOff"}
Starts == {"spRecord", "spConfigure", "spGeometry", "spQueue", "spSet"}
Shots  == {"picQueue", "picOn", "picShot", "picOff"}
PicPlaces == Shots \union {"picStop", "picRestore", "picResume", "picLast", "picClear"}
Switches  == {"switchOff", "switchQueue", "switchOn"}
Uses      == {"frame", "deliver", "show", "handover", "queue"}
\* from the wait for a frame to the end of a turn, with the stream on
Working   == Uses \union {"poll", "dequeue", "kept", "recordStart", "switchOff", "recordStop"}

-----------------------------------------------------------------------------
(* The format of a frame *)

(* A picture has the camera in its own format from its start to its end.   *)
FormatInv == format = "picture" => tpc \in Shots \union {"picRestore"}

LEMMA FormatKept ==
    ASSUME "S_FMT" \notin Faults, FormatInv, [Next]_vars
    PROVE  FormatInv'
<1> USE DEF FormatInv, Shots, Go, driverVars, threadVars
<1>1. CASE ThreadStep
  <2>1. CASE begin \/ check_picture \/ check_preview \/ check_exit \/ park \/ wake_up
    BY <2>1 DEF begin, check_picture, check_preview, check_exit, park, wake_up
  <2>2. CASE stream_on \/ stop_on_error \/ poll \/ dequeue_frame
    BY <2>2 DEF stream_on, stop_on_error, poll, dequeue_frame
  <2>3. CASE record_frame \/ deliver_frame \/ show_frame \/ hand_over \/ queue_frame
    BY <2>3 DEF record_frame, deliver_frame, show_frame, hand_over, queue_frame,
       Unchanged_frame_done
  <2>4. CASE start_record \/ stop_record \/ switch_off \/ switch_queue \/ switch_on
    BY <2>4 DEF start_record, stop_record, switch_off, switch_queue, switch_on, May
  <2>5. CASE picture_stop \/ picture_queue \/ picture_on \/ picture_shot \/ picture_off
    BY <2>5 DEF picture_stop, picture_queue, picture_on, picture_shot, picture_off, May
  <2>6. CASE picture_restore \/ picture_resume \/ picture_last \/ picture_deliver
    BY <2>6 DEF picture_restore, picture_resume, picture_last, picture_deliver, May
  <2> QED BY <1>1, <2>1, <2>2, <2>3, <2>4, <2>5, <2>6 DEF ThreadStep
<1>2. ASSUME NEW c \in Clients, Request(c) PROVE FormatInv'
  <2>1. CASE set_parameters(c) \/ start_preview(c)
    BY <2>1 DEF set_parameters, start_preview, NewFormat
  <2>2. CASE stop_preview(c) \/ take_picture(c) \/ cancel_picture(c) \/ release(c)
    BY <2>2 DEF stop_preview, take_picture, cancel_picture, release
  <2>3. CASE enable_msg_type(c) \/ disable_msg_type(c)
    BY <2>3 DEF enable_msg_type, disable_msg_type
  <2>4. CASE \E b \in Bufs : release_recording_frame(c, b)
    BY <2>4 DEF release_recording_frame
  <2>5. CASE v4l_cam_open(c)
    <3>1. format' = format /\ tpc = "done"
      BY <2>5 DEF v4l_cam_open
    <3> QED BY <3>1
  <2> QED BY <1>2, <2>1, <2>2, <2>3, <2>4, <2>5 DEF Request
<1>3. ASSUME NEW c \in Clients, ClientStep(c) PROVE FormatInv'
  <2>1. CASE set_preview(c) \/ release_signal(c)
    BY <2>1 DEF set_preview, release_signal, SignalPreview
  <2>2. CASE \/ preview_geometry(c) \/ queue_preview(c) \/ clear_preview(c) \/ wait_for_stop(c)
             \/ preview_stopped(c) \/ stop_streaming(c) \/ set_picture(c)
    BY <2>2 DEF preview_geometry, queue_preview, clear_preview, wait_for_stop,
       preview_stopped, stop_streaming, set_picture
  <2>3. CASE \/ start_recording(c) \/ stop_recording(c) \/ take_preview_lock(c)
             \/ queue_released(c) \/ release_flags(c) \/ release_streaming(c) \/ release_join(c)
    BY <2>3 DEF start_recording, stop_recording, take_preview_lock, queue_released,
       release_flags, release_streaming, release_join
  <2>4. CASE set_record(c) \/ set_configure(c)
    BY <2>4 DEF set_record, set_configure, v4l_cam_configure, configure_fails
  <2> QED BY <1>3, <2>1, <2>2, <2>3, <2>4 DEF ClientStep
<1>4. CASE UNCHANGED vars
  BY <1>4 DEF vars
<1> QED BY <1>1, <1>2, <1>3, <1>4 DEF Next

(* No frame the thread takes for a preview frame has the picture's format, *)
(* if the driver takes the formats it is given: whatever the clients call, *)
(* at any time, and whatever else fails.                                   *)
THEOREM CameraFramesNotPicture ==
    ASSUME "S_FMT" \notin Faults
    PROVE  Spec => []FramesNotPicture
<1>1. Init => FormatInv
  BY DEF Init, FormatInv
<1>2. FormatInv /\ [Next]_vars => FormatInv'
  BY FormatKept
<1>3. FormatInv => FramesNotPicture
  BY DEF FormatInv, Shots, FramesNotPicture
<1> QED BY <1>1, <1>2, <1>3, PTL DEF Spec

-----------------------------------------------------------------------------
(* Every session *)

(* The flags release clears stay clear, and until the next open nobody     *)
(* calls the camera.                                                       *)
FreshInv ==
    /\ exit => /\ ~ preview /\ ~ picture /\ ~ configured /\ ~ msgVideo
               /\ \A c \in Clients : pc[c] \in Gone \union {"idle", "rfLock", "rfQueue"}
    /\ ~ exit => tpc # "done" /\ ~ In(Gone)
    /\ \A c \in Clients :
         /\ pc[c] \in {"relPreview", "relConfigured", "relExit"} => ~ picture
         /\ pc[c] \in {"relConfigured", "relExit"} => ~ preview
         /\ pc[c] = "relExit" => ~ configured
         /\ pc[c] \in InRelease => ~ msgVideo

\* a release is under way, or the thread is gone and the stream is off
GoneInv == exit => In(Gone) \/ (tpc = "done" /\ ~ streaming /\ queued = {})

(* Nothing is recorded without the recorder's messages; only a release     *)
(* carries a frame; the thread has not looked at preview when it starts.   *)
Recorded == held # {} \/ preview_lock \/ tpc \in {"deliver", "kept"} \/ In({"rfLock", "rfQueue"})
MsgInv ==
    /\ record \/ record_start \/ Recorded \/ In({"recStart"}) \/ tpc \in Switches => msgVideo
    /\ ~ record_stop /\ ~ In({"recStop"})
    /\ \A c \in Clients : ~ Frees(c) => frame[c] = NoBuf
    /\ tpc = "start" => need_init = "unset"

BaseInv == StopInv /\ FreshInv /\ GoneInv /\ MsgInv

LEMMA BaseFacts ==
    ASSUME BaseInv
    PROVE  /\ CameraInv /\ TypeOK /\ PlaceTypes /\ FlagTypes /\ BufferTypes /\ Carried
           /\ OneMethod /\ StopPlaces /\ FreshInv /\ GoneInv /\ MsgInv
           /\ pc \in [Clients -> ClientPC] /\ frame \in [Clients -> Bufs \union {NoBuf}]
           /\ queued \subseteq Bufs /\ NoBuf \notin Bufs
  BY CameraAssumption DEF BaseInv, StopInv, CameraInv, TypeOK, PlaceTypes, BufferTypes

(* What every step of the thread leaves alone. *)
ThreadLeaves ==
    /\ UNCHANGED <<exit, configured, frame, msgVideo>>
    /\ \A c \in Clients : pc'[c] = pc[c] \/ (pc[c] = "stWait" /\ pc'[c] = "stWoken")
    /\ (~ picture => ~ picture') /\ (~ preview => ~ preview') /\ (~ record_stop => ~ record_stop')
    /\ tpc # "done" /\ tpc' # "start" /\ (tpc' = "done" => exit)

LEMMA ThreadFacts ==
    ASSUME TypeOK, ThreadStep
    PROVE  ThreadLeaves
<1> USE DEF ThreadLeaves, Go, clientVars, recordVars
<1>0. {preview, picture, record, record_stop} \subseteq BOOLEAN
  BY DEF TypeOK, FlagTypes
<1>1. CASE begin \/ check_picture \/ check_exit \/ park \/ wake_up \/ stream_on
  BY <1>1 DEF begin, check_picture, check_exit, park, wake_up, stream_on
<1>2. CASE check_preview
  <2>1. CASE preview
    BY <1>2, <2>1 DEF check_preview
  <2>2. CASE ~ preview
    <3>1. SignalStop
      BY <1>2, <2>2 DEF check_preview
    <3>2. \A c \in Clients : pc'[c] = pc[c] \/ (pc[c] = "stWait" /\ pc'[c] = "stWoken")
      BY <3>1, SignalKeeps
    <3> QED BY <1>2, <2>2, <3>2 DEF check_preview
  <2> QED BY <2>1, <2>2
<1>3. CASE stop_on_error \/ poll \/ dequeue_frame \/ record_frame \/ deliver_frame
  BY <1>3 DEF stop_on_error, poll, dequeue_frame, record_frame, deliver_frame,
     Unchanged_frame_done
<1>4. CASE show_frame \/ hand_over \/ queue_frame \/ start_record
  BY <1>4 DEF show_frame, hand_over, queue_frame, start_record, Unchanged_frame_done
<1>5. CASE stop_record
  BY <1>0, <1>5 DEF stop_record, Unchanged_switch
<1>6. CASE switch_off \/ switch_queue \/ switch_on
  <2>1. /\ UNCHANGED <<exit, configured, frame, msgVideo, pc, picture, record_stop>>
        /\ tpc \in Switches
        /\ \/ preview' = preview /\ tpc' \in Switches
           \/ SwitchEnds(FALSE) \/ SwitchEnds(TRUE)
    BY <1>6 DEF switch_off, switch_queue, switch_on, Unchanged_switch, Switches
  <2>2. (~ preview => ~ preview') /\ tpc' \in Switches \union {"recordStop", "top"}
    BY <1>0, <2>1 DEF SwitchEnds
  <2> QED BY <2>1, <2>2 DEF Switches
<1>7. CASE picture_stop \/ picture_queue \/ picture_on \/ picture_shot \/ picture_off
  BY <1>7 DEF picture_stop, picture_queue, picture_on, picture_shot, picture_off,
     Unchanged_picture
<1>8. CASE picture_restore \/ picture_resume \/ picture_last \/ picture_deliver
  BY <1>8 DEF picture_restore, picture_resume, picture_last, picture_deliver,
     Unchanged_picture
<1> QED BY <1>1, <1>2, <1>3, <1>4, <1>5, <1>6, <1>7, <1>8 DEF ThreadStep

(* FreshInv *)
LEMMA FreshKept ==
    ASSUME BaseInv, [Next]_vars
    PROVE  FreshInv'
<1> USE DEF InRelease, Gone
<1>0. /\ FreshInv /\ OneMethod /\ TypeOK /\ FlagTypes /\ pc \in [Clients -> ClientPC]
  BY BaseFacts
<1>1. CASE ThreadStep
  <2>1. ThreadLeaves
    BY <1>0, <1>1, ThreadFacts
  <2>2. \A P \in {Gone, Gone \union {"idle", "rfLock", "rfQueue"}, InRelease,
                  {"relPreview", "relConfigured", "relExit"}, {"relConfigured", "relExit"},
                  {"relExit"}} :
          \A c \in Clients : pc'[c] \in P <=> pc[c] \in P
    BY <2>1 DEF ThreadLeaves
  <2>3. In(Gone)' <=> In(Gone)
    BY <2>2 DEF In
  <2>4. \A c \in Clients : pc'[c] = "relExit" <=> pc[c] = "relExit"
    BY <2>2
  <2> QED BY <1>0, <2>1, <2>2, <2>3, <2>4 DEF ThreadLeaves, FreshInv
<1>2. ASSUME NEW c \in Clients, Request(c) PROVE FreshInv'
  <2> USE DEF FreshInv, In, Move, CanCall, Frees, threadVars, clientVars, recordVars,
              Unchanged_flags
  <2>1. CASE set_parameters(c) \/ start_preview(c)
    BY <1>0, <2>1 DEF set_parameters, start_preview
  <2>3. CASE stop_preview(c) \/ take_picture(c)
    BY <1>0, <2>3 DEF stop_preview, take_picture
  <2>4. CASE cancel_picture(c)
    BY <1>0, <2>4 DEF cancel_picture
  <2>5. CASE enable_msg_type(c) \/ disable_msg_type(c)
    BY <1>0, <2>5 DEF enable_msg_type, disable_msg_type
  <2>6. CASE \E b \in Bufs : release_recording_frame(c, b)
    BY <1>0, <2>6 DEF release_recording_frame
  <2>7. CASE release(c)
    BY <1>0, <2>7 DEF release
  <2>8. CASE v4l_cam_open(c)
    BY <1>0, <2>8 DEF v4l_cam_open, Go
  <2> QED BY <1>2, <2>1, <2>3, <2>4, <2>5, <2>6, <2>7, <2>8 DEF Request
<1>3. ASSUME NEW c \in Clients, ClientStep(c) PROVE FreshInv'
  <2> USE DEF FreshInv, In, Move, threadVars, recordVars, Unchanged_flags
  <2>1. CASE \/ preview_geometry(c) \/ queue_preview(c) \/ wait_for_stop(c) \/ preview_stopped(c)
             \/ stop_streaming(c) \/ start_recording(c) \/ stop_recording(c) \/ set_record(c)
    BY <1>0, <2>1 DEF preview_geometry, queue_preview, wait_for_stop, preview_stopped,
       stop_streaming, start_recording, stop_recording, set_record
  <2>2. CASE set_preview(c)
    BY <1>0, <2>2 DEF set_preview, SignalPreview, Go, OneMethod, Busy
  <2>3. CASE clear_preview(c) \/ set_picture(c) \/ set_configure(c)
    BY <1>0, <2>3 DEF clear_preview, set_picture, set_configure, OneMethod, Busy
  <2>4. CASE take_preview_lock(c) \/ queue_released(c)
    BY <1>0, <2>4 DEF take_preview_lock, queue_released
  <2>5. CASE release_streaming(c) \/ release_join(c)
    BY <1>0, <2>5 DEF release_streaming, release_join
  <2>6. CASE release_signal(c)
    BY <1>0, <2>6 DEF release_signal, SignalPreview, Go
  <2>7. CASE release_flags(c)
    <3>1. \A d \in Clients : d # c => pc[d] \in {"idle", "rfLock", "rfQueue"}
      BY <1>0, <2>7 DEF release_flags, OneMethod, Busy
    <3> QED BY <1>0, <2>7, <3>1 DEF release_flags
  <2> QED BY <1>3, <2>1, <2>2, <2>3, <2>4, <2>5, <2>6, <2>7 DEF ClientStep
<1>4. CASE UNCHANGED vars
  BY <1>0, <1>4 DEF FreshInv, In, vars, threadVars, clientVars, recordVars
<1> QED BY <1>1, <1>2, <1>3, <1>4 DEF Next

(* GoneInv *)
LEMMA GoneKept ==
    ASSUME BaseInv, [Next]_vars
    PROVE  GoneInv'
<1> USE DEF GoneInv, In, Gone
<1>0. /\ FreshInv /\ GoneInv /\ MsgInv /\ TypeOK /\ pc \in [Clients -> ClientPC]
  BY BaseFacts
<1>1. CASE ThreadStep
  <2>1. ThreadLeaves
    BY <1>0, <1>1, ThreadFacts
  <2> QED BY <1>0, <2>1 DEF ThreadLeaves
<1>2. ASSUME NEW c \in Clients, Request(c) PROVE GoneInv'
  <2>1. ~ exit'
    BY <1>2 DEF Request, set_parameters, start_preview, stop_preview, take_picture,
       cancel_picture, enable_msg_type, disable_msg_type, release_recording_frame, release,
       v4l_cam_open, CanCall, Unchanged_flags
  <2> QED BY <2>1
<1>3. ASSUME NEW c \in Clients, ClientStep(c) PROVE GoneInv'
  <2>1. CASE ~ exit
    <3>1. ~ exit' \/ (release_flags(c) /\ pc[c] = "relExit")
      BY <1>3, <2>1 DEF ClientStep, set_record, set_configure, preview_geometry, queue_preview,
         set_preview, clear_preview, wait_for_stop, preview_stopped, stop_streaming,
         set_picture, start_recording, stop_recording, take_preview_lock, queue_released,
         release_flags, release_streaming, release_signal, release_join, Unchanged_flags
    <3>2. CASE release_flags(c) /\ pc[c] = "relExit"
      <4>1. pc'[c] = "relOff"
        BY <1>0, <3>2 DEF release_flags, Move
      <4> QED BY <4>1
    <3> QED BY <3>1, <3>2
  <2>2. CASE exit
    <3>1. ~ Frees(c) /\ pc[c] \in Gone \union {"idle"}
      BY <1>0, <2>2 DEF FreshInv, MsgInv, Recorded, Frees
    <3>2. CASE release_streaming(c)
      BY <1>0, <3>2 DEF release_streaming, Move
    <3>3. CASE release_signal(c)
      BY <1>0, <3>3 DEF release_signal, Move
    <3>4. CASE release_join(c)
      BY <3>4 DEF release_join, v4l_cam_streaming_stop, threadVars
    <3> QED BY <1>3, <3>1, <3>2, <3>3, <3>4 DEF ClientStep, set_record, set_configure,
         preview_geometry, queue_preview, set_preview, clear_preview, wait_for_stop,
         preview_stopped, stop_streaming, set_picture, start_recording, stop_recording,
         take_preview_lock, queue_released, release_flags, Frees
  <2> QED BY <2>1, <2>2
<1>4. CASE UNCHANGED vars
  BY <1>0, <1>4 DEF vars, threadVars, clientVars, driverVars
<1> QED BY <1>1, <1>2, <1>3, <1>4 DEF Next

(* MsgInv: a recording, once started, goes on. *)
Rolling == record \/ record_start \/ Recorded \/ In({"recStart"}) \/ tpc \in Switches

LEMMA MsgThread ==
    ASSUME BaseInv, ThreadStep, ~ msgVideo
    PROVE  ~ Rolling'
<1> USE DEF Rolling, Recorded, Switches, Go, clientVars, recordVars
<1>0. ~ Rolling /\ MsgInv /\ TypeOK
  BY BaseFacts DEF MsgInv
<1>a. ASSUME UNCHANGED <<record, record_start, held, preview_lock, pc>>,
             tpc' \notin {"deliver", "kept"} \union Switches
      PROVE  ~ Rolling'
  BY <1>0, <1>a DEF In
<1>1. CASE begin \/ check_picture \/ check_exit \/ park \/ wake_up \/ stream_on
  BY <1>1, <1>a DEF begin, check_picture, check_exit, park, wake_up, stream_on
<1>2. CASE check_preview
  <2>1. \A c \in Clients : pc'[c] = pc[c] \/ (pc[c] = "stWait" /\ pc'[c] = "stWoken")
    BY <1>0, ThreadFacts DEF ThreadLeaves
  <2>2. /\ ~ In({"rfLock", "rfQueue"})' /\ ~ In({"recStart"})'
    BY <1>0, <2>1 DEF In
  <2> QED BY <1>0, <1>2, <2>2 DEF check_preview
<1>3. CASE stop_on_error \/ poll \/ dequeue_frame
  BY <1>3, <1>a DEF stop_on_error, poll, dequeue_frame
<1>4. CASE record_frame \/ deliver_frame \/ show_frame \/ hand_over \/ queue_frame
  <2>1. UNCHANGED <<record, record_start, pc>>
    BY <1>4 DEF record_frame, deliver_frame, show_frame, hand_over, queue_frame,
       Unchanged_frame_done
  <2>2. ~ preview_lock' /\ held' = {} /\ tpc' \notin {"deliver", "kept"} \union Switches
    BY <1>0, <1>4 DEF record_frame, deliver_frame, show_frame, hand_over, queue_frame
  <2> QED BY <1>0, <2>1, <2>2 DEF In
<1>5. CASE start_record
  BY <1>0, <1>5, <1>a DEF start_record
<1>6. CASE stop_record
  <2>1. UNCHANGED <<record_start, held, preview_lock, pc>> /\ tpc' = "top" /\ ~ record'
    BY <1>0, <1>6 DEF stop_record, Unchanged_switch
  <2> QED BY <1>0, <2>1 DEF In
<1>7. CASE switch_off \/ switch_queue \/ switch_on
  BY <1>0, <1>7 DEF switch_off, switch_queue, switch_on
<1>8. CASE picture_stop \/ picture_queue \/ picture_on \/ picture_shot \/ picture_off
  BY <1>8, <1>a DEF picture_stop, picture_queue, picture_on, picture_shot, picture_off,
     Unchanged_picture
<1>9. CASE picture_restore \/ picture_resume \/ picture_last \/ picture_deliver
  BY <1>9, <1>a DEF picture_restore, picture_resume, picture_last, picture_deliver,
     Unchanged_picture
<1> QED BY <1>1, <1>2, <1>3, <1>4, <1>5, <1>6, <1>7, <1>8, <1>9 DEF ThreadStep

LEMMA MsgClient ==
    ASSUME "stop_recording" \notin Calls, BaseInv,
           NEW c \in Clients, Request(c) \/ ClientStep(c)
    PROVE  (msgVideo => msgVideo') /\ (Rolling' => msgVideo')
<1>0. (Rolling => msgVideo) /\ MsgInv /\ pc \in [Clients -> ClientPC]
  BY BaseFacts DEF MsgInv, Rolling
<1> USE DEF Move, threadVars, clientVars, recordVars, Go
<1>a. ASSUME UNCHANGED <<msgVideo, held, preview_lock, record, record_start>>,
             tpc' = tpc \/ tpc' \in {"woken", "start"},
             pc' = pc \/ \E to \in ClientPC \ {"recStart", "rfLock", "rfQueue"} :
                            pc' = [pc EXCEPT ![c] = to]
      PROVE  (msgVideo => msgVideo') /\ (Rolling' => msgVideo')
  <2>1. /\ In({"rfLock", "rfQueue"})' => In({"rfLock", "rfQueue"})
        /\ In({"recStart"})' => In({"recStart"})
    BY <1>0, <1>a DEF In
  <2> QED BY <1>0, <1>a, <2>1 DEF Rolling, Recorded, Switches
<1>1. CASE \/ set_parameters(c) \/ start_preview(c) \/ stop_preview(c) \/ take_picture(c)
           \/ cancel_picture(c) \/ v4l_cam_open(c)
  BY <1>1, <1>a DEF set_parameters, start_preview, stop_preview, take_picture,
     cancel_picture, v4l_cam_open, ClientPC
<1>2. CASE enable_msg_type(c)
  BY <1>2 DEF enable_msg_type
<1>3. CASE disable_msg_type(c)
  BY <1>3 DEF disable_msg_type, CanCall
<1>4. CASE \E b \in Bufs : release_recording_frame(c, b)
  <2>1. Rolling
    BY <1>4 DEF release_recording_frame, Rolling, Recorded
  <2> QED BY <1>0, <1>4, <2>1 DEF release_recording_frame
<1>5. CASE release(c)
  <2>1. /\ ~ msgVideo /\ ~ msgVideo' /\ ~ record' /\ tpc' = tpc
        /\ UNCHANGED <<held, preview_lock, record_start>>
        /\ pc' = [pc EXCEPT ![c] = "relPicture"]
    BY <1>5 DEF release
  <2>2. ~ In({"rfLock", "rfQueue"})' /\ ~ In({"recStart"})'
    BY <1>0, <2>1 DEF In, Rolling, Recorded
  <2> QED BY <1>0, <2>1, <2>2 DEF Rolling, Recorded
<1>6. CASE start_recording(c)
  <2>1. Rolling /\ msgVideo' = msgVideo
    BY <1>6 DEF start_recording, Rolling, In
  <2> QED BY <1>0, <2>1
<1>7. CASE take_preview_lock(c) \/ queue_released(c)
  <2>1. Rolling /\ msgVideo' = msgVideo
    BY <1>7 DEF take_preview_lock, queue_released, Rolling, Recorded, In
  <2> QED BY <1>0, <2>1
<1>8. CASE \/ set_record(c) \/ set_configure(c) \/ preview_geometry(c) \/ queue_preview(c)
           \/ clear_preview(c) \/ wait_for_stop(c) \/ preview_stopped(c) \/ stop_streaming(c)
           \/ set_picture(c)
  BY <1>8, <1>a DEF set_record, set_configure, preview_geometry, queue_preview, clear_preview,
     wait_for_stop, preview_stopped, stop_streaming, set_picture, ClientPC
<1>9. CASE stop_recording(c)
  BY <1>0, <1>9 DEF stop_recording, MsgInv, In
<1>10. CASE set_preview(c) \/ release_signal(c)
  BY <1>10, <1>a DEF set_preview, release_signal, SignalPreview, ClientPC, InRelease
<1>11. CASE release_flags(c) \/ release_streaming(c) \/ release_join(c)
  BY <1>11, <1>a DEF release_flags, release_streaming, release_join, ClientPC, InRelease
<1> QED BY <1>1, <1>2, <1>3, <1>4, <1>5, <1>6, <1>7, <1>8, <1>9, <1>10, <1>11
        DEF Request, ClientStep

LEMMA MsgKept ==
    ASSUME "stop_recording" \notin Calls, BaseInv, [Next]_vars
    PROVE  MsgInv'
<1>0. MsgInv /\ TypeOK /\ pc \in [Clients -> ClientPC]
      /\ frame \in [Clients -> Bufs \union {NoBuf}]
  BY BaseFacts
<1>1. CASE ThreadStep
  <2>1. ThreadLeaves
    BY <1>0, <1>1, ThreadFacts
  <2>2. Rolling' => msgVideo'
    BY <1>1, <2>1, MsgThread DEF ThreadLeaves
  <2>3. ~ record_stop' /\ ~ In({"recStop"})' /\ tpc' # "start"
    BY <1>0, <2>1 DEF MsgInv, ThreadLeaves, In
  <2>4. \A c \in Clients : ~ Frees(c)' => frame'[c] = NoBuf
    BY <1>0, <2>1 DEF MsgInv, ThreadLeaves, Frees
  <2> QED BY <2>2, <2>3, <2>4 DEF MsgInv, Rolling
<1>2. ASSUME NEW c \in Clients, Request(c) \/ ClientStep(c) PROVE MsgInv'
  <2>1. Rolling' => msgVideo'
    BY <1>2, MsgClient
  <2> USE DEF Move, threadVars, clientVars, recordVars, Frees
  <2>2. /\ record_stop' = record_stop \/ stop_recording(c)
        /\ tpc' = "start" => need_init' = "unset"
        /\ frame' = frame \/ Frees(c) \/ \E b \in Bufs : release_recording_frame(c, b)
    <3>1. CASE Request(c)
      BY <1>0, <3>1 DEF Request, set_parameters, start_preview, stop_preview, take_picture,
         cancel_picture, enable_msg_type, disable_msg_type, release_recording_frame, release,
         v4l_cam_open, MsgInv, Go
    <3>2. CASE ClientStep(c)
      BY <1>0, <3>2 DEF ClientStep, set_record, set_configure, preview_geometry, queue_preview,
         set_preview, clear_preview, wait_for_stop, preview_stopped, stop_streaming,
         set_picture, start_recording, stop_recording, take_preview_lock, queue_released,
         release_flags, release_streaming, release_signal, release_join, MsgInv, Go,
         SignalPreview, RestOfThread
    <3> QED BY <1>2, <3>1, <3>2
  <2>3. /\ pc' = pc \/ \E to \in ClientPC \ {"recStop"} : pc' = [pc EXCEPT ![c] = to]
        /\ Frees(c) => Frees(c)' \/ frame' = [frame EXCEPT ![c] = NoBuf]
        /\ Frees(c) => frame' = frame \/ frame' = [frame EXCEPT ![c] = NoBuf]
        /\ \A b \in Bufs : release_recording_frame(c, b) =>
              pc' = [pc EXCEPT ![c] = "rfLock"] /\ frame' = [frame EXCEPT ![c] = b]
    <3>1. CASE Request(c)
      BY <1>0, <3>1 DEF Request, set_parameters, start_preview, stop_preview, take_picture,
         cancel_picture, enable_msg_type, disable_msg_type, release_recording_frame, release,
         v4l_cam_open, CanCall, ClientPC, InRelease
    <3>2. CASE ClientStep(c)
      <4>1. CASE \/ set_record(c) \/ set_configure(c) \/ preview_geometry(c) \/ queue_preview(c)
                 \/ set_preview(c) \/ clear_preview(c) \/ wait_for_stop(c)
                 \/ preview_stopped(c) \/ stop_streaming(c) \/ set_picture(c)
                 \/ start_recording(c) \/ stop_recording(c) \/ release_flags(c)
                 \/ release_streaming(c) \/ release_signal(c) \/ release_join(c)
        BY <1>0, <4>1 DEF set_record, set_configure, preview_geometry, queue_preview,
           set_preview, clear_preview, wait_for_stop, preview_stopped, stop_streaming,
           set_picture, start_recording, stop_recording, release_flags, release_streaming,
           release_signal, release_join, release_recording_frame, ClientPC, InRelease
      <4>2. CASE take_preview_lock(c) \/ queue_released(c)
        BY <1>0, <4>2 DEF take_preview_lock, queue_released, release_recording_frame,
           ClientPC, InRelease
      <4> QED BY <3>2, <4>1, <4>2 DEF ClientStep
    <3> QED BY <1>2, <3>1, <3>2
  <2>4. ~ record_stop' /\ ~ In({"recStop"})'
    BY <1>0, <2>2, <2>3 DEF MsgInv, In, stop_recording
  <2>5. \A d \in Clients : ~ Frees(d)' => frame'[d] = NoBuf
    BY <1>0, <2>2, <2>3 DEF MsgInv
  <2> QED BY <2>1, <2>2, <2>4, <2>5 DEF MsgInv, Rolling
<1>3. CASE UNCHANGED vars
  BY <1>0, <1>3 DEF MsgInv, Recorded, In, Frees, vars, threadVars, clientVars, recordVars
<1> QED BY <1>1, <1>2, <1>3 DEF Next

LEMMA BaseKept ==
    ASSUME "stop_recording" \notin Calls, BaseInv, [Next]_vars
    PROVE  BaseInv'
  BY StopKeeps, FreshKept, GoneKept, MsgKept DEF BaseInv

LEMMA BaseInit == Init => BaseInv
<1> SUFFICES ASSUME Init PROVE BaseInv
  OBVIOUS
<1>1. FreshInv /\ GoneInv
  BY DEF Init, FreshInv, GoneInv, In, Gone, InRelease
<1>2. MsgInv
  BY DEF Init, MsgInv, Recorded, In, Frees, Switches
<1> QED BY <1>1, <1>2, StopInit DEF BaseInv

-----------------------------------------------------------------------------
(* A preview that is off *)

(* The thread has met no error, but after a release. *)
Calm == tpc \in {"failed", "onFailed"} => exit

(* The preview is off, and no method is about to make it so. *)
Resting == ~ exit /\ ~ preview /\ ~ In(Stops \union InRelease)

(* Until it has looked at preview the thread takes no frame, only the      *)
(* pictures of a preview that was on.                                      *)
UnsetInv ==
    need_init = "unset" =>
      /\ tpc \in {"start", "top", "chkPreview"} \union PicPlaces
      /\ Resting => tpc \notin PicPlaces /\ ~ picture /\ ~ In({"tpSet"})

(* With the preview off the stream is off, the driver has buffers only for *)
(* the preview about to be set, and the thread is about to wait.           *)
OffInv ==
    Resting => /\ ~ streaming
               /\ In({"spSet"}) \/ queued = {}
               /\ tpc \in {"chkExit", "toPark", "parked"} \/ need_init = "unset"

(* A preview is not started while one is on, nor stopped during recording. *)
StartInv == In(Starts) => ~ preview /\ ~ exit
RecordOn == {"idle", "recStart", "rfLock", "rfQueue", "setRecord", "setConfigure"}
MessageInv ==
    /\ msgVideo => preview /\ \A c \in Clients : pc[c] \in RecordOn
    /\ set = "record" => record
    /\ tpc \in Switches => set = "preview" /\ ~ record

RestInv == UnsetInv /\ OffInv /\ StartInv /\ MessageInv

\* a new thread finds everything off
LEMMA OpenRests ==
    ASSUME BaseInv, NEW c \in Clients, v4l_cam_open(c)
    PROVE  /\ RestInv' /\ ~ record' /\ ~ Recorded' /\ Calm'
           /\ tpc' = "start" /\ need_init' = "unset"
<1>0. FreshInv /\ GoneInv /\ MsgInv /\ TypeOK
  BY BaseFacts
<1>1. /\ exit /\ \A d \in Clients : pc[d] = "idle"
      /\ tpc' = "start" /\ set' = "preview" /\ need_init' = "unset"
      /\ UNCHANGED <<clientVars, configured, picture, preview, recordVars, driverVars>>
  BY DEF v4l_cam_open, Go
<1>2. ~ preview /\ ~ picture /\ ~ msgVideo /\ ~ streaming /\ queued = {}
  BY <1>0, <1>1 DEF FreshInv, GoneInv, In, Gone
<1>3. ~ record /\ ~ Recorded
  BY <1>0, <1>2 DEF MsgInv
<1>4. \A d \in Clients : pc'[d] = "idle"
  BY <1>1 DEF clientVars
<1>5. (UnsetInv /\ OffInv /\ StartInv)'
  BY <1>1, <1>2, <1>4 DEF UnsetInv, OffInv, StartInv, In, Starts, PicPlaces, Shots,
     driverVars, recordVars
<1>6. MessageInv'
  BY <1>1, <1>2 DEF MessageInv, Switches, recordVars
<1>7. ~ record' /\ ~ Recorded'
  BY <1>1, <1>3, <1>4 DEF Recorded, In, recordVars
<1> QED BY <1>1, <1>5, <1>6, <1>7 DEF RestInv, Calm

(* The thread turns a preview off only after an error. *)
LEMMA PreviewKept ==
    ASSUME BaseInv, MessageInv, Calm, ~ exit, ThreadStep
    PROVE  preview' = preview
<1>1. CASE begin \/ check_picture \/ check_preview \/ check_exit \/ park \/ wake_up \/ stream_on
  BY <1>1 DEF begin, check_picture, check_preview, check_exit, park, wake_up, stream_on
<1>2. CASE stop_on_error
  BY <1>2 DEF stop_on_error, Calm
<1>3. CASE poll \/ dequeue_frame \/ record_frame \/ deliver_frame \/ show_frame
  BY <1>3 DEF poll, dequeue_frame, record_frame, deliver_frame, show_frame,
     Unchanged_frame_done
<1>4. CASE hand_over \/ queue_frame \/ start_record
  BY <1>4 DEF hand_over, queue_frame, start_record, Unchanged_frame_done
<1>5. CASE stop_record
  BY <1>5 DEF stop_record
<1>6. CASE switch_off \/ switch_queue \/ switch_on
  <2>1. tpc \in Switches /\ (preview' = preview \/ SwitchEnds(FALSE) \/ SwitchEnds(TRUE))
    BY <1>6 DEF switch_off, switch_queue, switch_on, Switches
  <2>2. preview \in BOOLEAN
    BY BaseFacts DEF TypeOK, FlagTypes
  <2> QED BY <2>1, <2>2 DEF SwitchEnds, MessageInv
<1>7. CASE picture_stop \/ picture_queue \/ picture_on \/ picture_shot \/ picture_off
  BY <1>7 DEF picture_stop, picture_queue, picture_on, picture_shot, picture_off,
     Unchanged_picture
<1>8. CASE picture_restore \/ picture_resume \/ picture_last \/ picture_deliver
  BY <1>8 DEF picture_restore, picture_resume, picture_last, picture_deliver,
     Unchanged_picture
<1> QED BY <1>1, <1>2, <1>3, <1>4, <1>5, <1>6, <1>7, <1>8 DEF ThreadStep

LEMMA ThreadRests ==
    ASSUME BaseInv, MessageInv, Calm, ThreadStep, Resting'
    PROVE  Resting
<1>1. ThreadLeaves
  BY BaseFacts, ThreadFacts
<1>2. ~ exit /\ preview' = preview
  BY <1>1, PreviewKept DEF Resting, ThreadLeaves
<1>3. ~ In(Stops \union InRelease)
  BY <1>1 DEF ThreadLeaves, Resting, In, Stops, InRelease
<1> QED BY <1>2, <1>3 DEF Resting

\* with the preview off it only goes to its wait
LEMMA RestingThread ==
    ASSUME BaseInv, UnsetInv, OffInv, Resting, ThreadStep
    PROVE  begin \/ check_picture \/ check_preview \/ check_exit \/ park
<1>0. tpc \in {"start", "top", "chkPreview", "chkExit", "toPark", "parked"}
  BY DEF UnsetInv, OffInv
<1> QED BY <1>0 DEF ThreadStep, wake_up, stream_on, stop_on_error, poll, dequeue_frame,
     record_frame, deliver_frame, show_frame, hand_over, queue_frame, start_record,
     stop_record, switch_off, switch_queue, switch_on, picture_stop, picture_queue,
     picture_on, picture_shot, picture_off, picture_restore, picture_resume, picture_last,
     picture_deliver

(* What every step of a client leaves alone. *)
ClientLeaves(c) ==
    /\ UNCHANGED <<set, need_init, missed, cur>>
    /\ tpc' = tpc \/ (tpc = "parked" /\ tpc' = "woken" /\ (set_preview(c) \/ release_signal(c)))
    /\ \A d \in Clients : d # c => pc'[d] = pc[d]

LEMMA ClientFacts ==
    ASSUME TypeOK, NEW c \in Clients, Request(c) \/ ClientStep(c), ~ v4l_cam_open(c)
    PROVE  ClientLeaves(c)
<1> USE DEF ClientLeaves, Move, threadVars, clientVars
<1>0. pc \in [Clients -> ClientPC]
  BY DEF TypeOK, PlaceTypes
<1>1. CASE Request(c)
  BY <1>0, <1>1 DEF Request, set_parameters, start_preview, stop_preview, take_picture,
     cancel_picture, enable_msg_type, disable_msg_type, release_recording_frame, release
<1>2. CASE set_preview(c) \/ release_signal(c)
  BY <1>0, <1>2 DEF set_preview, release_signal, SignalPreview, RestOfThread, Go
<1>3. CASE ClientStep(c) /\ ~ set_preview(c) /\ ~ release_signal(c)
  BY <1>0, <1>3 DEF ClientStep, set_record, set_configure, preview_geometry, queue_preview,
     clear_preview, wait_for_stop, preview_stopped, stop_streaming, set_picture,
     start_recording, stop_recording, take_preview_lock, queue_released, release_flags,
     release_streaming, release_join
<1> QED BY <1>1, <1>2, <1>3

(* Only the end of stop_preview leaves a preview off that was on. *)
LEMMA ClientRests ==
    ASSUME BaseInv, NEW c \in Clients, Request(c) \/ ClientStep(c), ~ v4l_cam_open(c), Resting'
    PROVE  Resting \/ (stop_streaming(c) /\ tpc = "parked")
<1> USE DEF Resting, In, Move
<1>0. /\ TypeOK /\ FreshInv /\ StopPlaces /\ pc \in [Clients -> ClientPC]
  BY BaseFacts
<1>1. /\ ~ exit' /\ ~ preview' /\ \A d \in Clients : pc'[d] \notin Stops \union InRelease
      /\ \A d \in Clients : d # c => pc[d] \notin Stops \union InRelease
  BY <1>0, ClientFacts DEF ClientLeaves
<1>2. CASE Request(c)
  <2>1. pc[c] = "idle" /\ UNCHANGED <<exit, preview>>
    BY <1>2, <1>1 DEF Request, set_parameters, start_preview, stop_preview, take_picture,
       cancel_picture, enable_msg_type, disable_msg_type, release_recording_frame, release,
       CanCall, Unchanged_flags
  <2> QED BY <1>1, <2>1 DEF Stops, InRelease
<1>3. CASE clear_preview(c) \/ wait_for_stop(c) \/ preview_stopped(c)
  BY <1>0, <1>1, <1>3 DEF clear_preview, wait_for_stop, preview_stopped, Stops
<1>4. CASE stop_streaming(c)
  BY <1>0, <1>1, <1>4 DEF stop_streaming, StopPlaces, FreshInv, Unchanged_flags
<1>5. CASE release_flags(c) \/ release_streaming(c) \/ release_signal(c)
  BY <1>0, <1>1, <1>5 DEF release_flags, release_streaming, release_signal, InRelease
<1>6. CASE release_join(c)
  BY <1>0, <1>1, <1>6 DEF release_join, FreshInv, Unchanged_flags
<1>7. CASE \/ set_record(c) \/ set_configure(c) \/ preview_geometry(c) \/ queue_preview(c)
           \/ set_preview(c) \/ set_picture(c) \/ start_recording(c) \/ stop_recording(c)
           \/ take_preview_lock(c) \/ queue_released(c)
  <2>1. pc[c] \notin Stops \union InRelease
    BY <1>7 DEF set_record, set_configure, preview_geometry, queue_preview, set_preview,
       set_picture, start_recording, stop_recording, take_preview_lock, queue_released,
       Stops, InRelease
  <2>2. ~ exit /\ ~ preview
    BY <1>1, <1>7 DEF set_record, set_configure, preview_geometry, queue_preview, set_preview,
       set_picture, start_recording, stop_recording, take_preview_lock, queue_released,
       Unchanged_flags
  <2> QED BY <1>1, <2>1, <2>2
<1> QED BY <1>2, <1>3, <1>4, <1>5, <1>6, <1>7 DEF ClientStep

(* UnsetInv *)
LEMMA UnsetKept ==
    ASSUME BaseInv, RestInv, Calm, ~ missed', [Next]_vars
    PROVE  UnsetInv'
<1>0. /\ UnsetInv /\ OffInv /\ MessageInv /\ FreshInv /\ TypeOK /\ OneMethod /\ MsgInv
      /\ pc \in [Clients -> ClientPC]
  BY BaseFacts DEF RestInv
<1> SUFFICES ASSUME need_init' = "unset"
             PROVE  /\ tpc' \in {"start", "top", "chkPreview"} \union PicPlaces
                    /\ Resting' => tpc' \notin PicPlaces /\ ~ picture' /\ ~ In({"tpSet"})'
  BY DEF UnsetInv
<1>1. CASE ThreadStep
  <2>1. ThreadLeaves /\ (Resting' => Resting)
    BY <1>0, <1>1, ThreadFacts, ThreadRests
  <2>2. need_init = "unset" /\ ~ check_preview
    BY <1>0, <1>1 DEF ThreadStep, begin, check_picture, check_preview, check_exit, park,
       wake_up, stream_on, stop_on_error, poll, dequeue_frame, record_frame, deliver_frame,
       show_frame, hand_over, queue_frame, start_record, stop_record, switch_off,
       switch_queue, switch_on, picture_stop, picture_queue, picture_on, picture_shot,
       picture_off, picture_restore, picture_resume, picture_last, picture_deliver,
       Unchanged_frame_done, Unchanged_switch, Unchanged_picture
  <2>3. tpc \in {"start", "top", "chkPreview"} \union PicPlaces
    BY <1>0, <2>2 DEF UnsetInv
  <2>4. begin \/ check_picture \/ (tpc \in PicPlaces /\ tpc' \in PicPlaces \union {"chkPreview"})
    <3> USE DEF PicPlaces, Shots, Go
    <3>1. CASE picture_stop \/ picture_queue \/ picture_on \/ picture_shot \/ picture_off
      BY <3>1 DEF picture_stop, picture_queue, picture_on, picture_shot, picture_off
    <3>2. CASE picture_restore \/ picture_resume \/ picture_last \/ picture_deliver
      BY <3>2 DEF picture_restore, picture_resume, picture_last, picture_deliver
    <3> QED BY <1>1, <2>2, <2>3, <3>1, <3>2 DEF ThreadStep, check_exit, park, wake_up,
         stream_on, stop_on_error, poll, dequeue_frame, record_frame, deliver_frame,
         show_frame, hand_over, queue_frame, start_record, stop_record, switch_off,
         switch_queue, switch_on
  <2>5. tpc' \in {"start", "top", "chkPreview"} \union PicPlaces
    BY <2>4 DEF begin, check_picture, Go, PicPlaces
  <2>6. Resting => tpc' \notin PicPlaces
    BY <1>0, <2>2, <2>4 DEF UnsetInv, begin, check_picture, Go, PicPlaces, Shots
  <2>7. Resting => ~ picture' /\ ~ In({"tpSet"})'
    BY <1>0, <2>1, <2>2 DEF UnsetInv, ThreadLeaves, In
  <2> QED BY <2>1, <2>5, <2>6, <2>7
<1>2. ASSUME NEW c \in Clients, v4l_cam_open(c) PROVE UnsetInv'
  BY <1>2, OpenRests DEF RestInv
<1>3. ASSUME NEW c \in Clients, Request(c) \/ ClientStep(c), ~ v4l_cam_open(c) PROVE UnsetInv'
  <2>1. ClientLeaves(c) /\ (Resting' => Resting \/ tpc = "parked")
    BY <1>0, <1>3, ClientFacts, ClientRests
  <2>2. need_init = "unset" /\ tpc # "parked" /\ tpc' = tpc
    BY <1>0, <2>1 DEF ClientLeaves, UnsetInv, PicPlaces, Shots
  <2>3. Resting' => Resting
    BY <2>1, <2>2
  <2>4. ASSUME Resting PROVE ~ picture' /\ ~ In({"tpSet"})'
    <3>1. ~ preview /\ ~ picture /\ ~ In({"tpSet"})
      BY <1>0, <2>2, <2>4 DEF Resting, UnsetInv
    <3>2. ~ take_picture(c) /\ ~ set_picture(c)
      BY <3>1 DEF take_picture, set_picture, In
    <3>3. pc'[c] # "tpSet" /\ (picture' = picture \/ ~ picture')
      <4> USE DEF Move, clientVars, Unchanged_flags
      <4>1. CASE Request(c)
        BY <1>0, <1>3, <3>1, <3>2, <4>1 DEF Request, set_parameters, start_preview,
           stop_preview, cancel_picture, enable_msg_type, disable_msg_type,
           release_recording_frame, release, In
      <4>2. CASE ClientStep(c)
        BY <1>0, <3>2, <4>2 DEF ClientStep, set_record, set_configure, preview_geometry,
           queue_preview, set_preview, clear_preview, wait_for_stop, preview_stopped,
           stop_streaming, start_recording, stop_recording, take_preview_lock,
           queue_released, release_flags, release_streaming, release_signal, release_join
      <4> QED BY <1>3, <4>1, <4>2
    <3> QED BY <2>1, <3>1, <3>3 DEF ClientLeaves, In
  <2> QED BY <1>0, <2>2, <2>3, <2>4 DEF UnsetInv
<1>4. CASE UNCHANGED vars
  BY <1>0, <1>4 DEF UnsetInv, Resting, In, vars, threadVars, clientVars
<1> QED BY <1>1, <1>2, <1>3, <1>4 DEF Next, UnsetInv

(* OffInv *)
LEMMA OffKept ==
    ASSUME BaseInv, RestInv, Calm, ~ missed', [Next]_vars
    PROVE  OffInv'
<1>0. /\ UnsetInv /\ OffInv /\ StartInv /\ MessageInv /\ FreshInv /\ TypeOK /\ OneMethod
      /\ MsgInv /\ StopPlaces /\ pc \in [Clients -> ClientPC]
  BY BaseFacts DEF RestInv
<1> SUFFICES ASSUME Resting'
             PROVE  /\ ~ streaming' /\ (In({"spSet"})' \/ queued' = {})
                    /\ tpc' \in {"chkExit", "toPark", "parked"} \/ need_init' = "unset"
  BY DEF OffInv
<1>1. CASE ThreadStep
  <2>1. ThreadLeaves /\ Resting
    BY <1>0, <1>1, ThreadFacts, ThreadRests
  <2>2. begin \/ check_picture \/ check_preview \/ check_exit \/ park
    BY <1>0, <1>1, <2>1, RestingThread
  <2>3. UNCHANGED <<streaming, queued>>
    BY <2>2 DEF begin, check_picture, check_preview, check_exit, park, driverVars
  <2>4. In({"spSet"}) => In({"spSet"})'
    BY <2>1 DEF ThreadLeaves, In
  <2>5. tpc' \in {"chkExit", "toPark", "parked"} \/ need_init' = "unset"
    <3>1. CASE begin \/ check_picture
      BY <1>0, <2>1, <3>1 DEF begin, check_picture, OffInv
    <3>2. CASE check_preview \/ check_exit \/ park
      BY <2>1, <3>2 DEF check_preview, check_exit, park, Go, Resting
    <3> QED BY <2>2, <3>1, <3>2
  <2> QED BY <1>0, <2>1, <2>3, <2>4, <2>5 DEF OffInv
<1>2. ASSUME NEW c \in Clients, v4l_cam_open(c) PROVE OffInv'
  BY <1>2, OpenRests DEF RestInv
<1>3. ASSUME NEW c \in Clients, Request(c) \/ ClientStep(c), ~ v4l_cam_open(c) PROVE OffInv'
  <2>1. ClientLeaves(c) /\ (Resting \/ (stop_streaming(c) /\ tpc = "parked"))
    BY <1>0, <1>3, ClientFacts, ClientRests
  <2>2. CASE stop_streaming(c) /\ tpc = "parked"
    BY <2>2 DEF stop_streaming, v4l_cam_streaming_stop, threadVars, OffInv
  <2>3. CASE Resting
    <3>1. /\ ~ exit /\ ~ preview /\ ~ streaming /\ (In({"spSet"}) \/ queued = {})
          /\ tpc \in {"chkExit", "toPark", "parked"} \/ need_init = "unset"
          /\ ~ set_preview(c) /\ ~ release_signal(c)
      BY <1>0, <2>3 DEF Resting, OffInv, In, InRelease, release_signal, set_preview
    <3>2. tpc' = tpc /\ need_init' = need_init
      BY <2>1, <3>1 DEF ClientLeaves
    <3> USE DEF Move, clientVars, driverVars
    <3>3. CASE queue_preview(c)
      <4>1. ~ In({"spSet"})
        BY <1>0, <3>3 DEF queue_preview, OneMethod, Busy, In
      <4>2. pc'[c] = "spSet" \/ v4l_cam_buf_queue_set(0)
        BY <1>0, <3>3 DEF queue_preview
      <4>3. v4l_cam_buf_queue_set(0) => queued' = queued
        BY CameraAssumption DEF v4l_cam_buf_queue_set, Bufs
      <4> QED BY <3>1, <3>2, <3>3, <4>1, <4>2, <4>3 DEF queue_preview, In, OffInv
    <3>4. CASE queue_released(c)
      <4>1. msgVideo
        BY <1>0, <3>4 DEF queue_released, MsgInv, Recorded, In
      <4> QED BY <1>0, <3>1, <4>1 DEF MessageInv
    <3>5. CASE Request(c)
      <4>1. \/ UNCHANGED <<streaming, queued>> /\ pc[c] = "idle"
            \/ v4l_cam_open(c) \/ cancel_picture(c)
        BY <3>5 DEF Request, set_parameters, start_preview, stop_preview, take_picture,
           enable_msg_type, disable_msg_type, release_recording_frame, release, CanCall
      <4>2. UNCHANGED <<streaming, queued>>
        BY <1>3, <4>1 DEF cancel_picture
      <4>3. In({"spSet"}) => In({"spSet"})'
        BY <1>3, <2>1, <4>1 DEF cancel_picture, ClientLeaves, In
      <4> QED BY <3>1, <3>2, <4>2, <4>3 DEF OffInv
    <3>6. CASE \/ set_record(c) \/ set_configure(c) \/ preview_geometry(c) \/ set_picture(c)
               \/ start_recording(c) \/ stop_recording(c) \/ take_preview_lock(c)
      <4>1. streaming' = streaming /\ queued' \in {queued, {}} /\ pc[c] # "spSet"
        BY <3>6 DEF set_record, set_configure, preview_geometry, set_picture, start_recording,
           stop_recording, take_preview_lock, v4l_cam_configure, configure_fails
      <4>2. In({"spSet"}) => In({"spSet"})'
        BY <2>1, <4>1 DEF ClientLeaves, In
      <4> QED BY <3>1, <3>2, <4>1, <4>2 DEF OffInv
    <3>7. CASE \/ clear_preview(c) \/ wait_for_stop(c) \/ preview_stopped(c) \/ stop_streaming(c)
               \/ release_flags(c) \/ release_streaming(c) \/ release_join(c)
      <4>1. streaming' \in {streaming, FALSE} /\ queued' \in {queued, {}} /\ pc[c] # "spSet"
        BY <3>7 DEF clear_preview, wait_for_stop, preview_stopped, stop_streaming,
           release_flags, release_streaming, release_join, v4l_cam_streaming_stop
      <4>2. In({"spSet"}) => In({"spSet"})'
        BY <2>1, <4>1 DEF ClientLeaves, In
      <4> QED BY <3>1, <3>2, <4>1, <4>2 DEF OffInv
    <3> QED BY <1>3, <3>1, <3>3, <3>4, <3>5, <3>6, <3>7 DEF ClientStep
  <2> QED BY <2>1, <2>2, <2>3
<1>4. CASE UNCHANGED vars
  BY <1>0, <1>4 DEF OffInv, Resting, In, vars, threadVars, clientVars, driverVars
<1> QED BY <1>1, <1>2, <1>3, <1>4 DEF Next, OffInv

(* StartInv *)
LEMMA StartKept ==
    ASSUME BaseInv, RestInv, Calm, ~ missed', [Next]_vars
    PROVE  StartInv'
<1>0. /\ StartInv /\ MessageInv /\ FreshInv /\ TypeOK /\ OneMethod
      /\ pc \in [Clients -> ClientPC]
  BY BaseFacts DEF RestInv
<1> SUFFICES ASSUME NEW d \in Clients, pc'[d] \in Starts PROVE ~ preview' /\ ~ exit'
  BY DEF StartInv, In
<1>1. CASE ThreadStep
  <2>1. ThreadLeaves
    BY <1>0, <1>1, ThreadFacts
  <2>2. pc[d] \in Starts
    BY <2>1 DEF ThreadLeaves, Starts
  <2> QED BY <1>0, <2>1, <2>2 DEF ThreadLeaves, StartInv, In
<1>2. ASSUME NEW c \in Clients, Request(c) \/ ClientStep(c) PROVE ~ preview' /\ ~ exit'
  <2> USE DEF Move, clientVars
  <2>1. CASE Request(c)
    <3>1. UNCHANGED <<preview, exit>> \/ v4l_cam_open(c)
      BY <2>1 DEF Request, set_parameters, start_preview, stop_preview, take_picture,
         cancel_picture, enable_msg_type, disable_msg_type, release_recording_frame, release,
         Unchanged_flags
    <3>2. pc'[d] = pc[d] \/ start_preview(c)
      BY <1>0, <2>1 DEF Request, set_parameters, stop_preview, take_picture, cancel_picture,
         enable_msg_type, disable_msg_type, release_recording_frame, release, v4l_cam_open,
         Starts
    <3>3. ~ v4l_cam_open(c)
      BY <3>2 DEF v4l_cam_open, start_preview, CanCall, Starts
    <3>4. ~ preview /\ ~ exit
      BY <1>0, <3>2 DEF start_preview, CanCall, StartInv, In
    <3> QED BY <3>1, <3>3, <3>4
  <2>2. CASE ClientStep(c)
    <3>1. pc[d] \in Starts
      BY <1>0, <2>2 DEF ClientStep, set_record, set_configure, preview_geometry, queue_preview,
         set_preview, clear_preview, wait_for_stop, preview_stopped, stop_streaming,
         set_picture, start_recording, stop_recording, take_preview_lock, queue_released,
         release_flags, release_streaming, release_signal, release_join, Starts
    <3>2. ~ preview /\ ~ exit
      BY <1>0, <3>1 DEF StartInv, In
    <3>3. c = d \/ Frees(c)
      <4>1. Busy(d) /\ (Busy(c) \/ Frees(c))
        BY <2>2, <3>1 DEF ClientStep, set_record, set_configure, preview_geometry,
           queue_preview, set_preview, clear_preview, wait_for_stop, preview_stopped,
           stop_streaming, set_picture, start_recording, stop_recording, take_preview_lock,
           queue_released, release_flags, release_streaming, release_signal, release_join,
           Starts, Busy, Frees, InRelease
      <4> QED BY <1>0, <4>1 DEF OneMethod
    <3>4. ~ set_preview(c)
      BY <1>0, <3>1, <3>3 DEF set_preview, Frees, Starts
    <3> QED BY <2>2, <3>1, <3>2, <3>3, <3>4 DEF ClientStep, set_record, set_configure,
         preview_geometry, queue_preview, clear_preview, wait_for_stop,
         preview_stopped, stop_streaming, set_picture, start_recording, stop_recording,
         take_preview_lock, queue_released, release_flags, release_streaming,
         release_signal, release_join, Starts, Frees, Unchanged_flags
  <2> QED BY <1>2, <2>1, <2>2
<1>3. CASE UNCHANGED vars
  BY <1>0, <1>3 DEF StartInv, In, vars, clientVars
<1> QED BY <1>1, <1>2, <1>3 DEF Next

(* MessageInv *)
LEMMA MessageKept ==
    ASSUME "stop_recording" \notin Calls, BaseInv, RestInv, Calm, ~ missed', [Next]_vars
    PROVE  MessageInv'
<1>0. /\ StartInv /\ MessageInv /\ FreshInv /\ TypeOK /\ OneMethod /\ MsgInv
      /\ pc \in [Clients -> ClientPC] /\ FlagTypes /\ set \in {"preview", "record"}
  BY BaseFacts DEF RestInv, TypeOK, PlaceTypes
<1> USE DEF Switches, RecordOn
<1>1. CASE ThreadStep
  <2>1. ThreadLeaves
    BY <1>0, <1>1, ThreadFacts
  <2>2. msgVideo => ~ exit /\ preview' = preview
    BY <1>0, <1>1, PreviewKept DEF FreshInv
  <2>3. msgVideo' => preview' /\ \A c \in Clients : pc'[c] \in RecordOn
    BY <1>0, <2>1, <2>2 DEF ThreadLeaves, MessageInv
  <2>4. /\ set' = "record" => record'
        /\ tpc' \in Switches => set' = "preview" /\ ~ record'
    <3> USE DEF Go
    <3>1. CASE start_record
      BY <1>0, <3>1 DEF start_record, MessageInv
    <3>2. CASE stop_record
      BY <1>0, <3>2 DEF stop_record, MessageInv, MsgInv
    <3>3. CASE switch_off \/ switch_queue \/ switch_on
      <4>1. \/ /\ UNCHANGED <<set, record>> /\ tpc \in Switches
            \/ SwitchEnds(FALSE) \/ SwitchEnds(TRUE)
        BY <3>3 DEF switch_off, switch_queue, switch_on
      <4>2. tpc \in Switches
        BY <3>3 DEF switch_off, switch_queue, switch_on
      <4>3. CASE UNCHANGED <<set, record>>
        BY <1>0, <4>2, <4>3 DEF MessageInv
      <4>4. CASE SwitchEnds(FALSE) \/ SwitchEnds(TRUE)
        <5>1. tpc' \in {"top", "recordStop"} /\ (set' = "record" => record')
          BY <4>4 DEF SwitchEnds
        <5> QED BY <5>1
      <4> QED BY <4>1, <4>3, <4>4
    <3>4. CASE \/ begin \/ check_picture \/ check_preview \/ check_exit \/ park \/ wake_up
               \/ stream_on \/ stop_on_error \/ poll \/ dequeue_frame
      <4>1. UNCHANGED <<set, record>> /\ tpc' \notin Switches
        BY <3>4 DEF begin, check_picture, check_preview, check_exit, park, wake_up, stream_on,
           stop_on_error, poll, dequeue_frame, recordVars
      <4> QED BY <1>0, <4>1 DEF MessageInv
    <3>5. CASE record_frame \/ deliver_frame \/ show_frame \/ hand_over \/ queue_frame
      <4>1. UNCHANGED <<set, record>> /\ tpc' \notin Switches
        BY <3>5 DEF record_frame, deliver_frame, show_frame, hand_over, queue_frame,
           Unchanged_frame_done
      <4> QED BY <1>0, <4>1 DEF MessageInv
    <3>6. CASE \/ picture_stop \/ picture_queue \/ picture_on \/ picture_shot \/ picture_off
               \/ picture_restore \/ picture_resume \/ picture_last \/ picture_deliver
      <4>1. UNCHANGED <<set, record>> /\ tpc' \notin Switches
        BY <3>6 DEF picture_stop, picture_queue, picture_on, picture_shot, picture_off,
           picture_restore, picture_resume, picture_last, picture_deliver,
           Unchanged_picture, recordVars
      <4> QED BY <1>0, <4>1 DEF MessageInv
    <3> QED BY <1>1, <3>1, <3>2, <3>3, <3>4, <3>5, <3>6 DEF ThreadStep
  <2> QED BY <2>3, <2>4 DEF MessageInv
<1>2. ASSUME NEW c \in Clients, v4l_cam_open(c) PROVE MessageInv'
  BY <1>2, OpenRests DEF RestInv
<1>3. ASSUME NEW c \in Clients, Request(c) \/ ClientStep(c), ~ v4l_cam_open(c) PROVE MessageInv'
  <2> USE DEF Move, threadVars, clientVars, recordVars, Unchanged_flags
  <2>1. ClientLeaves(c)
    BY <1>0, <1>3, ClientFacts
  <2>2. /\ set' = "record" => record
        /\ tpc' \in Switches => set' = "preview" /\ ~ record
    BY <1>0, <2>1 DEF ClientLeaves, MessageInv
  <2>3. record' = record \/ (record' = FALSE /\ release(c))
    BY <1>3 DEF Request, ClientStep, set_parameters, start_preview, stop_preview, take_picture,
       cancel_picture, enable_msg_type, disable_msg_type, release_recording_frame, release,
       v4l_cam_open, set_record, set_configure, preview_geometry, queue_preview, set_preview,
       clear_preview, wait_for_stop, preview_stopped, stop_streaming, set_picture,
       start_recording, stop_recording, take_preview_lock, queue_released, release_flags,
       release_streaming, release_signal, release_join
  <2>4. release(c) => ~ record
    BY <1>0 DEF release, MsgInv
  <2>5. msgVideo' => preview' /\ \A d \in Clients : pc'[d] \in RecordOn
    <3>1. CASE msgVideo
      <4>1. preview /\ \A d \in Clients : pc[d] \in RecordOn
        BY <1>0, <3>1 DEF MessageInv
      <4>2. CASE Request(c)
        <5>1. preview' = preview /\ pc'[c] \in RecordOn
          BY <1>0, <1>3, <3>1, <4>1, <4>2 DEF Request, set_parameters, start_preview,
             stop_preview, take_picture, cancel_picture, enable_msg_type, disable_msg_type,
             release_recording_frame, release, MsgInv, CanCall
        <5> QED BY <2>1, <4>1, <5>1 DEF ClientLeaves
      <4>3. CASE ClientStep(c)
        <5>1. pc[c] \in RecordOn
          BY <4>1
        <5>2. preview' = preview /\ pc'[c] \in RecordOn
          BY <1>0, <4>3, <5>1 DEF ClientStep, set_record, set_configure, preview_geometry,
             queue_preview, set_preview, clear_preview, wait_for_stop, preview_stopped,
             stop_streaming, set_picture, start_recording, stop_recording, take_preview_lock,
             queue_released, release_flags, release_streaming, release_signal, release_join,
             InRelease
        <5> QED BY <2>1, <4>1, <5>2 DEF ClientLeaves
      <4> QED BY <1>3, <4>2, <4>3
    <3>2. CASE ~ msgVideo
      <4>1. ~ msgVideo' \/ enable_msg_type(c)
        BY <1>3, <3>2 DEF Request, ClientStep, set_parameters, start_preview, stop_preview,
           take_picture, cancel_picture, enable_msg_type, disable_msg_type,
           release_recording_frame, release, v4l_cam_open, set_record, set_configure,
           preview_geometry, queue_preview, set_preview, clear_preview, wait_for_stop,
           preview_stopped, stop_streaming, set_picture, start_recording, stop_recording,
           take_preview_lock, queue_released, release_flags, release_streaming,
           release_signal, release_join
      <4>2. enable_msg_type(c) => preview' /\ \A d \in Clients : pc'[d] \in RecordOn
        BY <1>0 DEF enable_msg_type, CanCall, Frees
      <4> QED BY <4>1, <4>2
    <3> QED BY <3>1, <3>2
  <2> QED BY <2>2, <2>3, <2>4, <2>5, <1>0 DEF MessageInv
<1>4. CASE UNCHANGED vars
  BY <1>0, <1>4 DEF MessageInv, vars, threadVars, clientVars, recordVars
<1> QED BY <1>1, <1>2, <1>3, <1>4 DEF Next

LEMMA RestKept ==
    ASSUME "stop_recording" \notin Calls, BaseInv, RestInv, Calm, ~ missed', [Next]_vars
    PROVE  RestInv'
  BY UnsetKept, OffKept, StartKept, MessageKept DEF RestInv

\* a session starts over with a new thread; missed says it went wrong before
LEMMA MissedKept ==
    ASSUME TypeOK, [Next]_vars, missed, ~ missed'
    PROVE  \E c \in Clients : v4l_cam_open(c)
<1>1. CASE ThreadStep
  BY <1>1 DEF ThreadStep, begin, check_picture, check_preview, check_exit, park, wake_up,
     stream_on, stop_on_error, poll, dequeue_frame, record_frame, deliver_frame, show_frame,
     hand_over, queue_frame, start_record, stop_record, switch_off, switch_queue, switch_on,
     picture_stop, picture_queue, picture_on, picture_shot, picture_off, picture_restore,
     picture_resume, picture_last, picture_deliver, Unchanged_frame_done, Unchanged_switch,
     Unchanged_picture
<1>2. ASSUME NEW c \in Clients, Request(c) \/ ClientStep(c) PROVE v4l_cam_open(c)
  BY <1>2, ClientFacts DEF ClientLeaves
<1>3. CASE UNCHANGED vars
  BY <1>3 DEF vars, threadVars
<1> QED BY <1>1, <1>2, <1>3 DEF Next

LEMMA RestInit == Init => RestInv
<1> SUFFICES ASSUME Init PROVE RestInv
  OBVIOUS
<1>1. UnsetInv /\ OffInv /\ StartInv
  BY DEF Init, UnsetInv, OffInv, StartInv, Resting, In, Starts, PicPlaces, Shots
<1>2. MessageInv
  BY DEF Init, MessageInv, Switches
<1> QED BY <1>1, <1>2 DEF RestInv

ReadyInv == BaseInv /\ (missed \/ RestInv)

(* However the driver and the window fail, and whenever the clients call   *)
(* the methods but stop_recording: as long as the thread itself meets no   *)
(* error, the stream is off and the driver has no buffer whenever the      *)
(* preview is off, the thread parked and no method running.                *)
THEOREM CameraParkedIsReady ==
    ASSUME "stop_recording" \notin Calls
    PROVE  Spec /\ []PreviewUndisturbed => []ParkedIsReady
<1>1. Init => ReadyInv
  BY BaseInit, RestInit DEF ReadyInv
<1>2. ReadyInv /\ PreviewUndisturbed /\ [Next]_vars => ReadyInv'
  <2> SUFFICES ASSUME ReadyInv, PreviewUndisturbed, [Next]_vars PROVE missed' \/ RestInv'
    BY BaseKept DEF ReadyInv
  <2>1. CASE missed /\ ~ missed'
    <3>1. PICK c \in Clients : v4l_cam_open(c)
      BY <2>1, MissedKept, BaseFacts DEF ReadyInv
    <3> QED BY <3>1, OpenRests DEF ReadyInv
  <2>2. CASE ~ missed /\ ~ missed'
    BY <2>2, RestKept DEF ReadyInv, PreviewUndisturbed, Calm
  <2> QED BY <2>1, <2>2
<1>3. ReadyInv => ParkedIsReady
  <2> SUFFICES ASSUME ReadyInv, tpc = "parked", ~ preview, Quiet, ~ missed
               PROVE  ~ streaming /\ queued = {}
    BY DEF ParkedIsReady
  <2>1. ~ In(Gone) /\ ~ In(Stops \union InRelease) /\ ~ In({"spSet"})
    BY DEF Quiet, In, Gone, Stops, InRelease
  <2>2. ~ exit
    BY <2>1, BaseFacts DEF ReadyInv, GoneInv
  <2> QED BY <2>1, <2>2 DEF ReadyInv, RestInv, OffInv, Resting
<1> QED BY <1>1, <1>2, <1>3, PTL DEF Spec

-----------------------------------------------------------------------------
(* A preview that is on *)

(* No recording is stopped, the recorder has one frame at a time, and the  *)
(* driver and the window do what they are asked, but for REQBUFS and       *)
(* TRY_FMT: what a failing frame does is not asked here.                   *)
PlainUse == Faults \subseteq {"REQBUFS", "TRY_FMT"} /\ "stop_recording" \notin Calls
            /\ MaxHeld \in {0, 1}

(* While the thread works on frames the stream is on, and the driver gets  *)
(* the whole set when the stream starts again.                             *)
OnInv ==
    /\ ~ exit /\ tpc \in Working => streaming
    /\ ~ exit /\ preview /\ need_init # "unset"
         /\ tpc \in {"top", "chkPreview", "picLast", "picClear"} => streaming
    /\ tpc \in {"picRestore", "picResume", "switchQueue"} => queued = {}

(* No picture is taken of a preview that is recorded. *)
RecordInv ==
    /\ record /\ picture => tpc \in PicPlaces \union {"recordStop", "top"}
    /\ Recorded => record /\ ~ picture /\ tpc \notin PicPlaces

(* At most one recorded frame is out, at the recorder or coming back, and  *)
(* the driver does not have it.  The lock flag says that the thread has    *)
(* that frame, too: whoever is done second, it or the release, queues it.  *)
OneOut ==
    /\ \A c, d \in Clients : Frees(c) /\ Frees(d) => c = d
    /\ \A c \in Clients : Frees(c) => held = {} /\ frame[c] \notin queued
    /\ \A a, b \in held : a = b
    /\ held \intersect queued = {}
Nothing == held = {} /\ \A c \in Clients : ~ Frees(c)
LockInv ==
    /\ tpc = "deliver" => Nothing /\ preview_lock
    /\ preview_lock =>
         /\ tpc \in {"deliver", "show", "handover"} /\ held \subseteq {cur}
         /\ \A c \in Clients : Frees(c) => pc[c] = "rfLock" /\ frame[c] = cur
    /\ tpc \in {"show", "handover", "queue"} /\ ~ preview_lock => Nothing
CurInv ==
    /\ tpc \in Uses => cur \notin queued
    /\ tpc = "frame" => cur \notin held /\ \A c \in Clients : frame[c] # cur
FrameInv == OneOut /\ LockInv /\ CurInv

RunInv == Calm /\ OnInv /\ RecordInv /\ FrameInv
TurnInv == BaseInv /\ RestInv /\ RunInv

LEMMA TurnFacts ==
    ASSUME TurnInv
    PROVE  /\ UnsetInv /\ OffInv /\ StartInv /\ MessageInv
           /\ Calm /\ OnInv /\ RecordInv /\ FrameInv
           /\ CameraInv /\ TypeOK /\ FlagTypes /\ Carried /\ OneMethod /\ StopPlaces
           /\ FreshInv /\ GoneInv /\ MsgInv
           /\ pc \in [Clients -> ClientPC] /\ frame \in [Clients -> Bufs \union {NoBuf}]
           /\ queued \subseteq Bufs /\ NoBuf \notin Bufs
  BY BaseFacts DEF TurnInv, RestInv, RunInv

\* what a fault would do does not happen
LEMMA NoFault ==
    ASSUME PlainUse
    PROVE  /\ ~ May("STREAMON") /\ ~ May("DQBUF") /\ ~ May("QBUF") /\ ~ May("S_FMT")
           /\ ~ May("window") /\ "stop_recording" \notin Calls
  BY DEF PlainUse, May

\* a driver without buffers takes the whole set, and refuses none
LEMMA QueueSetAll ==
    ASSUME PlainUse, NEW n \in Nat, v4l_cam_buf_queue_set(n), queued = {}
    PROVE  n = NumBufs /\ n # 0 /\ queued' = Bufs
<1>1. n = NumBufs /\ n # 0
  BY NoFault, CameraAssumption DEF v4l_cam_buf_queue_set
<1>2. \A b \in Bufs : b < NumBufs
  BY CameraAssumption DEF Bufs
<1> QED BY <1>1, <1>2 DEF v4l_cam_buf_queue_set

(* OnInv *)
LEMMA OnThread ==
    ASSUME PlainUse, TurnInv, ~ missed', ThreadStep
    PROVE  OnInv' /\ Calm'
<1> USE DEF Go, Working, Uses, Calm, OnInv
<1>0. /\ OnInv /\ Calm /\ MsgInv /\ MessageInv /\ RecordInv /\ FrameInv
  BY TurnFacts
<1>1. CASE begin
  BY <1>0, <1>1 DEF begin, driverVars, MsgInv
<1>2. CASE check_picture \/ check_exit \/ park \/ wake_up
  BY <1>0, <1>2 DEF check_picture, check_exit, park, wake_up, driverVars
<1>3. CASE check_preview
  BY <1>0, <1>3 DEF check_preview, driverVars
<1>4. CASE stream_on \/ dequeue_frame
  BY <1>0, <1>4, NoFault DEF stream_on, dequeue_frame
<1>5. CASE stop_on_error \/ poll
  BY <1>0, <1>5 DEF stop_on_error, poll, driverVars
<1>6. CASE record_frame \/ deliver_frame \/ show_frame \/ hand_over
  BY <1>0, <1>6, NoFault DEF record_frame, deliver_frame, show_frame, hand_over,
     Unchanged_frame_done
<1>7. CASE queue_frame
  <2>1. tpc \in {"kept", "queue"} /\ UNCHANGED <<exit, preview, streaming, need_init>>
    BY <1>7 DEF queue_frame, Unchanged_frame_done
  <2>2. tpc = "kept" => Keep
    BY <1>0 DEF RecordInv, MsgInv, Recorded, Keep
  <2>3. tpc = "queue" => cur \notin queued
    BY <1>0 DEF FrameInv, CurInv
  <2>4. tpc' = "recordStart"
    BY <1>7, <2>1, <2>2, <2>3, NoFault DEF queue_frame
  <2> QED BY <1>0, <2>1, <2>4
<1>8. CASE start_record \/ stop_record
  BY <1>0, <1>8 DEF start_record, stop_record, driverVars, MsgInv, Unchanged_switch
<1>9. CASE switch_off
  BY <1>0, <1>9, NoFault DEF switch_off, v4l_cam_streaming_stop, Unchanged_switch
<1>10. CASE switch_queue
  <2>1. ~ v4l_cam_buf_queue_set(0)
    BY <1>0, <1>10, QueueSetAll DEF switch_queue
  <2> QED BY <1>0, <1>10, <2>1 DEF switch_queue
<1>11. CASE switch_on
  <2>1. streaming' = TRUE /\ tpc' = "recordStop"
    BY <1>0, <1>11, NoFault DEF switch_on, SwitchEnds, MessageInv, Switches
  <2> QED BY <2>1
<1>12. CASE picture_stop \/ picture_queue \/ picture_on \/ picture_shot \/ picture_off
  BY <1>0, <1>12 DEF picture_stop, picture_queue, picture_on, picture_shot, picture_off,
     v4l_cam_streaming_stop, Unchanged_picture
<1>13. CASE picture_restore
  BY <1>0, <1>13 DEF picture_restore, Unchanged_picture
<1>14. CASE picture_resume
  <2>1. queued = {} /\ tpc' = "picLast" /\ UNCHANGED <<exit, preview, need_init>>
    BY <1>0, <1>14 DEF picture_resume, Unchanged_picture
  <2>2. ~ v4l_cam_buf_queue_set(0)
    BY <2>1, QueueSetAll
  <2>3. preview => streaming'
    BY <1>14, <2>2, NoFault DEF picture_resume
  <2> QED BY <2>1, <2>3
<1>15. CASE picture_last \/ picture_deliver
  BY <1>0, <1>15 DEF picture_last, picture_deliver, Unchanged_picture, driverVars
<1> QED BY <1>1, <1>2, <1>3, <1>4, <1>5, <1>6, <1>7, <1>8, <1>9, <1>10, <1>11, <1>12, <1>13,
           <1>14, <1>15 DEF ThreadStep

LEMMA OnClient ==
    ASSUME PlainUse, TurnInv, NEW c \in Clients, Request(c) \/ ClientStep(c), ~ v4l_cam_open(c)
    PROVE  OnInv' /\ Calm'
<1> USE DEF Working, Uses, Calm, OnInv
<1>0. /\ OnInv /\ Calm /\ MsgInv /\ MessageInv /\ RecordInv /\ OffInv /\ StartInv /\ UnsetInv
      /\ StopPlaces /\ FreshInv /\ OneMethod
  BY TurnFacts
<1>1. /\ need_init' = need_init
      /\ tpc' = tpc \/ (tpc = "parked" /\ tpc' = "woken")
  BY TurnFacts, ClientFacts DEF ClientLeaves
<1>a. ASSUME exit => exit', preview' => preview, streaming' = streaming,
             queued' \in {queued, {}}
      PROVE  OnInv' /\ Calm'
  BY <1>0, <1>1, <1>a
\* a preview that starts
<1>b. ASSUME pc[c] \in Starts
      PROVE  tpc \in {"chkExit", "toPark", "parked"}
             \/ (need_init = "unset" /\ tpc \in {"start", "top", "chkPreview"})
  <2>1. ~ preview /\ ~ exit
    BY <1>0, <1>b DEF StartInv, In
  <2>2. ~ In(Stops \union InRelease)
    BY <1>0, <1>b DEF OneMethod, Busy, In, Starts, Stops, InRelease
  <2> QED BY <1>0, <2>1, <2>2 DEF Resting, OffInv, UnsetInv
<1>2. CASE Request(c)
  <2>1. \/ cancel_picture(c)
        \/ UNCHANGED <<exit, preview, streaming, queued>>
    BY <1>2 DEF Request, set_parameters, start_preview, stop_preview, take_picture,
       enable_msg_type, disable_msg_type, release_recording_frame, release, v4l_cam_open,
       Unchanged_flags, driverVars
  <2>2. UNCHANGED <<exit, preview, streaming, queued>>
    BY <2>1 DEF cancel_picture, driverVars
  <2> QED BY <1>a, <2>2
<1>3. CASE \/ set_record(c) \/ set_configure(c) \/ preview_geometry(c) \/ clear_preview(c)
           \/ wait_for_stop(c) \/ preview_stopped(c) \/ set_picture(c)
  <2>1. /\ exit' = exit /\ (preview' => preview) /\ streaming' = streaming
        /\ queued' \in {queued, {}}
    BY <1>3 DEF set_record, set_configure, preview_geometry, clear_preview, wait_for_stop,
       preview_stopped, set_picture, v4l_cam_configure, configure_fails, Unchanged_flags,
       driverVars
  <2> QED BY <1>a, <2>1
<1>4. CASE start_recording(c) \/ stop_recording(c) \/ take_preview_lock(c) \/ release_flags(c)
  <2>1. /\ (exit => exit') /\ (preview' => preview) /\ UNCHANGED <<streaming, queued>>
    BY <1>4 DEF start_recording, stop_recording, take_preview_lock, release_flags,
       Unchanged_flags, driverVars
  <2> QED BY <1>a, <2>1
<1>5. CASE queue_preview(c)
  <2>1. /\ tpc' = tpc /\ UNCHANGED <<exit, preview, streaming>> /\ pc[c] \in Starts
    BY <1>5 DEF queue_preview, threadVars, Unchanged_flags, Starts
  <2> QED BY <1>0, <1>1, <1>b, <2>1
<1>6. CASE set_preview(c)
  <2>1. /\ UNCHANGED <<exit, streaming, queued>> /\ pc[c] \in Starts
    BY <1>6 DEF set_preview, driverVars, Starts
  <2> QED BY <1>0, <1>1, <1>b, <2>1
<1>7. CASE stop_streaming(c)
  <2>1. tpc \in {"parked", "done"} /\ tpc' = tpc
    BY <1>0, <1>7 DEF stop_streaming, StopPlaces, threadVars
  <2> QED BY <2>1
<1>8. CASE queue_released(c)
  <2>1. Recorded
    BY <1>8 DEF queue_released, Recorded, In
  <2>2. tpc \notin {"picRestore", "picResume", "switchQueue"}
    BY <1>0, <2>1 DEF RecordInv, MessageInv, PicPlaces, Switches
  <2> QED BY <1>0, <1>1, <1>8, <2>2 DEF queue_released, Unchanged_flags
<1>9. CASE release_streaming(c) \/ release_signal(c) \/ release_join(c)
  <2>1. exit /\ exit' = exit
    BY <1>0, <1>9 DEF release_streaming, release_signal, release_join, Unchanged_flags,
       FreshInv, In, Gone
  <2>2. queued' \in {queued, {}}
    BY <1>9 DEF release_streaming, release_signal, release_join, v4l_cam_streaming_stop,
       driverVars
  <2> QED BY <1>0, <1>1, <2>1, <2>2
<1> QED BY <1>2, <1>3, <1>4, <1>5, <1>6, <1>7, <1>8, <1>9 DEF ClientStep

(* RecordInv *)
LEMMA RecordThread ==
    ASSUME PlainUse, TurnInv, ThreadStep
    PROVE  RecordInv'
<1> USE DEF Go, PicPlaces, Shots, Switches
<1>0. /\ RecordInv /\ FreshInv /\ MsgInv /\ MessageInv /\ Calm
  BY TurnFacts
<1>1. /\ ThreadLeaves /\ (picture' => picture)
      /\ In({"rfLock", "rfQueue"})' => In({"rfLock", "rfQueue"})
  BY TurnFacts, ThreadFacts DEF ThreadLeaves, In
<1>a. ASSUME UNCHANGED <<record, held, preview_lock>>, tpc' \notin {"deliver", "kept"},
             Recorded => tpc' \notin PicPlaces,
             record /\ picture => tpc' \in PicPlaces \union {"recordStop", "top"}
      PROVE  RecordInv'
  BY <1>0, <1>1, <1>a DEF RecordInv, Recorded
<1>2. CASE begin \/ check_picture \/ check_preview \/ check_exit
  BY <1>0, <1>2, <1>a DEF begin, check_picture, check_preview, check_exit, recordVars, RecordInv
<1>3. CASE park \/ wake_up \/ stream_on \/ poll \/ dequeue_frame
  BY <1>0, <1>3, <1>a DEF park, wake_up, stream_on, poll, dequeue_frame, recordVars, RecordInv
<1>4. CASE stop_on_error
  BY <1>0, <1>4, <1>a DEF stop_on_error, recordVars
<1>5. CASE record_frame \/ deliver_frame
  BY <1>0, <1>1, <1>5 DEF record_frame, deliver_frame, Unchanged_frame_done, RecordInv, Recorded
<1>6. CASE show_frame \/ hand_over \/ queue_frame
  <2>1. UNCHANGED <<record, picture, held>> /\ (preview_lock' => preview_lock)
    BY <1>6 DEF show_frame, hand_over, queue_frame, Unchanged_frame_done
  <2>2. /\ tpc \in {"show", "handover", "kept", "queue"}
        /\ tpc' \in {"handover", "kept", "queue", "recordStart", "failed"}
        /\ tpc' = "kept" => preview_lock
    BY <1>6 DEF show_frame, hand_over, queue_frame
  <2> QED BY <1>0, <1>1, <2>1, <2>2 DEF RecordInv, Recorded
<1>7. CASE start_record
  <2>1. /\ UNCHANGED <<held, preview_lock, picture>> /\ tpc = "recordStart"
        /\ tpc' \in {"recordStop", "switchOff", "segv"}
        /\ \/ record' = record
           \/ ~ record /\ (record' => tpc' = "recordStop")
    BY <1>7 DEF start_record
  <2> QED BY <1>0, <1>1, <2>1 DEF RecordInv, Recorded
<1>8. CASE stop_record
  <2>1. /\ UNCHANGED <<held, preview_lock, picture, record>> /\ tpc = "recordStop" /\ tpc' = "top"
    BY <1>0, <1>8, TurnFacts DEF stop_record, Unchanged_switch, MsgInv, FlagTypes
  <2> QED BY <1>0, <1>1, <2>1 DEF RecordInv, Recorded
<1>9. CASE switch_off \/ switch_queue \/ switch_on
  <2>1. /\ UNCHANGED <<held, preview_lock, picture>> /\ tpc \in Switches /\ ~ record
        /\ tpc' \in {"switchQueue", "switchOn", "recordStop"}
        /\ record' => tpc' = "recordStop"
    BY <1>0, <1>9 DEF switch_off, switch_queue, switch_on, SwitchEnds, Unchanged_switch,
       MessageInv
  <2> QED BY <1>0, <1>1, <2>1 DEF RecordInv, Recorded
<1>10. CASE picture_stop \/ picture_queue \/ picture_on \/ picture_shot \/ picture_off
  BY <1>0, <1>10, <1>a DEF picture_stop, picture_queue, picture_on, picture_shot, picture_off,
     Unchanged_picture, recordVars, RecordInv
<1>11. CASE picture_restore \/ picture_resume \/ picture_last \/ picture_deliver
  <2>1. /\ UNCHANGED <<record, held, preview_lock>>
        /\ tpc \in PicPlaces /\ tpc' \in PicPlaces \union {"chkPreview"}
        /\ tpc' = "chkPreview" => ~ picture'
    BY <1>0, <1>11 DEF picture_restore, picture_resume, picture_last, picture_deliver,
       Unchanged_picture, recordVars
  <2> QED BY <1>0, <1>1, <2>1 DEF RecordInv, Recorded
<1> QED BY <1>2, <1>3, <1>4, <1>5, <1>6, <1>7, <1>8, <1>9, <1>10, <1>11 DEF ThreadStep

LEMMA RecordClient ==
    ASSUME PlainUse, TurnInv, NEW c \in Clients, Request(c) \/ ClientStep(c), ~ v4l_cam_open(c)
    PROVE  RecordInv'
<1> USE DEF Move, threadVars, clientVars, recordVars
<1>0. /\ RecordInv /\ MsgInv /\ MessageInv /\ pc \in [Clients -> ClientPC]
  BY TurnFacts
<1>1. ClientLeaves(c)
  BY TurnFacts, ClientFacts
<1>2. /\ record' = record \/ (record' = FALSE /\ ~ msgVideo)
      /\ preview_lock' => preview_lock
      /\ held' \subseteq held
      /\ picture' => picture \/ set_picture(c)
  <2>1. CASE Request(c)
    BY <2>1 DEF Request, set_parameters, start_preview, stop_preview, take_picture,
       cancel_picture, enable_msg_type, disable_msg_type, release_recording_frame, release,
       v4l_cam_open, Unchanged_flags
  <2>2. CASE set_picture(c)
    BY <2>2 DEF set_picture
  <2>3. CASE ClientStep(c) /\ ~ set_picture(c)
    BY <2>3 DEF ClientStep, set_record, set_configure, preview_geometry, queue_preview,
       set_preview, clear_preview, wait_for_stop, preview_stopped, stop_streaming,
       start_recording, stop_recording, take_preview_lock, queue_released, release_flags,
       release_streaming, release_signal, release_join, Unchanged_flags
  <2> QED BY <2>1, <2>2, <2>3
<1>3. In({"rfLock", "rfQueue"})' => In({"rfLock", "rfQueue"}) \/ held # {}
  <2>1. pc'[c] \in {"rfLock", "rfQueue"} => pc[c] \in {"rfLock", "rfQueue"} \/ held # {}
    <3>1. CASE Request(c)
      BY <1>0, <3>1 DEF Request, set_parameters, start_preview, stop_preview, take_picture,
         cancel_picture, enable_msg_type, disable_msg_type, release_recording_frame, release,
         v4l_cam_open
    <3>2. CASE ClientStep(c)
      BY <1>0, <3>2 DEF ClientStep, set_record, set_configure, preview_geometry, queue_preview,
         set_preview, clear_preview, wait_for_stop, preview_stopped, stop_streaming,
         set_picture, start_recording, stop_recording, take_preview_lock, queue_released,
         release_flags, release_streaming, release_signal, release_join
    <3> QED BY <3>1, <3>2
  <2> QED BY <1>1, <2>1 DEF ClientLeaves, In
<1>4. Recorded' => Recorded
  BY <1>1, <1>2, <1>3 DEF Recorded, ClientLeaves
<1>5. set_picture(c) => ~ record /\ ~ Recorded
  BY <1>0 DEF set_picture, MessageInv, MsgInv, RecordOn
<1>6. ~ msgVideo => ~ record /\ ~ Recorded
  BY <1>0 DEF MsgInv
<1> QED BY <1>0, <1>1, <1>2, <1>4, <1>5, <1>6 DEF RecordInv, ClientLeaves, PicPlaces, Shots

(* FrameInv *)

\* a recorder with one frame at a time has none when the next is shown
LEMMA NoneOut ==
    ASSUME PlainUse, TypeOK, OneOut, Cardinality(held \union Releasing) < MaxHeld
    PROVE  held = {} /\ \A c \in Clients : frame[c] = NoBuf
<1>1. IsFiniteSet(held \union Releasing)
  <2>1. IsFiniteSet(Bufs)
    BY CameraAssumption, FS_Interval DEF Bufs
  <2>2. held \union Releasing \subseteq Bufs
    BY DEF TypeOK, BufferTypes, Releasing
  <2> QED BY <2>1, <2>2, FS_Subset
<1>2. Cardinality(held \union Releasing) = 0
  <2>1. Cardinality(held \union Releasing) \in Nat
    BY <1>1, FS_CardinalityType
  <2> QED BY <2>1 DEF PlainUse
<1>3. held \union Releasing = {}
  BY <1>1, <1>2, FS_EmptySet
<1> QED BY <1>3 DEF Releasing

LEMMA NothingOut ==
    ASSUME ~ Recorded
    PROVE  Nothing /\ ~ preview_lock
  BY DEF Recorded, Nothing, In, Frees

\* a step that leaves the recorder alone, at a place without a frame
LEMMA FrameMoves ==
    ASSUME FrameInv, UNCHANGED <<frame, held, preview_lock>>,
           \A c \in Clients : Frees(c)' <=> Frees(c),
           Nothing \/ queued' \subseteq queued,
           ~ preview_lock, tpc' \notin Uses
    PROVE  FrameInv'
  BY DEF FrameInv, OneOut, LockInv, CurInv, Nothing, Uses

LEMMA FrameThread ==
    ASSUME PlainUse, TurnInv, ThreadStep
    PROVE  FrameInv'
<1> USE DEF Go, Uses
<1>0. /\ TypeOK /\ FreshInv /\ MsgInv /\ MessageInv /\ RecordInv /\ FrameInv
      /\ pc \in [Clients -> ClientPC] /\ NoBuf \notin Bufs
  BY TurnFacts
<1>1. \A c \in Clients : Frees(c)' <=> Frees(c)
  BY TurnFacts, ThreadFacts DEF ThreadLeaves, Frees
<1>2. CASE begin \/ check_picture \/ check_preview \/ check_exit \/ park \/ wake_up
  <2>1. /\ UNCHANGED <<frame, held, preview_lock, queued>>
        /\ tpc \notin {"deliver", "show", "handover"} /\ tpc' \notin Uses
    BY <1>2 DEF begin, check_picture, check_preview, check_exit, park, wake_up, clientVars,
       recordVars, driverVars
  <2> QED BY <1>0, <1>1, <2>1, FrameMoves DEF FrameInv, LockInv
<1>3. CASE stream_on \/ stop_on_error \/ poll \/ start_record \/ stop_record
  <2>1. /\ UNCHANGED <<frame, held, preview_lock, queued>>
        /\ tpc \notin {"deliver", "show", "handover"} /\ tpc' \notin Uses
    BY <1>3 DEF stream_on, stop_on_error, poll, start_record, stop_record, Unchanged_switch,
       clientVars, recordVars, driverVars
  <2> QED BY <1>0, <1>1, <2>1, FrameMoves DEF FrameInv, LockInv
<1>4. CASE dequeue_frame
  <2>1. tpc = "dequeue" /\ UNCHANGED <<pc, frame, held, preview_lock>>
    BY <1>4 DEF dequeue_frame, clientVars, recordVars
  <2>2. \/ cur' \in queued /\ queued' = queued \ {cur'} /\ tpc' = "frame"
        \/ tpc' = "failed" /\ UNCHANGED <<cur, queued>>
    BY <1>4 DEF dequeue_frame
  <2>3. \A c \in Clients : frame[c] \notin queued
    BY <1>0 DEF FrameInv, OneOut, TypeOK, BufferTypes, MsgInv
  <2> QED BY <1>0, <2>1, <2>2, <2>3 DEF FrameInv, OneOut, LockInv, CurInv, Frees
<1>5. CASE record_frame
  <2>1. tpc = "frame" /\ UNCHANGED <<pc, frame, held, queued, cur>>
    BY <1>5 DEF record_frame, Unchanged_frame_done, clientVars
  <2>2. CASE record /\ msgVideo
    <3>1. held = {} /\ \A c \in Clients : frame[c] = NoBuf
      BY <1>0, <1>5, <2>2, NoneOut DEF record_frame, FrameInv
    <3>2. \A c \in Clients : ~ Frees(c)
      BY <1>0, <3>1, TurnFacts DEF Carried, Frees
    <3>3. tpc' = "deliver" /\ preview_lock' = TRUE
      BY <1>5, <2>2 DEF record_frame
    <3> QED BY <1>0, <2>1, <3>1, <3>2, <3>3 DEF FrameInv, OneOut, LockInv, CurInv, Frees, Nothing
  <2>3. CASE ~ (record /\ msgVideo)
    <3>1. ~ record
      BY <1>0, <2>3 DEF MsgInv
    <3>2. Nothing
      BY <1>0, <3>1, NothingOut DEF RecordInv
    <3>3. tpc' = "show" /\ preview_lock' = preview_lock
      BY <1>5, <2>3 DEF record_frame
    <3> QED BY <1>0, <2>1, <3>2, <3>3 DEF FrameInv, OneOut, LockInv, CurInv, Frees, Nothing
  <2> QED BY <2>2, <2>3
<1>6. CASE deliver_frame
  <2>1. /\ tpc = "deliver" /\ tpc' = "show" /\ UNCHANGED <<pc, frame, queued, cur, preview_lock>>
        /\ held' = IF msgVideo THEN held \union {cur} ELSE held
    BY <1>6 DEF deliver_frame, Unchanged_frame_done, clientVars
  <2>2. Nothing /\ preview_lock /\ cur \notin queued
    BY <1>0, <2>1 DEF FrameInv, LockInv, CurInv
  <2>3. held' \subseteq {cur}
    BY <2>1, <2>2 DEF Nothing
  <2> QED BY <1>0, <2>1, <2>2, <2>3 DEF FrameInv, OneOut, LockInv, CurInv, Frees, Nothing
<1>7. CASE show_frame
  <2>1. /\ tpc = "show" /\ tpc' = "handover"
        /\ UNCHANGED <<pc, frame, held, queued, cur, preview_lock>>
    BY <1>7, NoFault DEF show_frame, Unchanged_frame_done, clientVars
  <2> QED BY <1>0, <2>1 DEF FrameInv, OneOut, LockInv, CurInv, Frees, Nothing
<1>8. CASE hand_over
  <2>1. /\ tpc = "handover" /\ UNCHANGED <<pc, frame, held, queued, cur>>
        /\ \/ preview_lock' = FALSE /\ tpc' = "kept"
           \/ ~ (msgVideo /\ preview_lock) /\ tpc' = "queue" /\ preview_lock' = preview_lock
    BY <1>8 DEF hand_over, Unchanged_frame_done, clientVars
  <2>2. preview_lock => msgVideo
    BY <1>0 DEF MsgInv, Recorded
  <2> QED BY <1>0, <2>1, <2>2 DEF FrameInv, OneOut, LockInv, CurInv, Frees, Nothing
<1>9. CASE queue_frame
  <2>1. /\ tpc \in {"kept", "queue"} /\ tpc' \in {"recordStart", "failed"}
        /\ UNCHANGED <<pc, frame, held, preview_lock>>
        /\ \/ ~ Keep /\ queued' = queued \union {cur}
           \/ queued' = queued
    BY <1>9 DEF queue_frame, Unchanged_frame_done, clientVars
  <2>2. tpc = "kept" => Keep
    BY <1>0 DEF MsgInv, Recorded, Keep
  <2>3. tpc = "queue" => ~ preview_lock /\ Nothing
    BY <1>0 DEF FrameInv, LockInv
  <2> QED BY <1>0, <2>1, <2>2, <2>3 DEF FrameInv, OneOut, LockInv, CurInv, Frees, Nothing
<1>10. CASE switch_off \/ switch_queue \/ switch_on
  <2>1. UNCHANGED <<frame, held, preview_lock>> /\ tpc' \notin Uses /\ tpc \in Switches
    BY <1>10 DEF switch_off, switch_queue, switch_on, SwitchEnds, Unchanged_switch,
       clientVars, Switches
  <2>2. Nothing /\ ~ preview_lock
    BY <1>0, <2>1, NothingOut DEF RecordInv, MessageInv
  <2> QED BY <1>0, <1>1, <2>1, <2>2, FrameMoves
<1>11. CASE \/ picture_stop \/ picture_queue \/ picture_on \/ picture_shot \/ picture_off
            \/ picture_restore \/ picture_resume \/ picture_last \/ picture_deliver
  <2>1. UNCHANGED <<frame, held, preview_lock>> /\ tpc' \notin Uses /\ tpc \in PicPlaces
    BY <1>11 DEF picture_stop, picture_queue, picture_on, picture_shot, picture_off,
       picture_restore, picture_resume, picture_last, picture_deliver, Unchanged_picture,
       clientVars, recordVars, PicPlaces, Shots
  <2>2. Nothing /\ ~ preview_lock
    BY <1>0, <2>1, NothingOut DEF RecordInv
  <2> QED BY <1>0, <1>1, <2>1, <2>2, FrameMoves
<1> QED BY <1>2, <1>3, <1>4, <1>5, <1>6, <1>7, <1>8, <1>9, <1>10, <1>11 DEF ThreadStep

LEMMA FrameClient ==
    ASSUME PlainUse, TurnInv, NEW c \in Clients, Request(c) \/ ClientStep(c), ~ v4l_cam_open(c)
    PROVE  FrameInv'
<1> USE DEF Move, Uses
<1>0. /\ TypeOK /\ FreshInv /\ MsgInv /\ MessageInv /\ RecordInv /\ FrameInv /\ OneMethod
      /\ pc \in [Clients -> ClientPC] /\ frame \in [Clients -> Bufs \union {NoBuf}]
      /\ NoBuf \notin Bufs /\ Carried
  BY TurnFacts
<1>1. ClientLeaves(c)
  BY TurnFacts, ClientFacts
<1>a. ASSUME UNCHANGED <<frame, held, preview_lock>>, queued' \subseteq queued,
             ~ Frees(c), ~ Frees(c)'
      PROVE  FrameInv'
  <2>1. \A d \in Clients : Frees(d)' <=> Frees(d)
    BY <1>1, <1>a DEF ClientLeaves, Frees
  <2>2. cur' = cur /\ (tpc' = tpc \/ (tpc = "parked" /\ tpc' = "woken"))
    BY <1>1 DEF ClientLeaves
  <2>3. OneOut'
    BY <1>0, <1>a, <2>1 DEF FrameInv, OneOut
  <2>4. \A d \in Clients : Frees(d) => pc'[d] = pc[d]
    BY <1>1, <1>a DEF ClientLeaves
  <2>5. LockInv'
    BY <1>0, <1>a, <2>1, <2>2, <2>4 DEF FrameInv, LockInv, Nothing
  <2>6. CurInv'
    BY <1>0, <1>a, <2>2 DEF FrameInv, CurInv
  <2> QED BY <2>3, <2>5, <2>6 DEF FrameInv
<1>2. CASE \/ set_parameters(c) \/ start_preview(c) \/ stop_preview(c) \/ take_picture(c)
           \/ enable_msg_type(c) \/ release(c)
  <2>1. /\ UNCHANGED <<frame, held, preview_lock, queued>> /\ pc[c] = "idle"
        /\ pc'[c] \in {"idle", "setRecord", "spRecord", "spGeometry", "stClear", "tpSet",
                       "recStart", "relPicture"}
    BY <1>0, <1>2 DEF set_parameters, start_preview, stop_preview, take_picture,
       enable_msg_type, release, CanCall, recordVars, driverVars
  <2> QED BY <1>a, <2>1 DEF Frees
<1>3. CASE cancel_picture(c)
  <2>1. UNCHANGED <<pc, frame, held, preview_lock, queued>> /\ pc[c] = "idle"
    BY <1>3 DEF cancel_picture, CanCall, clientVars, recordVars, driverVars
  <2> QED BY <1>a, <2>1 DEF Frees
<1>4. CASE disable_msg_type(c)
  BY <1>4, NoFault DEF disable_msg_type, CanCall
<1>5. CASE \E b \in Bufs : release_recording_frame(c, b)
  <2>1. PICK b \in held : /\ held' = held \ {b} /\ frame' = [frame EXCEPT ![c] = b]
                          /\ pc' = [pc EXCEPT ![c] = "rfLock"] /\ pc[c] = "idle"
                          /\ UNCHANGED <<tpc, cur, queued, preview_lock>>
    BY <1>5 DEF release_recording_frame, threadVars, driverVars
  <2>2. held = {b} /\ held' = {} /\ b \notin queued /\ \A d \in Clients : ~ Frees(d)
    BY <1>0, <2>1 DEF FrameInv, OneOut
  <2>3. /\ \A d \in Clients : Frees(d)' <=> d = c
        /\ \A d \in Clients : d # c => frame'[d] = NoBuf
        /\ frame'[c] = b /\ pc'[c] = "rfLock"
    BY <1>0, <2>1, <2>2 DEF Frees, MsgInv
  <2>4. tpc # "deliver" /\ (preview_lock => b = cur)
        /\ (tpc \in {"show", "handover", "queue"} => preview_lock) /\ (tpc = "frame" => b # cur)
    BY <1>0, <2>2 DEF FrameInv, LockInv, CurInv, Nothing
  <2>5. tpc = "frame" => cur # NoBuf
    BY <1>0 DEF Carried
  <2>6. OneOut'
    BY <2>1, <2>2, <2>3 DEF OneOut
  <2>7. LockInv'
    BY <1>0, <2>1, <2>2, <2>3, <2>4 DEF FrameInv, LockInv
  <2>8. CurInv'
    BY <1>0, <2>1, <2>2, <2>3, <2>4, <2>5 DEF FrameInv, CurInv
  <2> QED BY <2>6, <2>7, <2>8 DEF FrameInv
<1>6. CASE \/ set_record(c) \/ set_configure(c) \/ preview_geometry(c) \/ clear_preview(c)
           \/ wait_for_stop(c) \/ preview_stopped(c) \/ stop_streaming(c) \/ set_picture(c)
  <2>1. /\ UNCHANGED <<frame, held, preview_lock>> /\ queued' \subseteq queued /\ ~ Frees(c)
        /\ pc'[c] \in {"setConfigure", "spConfigure", "spGeometry", "spQueue", "stLock",
                       "stWait", "stOff", "idle"}
    BY <1>0, <1>6 DEF set_record, set_configure, preview_geometry, clear_preview,
       wait_for_stop, preview_stopped, stop_streaming, set_picture, v4l_cam_streaming_stop,
       v4l_cam_configure, configure_fails, recordVars, driverVars, Frees
  <2> QED BY <1>a, <2>1 DEF Frees
<1>7. CASE \/ set_preview(c) \/ start_recording(c) \/ stop_recording(c) \/ release_flags(c)
           \/ release_streaming(c) \/ release_signal(c) \/ release_join(c)
  <2>1. /\ UNCHANGED <<frame, held, preview_lock>> /\ queued' \subseteq queued /\ ~ Frees(c)
        /\ pc'[c] \notin {"rfLock", "rfQueue"}
    BY <1>0, <1>7 DEF set_preview, start_recording, stop_recording, release_flags,
       release_streaming, release_signal, release_join, v4l_cam_streaming_stop, recordVars,
       driverVars, Frees
  <2> QED BY <1>a, <2>1 DEF Frees
<1>8. CASE queue_preview(c)
  <2>1. /\ UNCHANGED <<frame, held, preview_lock, cur, tpc>> /\ ~ Frees(c) /\ ~ Frees(c)'
    BY <1>0, <1>8 DEF queue_preview, threadVars, recordVars, Frees
  <2>2. \A d \in Clients : Frees(d)' <=> Frees(d)
    BY <1>1, <2>1 DEF ClientLeaves, Frees
  <2>3. ~ msgVideo /\ ~ preview /\ ~ exit /\ ~ In(Stops \union InRelease)
    BY <1>0, <1>8, TurnFacts DEF queue_preview, MessageInv, RecordOn, StartInv, In, Starts,
       OneMethod, Busy, Stops, InRelease
  <2>4. Nothing /\ ~ preview_lock
    BY <1>0, <2>3, NothingOut DEF MsgInv
  <2>5. tpc' \notin Uses
    BY <2>1, <2>3, TurnFacts DEF Resting, OffInv, UnsetInv, PicPlaces, Shots
  <2> QED BY <1>0, <2>1, <2>2, <2>4, <2>5, FrameMoves
<1>9. CASE take_preview_lock(c)
  <2>1. /\ pc[c] = "rfLock" /\ preview_lock' = FALSE /\ UNCHANGED <<held, queued, tpc, cur>>
        /\ \/ /\ preview_lock /\ pc' = [pc EXCEPT ![c] = "idle"]
              /\ frame' = [frame EXCEPT ![c] = NoBuf]
           \/ ~ preview_lock /\ pc' = [pc EXCEPT ![c] = "rfQueue"] /\ frame' = frame
    BY <1>9 DEF take_preview_lock, threadVars, driverVars
  <2>2. Frees(c) /\ held = {} /\ \A d \in Clients : Frees(d) => d = c
    BY <1>0, <2>1 DEF Frees, FrameInv, OneOut
  <2>3. CASE preview_lock
    <3>1. \A d \in Clients : ~ Frees(d)' /\ frame'[d] = NoBuf
      BY <1>0, <2>1, <2>2, <2>3 DEF Frees, MsgInv
    <3>2. tpc \in {"show", "handover"}
      BY <1>0, <2>2, <2>3 DEF FrameInv, LockInv, Nothing
    <3> QED BY <1>0, <2>1, <2>2, <3>1, <3>2 DEF FrameInv, OneOut, LockInv, CurInv, Nothing
  <2>4. CASE ~ preview_lock
    <3>1. /\ frame' = frame /\ \A d \in Clients : Frees(d)' <=> Frees(d)
      BY <1>0, <2>1, <2>4 DEF Frees
    <3> QED BY <1>0, <2>1, <2>4, <3>1 DEF FrameInv, OneOut, LockInv, CurInv, Nothing
  <2> QED BY <2>3, <2>4
<1>10. CASE queue_released(c)
  <2>1. /\ pc[c] = "rfQueue" /\ pc' = [pc EXCEPT ![c] = "idle"]
        /\ frame' = [frame EXCEPT ![c] = NoBuf] /\ UNCHANGED <<held, tpc, cur, preview_lock>>
        /\ queued' \subseteq queued \union {frame[c]}
    BY <1>10 DEF queue_released, threadVars, recordVars
  <2>2. Frees(c) /\ held = {} /\ \A d \in Clients : Frees(d) => d = c
    BY <1>0, <2>1 DEF Frees, FrameInv, OneOut
  <2>3. ~ preview_lock
    BY <1>0, <2>1, <2>2 DEF FrameInv, LockInv
  <2>4. tpc \notin {"deliver", "show", "handover", "queue"}
    BY <1>0, <2>2, <2>3 DEF FrameInv, LockInv, Nothing
  <2>5. tpc = "frame" => frame[c] # cur /\ cur # NoBuf
    BY <1>0 DEF FrameInv, CurInv, Carried
  <2>6. \A d \in Clients : ~ Frees(d)' /\ frame'[d] = NoBuf
    BY <1>0, <2>1, <2>2 DEF Frees, MsgInv
  <2> QED BY <1>0, <2>1, <2>2, <2>3, <2>4, <2>5, <2>6 DEF FrameInv, OneOut, LockInv, CurInv, Nothing
<1> QED BY <1>2, <1>3, <1>4, <1>5, <1>6, <1>7, <1>8, <1>9, <1>10 DEF Request, ClientStep

LEMMA RunKept ==
    ASSUME PlainUse, TurnInv, ~ missed', [Next]_vars, ~ \E c \in Clients : v4l_cam_open(c)
    PROVE  RunInv'
<1>1. CASE ThreadStep
  BY <1>1, OnThread, RecordThread, FrameThread DEF RunInv
<1>2. ASSUME NEW c \in Clients, Request(c) \/ ClientStep(c) PROVE RunInv'
  BY <1>2, OnClient, RecordClient, FrameClient DEF RunInv
<1>3. CASE UNCHANGED vars
  BY <1>3, TurnFacts DEF RunInv, Calm, OnInv, RecordInv, Recorded, In, FrameInv, OneOut,
     LockInv, CurInv, Nothing, Frees, vars, threadVars, clientVars, recordVars, driverVars
<1> QED BY <1>1, <1>2, <1>3 DEF Next

\* a new thread has no frame
LEMMA OpenRuns ==
    ASSUME BaseInv, NEW c \in Clients, v4l_cam_open(c)
    PROVE  RestInv' /\ RunInv'
<1>1. /\ RestInv' /\ ~ record' /\ ~ Recorded' /\ Calm'
      /\ tpc' = "start" /\ need_init' = "unset"
  BY OpenRests
<1>2. OnInv' /\ RecordInv'
  BY <1>1 DEF OnInv, RecordInv, Working, Uses
<1>3. Nothing' /\ ~ preview_lock'
  BY <1>1 DEF Recorded, Nothing, In, Frees
<1>4. FrameInv'
  BY <1>1, <1>3 DEF FrameInv, OneOut, LockInv, CurInv, Nothing, Uses
<1> QED BY <1>1, <1>2, <1>4 DEF RunInv

PlainInv == BaseInv /\ (missed \/ (RestInv /\ RunInv))

LEMMA PlainInit == Init => PlainInv
<1> SUFFICES ASSUME Init PROVE RunInv
  BY BaseInit, RestInit DEF PlainInv
<1>1. Calm /\ OnInv /\ RecordInv
  BY DEF Init, Calm, OnInv, RecordInv, Recorded, In, Working, Uses
<1>2. FrameInv
  BY DEF Init, FrameInv, OneOut, LockInv, CurInv, Nothing, Frees, Uses
<1> QED BY <1>1, <1>2 DEF RunInv

LEMMA PlainKept ==
    ASSUME PlainUse, PlainInv, [Next]_vars
    PROVE  PlainInv'
<1>1. BaseInv /\ BaseInv' /\ TypeOK
  BY BaseKept, NoFault, BaseFacts DEF PlainInv
<1> SUFFICES ASSUME ~ missed' PROVE RestInv' /\ RunInv'
  BY <1>1 DEF PlainInv
<1>2. ASSUME NEW c \in Clients, v4l_cam_open(c) PROVE RestInv' /\ RunInv'
  BY <1>1, <1>2, OpenRuns
<1>3. CASE ~ \E c \in Clients : v4l_cam_open(c)
  <2>1. ~ missed
    BY <1>1, <1>3, MissedKept
  <2>2. TurnInv
    BY <2>1 DEF PlainInv, TurnInv
  <2>3. RunInv'
    BY <1>3, <2>2, RunKept
  <2>4. RestInv'
    BY <2>2, NoFault, RestKept DEF TurnInv, RunInv
  <2> QED BY <2>3, <2>4
<1> QED BY <1>2, <1>3

LEMMA PlainAlways ==
    ASSUME PlainUse
    PROVE  Spec => []PlainInv
<1>1. PlainInv /\ [Next]_vars => PlainInv'
  BY PlainKept
<1> QED BY <1>1, PlainInit, PTL DEF Spec

(* Under PlainUse (nothing fails but REQBUFS and TRY_FMT, recording is not *)
(* stopped, the recorder has at most one frame) no method but release      *)
(* makes a frame or a STREAMON of the thread fail, in a session whose      *)
(* first start_preview came after the thread had first looked at preview.  *)
THEOREM CameraUndisturbed ==
    ASSUME PlainUse
    PROVE  Spec => []PreviewUndisturbed
<1>1. PlainInv => PreviewUndisturbed
  BY DEF PlainInv, RunInv, Calm, PreviewUndisturbed
<1> QED BY <1>1, PlainAlways, PTL

(* The driver never has a frame the recorder has, in such a session.       *)
THEOREM CameraHeldFrameSafe ==
    ASSUME PlainUse
    PROVE  Spec => [](missed \/ HeldFrameSafe)
<1>1. PlainInv => missed \/ HeldFrameSafe
  BY DEF PlainInv, RunInv, FrameInv, OneOut, HeldFrameSafe
<1> QED BY <1>1, PlainAlways, PTL

(* ... nor the one the thread passes to the recorder or the window: the    *)
(* release of a recorded frame never queues it in between.                 *)
THEOREM CameraFrameNotRefilled ==
    ASSUME PlainUse
    PROVE  Spec => [](missed \/ FrameNotRefilled)
<1>1. PlainInv => missed \/ FrameNotRefilled
  BY DEF PlainInv, RunInv, FrameInv, CurInv, Uses, FrameNotRefilled
<1> QED BY <1>1, PlainAlways, PTL

-----------------------------------------------------------------------------
(* The circle of the buffers *)

\* what the lock flag promises: while the thread shows a frame under it, the
\* recorder has the frame or is giving it back
LentInv == preview_lock /\ tpc \in {"show", "handover"} => RecorderUses(cur)

\* the recorder has a frame only of a preview no method stops
LEMMA RecorderNeeds ==
    ASSUME RecordInv, MsgInv, MessageInv, NEW b \in Bufs, RecorderUses(b)
    PROVE  /\ Recorded /\ record /\ msgVideo /\ preview /\ ~ picture
           /\ tpc \notin PicPlaces \union Switches
           /\ \A c \in Clients : pc[c] \in RecordOn
<1>1. Recorded
  BY DEF RecorderUses, Recorded, In, Frees
<1> QED BY <1>1 DEF RecordInv, MsgInv, MessageInv

LEMMA RecorderRests ==
    ASSUME UNCHANGED <<held, frame>>, \A d \in Clients : Frees(d)' <=> Frees(d)
    PROVE  \A x \in Bufs : RecorderUses(x)' <=> RecorderUses(x)
  BY DEF RecorderUses

(* LentInv *)
LEMMA LentThread ==
    ASSUME TurnInv, LentInv, ThreadStep
    PROVE  LentInv'
<1> USE DEF LentInv, Go
<1>1. CASE deliver_frame
  <2>1. msgVideo /\ cur' \in held'
    BY <1>1, TurnFacts DEF deliver_frame, MsgInv, Recorded, Unchanged_frame_done
  <2> QED BY <2>1 DEF RecorderUses
<1>2. CASE show_frame
  <2>1. tpc = "show" /\ UNCHANGED <<pc, frame, held, preview_lock>>
        /\ (tpc' \in {"show", "handover"} => cur' = cur)
    BY <1>2 DEF show_frame, Unchanged_frame_done, clientVars
  <2> QED BY <2>1 DEF RecorderUses, Frees
<1>3. CASE record_frame
  <2>1. tpc = "frame" /\ ~ preview_lock
    BY <1>3, TurnFacts DEF record_frame, FrameInv, LockInv
  <2> QED BY <1>3, <2>1 DEF record_frame
<1>4. CASE begin \/ check_picture \/ check_preview \/ check_exit \/ park \/ wake_up
  BY <1>4 DEF begin, check_picture, check_preview, check_exit, park, wake_up
<1>5. CASE stream_on \/ stop_on_error \/ poll \/ dequeue_frame \/ hand_over \/ queue_frame
  BY <1>5 DEF stream_on, stop_on_error, poll, dequeue_frame, hand_over, queue_frame
<1>6. CASE start_record \/ stop_record \/ switch_off \/ switch_queue \/ switch_on
  BY <1>6 DEF start_record, stop_record, switch_off, switch_queue, switch_on, SwitchEnds
<1>7. CASE picture_stop \/ picture_queue \/ picture_on \/ picture_shot \/ picture_off
  BY <1>7 DEF picture_stop, picture_queue, picture_on, picture_shot, picture_off
<1>8. CASE picture_restore \/ picture_resume \/ picture_last \/ picture_deliver
  BY <1>8 DEF picture_restore, picture_resume, picture_last, picture_deliver
<1> QED BY <1>1, <1>2, <1>3, <1>4, <1>5, <1>6, <1>7, <1>8 DEF ThreadStep

LEMMA LentClient ==
    ASSUME PlainUse, TurnInv, LentInv, NEW c \in Clients, Request(c) \/ ClientStep(c),
           ~ v4l_cam_open(c)
    PROVE  LentInv'
<1> USE DEF Move
<1>1. ClientLeaves(c)
  BY TurnFacts, ClientFacts
<1>2. preview_lock' => preview_lock
  <2>1. CASE Request(c)
    BY <2>1 DEF Request, set_parameters, start_preview, stop_preview, take_picture,
       cancel_picture, enable_msg_type, disable_msg_type, release_recording_frame, release,
       v4l_cam_open, recordVars
  <2>2. CASE ClientStep(c)
    BY <2>2 DEF ClientStep, set_record, set_configure, preview_geometry, queue_preview,
       set_preview, clear_preview, wait_for_stop, preview_stopped, stop_streaming, set_picture,
       start_recording, stop_recording, take_preview_lock, queue_released, release_flags,
       release_streaming, release_signal, release_join, recordVars
  <2> QED BY <2>1, <2>2
<1> SUFFICES ASSUME preview_lock, preview_lock', tpc \in {"show", "handover"}
             PROVE  RecorderUses(cur)'
  BY <1>1, <1>2 DEF LentInv, ClientLeaves
<1>0. /\ RecorderUses(cur) /\ preview /\ msgVideo /\ tpc' = tpc /\ cur' = cur
      /\ \A d \in Clients : pc[d] \in RecordOn
      /\ \A d \in Clients : Frees(d) => pc[d] = "rfLock" /\ frame[d] = cur
      /\ pc \in [Clients -> ClientPC] /\ frame \in [Clients -> Bufs \union {NoBuf}]
      /\ OneOut /\ tpc # "done"
  <2>1. msgVideo
    BY TurnFacts DEF MsgInv, Recorded
  <2> QED BY <1>1, <2>1, TurnFacts DEF LentInv, FrameInv, LockInv, MessageInv, ClientLeaves
<1>a. ASSUME UNCHANGED <<frame, held>>, ~ Frees(c) \/ Frees(c)' PROVE RecorderUses(cur)'
  <2>1. \A d \in Clients : Frees(d) => Frees(d)'
    BY <1>1, <1>a DEF ClientLeaves, Frees
  <2> QED BY <1>0, <1>a, <2>1 DEF RecorderUses
<1>3. CASE \/ set_parameters(c) \/ start_preview(c) \/ stop_preview(c) \/ take_picture(c)
           \/ enable_msg_type(c) \/ release(c)
  <2>1. UNCHANGED <<frame, held>> /\ pc[c] = "idle"
    BY <1>3 DEF set_parameters, start_preview, stop_preview, take_picture, enable_msg_type,
       release, CanCall, recordVars
  <2> QED BY <1>a, <2>1 DEF Frees
<1>4. CASE cancel_picture(c) \/ disable_msg_type(c)
  BY <1>4, <1>a, NoFault DEF cancel_picture, disable_msg_type, CanCall, clientVars, recordVars,
     Frees
<1>5. CASE \E b \in Bufs : release_recording_frame(c, b)
  <2>1. PICK b \in held : /\ held' = held \ {b} /\ frame' = [frame EXCEPT ![c] = b]
                          /\ pc' = [pc EXCEPT ![c] = "rfLock"]
    BY <1>5 DEF release_recording_frame
  <2>2. held = {b} /\ \A d \in Clients : ~ Frees(d)
    BY <1>0, <2>1 DEF OneOut
  <2>3. Frees(c)' /\ frame'[c] = b /\ b = cur
    BY <1>0, <2>1, <2>2 DEF Frees, RecorderUses
  <2> QED BY <1>0, <2>3 DEF RecorderUses
<1>6. CASE take_preview_lock(c)
  BY <1>6 DEF take_preview_lock
<1>7. CASE queue_released(c)
  BY <1>0, <1>7 DEF queue_released, Frees
<1>8. CASE \/ set_record(c) \/ set_configure(c) \/ preview_geometry(c) \/ queue_preview(c)
           \/ set_preview(c) \/ clear_preview(c) \/ wait_for_stop(c) \/ preview_stopped(c)
  <2>1. UNCHANGED <<frame, held>> /\ ~ Frees(c)
    BY <1>8 DEF set_record, set_configure, preview_geometry, queue_preview, set_preview,
       clear_preview, wait_for_stop, preview_stopped, recordVars, Frees
  <2> QED BY <1>a, <2>1
<1>9. CASE \/ stop_streaming(c) \/ set_picture(c) \/ start_recording(c) \/ stop_recording(c)
           \/ release_flags(c) \/ release_streaming(c) \/ release_signal(c) \/ release_join(c)
  <2>1. UNCHANGED <<frame, held>> /\ ~ Frees(c)
    BY <1>9 DEF stop_streaming, set_picture, start_recording, stop_recording, release_flags,
       release_streaming, release_signal, release_join, recordVars, Frees
  <2> QED BY <1>a, <2>1
<1> QED BY <1>3, <1>4, <1>5, <1>6, <1>7, <1>8, <1>9 DEF Request, ClientStep

(* The steps of the circle, as the camera's variables show them. *)

LEMMA SameUsers ==
    ASSUME \A x \in Bufs : ThreadUses(x)' <=> ThreadUses(x),
           \A x \in Bufs : RecorderUses(x)' <=> RecorderUses(x)
    PROVE  [b \in Bufs |-> UsersOf(b)]' = [b \in Bufs |-> UsersOf(b)]
<1>1. \A x \in Bufs : UsersOf(x)' = UsersOf(x)
  BY DEF UsersOf
<1> QED BY <1>1

LEMMA ThreadFinishes ==
    ASSUME NEW b \in Bufs, ThreadUses(b),
           \A x \in Bufs : ~ ThreadUses(x)',
           \A x \in Bufs : RecorderUses(x)' <=> RecorderUses(x),
           DriverHas' = IF RecorderUses(b) THEN DriverHas ELSE DriverHas \union {b}
    PROVE  Buffers!Next
<1>1. \A x \in Bufs : ThreadUses(x) => x = b
  BY DEF ThreadUses
<1>2. \A x \in Bufs : UsersOf(x)' = IF x = b THEN UsersOf(b) \ {"thread"} ELSE UsersOf(x)
  BY <1>1 DEF UsersOf
<1>3. "thread" \in UsersOf(b) /\ (UsersOf(b) = {"thread"} <=> ~ RecorderUses(b))
  BY DEF UsersOf
<1>4. Buffers!Finish(b, "thread")
  BY <1>2, <1>3 DEF Buffers!Finish
<1> QED BY <1>3, <1>4 DEF Buffers!Next

LEMMA RecorderFinishes ==
    ASSUME NEW b \in Bufs, RecorderUses(b), ~ RecorderUses(b)',
           \A x \in Bufs : ThreadUses(x)' <=> ThreadUses(x),
           \A x \in Bufs \ {b} : RecorderUses(x)' <=> RecorderUses(x),
           DriverHas' = IF ThreadUses(b) THEN DriverHas ELSE DriverHas \union {b}
    PROVE  Buffers!Next
<1>1. \A x \in Bufs : UsersOf(x)' = IF x = b THEN UsersOf(b) \ {"recorder"} ELSE UsersOf(x)
  BY DEF UsersOf
<1>2. "recorder" \in UsersOf(b) /\ (UsersOf(b) = {"recorder"} <=> ~ ThreadUses(b))
  BY DEF UsersOf
<1>3. Buffers!Finish(b, "recorder")
  BY <1>1, <1>2 DEF Buffers!Finish
<1> QED BY <1>2, <1>3 DEF Buffers!Next

LEMMA ThreadLends ==
    ASSUME NEW b \in Bufs, ThreadUses(b), ~ RecorderUses(b), RecorderUses(b)',
           \A x \in Bufs : ThreadUses(x)' <=> ThreadUses(x),
           \A x \in Bufs \ {b} : RecorderUses(x)' <=> RecorderUses(x),
           DriverHas' = DriverHas
    PROVE  Buffers!Next
<1>1. UsersOf(b) = {"thread"}
  BY DEF UsersOf
<1>2. \A x \in Bufs : UsersOf(x)' = IF x = b THEN {"thread", "recorder"} ELSE UsersOf(x)
  BY DEF UsersOf
<1>3. Buffers!Lend(b)
  BY <1>1, <1>2 DEF Buffers!Lend
<1> QED BY <1>3 DEF Buffers!Next

LEMMA DriverFills ==
    ASSUME NEW b \in Bufs, b \in DriverHas, ThreadUses(b)',
           \A x \in Bufs : ~ ThreadUses(x), ~ RecorderUses(b),
           \A x \in Bufs : RecorderUses(x)' <=> RecorderUses(x),
           DriverHas' = DriverHas \ {b}
    PROVE  Buffers!Next
<1>1. \A x \in Bufs : ThreadUses(x)' => x = b
  BY DEF ThreadUses
<1>2. UsersOf(b) = {}
  BY DEF UsersOf
<1>3. \A x \in Bufs : UsersOf(x)' = IF x = b THEN {"thread"} ELSE UsersOf(x)
  BY <1>1 DEF UsersOf
<1>4. Buffers!Fill(b)
  BY <1>2, <1>3 DEF Buffers!Fill
<1> QED BY <1>4 DEF Buffers!Next

LEMMA StreamEnds ==
    ASSUME \A x \in Bufs : ThreadUses(x)' <=> ThreadUses(x),
           \A x \in Bufs : RecorderUses(x)' <=> RecorderUses(x),
           \A x \in Bufs : ~ RecorderUses(x),
           DriverHas' = {}
    PROVE  Buffers!Next
<1>1. \A x \in Bufs : "recorder" \notin UsersOf(x)
  BY DEF UsersOf
<1>2. Buffers!Stop
  BY <1>1, SameUsers DEF Buffers!Stop
<1> QED BY <1>2 DEF Buffers!Next

LEMMA StreamStarts ==
    ASSUME \A x \in Bufs : ~ ThreadUses(x) /\ ~ ThreadUses(x)',
           \A x \in Bufs : ~ RecorderUses(x) /\ ~ RecorderUses(x)',
           DriverHas = {}, DriverHas' = Bufs
    PROVE  Buffers!Next
<1>1. \A x \in Bufs : UsersOf(x) = {}
  BY DEF UsersOf
<1>2. Buffers!Start
  BY <1>1, SameUsers DEF Buffers!Start
<1> QED BY <1>2 DEF Buffers!Next

(* A step that gives no buffer to, and takes none from, thread or recorder *)
(* is no step of the circle, or the end of the stream.                     *)
LEMMA BuffersRest ==
    ASSUME \A x \in Bufs : ThreadUses(x)' <=> ThreadUses(x),
           \A x \in Bufs : RecorderUses(x)' <=> RecorderUses(x),
           \/ DriverHas' = DriverHas
           \/ DriverHas' = {} /\ \A x \in Bufs : ~ RecorderUses(x)
    PROVE  [Buffers!Next]_(Buffers!vars)
  BY SameUsers, StreamEnds DEF Buffers!vars

LEMMA CircleThread ==
    ASSUME PlainUse, TurnInv, LentInv, ThreadStep
    PROVE  [Buffers!Next]_(Buffers!vars)
<1> USE DEF Go, Uses
<1>0. /\ MsgInv /\ MessageInv /\ RecordInv /\ FrameInv /\ OnInv /\ Carried
      /\ NoBuf \notin Bufs /\ queued \subseteq Bufs /\ TypeOK
  BY TurnFacts
<1>1. \A d \in Clients : Frees(d)' <=> Frees(d)
  BY TurnFacts, ThreadFacts DEF ThreadLeaves, Frees
<1>2. frame' = frame
  BY TurnFacts, ThreadFacts DEF ThreadLeaves
<1>a. ASSUME held' = held
      PROVE  \A x \in Bufs : RecorderUses(x)' <=> RecorderUses(x)
  BY <1>1, <1>2, <1>a, RecorderRests
\* a step at places without a frame, and one that goes on with it
<1>b. ASSUME UNCHANGED <<held, queued>>, tpc \notin Uses \union Shots, tpc' \notin Uses \union Shots
      PROVE  [Buffers!Next]_(Buffers!vars)
  <2>1. \A x \in Bufs : ThreadUses(x)' <=> ThreadUses(x)
    BY <1>b DEF ThreadUses
  <2>2. DriverHas' = DriverHas
    BY <1>b DEF DriverHas, Shots
  <2> QED BY <1>a, <1>b, <2>1, <2>2, BuffersRest
<1>c. ASSUME UNCHANGED <<held, queued, cur>>, tpc \in Uses, tpc' \in Uses
      PROVE  [Buffers!Next]_(Buffers!vars)
  <2>1. \A x \in Bufs : ThreadUses(x)' <=> ThreadUses(x)
    BY <1>c DEF ThreadUses
  <2>2. DriverHas' = DriverHas
    BY <1>c DEF DriverHas
  <2> QED BY <1>a, <1>c, <2>1, <2>2, BuffersRest
<1>3. CASE begin \/ check_picture \/ check_preview \/ check_exit \/ park \/ wake_up
  BY <1>3, <1>b DEF begin, check_picture, check_preview, check_exit, park, wake_up,
     recordVars, driverVars, Shots
<1>4. CASE stream_on \/ stop_on_error \/ poll \/ start_record \/ stop_record
  BY <1>4, <1>b DEF stream_on, stop_on_error, poll, start_record, stop_record,
     Unchanged_switch, recordVars, driverVars, Shots
<1>5. CASE dequeue_frame
  <2>1. tpc = "dequeue" /\ held' = held
    BY <1>5 DEF dequeue_frame, recordVars
  <2>2. CASE tpc' = "failed" /\ UNCHANGED <<cur, queued>>
    BY <1>b, <2>1, <2>2 DEF Shots
  <2>3. ASSUME NEW b \in queued, cur' = b, queued' = queued \ {b}, tpc' = "frame"
        PROVE  Buffers!Next
    <3>1. b \in Bufs /\ b \in DriverHas /\ DriverHas' = DriverHas \ {b}
      BY <1>0, <2>1, <2>3 DEF DriverHas
    <3>2. ThreadUses(b)' /\ \A x \in Bufs : ~ ThreadUses(x)
      BY <2>1, <2>3 DEF ThreadUses
    <3>3. ~ RecorderUses(b)
      BY <1>0 DEF FrameInv, OneOut, RecorderUses
    <3> QED BY <1>a, <2>1, <3>1, <3>2, <3>3, DriverFills
  <2> QED BY <1>5, <2>2, <2>3 DEF dequeue_frame
<1>6. CASE record_frame
  BY <1>6, <1>c DEF record_frame, Unchanged_frame_done
<1>7. CASE deliver_frame
  <2>1. /\ tpc = "deliver" /\ tpc' = "show" /\ UNCHANGED <<pc, frame, queued, cur>>
        /\ held' = IF msgVideo THEN held \union {cur} ELSE held
    BY <1>7 DEF deliver_frame, Unchanged_frame_done, clientVars
  <2>2. Nothing /\ msgVideo /\ cur \in Bufs
    BY <1>0, <2>1 DEF FrameInv, LockInv, MsgInv, Recorded, Carried
  <2>3. held' = {cur} /\ \A d \in Clients : ~ Frees(d) /\ ~ Frees(d)'
    BY <2>1, <2>2 DEF Nothing, Frees
  <2>4. \A x \in Bufs : ~ RecorderUses(x) /\ (RecorderUses(x)' <=> x = cur)
    BY <2>2, <2>3 DEF RecorderUses, Nothing
  <2>5. ThreadUses(cur) /\ \A x \in Bufs : ThreadUses(x)' <=> ThreadUses(x)
    BY <2>1 DEF ThreadUses
  <2>6. DriverHas' = DriverHas
    BY <2>1 DEF DriverHas
  <2>7. Buffers!Next
    BY <2>2, <2>4, <2>5, <2>6, ThreadLends
  <2> QED BY <2>7
<1>8. CASE show_frame
  BY <1>8, <1>c, NoFault DEF show_frame, Unchanged_frame_done
<1>9. CASE hand_over
  <2>1. tpc = "handover" /\ UNCHANGED <<held, queued, cur>>
    BY <1>9 DEF hand_over, Unchanged_frame_done
  <2>2. CASE tpc' = "queue"
    BY <1>c, <2>1, <2>2
  <2>3. CASE tpc' # "queue"
    <3>1. tpc' = "kept" /\ preview_lock
      BY <1>9, <2>3 DEF hand_over
    <3>2. cur \in Bufs /\ ThreadUses(cur) /\ RecorderUses(cur)
      BY <1>0, <2>1, <3>1 DEF Carried, ThreadUses, LentInv
    <3>3. (\A x \in Bufs : ~ ThreadUses(x)') /\ DriverHas' = DriverHas
      BY <2>1, <3>1 DEF ThreadUses, DriverHas
    <3>4. Buffers!Next
      BY <1>a, <2>1, <3>2, <3>3, ThreadFinishes
    <3> QED BY <3>4
  <2> QED BY <2>2, <2>3
<1>10. CASE queue_frame
  <2>1. tpc \in {"kept", "queue"} /\ tpc' \in {"recordStart", "failed"} /\ held' = held
    BY <1>10 DEF queue_frame, Unchanged_frame_done
  <2>2. CASE tpc = "kept"
    <3>1. Keep
      BY <1>0, <2>2 DEF MsgInv, Recorded, Keep
    <3>2. queued' = queued
      BY <1>10, <3>1 DEF queue_frame
    <3> QED BY <1>b, <2>1, <2>2, <3>2 DEF Shots
  <2>3. CASE tpc = "queue"
    <3>1. cur \in Bufs /\ cur \notin queued /\ Nothing
      BY <1>0, <2>3 DEF Carried, FrameInv, CurInv, LockInv
    <3>2. queued' = queued \union {cur}
      BY <1>10, <2>3, <3>1, NoFault DEF queue_frame, Keep
    <3>3. ThreadUses(cur) /\ ~ RecorderUses(cur)
      BY <2>3, <3>1 DEF ThreadUses, RecorderUses, Nothing
    <3>4. /\ \A x \in Bufs : ~ ThreadUses(x)'
          /\ DriverHas' = DriverHas \union {cur}
      BY <2>1, <2>3, <3>2 DEF ThreadUses, DriverHas
    <3>5. Buffers!Next
      BY <1>a, <2>1, <3>1, <3>3, <3>4, ThreadFinishes
    <3> QED BY <3>5
  <2> QED BY <2>1, <2>2, <2>3
\* the stream stops and starts again for the recorder's format, or for a picture
<1>d. ASSUME tpc \in Switches \union PicPlaces, tpc' \notin Uses, held' = held
      PROVE  \A x \in Bufs : /\ ~ ThreadUses(x) /\ ~ ThreadUses(x)'
                             /\ ~ RecorderUses(x) /\ ~ RecorderUses(x)'
  <2>1. \A x \in Bufs : ~ ThreadUses(x) /\ ~ ThreadUses(x)'
    BY <1>d DEF ThreadUses, Switches, PicPlaces, Shots
  <2> QED BY <1>0, <1>a, <1>d, <2>1, RecorderNeeds
<1>e. ASSUME tpc \in {"switchQueue", "picResume"}, tpc' \notin Uses \union Shots,
             held' = held, queued' = queued \/ \E n \in Nat : v4l_cam_buf_queue_set(n)
      PROVE  [Buffers!Next]_(Buffers!vars)
  <2>1. \A x \in Bufs : /\ ~ ThreadUses(x) /\ ~ ThreadUses(x)'
                        /\ ~ RecorderUses(x) /\ ~ RecorderUses(x)'
    BY <1>d, <1>e DEF Switches, PicPlaces
  <2>2. queued = {} /\ DriverHas = {} /\ DriverHas' = queued'
    BY <1>0, <1>e DEF OnInv, DriverHas, Shots
  <2>3. queued' = {} \/ queued' = Bufs
    BY <1>e, <2>2, QueueSetAll
  <2>4. CASE queued' = {}
    BY <2>1, <2>2, <2>4, BuffersRest
  <2>5. CASE queued' = Bufs
    <3>1. Buffers!Next
      BY <2>1, <2>2, <2>5, StreamStarts
    <3> QED BY <3>1
  <2> QED BY <2>3, <2>4, <2>5
<1>11. CASE switch_off \/ switch_on
  <2>1. /\ tpc \in Switches /\ tpc' \notin Uses /\ held' = held
        /\ UNCHANGED queued \/ queued' = {}
        /\ tpc' \notin Shots
    BY <1>11 DEF switch_off, switch_on, SwitchEnds, Unchanged_switch, v4l_cam_streaming_stop,
       Switches, Shots
  <2>2. \A x \in Bufs : /\ ~ ThreadUses(x) /\ ~ ThreadUses(x)'
                        /\ ~ RecorderUses(x) /\ ~ RecorderUses(x)'
    BY <1>d, <2>1
  <2>3. DriverHas' = DriverHas \/ DriverHas' = {}
    BY <2>1 DEF DriverHas, Switches, Shots
  <2> QED BY <2>2, <2>3, BuffersRest
<1>12. CASE switch_queue
  <2>1. /\ tpc = "switchQueue" /\ tpc' \in {"switchOn", "recordStop", "top"} /\ held' = held
        /\ \E n \in Nat : v4l_cam_buf_queue_set(n)
    BY <1>12, CameraAssumption DEF switch_queue, SwitchEnds, Unchanged_switch
  <2> QED BY <1>e, <2>1 DEF Shots
<1>13. CASE picture_stop \/ picture_queue \/ picture_on \/ picture_shot \/ picture_off
  <2>1. /\ tpc \in PicPlaces /\ tpc' \notin Uses /\ held' = held /\ DriverHas' = {}
    BY <1>13 DEF picture_stop, picture_queue, picture_on, picture_shot, picture_off,
       Unchanged_picture, v4l_cam_streaming_stop, recordVars, PicPlaces, Shots, DriverHas
  <2> QED BY <1>d, <2>1, BuffersRest
<1>14. CASE picture_restore
  <2>1. tpc = "picRestore" /\ tpc' = "picResume" /\ UNCHANGED <<held, queued>>
    BY <1>14 DEF picture_restore, Unchanged_picture, recordVars
  <2> QED BY <1>b, <2>1 DEF Shots
<1>15. CASE picture_resume
  <2>1. /\ tpc = "picResume" /\ tpc' = "picLast" /\ held' = held
        /\ queued' = queued \/ \E n \in Nat : v4l_cam_buf_queue_set(n)
    BY <1>15, CameraAssumption DEF picture_resume, Unchanged_picture, recordVars
  <2> QED BY <1>e, <2>1 DEF Shots
<1>16. CASE picture_last \/ picture_deliver
  BY <1>16, <1>b DEF picture_last, picture_deliver, Unchanged_picture, recordVars, driverVars,
     Shots
<1> QED BY <1>3, <1>4, <1>5, <1>6, <1>7, <1>8, <1>9, <1>10, <1>11, <1>12, <1>13, <1>14, <1>15,
           <1>16 DEF ThreadStep

LEMMA CircleClient ==
    ASSUME PlainUse, TurnInv, LentInv, NEW c \in Clients, Request(c) \/ ClientStep(c),
           ~ v4l_cam_open(c)
    PROVE  [Buffers!Next]_(Buffers!vars)
<1> USE DEF Move, Uses
<1>0. /\ MsgInv /\ MessageInv /\ RecordInv /\ FrameInv /\ OneMethod /\ Carried /\ StartInv
      /\ UnsetInv /\ OffInv
      /\ pc \in [Clients -> ClientPC] /\ frame \in [Clients -> Bufs \union {NoBuf}]
      /\ NoBuf \notin Bufs /\ queued \subseteq Bufs
  BY TurnFacts
<1>1. ClientLeaves(c)
  BY TurnFacts, ClientFacts
<1>2. \A x \in Bufs : ThreadUses(x)' <=> ThreadUses(x)
  BY <1>1 DEF ClientLeaves, ThreadUses
<1>3. (queued' = queued => DriverHas' = DriverHas) /\ (queued' = {} => DriverHas' = {})
  BY <1>1 DEF ClientLeaves, DriverHas
\* a step that moves no buffer but, at most, ends the stream
<1>a. ASSUME UNCHANGED <<frame, held>>, ~ Frees(c), ~ Frees(c)',
             queued' = queued \/ (queued' = {} /\ \A x \in Bufs : ~ RecorderUses(x))
      PROVE  [Buffers!Next]_(Buffers!vars)
  <2>1. \A d \in Clients : Frees(d)' <=> Frees(d)
    BY <1>1, <1>a DEF ClientLeaves, Frees
  <2>2. \A x \in Bufs : RecorderUses(x)' <=> RecorderUses(x)
    BY <1>a, <2>1, RecorderRests
  <2> QED BY <1>2, <1>3, <1>a, <2>2, BuffersRest
<1>b. ASSUME ~ preview \/ pc[c] \notin RecordOn
      PROVE  \A x \in Bufs : ~ RecorderUses(x)
  BY <1>0, <1>b, RecorderNeeds
<1>4. CASE \/ set_parameters(c) \/ start_preview(c) \/ stop_preview(c) \/ take_picture(c)
           \/ enable_msg_type(c) \/ release(c)
  <2>1. /\ UNCHANGED <<frame, held, queued>> /\ pc[c] = "idle"
        /\ pc'[c] \in {"idle", "setRecord", "spRecord", "spGeometry", "stClear", "tpSet",
                       "recStart", "relPicture"}
    BY <1>0, <1>4 DEF set_parameters, start_preview, stop_preview, take_picture,
       enable_msg_type, release, CanCall, recordVars, driverVars
  <2> QED BY <1>a, <2>1 DEF Frees
<1>5. CASE cancel_picture(c)
  <2>1. UNCHANGED <<pc, frame, held, queued>> /\ pc[c] = "idle"
    BY <1>5 DEF cancel_picture, CanCall, clientVars, recordVars, driverVars
  <2> QED BY <1>a, <2>1 DEF Frees
<1>6. CASE disable_msg_type(c)
  BY <1>6, NoFault DEF disable_msg_type, CanCall
<1>7. CASE \E b \in Bufs : release_recording_frame(c, b)
  <2>1. PICK b \in held : /\ held' = held \ {b} /\ frame' = [frame EXCEPT ![c] = b]
                          /\ pc' = [pc EXCEPT ![c] = "rfLock"] /\ pc[c] = "idle"
                          /\ queued' = queued
    BY <1>7 DEF release_recording_frame, driverVars
  <2>2. held = {b} /\ held' = {} /\ \A d \in Clients : ~ Frees(d)
    BY <1>0, <2>1 DEF FrameInv, OneOut
  <2>3. (\A d \in Clients : Frees(d)' <=> d = c) /\ frame'[c] = b
    BY <1>0, <2>1, <2>2 DEF Frees
  <2>4. \A x \in Bufs : RecorderUses(x)' <=> RecorderUses(x)
    BY <2>2, <2>3 DEF RecorderUses
  <2> QED BY <1>2, <1>3, <2>1, <2>4, BuffersRest
<1>8. CASE set_record(c) \/ preview_geometry(c) \/ set_preview(c) \/ clear_preview(c)
  <2>1. /\ UNCHANGED <<frame, held, queued>> /\ ~ Frees(c)
        /\ pc'[c] \notin {"rfLock", "rfQueue"}
    BY <1>0, <1>8 DEF set_record, preview_geometry, set_preview, clear_preview, recordVars,
       driverVars, Frees
  <2> QED BY <1>a, <2>1 DEF Frees
<1>9. CASE set_configure(c)
  <2>1. /\ UNCHANGED <<frame, held>> /\ ~ Frees(c) /\ pc'[c] \in {"idle", "spGeometry"}
        /\ preview => queued' = queued
        /\ queued' \in {queued, {}}
    BY <1>0, <1>9 DEF set_configure, v4l_cam_configure, configure_fails, recordVars, Frees
  <2> QED BY <1>a, <1>b, <2>1 DEF Frees
<1>10. CASE \/ wait_for_stop(c) \/ preview_stopped(c) \/ set_picture(c) \/ start_recording(c)
            \/ stop_recording(c) \/ release_flags(c) \/ release_signal(c)
  <2>1. /\ UNCHANGED <<frame, held, queued>> /\ ~ Frees(c)
        /\ pc'[c] \notin {"rfLock", "rfQueue"}
    BY <1>0, <1>10 DEF wait_for_stop, preview_stopped, set_picture, start_recording,
       stop_recording, release_flags, release_signal, recordVars, driverVars, Frees
  <2> QED BY <1>a, <2>1 DEF Frees
<1>11. CASE stop_streaming(c) \/ release_streaming(c) \/ release_join(c)
  <2>1. /\ UNCHANGED <<frame, held>> /\ ~ Frees(c) /\ queued' = {}
        /\ pc[c] \notin RecordOn /\ pc'[c] \in {"idle", "relSignal"}
    BY <1>0, <1>11 DEF stop_streaming, release_streaming, release_join,
       v4l_cam_streaming_stop, recordVars, Frees, RecordOn
  <2> QED BY <1>a, <1>b, <2>1 DEF Frees
<1>12. CASE queue_preview(c)
  <2>1. /\ UNCHANGED <<frame, held, cur, tpc>> /\ pc[c] = "spQueue" /\ ~ Frees(c)'
        /\ \E n \in Nat : v4l_cam_buf_queue_set(n)
    BY <1>0, <1>12, CameraAssumption DEF queue_preview, threadVars, recordVars, Frees
  <2>2. ~ preview /\ ~ exit
    BY <1>0, <2>1 DEF StartInv, In, Starts
  <2>3. ~ In({"spSet"}) /\ ~ In(Stops \union InRelease)
    BY <1>0, <2>1 DEF OneMethod, Busy, In, Stops, InRelease
  <2>4. queued = {} /\ tpc \notin Uses \union Shots
    BY <1>0, <2>2, <2>3 DEF Resting, OffInv, UnsetInv, PicPlaces, Shots
  <2>5. queued' = Bufs
    BY <2>1, <2>4, QueueSetAll
  <2>6. \A d \in Clients : Frees(d)' <=> Frees(d)
    BY <1>1, <2>1 DEF ClientLeaves, Frees
  <2>7. \A x \in Bufs : ~ RecorderUses(x) /\ ~ RecorderUses(x)'
    BY <1>b, <2>1, <2>2, <2>6, RecorderRests
  <2>8. \A x \in Bufs : ~ ThreadUses(x) /\ ~ ThreadUses(x)'
    BY <2>1, <2>4 DEF ThreadUses
  <2>9. DriverHas = {} /\ DriverHas' = Bufs
    BY <2>1, <2>4, <2>5 DEF DriverHas, Shots
  <2>10. Buffers!Next
    BY <2>7, <2>8, <2>9, StreamStarts
  <2> QED BY <2>10
<1>13. CASE take_preview_lock(c)
  <2>1. /\ pc[c] = "rfLock" /\ UNCHANGED <<held, queued, tpc, cur>>
        /\ \/ /\ preview_lock /\ pc' = [pc EXCEPT ![c] = "idle"]
              /\ frame' = [frame EXCEPT ![c] = NoBuf]
           \/ ~ preview_lock /\ pc' = [pc EXCEPT ![c] = "rfQueue"] /\ frame' = frame
    BY <1>13 DEF take_preview_lock, threadVars, driverVars
  <2>2. Frees(c) /\ held = {} /\ \A d \in Clients : Frees(d) => d = c
    BY <1>0, <2>1 DEF Frees, FrameInv, OneOut
  <2>3. CASE preview_lock
    <3>1. /\ frame[c] = cur /\ tpc \in {"show", "handover"} /\ cur \in Bufs
      BY <1>0, <2>2, <2>3 DEF FrameInv, LockInv, Nothing, Carried
    <3>2. \A d \in Clients : ~ Frees(d)'
      BY <1>0, <2>1, <2>2, <2>3 DEF Frees
    <3>3. \A x \in Bufs : (RecorderUses(x) <=> x = cur) /\ ~ RecorderUses(x)'
      BY <2>1, <2>2, <3>1, <3>2 DEF RecorderUses
    <3>4. ThreadUses(cur)
      BY <3>1 DEF ThreadUses
    <3>5. Buffers!Next
      BY <1>2, <1>3, <2>1, <3>1, <3>3, <3>4, RecorderFinishes
    <3> QED BY <3>5
  <2>4. CASE ~ preview_lock
    <3>1. frame' = frame /\ \A d \in Clients : Frees(d)' <=> Frees(d)
      BY <1>0, <2>1, <2>4 DEF Frees
    <3> QED BY <1>2, <1>3, <2>1, <3>1, RecorderRests, BuffersRest
  <2> QED BY <2>3, <2>4
<1>14. CASE queue_released(c)
  <2>1. /\ pc[c] = "rfQueue" /\ pc' = [pc EXCEPT ![c] = "idle"]
        /\ frame' = [frame EXCEPT ![c] = NoBuf] /\ UNCHANGED <<held, tpc, cur>>
        /\ queued' = IF record THEN queued \union {frame[c]} ELSE queued
    BY <1>14 DEF queue_released, threadVars, recordVars
  <2>2. /\ Frees(c) /\ held = {} /\ (\A d \in Clients : Frees(d) => d = c)
        /\ frame[c] \in Bufs
    BY <1>0, <2>1 DEF Frees, FrameInv, OneOut, Carried
  <2>3. ~ preview_lock
    BY <1>0, <2>1, <2>2 DEF FrameInv, LockInv
  <2>4. tpc \notin {"deliver", "show", "handover", "queue"}
    BY <1>0, <2>2, <2>3 DEF FrameInv, LockInv, Nothing
  <2>5. \A d \in Clients : ~ Frees(d)'
    BY <1>0, <2>1, <2>2 DEF Frees
  <2>6. \A x \in Bufs : (RecorderUses(x) <=> x = frame[c]) /\ ~ RecorderUses(x)'
    BY <2>1, <2>2, <2>5 DEF RecorderUses
  <2>7. record /\ tpc \notin PicPlaces
    BY <1>0, <2>2, <2>6, RecorderNeeds
  <2>8. ~ ThreadUses(frame[c])
    BY <1>0, <2>4 DEF ThreadUses, FrameInv, CurInv
  <2>9. DriverHas' = DriverHas \union {frame[c]}
    BY <2>1, <2>7 DEF DriverHas, PicPlaces, Shots
  <2>10. Buffers!Next
    BY <1>2, <2>2, <2>6, <2>8, <2>9, RecorderFinishes
  <2> QED BY <2>10
<1> QED BY <1>4, <1>5, <1>6, <1>7, <1>8, <1>9, <1>10, <1>11, <1>12, <1>13, <1>14
        DEF Request, ClientStep

\* closing and opening again moves no buffer
LEMMA CircleOpen ==
    ASSUME NEW c \in Clients, v4l_cam_open(c)
    PROVE  [Buffers!Next]_(Buffers!vars) /\ LentInv'
<1>1. UNCHANGED <<frame, held, cur, queued, pc>> /\ tpc = "done" /\ tpc' = "start"
  BY DEF v4l_cam_open, Go, clientVars, recordVars, driverVars
<1>2. \A x \in Bufs : RecorderUses(x)' <=> RecorderUses(x)
  BY <1>1, RecorderRests DEF Frees
<1>3. (\A x \in Bufs : ThreadUses(x)' <=> ThreadUses(x)) /\ DriverHas' = DriverHas
  BY <1>1 DEF ThreadUses, DriverHas
<1> QED BY <1>1, <1>2, <1>3, BuffersRest DEF LentInv

CircleInv == PlainInv /\ (missed \/ LentInv)

(* The thread, its callbacks and the releases of the recorder implement    *)
(* the circle of the buffers: each frame is given back once, by the last   *)
(* of the two that used it, and the driver fills none that is in use.      *)
THEOREM CameraBuffersCircle ==
    ASSUME PlainUse
    PROVE  Spec /\ [] ~ missed => BuffersCircle
<1>1. Init => Buffers!Init /\ CircleInv
  <2> SUFFICES ASSUME Init PROVE Buffers!Init /\ CircleInv
    OBVIOUS
  <2>1. \A b \in Bufs : UsersOf(b) = {}
    BY DEF Init, UsersOf, ThreadUses, RecorderUses, Frees
  <2>2. DriverHas = {} /\ LentInv
    BY DEF Init, DriverHas, LentInv
  <2> QED BY <2>1, <2>2, PlainInit DEF Buffers!Init, CircleInv
<1>2. CircleInv /\ [Next]_vars => CircleInv'
  <2> SUFFICES ASSUME CircleInv, [Next]_vars, ~ missed' PROVE LentInv'
    BY PlainKept DEF CircleInv
  <2>1. ASSUME NEW c \in Clients, v4l_cam_open(c) PROVE LentInv'
    BY <2>1, CircleOpen
  <2>2. CASE ~ \E c \in Clients : v4l_cam_open(c)
    <3>1. ~ missed
      BY <2>2, MissedKept, BaseFacts DEF CircleInv, PlainInv
    <3>2. TurnInv /\ LentInv
      BY <3>1 DEF CircleInv, PlainInv, TurnInv
    <3>3. CASE ThreadStep
      BY <3>2, <3>3, LentThread
    <3>4. ASSUME NEW c \in Clients, Request(c) \/ ClientStep(c) PROVE LentInv'
      BY <2>2, <3>2, <3>4, LentClient
    <3>5. CASE UNCHANGED vars
      BY <3>2, <3>5 DEF vars, threadVars, clientVars, recordVars, LentInv, RecorderUses, Frees
    <3> QED BY <3>3, <3>4, <3>5 DEF Next
  <2> QED BY <2>1, <2>2
<1>3. CircleInv /\ ~ missed /\ [Next]_vars => [Buffers!Next]_(Buffers!vars)
  <2> SUFFICES ASSUME CircleInv, ~ missed, [Next]_vars PROVE [Buffers!Next]_(Buffers!vars)
    OBVIOUS
  <2>0. TurnInv /\ LentInv
    BY DEF CircleInv, PlainInv, TurnInv
  <2>1. CASE ThreadStep
    BY <2>0, <2>1, CircleThread
  <2>2. ASSUME NEW c \in Clients, Request(c) \/ ClientStep(c)
        PROVE  [Buffers!Next]_(Buffers!vars)
    BY <2>0, <2>2, CircleClient, CircleOpen
  <2>3. CASE UNCHANGED vars
    <3>1. \A b \in Bufs : UsersOf(b)' = UsersOf(b)
      BY <2>3 DEF vars, threadVars, clientVars, recordVars, UsersOf, ThreadUses,
         RecorderUses, Frees
    <3>2. DriverHas' = DriverHas
      BY <2>3 DEF vars, threadVars, driverVars, DriverHas
    <3> QED BY <3>1, <3>2 DEF Buffers!vars
  <2> QED BY <2>1, <2>2, <2>3 DEF Next
<1> QED BY <1>1, <1>2, <1>3, PTL DEF Spec, BuffersCircle, Buffers!Spec
=============================================================================
