--------------------------- MODULE V4lCameraProofs --------------------------
(***************************************************************************)
(* Proofs about V4lCamera for any number of clients and buffers, whatever  *)
(* the clients call and whatever fails.                                    *)
(***************************************************************************)
EXTENDS V4lCamera, FiniteSetTheorems, TLAPS

(* The thread and a release carry a buffer at the places they use one. *)
Carried ==
    /\ tpc \in {"frame", "deliver", "show", "handover", "kept", "queue"} => cur \in Bufs
    /\ \A c \in Clients : pc[c] \in {"rfLock", "rfQueue"} => frame[c] \in Bufs

CameraInv == TypeOK /\ Carried

(* Clients run one method at a time, except release_recording_frame. *)
Busy(c) == pc[c] \notin {"idle", "rfLock", "rfQueue"}
OneMethod == \A c, d \in Clients : Busy(c) /\ Busy(d) => c = d

(* Between the signal stop_preview was waiting for and its return, the     *)
(* thread can only go on to its own wait, or end.                          *)
StopPlaces ==
    \A c \in Clients :
        /\ pc[c] = "stWoken" => tpc \in {"chkExit", "toPark", "parked", "done"}
        /\ pc[c] = "stOff" => tpc \in {"parked", "done"}

-----------------------------------------------------------------------------
(* v4l_cam_buf_queue_set queues buffers of the driver. *)
LEMMA QueueSetBufs ==
    ASSUME NEW n, v4l_cam_buf_queue_set(n), queued \subseteq Bufs
    PROVE  queued' \subseteq Bufs
  BY DEF v4l_cam_buf_queue_set

LEMMA NoShots == 0 \in 0 .. NumBufs
  BY CameraAssumption

(* v4l_cam_configure, done or refused, keeps the types of what it changes. *)
LEMMA ConfigureTypes ==
    ASSUME TypeOK, v4l_cam_configure \/ configure_fails
    PROVE  /\ configured' \in BOOLEAN /\ queued' \subseteq Bufs
           /\ format' \in {"preview", "picture", "other"}
<1>1. CASE v4l_cam_configure /\ streaming
  BY <1>1 DEF TypeOK, FlagTypes, BufferTypes, v4l_cam_configure
<1>2. CASE v4l_cam_configure /\ ~ streaming
  BY <1>2 DEF TypeOK, FlagTypes, BufferTypes, v4l_cam_configure
<1>3. CASE configure_fails
  BY <1>3 DEF TypeOK, FlagTypes, BufferTypes, configure_fails
<1> QED BY <1>1, <1>2, <1>3

(* So do the formats set_parameters writes. *)
LEMMA NewFormatTypes ==
    ASSUME TypeOK, NewFormat
    PROVE  same' \in BOOLEAN /\ format' \in {"preview", "picture", "other"}
  BY DEF TypeOK, FlagTypes, BufferTypes, NewFormat

(* What a switch between the sets of buffers leaves behind is well typed. *)
LEMMA SwitchTypes ==
    ASSUME NEW ok \in BOOLEAN, SwitchEnds(ok), preview \in BOOLEAN
    PROVE  /\ set' \in {"preview", "record"} /\ record' \in BOOLEAN /\ preview' \in BOOLEAN
           /\ tpc' \in {"recordStop", "top"}
<1>1. record' = (ok /\ set = "preview") /\ preview' = (preview /\ (ok \/ set = "preview"))
  BY DEF SwitchEnds
<1>2. set' \in {"preview", "record"} /\ tpc' \in {"recordStop", "top"}
  BY DEF SwitchEnds, Go
<1> QED BY <1>1, <1>2

(* The signal leaves the clients where they are, or wakes one of them. *)
LEMMA SignalKeeps ==
    ASSUME TypeOK, SignalStop
    PROVE  /\ pc' \in [Clients -> ClientPC]
           /\ \A c \in Clients : pc'[c] = pc[c] \/ (pc[c] = "stWait" /\ pc'[c] = "stWoken")
  BY DEF TypeOK, PlaceTypes, SignalStop, Move, ClientPC

(* The flags are Boolean, each of them. *)
LEMMA FlagsOf ==
    CameraInv => /\ exit \in BOOLEAN /\ configured \in BOOLEAN /\ picture \in BOOLEAN
                 /\ preview \in BOOLEAN /\ record \in BOOLEAN /\ record_start \in BOOLEAN
                 /\ record_stop \in BOOLEAN /\ preview_lock \in BOOLEAN /\ msgVideo \in BOOLEAN
                 /\ streaming \in BOOLEAN /\ same \in BOOLEAN
                 /\ pointers \in BOOLEAN /\ missed \in BOOLEAN
  BY DEF CameraInv, TypeOK, FlagTypes

(* A step of the preview thread keeps the types and what is carried. *)
LEMMA ThreadKeeps ==
    ASSUME CameraInv, ThreadStep
    PROVE  CameraInv'
\* the flags a step sets
<1>t1. ASSUME stream_on PROVE streaming' \in BOOLEAN
  BY <1>t1, FlagsOf DEF stream_on
<1>t2. ASSUME stop_on_error PROVE preview' \in BOOLEAN
  BY <1>t2, FlagsOf DEF stop_on_error
<1>t3. ASSUME record_frame PROVE preview_lock' \in BOOLEAN
  BY <1>t3, FlagsOf DEF record_frame
<1>t4. ASSUME hand_over PROVE preview_lock' \in BOOLEAN
  BY <1>t4, FlagsOf DEF hand_over
<1>t5. ASSUME start_record PROVE record' \in BOOLEAN /\ record_start' \in BOOLEAN
  BY <1>t5, FlagsOf DEF start_record
<1>t6. ASSUME stop_record PROVE record' \in BOOLEAN /\ record_stop' \in BOOLEAN
  BY <1>t6, FlagsOf DEF stop_record
<1>t7. ASSUME picture_stop PROVE picture' \in BOOLEAN /\ streaming' \in BOOLEAN
  BY <1>t7, FlagsOf DEF picture_stop, v4l_cam_streaming_stop
<1>t8. ASSUME picture_queue PROVE picture' \in BOOLEAN
  BY <1>t8, FlagsOf DEF picture_queue
<1>t9. ASSUME picture_on PROVE picture' \in BOOLEAN /\ streaming' \in BOOLEAN
  BY <1>t9, FlagsOf DEF picture_on
<1>t10. ASSUME picture_resume PROVE streaming' \in BOOLEAN
  BY <1>t10, FlagsOf DEF picture_resume
<1>t11. ASSUME picture_deliver PROVE picture' \in BOOLEAN
  BY <1>t11, FlagsOf DEF picture_deliver
<1>t12. ASSUME picture_off PROVE streaming' \in BOOLEAN
  BY <1>t12, FlagsOf DEF picture_off, v4l_cam_streaming_stop
<1>t15. ASSUME check_preview PROVE missed' \in BOOLEAN
  BY <1>t15, FlagsOf DEF check_preview
<1>t16. ASSUME wake_up PROVE pointers' \in BOOLEAN
  BY <1>t16, FlagsOf DEF wake_up
<1> USE DEF CameraInv, TypeOK, PlaceTypes, FlagTypes, BufferTypes, Carried, Locked, Unlocked,
            ClientPC, InRelease, Go, Move, May, threadVars, clientVars, recordVars, driverVars
<1>0. CASE begin
  BY <1>0 DEF begin
<1>1. CASE check_picture
  BY <1>1 DEF check_picture
<1>2. CASE check_preview
  <2>1. UNCHANGED <<exit, configured, picture, preview, record, record_start,
                    record_stop, preview_lock, msgVideo, streaming, same, pointers>>
    BY <1>2 DEF check_preview
  <2>2. FlagTypes'
    BY <1>2, <1>t15, <2>1
  <2>3. PlaceTypes' /\ BufferTypes' /\ Carried'
    BY <1>2, SignalKeeps DEF check_preview
  <2> QED BY <2>2, <2>3
<1>3. CASE check_exit
  BY <1>3 DEF check_exit
<1>4. CASE park
  BY <1>4 DEF park
<1>5. CASE wake_up
  <2>1. UNCHANGED <<exit, configured, picture, preview, record, record_start,
                    record_stop, preview_lock, msgVideo, streaming, same, missed>>
    BY <1>5 DEF wake_up
  <2>2. FlagTypes'
    BY <1>5, <1>t16, <2>1
  <2>3. PlaceTypes' /\ BufferTypes' /\ Carried'
    BY <1>5 DEF wake_up
  <2> QED BY <2>2, <2>3
<1>6. CASE stream_on
  <2>1. UNCHANGED <<exit, configured, picture, preview, record, record_start,
                    record_stop, preview_lock, msgVideo, same, pointers, missed>>
    BY <1>6 DEF stream_on
  <2>2. FlagTypes'
    BY <1>6, <1>t1, <2>1
  <2>3. PlaceTypes' /\ BufferTypes' /\ Carried'
    BY <1>6 DEF stream_on
  <2> QED BY <2>2, <2>3
<1>7. CASE stop_on_error
  <2>1. UNCHANGED <<exit, configured, picture, record, record_start, record_stop,
                    preview_lock, msgVideo, streaming, same, pointers, missed>>
    BY <1>7 DEF stop_on_error
  <2>2. FlagTypes'
    BY <1>7, <1>t2, <2>1
  <2>3. PlaceTypes' /\ BufferTypes' /\ Carried'
    BY <1>7 DEF stop_on_error
  <2> QED BY <2>2, <2>3
<1>8. CASE poll
  BY <1>8 DEF poll
<1>9. CASE dequeue_frame
  BY <1>9 DEF dequeue_frame
<1>10. CASE record_frame
  <2>1. UNCHANGED <<exit, configured, picture, preview, record, record_start,
                    record_stop, msgVideo, streaming, same, pointers, missed>>
    BY <1>10 DEF record_frame, Unchanged_frame_done
  <2>2. FlagTypes'
    BY <1>10, <1>t3, <2>1
  <2>3. PlaceTypes' /\ BufferTypes' /\ Carried'
    BY <1>10 DEF record_frame, Unchanged_frame_done
  <2> QED BY <2>2, <2>3
<1>11. CASE deliver_frame
  BY <1>11 DEF deliver_frame, Unchanged_frame_done
<1>12. CASE show_frame
  BY <1>12 DEF show_frame, Unchanged_frame_done
<1>13. CASE hand_over
  <2>1. UNCHANGED <<exit, configured, picture, preview, record, record_start,
                    record_stop, msgVideo, streaming, same, pointers, missed>>
    BY <1>13 DEF hand_over, Unchanged_frame_done
  <2>2. FlagTypes'
    BY <1>13, <1>t4, <2>1
  <2>3. PlaceTypes' /\ BufferTypes' /\ Carried'
    BY <1>13 DEF hand_over, Unchanged_frame_done
  <2> QED BY <2>2, <2>3
<1>14. CASE queue_frame
  BY <1>14 DEF queue_frame, Unchanged_frame_done, Keep
<1>15. CASE start_record
  <2>1. UNCHANGED <<exit, configured, picture, preview, record_stop, preview_lock,
                    msgVideo, streaming, same, pointers, missed>>
    BY <1>15 DEF start_record
  <2>2. FlagTypes'
    BY <1>15, <1>t5, <2>1
  <2>3. PlaceTypes' /\ BufferTypes' /\ Carried'
    BY <1>15 DEF start_record
  <2> QED BY <2>2, <2>3
<1>16. CASE stop_record
  <2>1. UNCHANGED <<exit, configured, picture, preview, record_start, preview_lock,
                    msgVideo, streaming, same, pointers, missed>>
    BY <1>16 DEF stop_record, Unchanged_switch
  <2>2. FlagTypes'
    BY <1>16, <1>t6, <2>1
  <2>3. PlaceTypes' /\ BufferTypes' /\ Carried'
    BY <1>16 DEF stop_record, Unchanged_switch
  <2> QED BY <2>2, <2>3
<1>17. CASE picture_stop
  <2>1. UNCHANGED <<exit, configured, preview, record, record_start, record_stop,
                    preview_lock, msgVideo, same, pointers, missed>>
    BY <1>17 DEF picture_stop, v4l_cam_streaming_stop, Unchanged_picture
  <2>2. FlagTypes'
    BY <1>17, <1>t7, <2>1
  <2>3. PlaceTypes' /\ BufferTypes' /\ Carried'
    BY <1>17, NoShots DEF picture_stop, v4l_cam_streaming_stop, Unchanged_picture
  <2> QED BY <2>2, <2>3
<1>18. CASE picture_queue
  <2>1. UNCHANGED <<exit, configured, preview, record, record_start, record_stop,
                    preview_lock, msgVideo, streaming, same, pointers, missed>>
    BY <1>18 DEF picture_queue, Unchanged_picture
  <2>2. FlagTypes'
    BY <1>18, <1>t8, <2>1
  <2>3. PlaceTypes' /\ BufferTypes' /\ Carried'
    BY <1>18, QueueSetBufs, CameraAssumption DEF picture_queue, Unchanged_picture
  <2> QED BY <2>2, <2>3
<1>19. CASE picture_on
  <2>1. UNCHANGED <<exit, configured, preview, record, record_start, record_stop,
                    preview_lock, msgVideo, same, pointers, missed>>
    BY <1>19 DEF picture_on, Unchanged_picture
  <2>2. FlagTypes'
    BY <1>19, <1>t9, <2>1
  <2>3. PlaceTypes' /\ BufferTypes' /\ Carried'
    BY <1>19, NoShots DEF picture_on, Unchanged_picture
  <2> QED BY <2>2, <2>3
<1>20. CASE picture_shot
  BY <1>20, CameraAssumption DEF picture_shot, Unchanged_picture
<1>21. CASE picture_restore
  BY <1>21 DEF picture_restore, Unchanged_picture
<1>22. CASE picture_resume
  <2>1. UNCHANGED <<exit, configured, picture, preview, record, record_start,
                    record_stop, preview_lock, msgVideo, same, pointers, missed>>
    BY <1>22 DEF picture_resume, Unchanged_picture
  <2>2. FlagTypes'
    BY <1>22, <1>t10, <2>1
  <2>3. PlaceTypes' /\ BufferTypes' /\ Carried'
    BY <1>22, QueueSetBufs DEF picture_resume, Unchanged_picture
  <2> QED BY <2>2, <2>3
<1>23. CASE picture_last
  BY <1>23 DEF picture_last, Unchanged_picture
<1>24. CASE picture_deliver
  <2>1. UNCHANGED <<exit, configured, preview, record, record_start, record_stop,
                    preview_lock, msgVideo, streaming, same, pointers, missed>>
    BY <1>24 DEF picture_deliver, Unchanged_picture
  <2>2. FlagTypes'
    BY <1>24, <1>t11, <2>1
  <2>3. PlaceTypes' /\ BufferTypes' /\ Carried'
    BY <1>24 DEF picture_deliver, Unchanged_picture
  <2> QED BY <2>2, <2>3
<1>25. CASE picture_off
  <2>1. UNCHANGED <<exit, configured, picture, preview, record, record_start,
                    record_stop, preview_lock, msgVideo, same, pointers, missed>>
    BY <1>25 DEF picture_off, v4l_cam_streaming_stop, Unchanged_picture
  <2>2. FlagTypes'
    BY <1>25, <1>t12, <2>1
  <2>3. PlaceTypes' /\ BufferTypes' /\ Carried'
    BY <1>25 DEF picture_off, v4l_cam_streaming_stop, Unchanged_picture
  <2> QED BY <2>2, <2>3
<1>26. CASE switch_off \/ switch_queue \/ switch_on
  <2>1. /\ UNCHANGED <<cur, shot, shots, need_init, pointers, missed, pc, frame, exit,
                        configured, picture, record_start, preview_lock, msgVideo, held, same>>
        /\ record_stop' = record_stop
        /\ tpc \in {"switchOff", "switchQueue", "switchOn"}
    BY <1>26 DEF switch_off, switch_queue, switch_on, Unchanged_switch
  <2>2. \/ UNCHANGED <<set, record, preview>> /\ tpc' \in {"switchQueue", "switchOn"}
        \/ SwitchEnds(FALSE)
        \/ SwitchEnds(TRUE)
    BY <1>26 DEF switch_off, switch_queue, switch_on
  <2>3. /\ set' \in {"preview", "record"} /\ record' \in BOOLEAN /\ preview' \in BOOLEAN
        /\ tpc' \in {"recordStop", "top", "switchQueue", "switchOn"}
    BY <2>2, SwitchTypes
  <2>4. queued' \subseteq Bufs /\ streaming' \in BOOLEAN
        /\ format' \in {"preview", "picture", "other"}
    BY <1>26, QueueSetBufs DEF switch_off, switch_queue, switch_on, v4l_cam_streaming_stop
  <2>5. PlaceTypes'
    BY <2>1, <2>3
  <2>6. FlagTypes'
    BY <2>1, <2>3, <2>4
  <2>7. BufferTypes' /\ Carried'
    BY <2>1, <2>3, <2>4
  <2> QED BY <2>5, <2>6, <2>7
<1> QED BY <1>0, <1>1, <1>2, <1>3, <1>4, <1>5, <1>6, <1>7, <1>8, <1>9, <1>10, <1>11,
           <1>12, <1>13, <1>14, <1>15, <1>16, <1>17, <1>18, <1>19, <1>20, <1>21, <1>22,
           <1>23, <1>24, <1>25, <1>26 DEF ThreadStep

(* So does a call. *)
LEMMA RequestKeeps ==
    ASSUME CameraInv, NEW c \in Clients, Request(c)
    PROVE  CameraInv'
\* the flags a call sets
<1>r1. ASSUME cancel_picture(c) PROVE picture' \in BOOLEAN
  BY <1>r1, FlagsOf DEF cancel_picture
<1>r2. ASSUME enable_msg_type(c) PROVE msgVideo' \in BOOLEAN
  BY <1>r2, FlagsOf DEF enable_msg_type
<1>r3. ASSUME disable_msg_type(c) PROVE msgVideo' \in BOOLEAN
  BY <1>r3, FlagsOf DEF disable_msg_type
<1>r4. ASSUME release(c) PROVE record' \in BOOLEAN
  BY <1>r4, FlagsOf DEF release
<1>r5. ASSUME v4l_cam_open(c) PROVE /\ exit' \in BOOLEAN /\ pointers' \in BOOLEAN
                                  /\ missed' \in BOOLEAN
  BY <1>r5, FlagsOf DEF v4l_cam_open
<1> USE DEF CameraInv, TypeOK, PlaceTypes, FlagTypes, BufferTypes, Carried, Locked, Unlocked,
            ClientPC, InRelease, Go, Move, May, threadVars, clientVars, recordVars, driverVars
<1>1. CASE set_parameters(c) \/ start_preview(c)
  <2>1. UNCHANGED <<same, format>> \/ NewFormat
    BY <1>1 DEF set_parameters, start_preview
  <2>2. same' \in BOOLEAN /\ format' \in {"preview", "picture", "other"}
    BY <2>1, NewFormatTypes
  <2>3. pc' = pc \/ \E to \in {"setRecord", "spRecord", "spGeometry"} :
            pc' = [pc EXCEPT ![c] = to]
    BY <1>1 DEF set_parameters, start_preview
  <2>4. UNCHANGED <<threadVars, frame, recordVars, streaming, queued, exit, configured,
                    picture, preview>>
    BY <1>1 DEF set_parameters, start_preview, Unchanged_flags
  <2>5. PlaceTypes' /\ Carried'
    BY <2>3, <2>4
  <2>6. FlagTypes'
    BY <2>2, <2>4
  <2>7. BufferTypes'
    BY <2>2, <2>4
  <2> QED BY <2>5, <2>6, <2>7
<1>3. CASE stop_preview(c)
  BY <1>3 DEF stop_preview, Unchanged_flags
<1>4. CASE take_picture(c)
  BY <1>4 DEF take_picture, Unchanged_flags
<1>5. CASE cancel_picture(c)
  <2>1. UNCHANGED <<exit, configured, preview, record, record_start, record_stop,
                    preview_lock, msgVideo, streaming, same, pointers, missed>>
    BY <1>5 DEF cancel_picture
  <2>2. FlagTypes'
    BY <1>5, <1>r1, <2>1
  <2>3. PlaceTypes' /\ BufferTypes' /\ Carried'
    BY <1>5 DEF cancel_picture
  <2> QED BY <2>2, <2>3
<1>6. CASE enable_msg_type(c)
  <2>1. UNCHANGED <<exit, configured, picture, preview, record, record_start,
                    record_stop, preview_lock, streaming, same, pointers, missed>>
    BY <1>6 DEF enable_msg_type, Unchanged_flags
  <2>2. FlagTypes'
    BY <1>6, <1>r2, <2>1
  <2>3. PlaceTypes' /\ BufferTypes' /\ Carried'
    BY <1>6 DEF enable_msg_type, Unchanged_flags
  <2> QED BY <2>2, <2>3
<1>7. CASE disable_msg_type(c)
  <2>1. UNCHANGED <<exit, configured, picture, preview, record, record_start,
                    record_stop, preview_lock, streaming, same, pointers, missed>>
    BY <1>7 DEF disable_msg_type, Unchanged_flags
  <2>2. FlagTypes'
    BY <1>7, <1>r3, <2>1
  <2>3. PlaceTypes' /\ BufferTypes' /\ Carried'
    BY <1>7 DEF disable_msg_type, Unchanged_flags
  <2> QED BY <2>2, <2>3
<1>8. CASE release(c)
  <2>1. UNCHANGED <<exit, configured, picture, preview, record_start, record_stop,
                    preview_lock, msgVideo, streaming, same, pointers, missed>>
    BY <1>8 DEF release, Unchanged_flags
  <2>2. FlagTypes'
    BY <1>8, <1>r4, <2>1
  <2>3. PlaceTypes' /\ BufferTypes' /\ Carried'
    BY <1>8 DEF release, Unchanged_flags
  <2> QED BY <2>2, <2>3
<1>9. CASE v4l_cam_open(c)
  <2>1. UNCHANGED <<configured, picture, preview, record, record_start, record_stop,
                    preview_lock, msgVideo, streaming, same>>
    BY <1>9 DEF v4l_cam_open
  <2>2. FlagTypes'
    BY <1>9, <1>r5, <2>1
  <2>3. PlaceTypes' /\ BufferTypes' /\ Carried'
    BY <1>9 DEF v4l_cam_open
  <2> QED BY <2>2, <2>3
<1>10. CASE \E b \in Bufs : release_recording_frame(c, b)
  BY <1>10 DEF release_recording_frame, Unchanged_flags
<1> QED BY <1>1, <1>3, <1>4, <1>5, <1>6, <1>7, <1>8, <1>9, <1>10 DEF Request

(* So does a step of a method. *)
LEMMA MethodKeeps ==
    ASSUME CameraInv, NEW c \in Clients, ClientStep(c)
    PROVE  CameraInv'
\* the flags a step sets
<1>m1. ASSUME set_preview(c) PROVE preview' \in BOOLEAN
  BY <1>m1, FlagsOf DEF set_preview
<1>m2. ASSUME clear_preview(c) PROVE preview' \in BOOLEAN
  BY <1>m2, FlagsOf DEF clear_preview
<1>m3. ASSUME stop_streaming(c) PROVE streaming' \in BOOLEAN
  BY <1>m3, FlagsOf DEF stop_streaming, v4l_cam_streaming_stop
<1>m4. ASSUME set_picture(c) PROVE picture' \in BOOLEAN
  BY <1>m4, FlagsOf DEF set_picture
<1>m5. ASSUME start_recording(c) PROVE record_start' \in BOOLEAN
  BY <1>m5, FlagsOf DEF start_recording
<1>m6. ASSUME stop_recording(c) PROVE record_stop' \in BOOLEAN
  BY <1>m6, FlagsOf DEF stop_recording
<1>m7. ASSUME take_preview_lock(c) PROVE preview_lock' \in BOOLEAN
  BY <1>m7, FlagsOf DEF take_preview_lock
<1>m8. ASSUME release_flags(c) PROVE /\ exit' \in BOOLEAN /\ configured' \in BOOLEAN
                                /\ picture' \in BOOLEAN /\ preview' \in BOOLEAN
  BY <1>m8, FlagsOf DEF release_flags
<1>m9. ASSUME release_streaming(c) PROVE streaming' \in BOOLEAN
  BY <1>m9, FlagsOf DEF release_streaming, v4l_cam_streaming_stop
<1>m10. ASSUME release_join(c) PROVE streaming' \in BOOLEAN
  BY <1>m10, FlagsOf DEF release_join, v4l_cam_streaming_stop
<1> USE DEF CameraInv, TypeOK, PlaceTypes, FlagTypes, BufferTypes, Carried, Locked, Unlocked,
            ClientPC, InRelease, Go, Move, May, threadVars, clientVars, recordVars, driverVars
<1>0. CASE set_record(c) \/ set_configure(c)
  <2>1. /\ configured' \in BOOLEAN /\ same' \in BOOLEAN /\ queued' \subseteq Bufs
        /\ format' \in {"preview", "picture", "other"}
    BY <1>0, ConfigureTypes DEF set_record, set_configure, Unchanged_flags
  <2>2. \E to \in {"idle", "setConfigure", "spConfigure", "spGeometry"} :
            pc' = [pc EXCEPT ![c] = to]
    BY <1>0 DEF set_record, set_configure
  <2>3. UNCHANGED <<threadVars, frame, recordVars, streaming, exit, picture, preview>>
    BY <1>0 DEF set_record, set_configure, Unchanged_flags
  <2>4. PlaceTypes' /\ Carried'
    BY <2>2, <2>3
  <2>5. FlagTypes'
    BY <2>1, <2>3
  <2>6. BufferTypes'
    BY <2>1, <2>3
  <2> QED BY <2>4, <2>5, <2>6
<1>1. CASE preview_geometry(c)
  BY <1>1 DEF preview_geometry, Unchanged_flags
<1>2. CASE queue_preview(c)
  BY <1>2, QueueSetBufs DEF queue_preview, Unchanged_flags
<1>3. CASE set_preview(c)
  <2>1. UNCHANGED <<exit, configured, picture, record, record_start, record_stop,
                    preview_lock, msgVideo, streaming, same, pointers, missed>>
    BY <1>3 DEF set_preview, SignalPreview, RestOfThread
  <2>2. FlagTypes'
    BY <1>3, <1>m1, <2>1
  <2>3. PlaceTypes' /\ BufferTypes' /\ Carried'
    BY <1>3 DEF set_preview, SignalPreview, RestOfThread
  <2> QED BY <2>2, <2>3
<1>4. CASE clear_preview(c)
  <2>1. UNCHANGED <<exit, configured, picture, record, record_start, record_stop,
                    preview_lock, msgVideo, streaming, same, pointers, missed>>
    BY <1>4 DEF clear_preview
  <2>2. FlagTypes'
    BY <1>4, <1>m2, <2>1
  <2>3. PlaceTypes' /\ BufferTypes' /\ Carried'
    BY <1>4 DEF clear_preview
  <2> QED BY <2>2, <2>3
<1>5. CASE wait_for_stop(c)
  BY <1>5 DEF wait_for_stop, Unchanged_flags
<1>6. CASE preview_stopped(c)
  BY <1>6 DEF preview_stopped, Unchanged_flags
<1>7. CASE stop_streaming(c)
  <2>1. UNCHANGED <<exit, configured, picture, preview, record, record_start,
                    record_stop, preview_lock, msgVideo, same, pointers, missed>>
    BY <1>7 DEF stop_streaming, v4l_cam_streaming_stop, Unchanged_flags
  <2>2. FlagTypes'
    BY <1>7, <1>m3, <2>1
  <2>3. PlaceTypes' /\ BufferTypes' /\ Carried'
    BY <1>7 DEF stop_streaming, v4l_cam_streaming_stop, Unchanged_flags
  <2> QED BY <2>2, <2>3
<1>8. CASE set_picture(c)
  <2>1. UNCHANGED <<exit, configured, preview, record, record_start, record_stop,
                    preview_lock, msgVideo, streaming, same, pointers, missed>>
    BY <1>8 DEF set_picture
  <2>2. FlagTypes'
    BY <1>8, <1>m4, <2>1
  <2>3. PlaceTypes' /\ BufferTypes' /\ Carried'
    BY <1>8 DEF set_picture
  <2> QED BY <2>2, <2>3
<1>9. CASE start_recording(c)
  <2>1. UNCHANGED <<exit, configured, picture, preview, record, record_stop,
                    preview_lock, msgVideo, streaming, same, pointers, missed>>
    BY <1>9 DEF start_recording, Unchanged_flags
  <2>2. FlagTypes'
    BY <1>9, <1>m5, <2>1
  <2>3. PlaceTypes' /\ BufferTypes' /\ Carried'
    BY <1>9 DEF start_recording, Unchanged_flags
  <2> QED BY <2>2, <2>3
<1>10. CASE stop_recording(c)
  <2>1. UNCHANGED <<exit, configured, picture, preview, record, record_start,
                    preview_lock, msgVideo, streaming, same, pointers, missed>>
    BY <1>10 DEF stop_recording, Unchanged_flags
  <2>2. FlagTypes'
    BY <1>10, <1>m6, <2>1
  <2>3. PlaceTypes' /\ BufferTypes' /\ Carried'
    BY <1>10 DEF stop_recording, Unchanged_flags
  <2> QED BY <2>2, <2>3
<1>11. CASE take_preview_lock(c)
  <2>1. UNCHANGED <<exit, configured, picture, preview, record, record_start,
                    record_stop, msgVideo, streaming, same, pointers, missed>>
    BY <1>11 DEF take_preview_lock, Unchanged_flags
  <2>2. FlagTypes'
    BY <1>11, <1>m7, <2>1
  <2>3. PlaceTypes' /\ BufferTypes' /\ Carried'
    BY <1>11 DEF take_preview_lock, Unchanged_flags
  <2> QED BY <2>2, <2>3
<1>12. CASE queue_released(c)
  BY <1>12 DEF queue_released, Unchanged_flags
<1>13. CASE release_streaming(c)
  <2>1. UNCHANGED <<exit, configured, picture, preview, record, record_start,
                    record_stop, preview_lock, msgVideo, same, pointers, missed>>
    BY <1>13 DEF release_streaming, v4l_cam_streaming_stop, Unchanged_flags
  <2>2. FlagTypes'
    BY <1>13, <1>m9, <2>1
  <2>3. PlaceTypes' /\ BufferTypes' /\ Carried'
    BY <1>13 DEF release_streaming, v4l_cam_streaming_stop, Unchanged_flags
  <2> QED BY <2>2, <2>3
<1>14. CASE release_signal(c)
  BY <1>14 DEF release_signal, SignalPreview, RestOfThread, Unchanged_flags
<1>15. CASE release_join(c)
  <2>1. UNCHANGED <<exit, configured, picture, preview, record, record_start,
                    record_stop, preview_lock, msgVideo, same, pointers, missed>>
    BY <1>15 DEF release_join, v4l_cam_streaming_stop, Unchanged_flags
  <2>2. FlagTypes'
    BY <1>15, <1>m10, <2>1
  <2>3. PlaceTypes' /\ BufferTypes' /\ Carried'
    BY <1>15 DEF release_join, v4l_cam_streaming_stop, Unchanged_flags
  <2> QED BY <2>2, <2>3
<1>16. CASE release_flags(c)
  <2>1. /\ UNCHANGED <<threadVars, frame, recordVars, driverVars>>
        /\ \E to \in {"relPreview", "relConfigured", "relExit", "relOff"} :
              pc' = [pc EXCEPT ![c] = to]
    BY <1>16 DEF release_flags
  <2>2. {exit', configured', picture', preview'} \subseteq BOOLEAN
    BY <1>16 DEF release_flags
  <2>3. PlaceTypes' /\ BufferTypes' /\ Carried'
    BY <2>1
  <2>4. FlagTypes'
    BY <2>1, <2>2
  <2> QED BY <2>3, <2>4
<1> QED BY <1>0, <1>1, <1>2, <1>3, <1>4, <1>5, <1>6, <1>7, <1>8, <1>9, <1>10, <1>11,
           <1>12, <1>13, <1>14, <1>15, <1>16 DEF ClientStep

LEMMA InitKeeps == Init => CameraInv
  BY NoShots DEF Init, CameraInv, TypeOK, PlaceTypes, FlagTypes, BufferTypes, Carried,
     Locked, Unlocked, ClientPC, InRelease

LEMMA NextKeeps == CameraInv /\ [Next]_vars => CameraInv'
<1> SUFFICES ASSUME CameraInv, [Next]_vars PROVE CameraInv'
  OBVIOUS
<1>1. CASE ThreadStep
  BY <1>1, ThreadKeeps
<1>2. ASSUME NEW c \in Clients, Request(c) \/ ClientStep(c) PROVE CameraInv'
  BY <1>2, RequestKeeps, MethodKeeps
<1>3. CASE UNCHANGED vars
  BY <1>3 DEF CameraInv, TypeOK, PlaceTypes, FlagTypes, BufferTypes, Carried, vars,
     threadVars, clientVars, recordVars, driverVars
<1> QED BY <1>1, <1>2, <1>3 DEF Next

(* Every state of the camera is well typed: the indices the thread passes  *)
(* to the driver and to the callbacks are buffers, and no picture takes    *)
(* more shots than there are buffers.                                      *)
THEOREM CameraTypes == Spec => []TypeOK
<1>1. CameraInv => TypeOK
  BY DEF CameraInv
<1> QED BY <1>1, InitKeeps, NextKeeps, PTL DEF Spec

-----------------------------------------------------------------------------
StopInv == CameraInv /\ OneMethod /\ StopPlaces

Stopping == {"chkExit", "toPark", "parked", "done"}

(* Once the thread has signalled it only goes on to its wait: every other  *)
(* step of it starts elsewhere and leaves the clients alone.               *)
LEMMA OtherThreadSteps ==
    ASSUME ThreadStep, ~ check_preview, ~ check_exit, ~ park
    PROVE  pc' = pc /\ tpc \notin Stopping
<1> USE DEF Stopping, clientVars, Go
<1>1. CASE \/ begin \/ check_picture \/ wake_up \/ stream_on \/ stop_on_error \/ poll
           \/ dequeue_frame
  BY <1>1 DEF begin, check_picture, wake_up, stream_on, stop_on_error, poll, dequeue_frame
<1>2. CASE record_frame \/ deliver_frame \/ show_frame \/ hand_over \/ queue_frame
  BY <1>2 DEF record_frame, deliver_frame, show_frame, hand_over, queue_frame,
     Unchanged_frame_done
<1>3. CASE start_record \/ stop_record \/ switch_off \/ switch_queue \/ switch_on
  BY <1>3 DEF start_record, stop_record, switch_off, switch_queue, switch_on, Unchanged_switch
<1>4. CASE \/ picture_stop \/ picture_queue \/ picture_on \/ picture_shot \/ picture_off
           \/ picture_restore \/ picture_resume \/ picture_last \/ picture_deliver
  BY <1>4 DEF picture_stop, picture_queue, picture_on, picture_shot, picture_off,
     picture_restore, picture_resume, picture_last, picture_deliver, Unchanged_picture
<1> QED BY <1>1, <1>2, <1>3, <1>4 DEF ThreadStep

LEMMA ThreadStops ==
    ASSUME StopInv, ThreadStep
    PROVE  OneMethod' /\ StopPlaces'
<1>1. CASE check_preview
  <2>1. CASE preview
    <3>1. tpc = "chkPreview" /\ pc' = pc
      BY <1>1, <2>1 DEF check_preview
    <3> QED BY <3>1 DEF StopInv, OneMethod, Busy, StopPlaces
  <2>2. CASE ~ preview
    <3>1. SignalStop /\ tpc = "chkPreview" /\ tpc' = "chkExit"
      BY <1>1, <2>2 DEF check_preview, Go
    <3>2. \A c \in Clients : pc'[c] = pc[c] \/ (pc[c] = "stWait" /\ pc'[c] = "stWoken")
      BY <3>1, SignalKeeps DEF StopInv, CameraInv
    <3> QED BY <3>1, <3>2 DEF StopInv, OneMethod, Busy, StopPlaces
  <2> QED BY <2>1, <2>2
<1>2. CASE check_exit \/ park
  <2>1. pc' = pc /\ tpc' \in {"toPark", "parked", "done"} /\ tpc \in {"chkExit", "toPark"}
    BY <1>2 DEF check_exit, park, Go, clientVars
  <2> QED BY <2>1 DEF StopInv, OneMethod, Busy, StopPlaces
<1>3. CASE ~ check_preview /\ ~ check_exit /\ ~ park
  <2>1. pc' = pc /\ tpc \notin Stopping
    BY <1>3, OtherThreadSteps
  <2> QED BY <2>1 DEF StopInv, OneMethod, Busy, StopPlaces, Stopping
<1> QED BY <1>1, <1>2, <1>3

(* A client that calls a method, and a release of a frame, find no client  *)
(* in another method; only open moves the thread, with every client idle.  *)
LEMMA RequestStops ==
    ASSUME StopInv, NEW c \in Clients, Request(c)
    PROVE  OneMethod' /\ StopPlaces'
<1> USE DEF StopInv, CameraInv, TypeOK, PlaceTypes
<1>1. CASE \/ stop_preview(c) \/ start_preview(c) \/ set_parameters(c) \/ take_picture(c)
           \/ enable_msg_type(c) \/ disable_msg_type(c) \/ release(c)
  <2>1. \E call \in AllCalls : CanCall(c, call)
    BY <1>1 DEF stop_preview, start_preview, set_parameters, take_picture, enable_msg_type,
       disable_msg_type, release, AllCalls
  <2>2. \A d \in Clients : ~ Busy(d)
    BY <2>1 DEF CanCall, Frees, Busy
  <2>3. /\ tpc' = tpc
        /\ \/ pc' = pc
           \/ \E to \in ClientPC \ {"stWoken", "stOff"} : pc' = [pc EXCEPT ![c] = to]
    BY <1>1 DEF stop_preview, start_preview, set_parameters, take_picture, enable_msg_type,
       disable_msg_type, release, threadVars, Move, ClientPC, InRelease
  <2> QED BY <2>2, <2>3 DEF OneMethod, Busy, StopPlaces
<1>2. CASE cancel_picture(c)
  <2>1. tpc' = tpc /\ pc' = pc
    BY <1>2 DEF cancel_picture, threadVars, clientVars
  <2> QED BY <2>1 DEF OneMethod, Busy, StopPlaces
<1>3. CASE \E b \in Bufs : release_recording_frame(c, b)
  <2>1. tpc' = tpc /\ pc' = [pc EXCEPT ![c] = "rfLock"]
    BY <1>3 DEF release_recording_frame, threadVars, Move
  <2> QED BY <2>1 DEF OneMethod, Busy, StopPlaces
<1>4. CASE v4l_cam_open(c)
  <2>1. pc' = pc /\ \A d \in Clients : pc[d] = "idle"
    BY <1>4 DEF v4l_cam_open, clientVars
  <2> QED BY <2>1 DEF OneMethod, Busy, StopPlaces
<1> QED BY <1>1, <1>2, <1>3, <1>4 DEF Request

(* The methods that wake the thread are the only busy ones, so no client   *)
(* is in stop_preview; stop_preview itself goes on with the mutex free.    *)
LEMMA MethodStops ==
    ASSUME StopInv, NEW c \in Clients, ClientStep(c)
    PROVE  OneMethod' /\ StopPlaces'
<1> USE DEF StopInv, CameraInv, TypeOK, PlaceTypes, Move
<1>1. CASE set_preview(c) \/ release_signal(c)
  <2>1. Busy(c) /\ \E to \in {"idle", "relJoin"} : pc' = [pc EXCEPT ![c] = to]
    BY <1>1 DEF set_preview, release_signal, Busy
  <2> QED BY <2>1 DEF OneMethod, Busy, StopPlaces
<1>2. CASE wait_for_stop(c)
  <2>1. tpc' = tpc /\ Busy(c) /\ pc' = [pc EXCEPT ![c] = "stWait"]
    BY <1>2 DEF wait_for_stop, Busy, threadVars
  <2> QED BY <2>1 DEF OneMethod, Busy, StopPlaces
<1>3. CASE preview_stopped(c)
  <2>1. /\ tpc' = tpc /\ tpc \in {"parked", "done"} /\ Busy(c)
        /\ pc' = [pc EXCEPT ![c] = "stOff"]
    BY <1>3 DEF preview_stopped, Busy, threadVars, MutexFree, Locked, StopPlaces
  <2> QED BY <2>1 DEF OneMethod, Busy, StopPlaces
<1>4. CASE \/ preview_geometry(c) \/ queue_preview(c) \/ clear_preview(c) \/ stop_streaming(c)
           \/ set_picture(c) \/ start_recording(c) \/ stop_recording(c) \/ set_record(c)
           \/ set_configure(c) \/ release_flags(c) \/ release_streaming(c) \/ release_join(c)
  <2>1. /\ tpc' = tpc /\ Busy(c)
        /\ \E to \in ClientPC \ {"stWoken", "stOff"} : pc' = [pc EXCEPT ![c] = to]
    BY <1>4 DEF preview_geometry, queue_preview, clear_preview, stop_streaming, set_picture,
       start_recording, stop_recording, set_record, set_configure, release_flags,
       release_streaming, release_join, Busy, threadVars, ClientPC, InRelease
  <2> QED BY <2>1 DEF OneMethod, Busy, StopPlaces
<1>5. CASE take_preview_lock(c) \/ queue_released(c)
  <2>1. tpc' = tpc /\ \E to \in {"idle", "rfQueue"} : pc' = [pc EXCEPT ![c] = to]
    BY <1>5 DEF take_preview_lock, queue_released, threadVars
  <2> QED BY <2>1 DEF OneMethod, Busy, StopPlaces
<1> QED BY <1>1, <1>2, <1>3, <1>4, <1>5 DEF ClientStep

LEMMA StopInit == Init => StopInv
  BY InitKeeps DEF Init, StopInv, OneMethod, Busy, StopPlaces

LEMMA StopKeeps == StopInv /\ [Next]_vars => StopInv'
<1> SUFFICES ASSUME StopInv, [Next]_vars PROVE StopInv'
  OBVIOUS
<1>1. CameraInv'
  BY NextKeeps DEF StopInv
<1>2. CASE ThreadStep
  BY <1>1, <1>2, ThreadStops DEF StopInv
<1>3. ASSUME NEW c \in Clients, Request(c) \/ ClientStep(c) PROVE StopInv'
  BY <1>1, <1>3, RequestStops, MethodStops DEF StopInv
<1>4. CASE UNCHANGED vars
  BY <1>1, <1>4 DEF StopInv, OneMethod, Busy, StopPlaces, vars, threadVars, clientVars
<1> QED BY <1>2, <1>3, <1>4 DEF Next

(* stop_preview returns only when the preview thread is parked, or gone,   *)
(* whatever fails and however many threads call the camera.                *)
THEOREM CameraParkedOnReturn == Spec => []ParkedOnReturn
<1>1. StopInv => ParkedOnReturn
  BY DEF StopInv, StopPlaces, ParkedOnReturn
<1> QED BY <1>1, StopInit, StopKeeps, PTL DEF Spec
=============================================================================
