# Verification of the OLPC XO-4 vendor code

TLA+ models, model-checking runs and machine-checked proofs for the hardware
abstraction layers (HALs) and tools of `android_vendor_olpc_xo4`. The
modules translate the C code; comments in them name the functions, and
`PROJECT.json` gives, for every definition, the lines it stands for.

## 1. The system

The repository is the vendor part of an Android build for the XO-4 laptop. Six
HAL libraries run inside Android's services, one process each; a few tools and
scripts build, install and resize the system image. The components do not call
one another: each talks to the Android service above it and to the kernel below
it. Inside a component the interaction is between the service's threads.

| Component | State | Operations | Who interacts, and how |
|---|---|---|---|
| **Audio HAL** `audio/audio_hw.c` | device mutex, one mutex per stream; `active_output`, `active_input`, `mode`, `devices`, `echo_reference`; per stream `standby`, `pcm`, `echo_reference`, and of inputs `need_echo_reference`, the effects, `source`, `device` | open/close a stream, `out_write`, `in_read`, standby, `set_parameters`, add/remove an effect, `adev_set_mode` | AudioFlinger's playback, record and binder threads, on shared mutexes; an output may force an input into standby; the echo reference is fed by the output and read by the input |
| **Camera HAL** `v4l_camera/v4l_camera.c` | flags `exit configured picture preview record record_start record_stop preview_lock`, the message mask, `thread_mutex` with `preview_cond` and `stop_cond`, the driver's queue and format | `start/stop_preview`, `set_parameters`, `take/cancel_picture`, `start/stop_recording`, `release_recording_frame`, `release`, open; the preview thread | CameraService's threads and the recorder's against the preview thread: flags mostly written without the mutex, two condition variables, callbacks with frames |
| **Power HAL** `power-hal/power.c` | the list of `/etc/powerhal.conf`; in sysfs each device's `power/control` and `power/runtime_status`, the panel's `sleep` and `bl_power` | init, `setInteractive`, `powerHint` (does nothing) | the power manager calls it; the kernel's runtime power management changes the status it waits for |
| **Lights HAL** `liblight/lights.c` | `g_lock`, the display's `monochrome` and brightness files | `set_light_backlight`, open, close | the lights service, one request at a time; meets the power HAL in the panel |
| **Sensors HAL** `libsensors/libsensor_lsm3dh.cpp` | raw data, event descriptor, `g_lock` | `poll`, open, close; `activate`, `setDelay` do nothing | SensorService's thread polls; the kernel's input queue, of bounded length, lies between it and the accelerometer |
| **Recovery UI** `recovery/recovery_ui.cpp` | consecutive power keys | `CheckKey`, menu | key events of the recovery program |
| **Image tools** `sugar-combiner/zhashfs.c`, `zdextract.c` | extents and used blocks of an image, the written records | write an update file, extract a range of it | the firmware applies the records to the disk in order, and may lose power |
| **First boot resizing** `olpc-partition-resize.sh`, `olpc-filesystem-resize.sh`, `init.xo4.rc` | partition table, the kernel's view of it, device node, file system | run on each boot before the data is mounted | a boot may end at any command; an update brings a small partition again |

What makes these hard, and what correctness means:

* *Audio.* Several mutexes at once, acquired by paths that reach from one stream
  to another; state decided under a mutex, used after it is released
  (`out_write` decides to restart the capture, transfers, and looks again); a
  shared object with three owners, whose life depends on the order of starts,
  stops, effects and failures. Right means: the documented lock order is kept
  and every path unlocks; streams and device pointers agree; an echo reference
  is never used after its release, never leaked, always fed; nothing reaches a
  closed stream; the device mutex is not starved.
* *Camera.* Flags, signals and a queue shared by a thread and methods mostly
  without a lock; two sides that must agree which of them queues a frame; a
  picture that borrows the preview's buffers and format; an error in the thread
  at any place. Right means: `stop_preview` returns, with the thread parked and
  the camera ready to start again; no frame is refilled while it is being used;
  the preview goes on and is never stopped by the methods; recording is on when
  it was asked for.
* *Power, lights, sensors.* Bounded waiting for a kernel that may never do what
  it is told; an order that has to hold while the walk is under way; a failing
  device among several; a display with attributes in two files of two HALs; a
  queue that drops events which carry only what changed. Right means: a call
  returns, the order holds at every moment, everything that obeys is active after
  a resume, the panel is lit when it should be, a sample is a reading.
* *Image tools, resizing.* A power loss at any point leaves a disk that is
  recognisably incomplete, or complete on the next run; the file holds exactly
  the blocks with data, a range exactly what was asked for; a file system is
  mounted only when it is intact and fits.

`PROJECT.json` lists under `hazards` every such place with its line, the
properties about it, or why there is none yet.

## 2. Modules

| Module | Contents |
|---|---|
| `AudioHal` | the audio HAL: threads, mutexes, streams, echo reference; its properties |
| `MCAudioHal` | symmetry sets for TLC (threads, references, streams of a direction) |
| `AudioHalProofs` | type correctness, lock discipline and lock order, proved |
| `AudioStreamProofs` | PCM ready while used, no echo reference leaked, no use after close, no write under another's mutex, progress of the device's owner, proved |
| `AudioEchoProofs` | active streams and echo reference of one output and one input, proved |
| `AudioCapture` | the samples of one capture stream, from the kernel to AudioFlinger |
| `AudioCaptureProofs` | its buffers, every frame exactly once and in order, progress of a call, proved |
| `CameraBuffers` | abstract specification: the circle of the camera's preview buffers |
| `V4lCamera` | the camera HAL: preview thread, methods, driver queue; its properties |
| `V4lCameraProofs` | type correctness and `ParkedOnReturn`, proved |
| `CameraStreamProofs` | the driver's format, the stream and the buffers of a recording camera, the refinement of `CameraBuffers`, proved |
| `AtomicUpdate` | abstract specification: what an update of a disk promises |
| `ZdImage` | `zhashfs`: the update file, record by record, and the firmware that applies it |
| `ZdExtract` | `zdextract`: a range taken out of such a file |
| `FirstBoot` | growing partition and file system on boot, command by command |
| `Install` | composition of `ZdImage` and `FirstBoot`: the life of a disk |
| `MCInstall` | the images TLC tries |
| `InstallProofs` | types, update and boot safety, the extracted range, and the refinement of `AtomicUpdate`, proved |
| `PowerHal`, `Lights`, `Sensors` | the three HALs of the system server |
| `SystemHals` | their composition, and the panel two of them meet in |
| `MCSystemHals` | device list, colours and the state constraint for TLC |
| `SystemHalsProofs` | types, suspend order, resume, the panel, the samples, the bound on the accesses of a call, proved |

Definitions whose comment begins with *Mutant* are deliberately wrong variants
of the definition after them. They are used by no specification; each is put in
the place of the right one to confirm that a property notices the mistake.

### AudioHal and the code

A thread's `pc` is a place where the code has to wait for a mutex, or has just
acquired one it keeps for a transfer; a step is everything between two such
places. `lock` holds the owner of each mutex. `op`, `arg` and `inp` are the
function the thread is in, the stream it was called on and the input it is
starting or stopping. `force` is `out_write`'s local `force_input_standby`.

* All stream operations begin with the device mutex (`LockDev`) and then the
  stream's (`Enter`); `SwapDev` is the stream lock followed by the device unlock
  before a transfer.
* `do_input_standby` is a step of its caller, up to the place where
  `put_echo_reference` locks the active output (`removeEcho`);
  `finish_standby` is the rest.
* `start_input_stream` goes through `dropEcho` (put the device's old reference),
  `createEcho`, `addEcho` (give it to the output) and `openPcm`, holding both
  mutexes as the code does.
* `live` is the set of allocated echo references; `put_echo_reference` removes
  one from it. A leaked or released reference is visible there.
* `pcm` says whether the stream's PCM pointer is null, an open PCM, or one that
  failed to open and was closed.
* Closing a stream is the standby followed by `FreeStream`, which needs no lock,
  as in the code.

Left out, because no property here depends on them: sample data of the playback
side, the 5.1 or mono remixing, volumes, mute, latency, mixer routes other than
the choice of devices, and the parameters' string form.

### AudioCapture and the code

`AudioHal` says when `in_read` runs; `AudioCapture` is what happens inside, with
the stream's mutex held. A captured frame is its number, a frame behind the
resampler the set of captured frames it was made of, so that repeating, losing
or swapping frames is visible. `buffer` and `frames_in` are `in->buffer` with its
unread tail, filled a period at a time by `get_next_buffer`; `pending` is what
the resampler keeps; `proc` is the filled part of `proc_buf`, whose size
`proc_buf_size` follows the requests; `ref_frames_in` and `ref_buf_size` are those
of the echo reference; `fxIn` and `fxOut` are inside the effect, which takes whole
chunks. `lost` collects what an error, a removed effect or a restart with a
resampler drops, `delivered` what AudioFlinger got, on the path with effects and
on the one without.

* The effect stands for a library behind `process()`: it hands out finished frames
  first and takes frames up to the end of a chunk. One effect is enough, as the code
  uses each with the buffers of the one before. An effect that took nothing for
  ever would make `process_frames` loop for ever (its comment says "read more and
  retry"); the libraries do not.
* `memcpy` is used on overlapping ranges (lines 1385 and 1560). It is taken as a
  copy from low to high addresses, which C does not promise.
* A stream without a resampler keeps what is left in `in->buffer` through a
  standby: the first frames after it are old ones. `InOrder` and `ExactlyOnce`
  hold all the same; nothing in the code says that they should be dropped.

### V4lCamera and the code

`tpc` is the place of the preview thread in `v4l_cam_thread_preview`,
`v4l_cam_frame_done` or `v4l_cam_picture`. The methods write most flags without
the mutex, so one step of the thread reads at most one of them (of those that a
method may change at that moment). The mutex is implied by `tpc`: the thread
owns it at the places in `Locked`, and a method that needs it takes its step
when `MutexFree`. Waiting on a condition variable is a place of its own
(`parked`, `stWait`), signalled to `woken`, `stWoken`; a signal nobody waits for
is lost, as in POSIX threads. `cur` is the dequeued buffer, `shot` and `shots`
belong to the picture, `held` is the set of recorded frames the recorder has
(`frame[c]` is one it is giving back). The driver is `streaming`, `queued` and
`format`; a QBUF of a queued buffer fails, STREAMOFF empties the queue, DQBUF
fails when the stream is off.

`format` is what the driver's format is of those in the structure: the preview's, the
picture's or `other`, which is also what the preview's becomes when `set_parameters`
gives the structure another size. It does so before it looks at `preview`, so a call
has three steps, as the code has reads of `preview` and of formats in between:
`set_parameters` (or `start_preview`, which takes default parameters the first time),
`set_record` and `set_configure`. `release` writes its five flags one after the other.

`pointers` tells whether the thread has set its pointers to the preview and
record formats; comparing the formats without them is the place `segv`. The thread
sets them if `configured` was not yet set when it first looked (`need_init`). Nothing
orders that look before the first method: `v4l_cam_open` returns when the thread is
created, and `begin` is the thread taking the mutex some time later. `missed` is
history: this session's thread first saw `preview` already on, so that it went on to
its first frame without having started the stream. What becomes of such a session is
the hazard at line 1380; properties that cannot hold in it say `missed`.

`CameraBuffers` has two variables, the buffers the driver has and who uses each other
one. `Buffers` in `V4lCamera` maps them: `DriverHas` is `queued`, but nothing while a
picture has buffers of its own there; `ThreadUses` is `cur` at the places of the thread
from the frame to its QBUF, `RecorderUses` is `held` and the frame a release is about to
give back. After its lock is handed over (`hand_over`) the frame is the recorder's alone.
`HeldFrameSafe` and `FrameNotRefilled` say of single moments what this refinement says
of the whole circle; both are also proved, and the first is what `camera_two_frames`
refutes for a recorder with two frames.

What the environment is assumed to do, and where the assumption comes from:

* CameraService calls one method at a time under its own lock, except
  `release_recording_frame`, which comes from the recorder (`CanCall`).
* It enables and disables `CAMERA_MSG_VIDEO_FRAME` around recording, stops
  recording before it stops the preview, takes a picture or releases the camera.
* The recorder keeps at most `MaxHeld` frames: the thread waits with the next
  one. One run lets it keep two.
* Spurious wakeups of condition variables are left out. `preview_ops` does not
  change; the buffers' memory and the contents of formats are left out.

It makes its calls at any moment otherwise, also before the thread has run.

### ZdImage, ZdExtract and the code

`zhashfs` reads the extents of an image through FIEMAP (`read_extents`), marks the
blocks they touch as used (`process_extent`), writes a record of zeros for block 0
(`wipe_table`), one for each used block from 1 on (`hash_block`) and last the real
block 0 (`write_table`). `read_block` pads the last block, and a read that is still
short aborts the tool (`zhashfs_aborts`); any read or write may fail
(`zhashfs_fails`). A file that ends early keeps any prefix of the records. It is
used all the same in the model: nothing stops the owner from flashing it.

The firmware is external, modelled from the file format: it applies the records
in order, one per step, and stops at the end of the file. A power loss between or
inside two records leaves the disk as it is, with the block being written `torn`.

`Extract` is what `zdextract`'s loop leaves in its output: at each offset from
`want_start` the last of the wanted records, so that the later of two records of
block 0 wins. Hashes, compression, the `.zsp` file and damaged input are left out.

`AtomicUpdate` has two variables, the table somebody sees and the data behind it,
and three actions. `Atomic` in `ZdImage` maps them to `disk`.

### FirstBoot, Install and the code

One action per command of the two scripts, in the order in which `init.xo4.rc` runs
them: the comparison of ends, `sfdisk`, the mount of `/system`, `e2fsck`, `resize2fs`
(in two steps, since it may stop in the middle), `mount_all`. Each of them may fail
(`AllBootFaults`) and the scripts go on, since they only log the result. A query of
the sizes that prints nothing makes the ends differ; the same in the line given to
`sfdisk` is taken to be refused by it. `sfdisk` has three outcomes: everything is
written and read again, the kernel keeps its old view, nothing happens. When the
kernel reads the table the node goes away, and `ueventd` makes it again, which races
with the next command: `e2fsck` and `resize2fs` do nothing without the node, while
`mount_all` waits for it (`wait` in the fstab). Without `/system` there is no
`e2fsck` and no `resize2fs`. `e2fsck` may fail to repair, `resize2fs` refuse or give up
in the middle, with or without a power loss. The `umount` of `/system` is left out: no
later command uses what it leaves.

`failed` is history, the commands that failed in this boot. `MountSafe` says that a
mounted file system is intact but for the boots in which `Harmed` holds: nothing in the
scripts keeps a torn file system from being mounted when the query, the mount of
`/system`, `e2fsck` or `resize2fs` itself has failed. That every other failure, and
every earlier boot, does no harm is what is checked and proved.

`Install` lets updates and boots alternate on one disk. A step of the firmware that
brings the new table also brings the image's partition and file system sizes.

### PowerHal, Lights, Sensors, SystemHals and the code

`PowerHal`: `index` walks the list forwards to suspend and backwards to resume.
`pm_set_for_device` writes `control`; `status_reached`, `status_awaited` and
`status_error` are one look at `runtime_status` in the wait, which gives up after
`Tries` looks or when the file cannot be opened; a read that fails is not counted as a
try (line 140), so `errors` bounds it. `set_sleep` and `set_bl_power` switch the panel.
The kernel changes the status of a device at any time, as `control` allows. `missed`
and `gaveUp` are history: what could not be written, and what was logged as failed.

`Lights`: `set_light_backlight` computes the level and writes the two files, each of
which may fail without notice.

`Sensors`: the kernel puts an event per changed axis and a sync event into `queue`;
`get_axis` and `get_sync` are one turn of `get_events_val`. When the queue is full the
kernel drops it and queues `SYN_DROPPED`, which also has type 0, so that the code
takes it for the end of a reading and reports a sample. `open_sensors` clears
`raw_data` and does not ask for the values the kernel has, which a reader before it may
have left at anything (`SensorInit`). `stale` are the axes that differed then and those
whose event was dropped: until they change again their value may be wrong, and
`SampleIsReading` says that no others are. `poll` returns when it has filled the
whole array, however long that takes. The reading a sync event ends is carried by
the event, for the property only.

## 3. Runs

All bounds are in the `.cfg` files. Deadlock is checked but in the camera runs: a
device with threads that can always be called must never stop. In the camera
(`CHECK_DEADLOCK FALSE`), after `release` and with no call left, or with the
recorder keeping its frames, the system may stop.

| Run | Instance | Shows |
|---|---|---|
| `audio_single` | 3 threads, one output, one input, two references; `pcm_open`, creating a reference and reading an effect's descriptor may each fail | `TypeOK`, `LockDiscipline`, `PcmReady`, `EchoSafe`, `ActiveMatches`, `EchoFed`, `NoEchoLeak` |
| `audio_streams` | 2 threads, two outputs, two inputs, one reference, no failures | `LockOrder`, `NoUseAfterClose`, `OwnerWrites` |
| `audio_echo` | 2 fair threads, one output, one input, an echo canceller and another effect with room for one | `VoiceHasEcho`, `EchoHasReader`, and the liveness property `DevReleased` |
| `audio_capture` | periods of 3 frames, requests of 1, 2 and 4, an effect that takes chunks of 2, with and without a resampler that makes one frame of 2, 9 frames before the PCM fails | `TypeOK`, `ExactlyOnce`, `InOrder`, `BuffersHold`, and the liveness property `ReadReturns` |
| `camera_methods` | 2 fair clients, 3 buffers, every method but `stop_recording`, no failures, one frame at the recorder | `ParkedIsReady`, `PreviewUndisturbed`, `FramesNotPicture`, the refinement `BuffersCircle`, and the liveness property `PreviewFlows` |
| `camera_faults` | 1 client, 2 buffers, every method and every failure | `TypeOK`, `ParkedOnReturn` |
| `camera_stop` | 1 fair client, start, stop and release | *violated*: `MethodsReturn` |
| `camera_two_frames` | 1 client, 3 buffers, two frames at the recorder | *violated*: `HeldFrameSafe` |
| `camera_restart` | 1 fair client that stops and starts recording, 3 buffers | *violated*: `RecordingOn` |
| `camera_formats` | 1 client that may call before the thread has run | *violated*: `FormatsKnown` |
| `image_install` | 8 images of up to 4 blocks of 2 units, a failure of the tool, two power losses of the firmware, one of a boot and two failed commands of boots | `TypeOK`, `TableMeansComplete`, `FileHasImage`, `NoCheckFails`, `ExtractedRange`, `MountSafe`, the refinement `UpdateIsAtomic`, and the liveness property `Grown` |
| `system_hals` | 3 devices of which one has no power management, 2 looks per wait, each access may fail; 3 colours; 2 axes of 2 values, 5 events | `TypeOK`, `SuspendOrder`, `ResumedActive`, `ScreenFollows`, `SampleIsReading`, and the liveness property `SetReturns` |

Why the bounds are enough to be interesting:

* *Threads.* Every audio hazard here is a race between a thread inside an
  operation and one or two others; three threads let one hold the device, one a
  stream and the third arrive. Two streams of a direction are needed for a forced
  standby to meet a stream that is not the one being started, and for a closed
  stream to be the one a pointer still names.
* *References.* Two show a reference replaced by a new one while the old is
  still pointed to; one suffices for locks and liveness.
* *Effects.* Two effects with `MAX_PREPROCESSORS = 1` make the limit refuse an
  echo canceller, and leave one without descriptor attached.
* *Devices, sources, modes.* A property distinguishes only "changed or not",
  "voice capture or not" and "in a call or not". The mode decides only which input
  device a standby leaves selected; `audio_echo` changes it, the others stay
  outside a call.
* *Buffers and clients.* Three buffers let the thread, the recorder and the
  driver each have one. Two clients are one caller of methods and the recorder;
  a third would wait, because methods come one at a time. `camera_faults` has one
  client and two buffers: with every method and failure more would be too many
  states. A second client would only add releases of frames, which neither signal nor
  touch the thread's places, so `ParkedOnReturn` does not see them; the proof of it is
  for any number.
* The configurations of `audio_policy.conf` are one output and one input; that
  is what `EchoSafe` and `ActiveMatches` are checked for. With two outputs or
  inputs the single device pointers are shared, which the code's FIXMEs at
  lines 521 and 1755 acknowledge, and the two do not hold.

* *Capture.* A period no request is a multiple of, requests below and above it, and
  a chunk below it make every buffer end up partly filled; 9 frames are three
  periods, so that each buffer is filled, emptied and filled again.
* *Images.* `MCLayouts` has the cases the block arithmetic tells apart: nothing, no
  extent, a short last block, two extents in a block, holes inside and at the end,
  a full image. Two power losses interrupt an update and the one that makes up for
  it. A power loss of a boot tears the file system or parts the two resizings, and two
  failed commands let one boot meet what a failure in an earlier one left. A disk of 6 blocks with a partition from 2 on and an
  image of half of its size lets the partition be small, grown, or grown without
  its file system.
* *Devices.* Three devices give an order a middle; `Tries` = 2 stands for the code's
  1000, because only "another look is left" and "this was the last" differ;
  `MaxReadErrors` = 1 bounds the failed reads, which the code does not count.
* *Sensors.* Two axes show a reading with one event missing; a queue of 5 events is
  the smallest in which a reading fits beside part of another.

`system_hals` uses a state constraint, `Apart`. The sensors share no variable with the
other two HALs, and the lights meet the power HAL only in `ScreenFollows`, which the
devices of the list do not occur in. So nothing is lost when the sensors move only
while the others are at their initial states, and the lights only while no device
of the list has failed; without it TLC would explore the product of three
independent systems. The power HAL's own behaviours are all explored with the
others at rest, which is what `SetReturns` is about. The proofs use no constraint.

`VoiceHasEcho` and `EchoHasReader` are stated for references that are always
created and PCMs that always open: otherwise a capture rightly has none, or a
failed capture start leaves the device the reference it created until the next
start (`EchoSafe` and `NoEchoLeak`, checked with those failures, still hold).
`camera_methods` leaves `stop_recording` out, because `PreviewUndisturbed` does
not hold with it: see section 5. `ParkedIsReady`, `PreviewUndisturbed` and
`PreviewFlows` except the sessions marked `missed`, `PreviewFlows` and `RecordingOn` also
the end of the process in `segv`, which `camera_formats` is about.

Symmetry is used in the audio safety runs only. Threads and references are
interchangeable there, as no definition names one.

### Fairness

`FairSpec` of `AudioHal` is weak fairness of each thread's steps inside an
operation: the kernel schedules the thread, a PCM transfer or sleep ends.
Nothing says that a thread must call again, and there is no fairness of mutexes.
`DevReleased` therefore rests on the code alone: because a thread in a busy
`out_write` loop has to pass the device mutex, which another thread owns, it
cannot take the stream again first, as the comment at line 905 of `audio_hw.c`
says. `FairSpec` of `V4lCamera` is weak fairness of the preview thread and of a
client inside a method; the driver fills frames while it streams. A client is
never obliged to call, and the recorder never obliged to release: `PreviewFlows`
holds all the same, as a preview frame is looked at before the recorder's turn.

`AudioCapture`: weak fairness of a call's steps; the PCM gives samples or an error.
`SystemHals`: weak fairness of what `setInteractive` does next without an error
of `runtime_status` (`PowerGoes`); nothing obliges the kernel to suspend a device, so that
`SetReturns` rests on the count of looks. `Install`: weak fairness of the firmware's
records and of a boot's commands while there is power, strong fairness of
booting and weak fairness of switching off, which is what the owner of a laptop does;
without boots nothing can grow. Updates are never obliged, nor do failures or power
losses have to end except by their bounds.

## 4. Proofs

`tlapm` proves, for all values of the constants that satisfy the named
assumptions (`NamesAssumption`, `DeviceAssumption`, `CaptureAssumption`, `CameraAssumption`,
`SizesAssumption`, `LayoutAssumption`, `GeometryAssumption`, `PowerAssumption`,
`LightAssumption`, `SensorAssumption`, which TLC evaluates in the runs), and, where it
is said, further conditions in the theorem:

* `AudioTypes`, `AudioLockDiscipline`, `AudioLockOrder`. `LockDiscipline` is not
  inductive: whether a thread at `removeEcho` holds the right mutexes depends on
  its being called on an input, and on an output being active. `Placed(t)` says
  which operation and stream a thread can have at each place, and `LockInv` is
  `TypeOK`, `LockDiscipline` and `Placed`. The argument per step: a step of `t`
  leaves the others' places and mutexes alone (`StepKeepsPlaces`), gives `t` the
  mutexes of its new place, and changes `activeOut` only when `t` owns the
  device mutex, so that another thread's `activeOut` cannot change where it
  depends on it (`StepOrder`). `LockOrder` follows from `LockInv` without a
  further step (`InvLockOrder`): the rank of what a place waits for exceeds the
  rank of all it holds. As a wait always goes to a higher rank, threads cannot
  wait for one another in a circle, whatever their number.
* `AudioPcmReady`, `AudioNoEchoLeak`, `AudioNoUseAfterClose` with `StreamInv`, on top of
  `LockInv`. None of the three is inductive. That the PCM in use is open depends on
  nobody else being able to stop the stream: who does has its mutex (`LockDiscipline`), but
  `do_input_standby` closes the PCM first and sets `standby` after a wait, so
  `PcmInv` has the thread at `removeEcho` as a witness. That no freed stream is
  reached depends on what the device's pointers mean between two mutexes:
  `ActiveInv` says that they name a stream out of standby or one being started,
  `OpenInv` that such a stream and each thread's are open, `FreeInv` that a stream
  about to be freed is in standby and that no thread is about to stop it, and `Exclusive`
  that AudioFlinger makes no other call on a stream it closes. `EchoInv` adds to
  `NoEchoLeak` that a new reference is created only after the old one was released.
  Each step has one of nine shapes (`StepShape`: what it does to streams and pointers);
  each part of the invariant is kept by every shape.
* `AudioOwnerWrites`. A step of a thread changes the device's data only while it owns the
  device mutex, and a stream's only with that stream's. What the proof is about are the
  steps that own neither before: one that acquires mutexes, uses them and lets them go
  found them free (`Free`), a stream being opened is nobody's yet, and `FreeStream` needs no
  mutex, but by `StreamInv` nobody owns that of a stream about to be freed (`FreedMine`).
* `AudioDevAdvances`, `AudioDevServed`: what `DevReleased` rests on, but for the
  scheduler. While a thread owns the device mutex nobody else takes any mutex, since all
  begin with the device's (`OtherTakesNone`); its own steps lead one way through at most six
  places (`Stage`); and whoever has the mutex it waits for is in a transfer and
  waits for none.
* `AudioActiveMatches`, `AudioEchoSafe`, `AudioEchoFed`, with `AudioInv`, for `OneEach`: at most
  one output and one input, which is what `audio_policy.conf` configures. `PairInv` says what
  the streams, the device's pointers and the thread that starts or stops the input tell of
  each other between two mutexes: an active output is out of standby and has the
  device's reference or none (`OutPair`); an input out of standby is the active one, or a thread
  at `removeEcho` is about to finish its standby (`InPair`); a starting thread has the input in
  standby and, while it gets a reference, without one (`WorkPair`); the active output
  feeds the device's reference unless a thread is at `addEcho` (`FedPair`). `EchoSafe` then
  follows because `live` holds the device's reference only.
* `AudioEchoHasReader` (PCMs open) adds `ReadPair`: an input in standby has a reference only
  while its PCM is being opened. `AudioVoiceHasEcho` (PCMs open, references are
  created) adds `VoicePair`: a voice capture without one has a thread with `force` set,
  on its way to put it in standby. Both are false with those failures, see section 3.
* `CaptureBuffersHold`, with `BufferInv`: where the call is decides which buffers may be
  filled and how far; the copies, the effect and the echo reference stay within
  the sizes for any ratio, period, chunk and request.
* `CaptureTypes`, `CaptureExactlyOnce`, `CaptureInOrder`, with `CaptureInv`. The argument is
  about lines of frames: all places of one path, from what was delivered to what is left
  of the kernel's buffer, are joined into one sequence (`ProcHere`, `PlainHere`, `AllHere`,
  `Source`). A copy from one buffer to the next leaves the joined sequence as it is; so the
  lemmas are about where it is cut. The resampler makes a frame of several samples,
  and drops the rest on a restart: the new line is `Within` the old one, that is, it carries no
  new number and is sorted, and has no number twice, if the old one was. A dropped
  buffer is a part left out of the line. `ExactlyOnce` is inductive only as `Once`,
  on the grouped line, and is kept step by step as `Pieces`, the same by the
  sets of numbers of each buffer. `InOrder` speaks of delivered frames only; `OrderInv`
  orders the whole line of each path. No bound is used: `MaxCaptured` is any number.
* `CaptureReadAdvances`: what `ReadReturns` rests on, but for the scheduler. A call's step
  either ends it, or fills AudioFlinger's buffer further, or, leaving that alone, the
  effect's chunk, or comes nearer to the effect, and in `read_frames` to the number asked
  for (`Nearer`); each counts down to zero. `HandInv` says that the effect always gets at least
  as many frames as the call asks for, so that it must take some or give some.
* `CameraTypes` with the invariant `CameraInv`: types, and `Carried`, that the
  thread and a release have a buffer at the places they use one.
* `CameraParkedOnReturn` with `StopInv`: `CameraInv`, `OneMethod` (only one
  client is in a method other than a frame's release) and `StopPlaces` (after
  the signal the thread can only go on to its own wait, or end). `OneMethod` is
  needed so that no second client wakes the thread in between: the property
  rests on CameraService's lock.
* `CameraFramesNotPicture`, if S_FMT does not fail: only a picture's places have the
  picture's format (`FormatInv`), and the thread takes no preview frame there. Every
  other failure, and every call at any moment, is allowed.
* `CameraParkedIsReady`: any failures, any number of recorded frames, calls at any moment,
  but no `stop_recording`. It is conditional: it speaks of behaviours in which
  `PreviewUndisturbed` holds, and says that in these nothing is left behind when the
  preview is off; an error in a frame does leave the stream on (section 5). Its invariant
  is `BaseInv` (what holds in every session: `StopInv`, places of a new thread, what
  `release` leaves, the message around recording) with `missed`, or `RestInv`, which
  says at each place of the thread and of `start_preview` that a preview that is off has
  its stream off and how much of the set is queued.
* `CameraUndisturbed`, `CameraHeldFrameSafe`, `CameraFrameNotRefilled`, with `PlainInv`,
  for any number of clients and buffers and any other methods at any moment, under
  `PlainUse`: nothing fails but REQBUFS and TRY_FMT, the recorder has at most one frame,
  and `stop_recording` is not called; sessions marked `missed` are excepted. `RunInv` adds to
  `RestInv` that the stream is on while the thread works on frames (`OnInv`), that a
  frame goes to the recorder only when recording is settled and no picture is under
  way (`RecordInv`), and that `preview_lock` stands for the one frame both thread and
  recorder have, whichever gives it up last (`FrameInv`). `PlainUse` is no
  convenience: TLC violates each of the three, in sessions that are not `missed`, when
  `stop_recording` is a call and `MaxHeld` = 1, and without it when `MaxHeld` = 2; the causes
  are in section 5. So the camera's recording is
  proved right only for a recorder that gives back each frame before it gets the
  next and goes on until the camera is closed.

* `CameraBuffersCircle`, under `PlainUse` and for behaviours without `missed`, with
  `CircleInv`: `PlainInv` and `LentInv`, that a frame shown under `preview_lock` is still
  the recorder's or being released. It is what `hand_over` relies on when it leaves the
  frame to the recorder. Each step of the thread, of a release and of the other methods
  is a step of `CameraBuffers` or a stutter (`CircleThread`, `CircleClient`).
* `FileTheorem` and `CheckTheorem` with `SourceInv` and `FileInv`: while `zhashfs` runs, its
  records are the used blocks below `block`, in order, after the zeros; `used` is what the
  extents occupy, and `eblocks` is past the last of them. The arithmetic is that of
  division by any `zblocksize`: the lemmas on `\div` at the head of the module.
* `ExtractTheorem`, from `SourceInv` and `FileInv`: in a finished file block 0 has the first
  and the last record and every other used block one, so that the last record written
  at an offset is the wanted block's. No induction is needed, as `Extract` names
  the last record directly.
* `TableTheorem` and `AtomicTheorem` with `FlashInv`: the disk is described by the
  position in the records. Up to it, what the records say; a table only at the end of a
  complete file, or where nothing was begun. `AtomicStep` maps each step of `Install`
  to one of `AtomicUpdate`'s or a stutter.
* `MountTheorem` with `BootInv`: what each command finds of node, structure and sizes,
  and which failure of this boot may have left it so. It holds for any sizes and any
  number of failures and power losses.
* `OrderTheorem`, `ResumeTheorem` with `WalkInv` and `ActiveInv` (of `SystemHalsProofs`): which
  devices the walk has passed, is at or has still to visit, and what `control` of each
  is then, for any list; `ScreenTheorem` with `PanelInv` and `LightInv`, which say
  what was written at each place of the two calls.
* `SetShrinksTheorem`: what `SetReturns` rests on, but for the scheduler. A call of
  `setInteractive` has at most 2 + N * (`Tries` + 1) + `MaxReadErrors` accesses to make
  (`MostLeft`, by the device it is at and the looks it has left), each access leaves fewer, and
  nothing else changes their number.
* `SystemTypes`, and `SampleTheorem` with `SInv`, for any axes, values and any queue in which
  a reading fits. `QueueInv` is about every sync event still in the queue, because a poll
  stops at any of them when its array is full: the last event before it that tells of an
  axis carries the reading the sync event ends, and an axis nothing before it touches and
  that is not `stale` has that value already in `raw`.

Only model-checked: all liveness (`DevReleased`, `ReadReturns`, `PreviewFlows`, `Grown`,
`SetReturns`), as fairness and ENABLED are out of the prover's reach. Of the first two and
the last the part that does not speak of fairness is proved: `AudioDevAdvances` with
`AudioDevServed`, `CaptureReadAdvances` and `SetShrinksTheorem` show that steps only lead
to the end; that steps are taken is the scheduler's.

## 5. What the runs found

The four violation runs and the findings of `PROJECT.json` describe
disagreements between code and comments:

* `stop_preview` clears `preview`, then locks and waits unconditionally. If the
  thread has parked in between, the signal is lost and the method hangs
  (`camera_stop`). `release` sets `exit` and signals without the mutex, which
  loses its signal in the same way.
* `preview_lock` is one flag for all frames; with two at the recorder, the
  release of one takes the flag of the other (`camera_two_frames`).
* Recording stopped and started again before the thread has seen the stop stays
  off (`camera_restart`).
* A first `set_parameters` that configures the camera before the new thread has read
  `configured` leaves the thread's format pointers NULL; the start of a recording
  dereferences them (`camera_formats`).

Found while modelling, without a run of their own:

* `zdextract` without arguments is to extract "the entire file" (its comment, line 6),
  but `want_start` is then -1 and line 72 puts each block one too far. `mkzd.sh` always
  gives a range. `ExtractedRange` is about ranges; `Wanted` and `seek_offset` have the other
  case.
* `setInteractive` does not return while `runtime_status` can be opened but not read:
  `power.c` line 140 tries again without counting. `SetReturns` holds with a bound on such
  reads.
* The sensors' `SYN_DROPPED` is taken for the end of a reading (type 0, line 158), and
  the axes it lost stay wrong until they change; so do axes that were not zero when the
  device was opened (line 227).
* When `/system` cannot be mounted, or `e2fsck` fails, after an interrupted `resize2fs`,
  the boot scripts go on and `mount_all` mounts the torn file system.
* An error in a frame parks the thread without stopping the stream: it stays on with
  the other buffers queued, and `stop_preview` returns at once: `ParkedIsReady` does
  not hold with `"window"` among the `Faults`. What the next `start_preview` does depends on which buffer failed: QBUF fails at the first one
  still queued, so that it queues part of the set, or nothing and fails.
* Parameters set while the preview runs are not given to the driver, but the thread
  copies the next frame with the new size, and a picture gives the driver the new
  format afterwards (`format` is then `other` while frames are shown).
* A capture without resampler returns frames from before its standby first.

The camera model reaches more, described under `hazards`, for which no property is
checked: a message mask that changes while a frame is handled lets a buffer
be queued twice; a buffer the recorder had when recording stopped is queued by
nobody until the next start; a picture taken while a cancelled one is wound up
is delivered from a buffer nothing was shot into.

## 6. Plan

What is left, in order of what matters most:

1. What holds of the camera when recordings are stopped: which of the properties that
   leave `stop_recording` out hold once the last frame has come back.
2. The memory of the camera's buffers: `release` freeing what the thread uses, buffers
   lost after recording, as further users in `CameraBuffers`. `CameraFlags`: the one-bit
   fields `exit` to `preview_lock` of one word (lines 102 to 109), written by
   read-modify-write.
3. What `PreviewFlows` and `Grown` rest on, as proved action properties like those of
   the other liveness properties.
4. The sample path of playback: `out_write`'s sleep is computed from frames of
   different rates (line 964), remixing, and the echo reference's time stamps.

## 7. Not modelled

* `v4l_camera/camera_param.cpp` (parameter strings), `camera_preview.cpp` and
  `JpegCompressor.cpp` (pixels): data without control. `set_preview_window` changes
  `preview_ops` only between previews.
* `recovery/recovery_ui.cpp`: a counter of consecutive power keys.
* The build scripts under `mkzd`, `mkusbstick` and `sugar-combiner`: sequences of
  external tools without state of their own. Open Firmware scripts, device
  configuration, overlays, key layouts and prebuilt binaries: no program here.
* Of the audio HAL: volumes, mic mute, TTY mode, screen state, remixing, the string
  form of parameters. Of the power HAL: running out of memory while the list is read.
  Of the lights HAL: two callers at once, which the lights service does not make. Of the
  sensors HAL: units, time stamps and a read that fails.

## 8. Running

    tlc -config AudioHalSingle.cfg MCAudioHal       (and Streams, Echo)
    tlc -config AudioCapture.cfg AudioCapture
    tlc -config CameraFaults.cfg V4lCamera        (and the other Camera*.cfg)
    tlc -config Install.cfg MCInstall
    tlc -config SystemHals.cfg MCSystemHals
    tlapm AudioHalProofs.tla                        (and the other *Proofs.tla)

On two workers the audio runs, `image_install` and `camera_faults` take one to two minutes
each, `system_hals` and `camera_methods` less, the others a few seconds; the proofs some minutes.
