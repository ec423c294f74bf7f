# EnzoMediaCodecTest in TLA+

EnzoMediaCodecTest is an Android application for the i.MX6 board "Enzo". A
USB camera delivers motion JPEG, the VPU decodes it and encodes it again as
H.264, all in native code under `jni/`; a Java thread puts the H.264 frames
into Android's MediaCodec, which shows them on a surface. This directory holds
TLA+ models of that program, TLC configurations that check them on small
instances, and theorems about them that TLAPS checks for all instances.

Paths below are relative to the repository; `L/` is
`jni/enzo-libs/enzo_codec/`, `J/` is `src/com/example/cameracodectest/`.

## 1. Inventory

| Component | State | Operations | What makes it hard |
|---|---|---|---|
| Camera session, `L/v4l2_camera.c` | device descriptor, array of mapped buffers, `num_buffers`, the index in `device->buf` | `v4l2_cameraInit`, `v4l2_cameraGetFrame`, `v4l2_cameraDeinit` | the driver fills buffers concurrently; results of the queue and dequeue calls are ignored; five failure exits clean up in different ways |
| Bitstream buffer, `L/vpu_decode.c` `dec_fill_bsbuffer`, `L/enzo_utils.c` `freadn` | a ring the VPU reads while the code writes | one fill, from memory or from a file | copies split at the end of the ring, short and failed reads, no space |
| Decode loop, `L/vpu_decode.c` `decoder_decode_frame` | `disp_clr_index`, the VPU's display flags, the pictures in the bitstream buffer | one call for each frame | the VPU reorders pictures and hangs; a call can return at twelve places; the frame buffers are shared through flags |
| Decoder and encoder resources, `L/vpu_decode.c`, `L/vpu_encode.c`, `L/vpu_common.c` | handles, physical memory, frame buffers, `totalfb` | `vpu_decoder_init`/`deinit`, `vpu_encoder_init`/`deinit` | sixteen calls may fail, each with its own cleanup, and `deinit` runs after any of them |
| Native session, `jni/cam_enc.c` over `L/enzo_codec.c` | three global control structures and three media buffers | `initCamEnc`, `getEncFrame`, `closeCamEnc` | the inits go on after a failure, and the results are not kept |
| Player, `J/DecoderView.java`, `J/VideoDecoderActivity.java` | `mRunning`, the MediaCodec, the thread | `surfaceChanged`, `surfaceDestroyed`, `run` | two threads and the codec share the native session without locks or joins; one wait has no limit |
| Encoder frame path, `L/vpu_encode.c` | source frame buffer, output buffer, NAL table, the request for an I picture | `encoderEncodeFrame`, `vpu_encoder_encode_frame`, `read_source_frame`, `SaveEncSliceInfo` | copy loops with counters of their own; a coded picture that gets lost is the reference of the next; the VPU may hang |
| Frame hand-off, `J/CodecOutputSurface.java` | `mFrameAvailable` under a lock | `awaitNewImage`, `onFrameAvailable` | a timeout that races a late frame |
| Preview, `J/CameraView.java`; browse list, `J/MainActivity.java`; drawing, `J/STextureRender.java` | small | callbacks | `CameraView`, `CodecOutputSurface` and `STextureRender` are used by no activity of the manifest |

How they interact: `surfaceChanged` (UI thread) calls `DecoderView.init`,
which calls `initCamEnc`: VPU, camera, a first camera frame that the decoder
parses, decoder, encoder. Then `run()` (its own thread) calls `getEncFrame` in
a loop. Each call requeues the last camera buffer and dequeues the next one,
pushes it into the decoder's bitstream buffer, decodes, copies the picture into
the encoder's source buffer and encodes. `surfaceDestroyed` clears `mRunning`;
the thread leaves its loop, releases the codec and calls `closeCamEnc`, which
deinitializes camera, decoder, encoder and VPU.

What correctness means, component by component: a lent camera buffer is mapped,
filled, and not the driver's, and buffers do not get lost; the bitstream buffer
delivers the source in order; every display flag is cleared in the end and the
VPU never lacks a buffer; whatever a partial initialization acquired is
released once; the encoder gets the picture row for row, and a lost picture
does not damage the video for good; the session is used only while it is open;
nothing waits forever. `PROJECT.json` lists the hazards at their lines, with
the properties that cover each.

## 2. Modules

| Module | Models | Composes |
|---|---|---|
| `V4L2Camera` | camera session and driver | |
| `ByteStream` | abstract: an ordered, bounded byte channel that may drop runs | |
| `BitstreamRing` | the bitstream buffer, one action per outcome of `dec_fill_bsbuffer` | instantiates `ByteStream` for its refinement |
| `DecodeLoop` | the decode loop, the VPU, the display flags | uses the ring as a bounded sequence of pictures |
| `StagedInit` | what both codec sessions share: resources, faults, stages | |
| `DecoderMemory`, `EncoderMemory` | the stages of the two inits and the deinits | instantiate `StagedInit` |
| `CaptureSession` | `cam_enc.c` | instantiates `DecoderMemory` and `EncoderMemory` |
| `SourceFrame` | `read_source_frame`: files, copies and the two chroma loops | |
| `EncodeFrame` | the encoder's frame cycle, from the picture to the player | extends `SourceFrame` |
| `DecoderView` | UI thread, `run()` thread, MediaCodec, session lifetime | |
| `HandOff` | abstract: waits that bring a frame or fail, and a death that needs a failed wait | |
| `FrameSync` | the frame hand-off of `CodecOutputSurface` | instantiates `HandOff` for its refinement |
| `V4L2Camera_proofs`, `BitstreamRing_proofs`, `DecodeLoop_proofs`, `CaptureSession_proofs`, `EncodeFrame_proofs`, `DecoderView_proofs`, `FrameSync_proofs` | theorems | extend the module of that name |
| `MC...` | values of the constants for TLC | extend the module of that name |

**`V4L2Camera`.** `pc` and `idx` say where the application thread is in which
call; the loops of `init_device` and `stream_on` take one step for each buffer, so
a failure can come at every turn. `owner` is the driver's view of each buffer,
`mapped` the live mappings, `table` the state of the `buf_info` array, `cur` is
`device->buf.index` and `lent` the buffer `cam_src->vBufOut` points to. `Capture`
is the driver. `select` is modelled with its three outcomes: readable, given up
(timeout, `EINTR`), and an error the code passes over. A failed call takes a unit
of the budget `MaxFaults`, and its kind joins `failed`: a property that holds
until a certain call fails says which. `v4l2_cameraGetFrame` does not look at the
descriptor, and `initCamEnc` calls it after a failed init too
(`jni/cam_enc.c:87` to 91), so a frame may be asked of a closed device: the
ioctls fail and are ignored, and what is lent is then read from an array that
was freed (`lent = Wild`) or never made, which ends the process
(`pc = "crashed"`). The properties about lent frames say so by asking for an
open device.

**`BitstreamRing`.** `ring` holds for every cell the position in the source of
the byte there, so a byte that is lost, repeated, swapped or overwritten shows;
`rd` and `used` give the published region. The sizes (`STREAM_BUF_SIZE`,
`STREAM_FILL_SIZE`, the 512-byte blocks, the VPU's margin) are constants. A fill
that finds too little space returns without a change and is a stuttering step.
Whatever was copied is only published by `vpu_DecUpdateBitstreamBuffer`; when
that fails, the bytes are dropped, those of a frame in memory and those of a
file, which has moved on. The end of the stream is told to the VPU by an update
as well; one that fails is made again at the next fill.

**`DecodeLoop`.** A picture is named by the call that brought it. `flag` is the
set of set display flags, `kept` the buffers the VPU holds back, `dispClr` is
`dec->disp_clr_index`. Every `return` inside the loop is an action or a disjunct.
The VPU chooses any free buffer to decode into, and any kept one, or none, to
report. Clearing a display flag may fail, which is only logged, before
`disp_clr_index` moves on; so may the `g2d_open` of `write_to_dst`, and the call
succeeds with nothing written. Both count in `errors` like a failed call. The
decoder starts with the frame of `decoder_open` still in the
bitstream buffer, or not: which of the two depends on how much of it the VPU
takes while it parses the headers. The return
at line 964 is not reached on this board (`!cpu_is_mx6x()`) and has no action.

**`DecoderMemory`, `EncoderMemory`, `CaptureSession`.** For each resource the
memory is `null`, `held`, `dangling` (released, with the pointer or handle left)
or `lost` (held, with no pointer). The mapping `IOGetVirtMem` makes of a buffer
is a resource of its own beside the physical memory: no deinit unmaps the
bitstream buffers or the encoder's output buffer, as `framebuf_free` does for
frame buffers. One stage of an init is one action; its failure
branch says which pointers are cleared and which dangle. `release` turns `bad`
when something not held is released, `access` when a frame is asked of memory
that is not held. The results of the camera's, the decoder's and the encoder's
inits are not kept (`jni/cam_enc.c:83` to 110), so the session goes on after any
of them; and `DecoderView.init` does not look at the result of `initCamEnc`
(`J/DecoderView.java:48` to 55), so frames are asked even when `vpuInit` failed.
`IOFreePhyMem` of an area that was given back already is taken
to do nothing, as its callers rely on. The two mappings of the encoder are
compared as unsigned numbers (`L/vpu_encode.c:38`, 55), so a failure reported as
-1 goes unnoticed there, and is a branch of its own.

**`SourceFrame`, `EncodeFrame`.** `read` is the place in `read_source_frame`; one
turn of a copy loop is one action, with the pointers `to` and `from` and the
counter the code has. The unit of a column is what one turn moves, a word in the
planar loop and one U or V in the packed one, so both have `Cols` columns in a
row. `origin` holds for every sample of the chroma planes which row and column
of the picture it came from, or `Stale`. Luma and flat copies are one step each:
`fb` says whether a plane is whole, in part, or still that of an earlier
picture. `half` in a size is the number of 4:2:0 chroma rows, `room` the number
the plane has room for (the height is rounded up to 16) and `excess` what
rounding adds to the width. A packed picture comes with a size of its own
(`bufOutSize`), which the loop runs to and nothing compares with the picture
(`L/vpu_encode.c:673`): `have` may be less than the height, or more. What is
stored behind a plane is not followed further; `fb` then says that the planes
are not whole. In `EncodeFrame`, `pc` is the place in
`vpu_encoder_encode_frame`. Whether the VPU has put the picture into the
bitstream buffer, the copy behind the headers and the table handed out are
separate variables. `chain` says whether the player has what the next P
picture refers to, `lost` and `broken` count. That every `gopSize`-th picture
is an I picture, that a forced one starts the period anew and that P pictures
refer to the one before is what `L/enzo_codec.h:37` and the configuration
(`L/vpu_encode.c:392`) say of the VPU. It skips no I picture. If the very
first call gives nothing, `DecoderView.init` throws: `player = "crashed"`.
`coded` is the size the VPU gives of a picture and `report` the sizes of its
slices; that one is the sum of the other is not assumed, nor that the headers
have the sizes of `L/enzo_utils.h:29`, nor that there are no more slices than
`nalLength` has entries (`MaxNal`). `number` counts what was stored, `nal` is
what the table has room for. `AsExpected` names the three where a property
needs them.

**`FrameSync`.** The two threads of `J/CodecOutputSurface.java`: the one that
renders and waits, and the one that has `onFrameAvailable` called. The monitor
is modelled by its critical sections: entering the loop, waking up, setting the
flag. `wait` may end by its timeout, or without a reason, before or after the
flag is set. `queued` is the surface's side; in asynchronous mode a frame may
replace the one before without a call. A wait may fail by its timeout, by an
interrupt, with the flag set or not (both count in `failed`), or after it has
taken the flag, by the GL check or by `updateTexImage` (`unlatched`). An
exception of a wait can be caught by the caller, one of the callback ends the
process. `HandOff` says the same without flag, lock and callback: a wait brings
a frame no older than the failed waits explain, or fails; the process may die,
but only after a wait has failed.

**`DecoderView`.** `ui` is the UI thread inside `init`, `pc` the place of `run()`
in its loop, `queued` and `ready` the frames in the codec's input and output
buffers. The call that dequeues and queues an input buffer is one action, since
only this thread takes input buffers. An uncaught exception ends the process:
`ui = "crashed"` disables everything. The end-of-stream flag is left out: no
input buffer ever carries it.

## 3. Runs

| Run | Instance | Shows |
|---|---|---|
| `camera` | 3 buffers asked for, 1 to 3 granted, 4 faults of any kind, frames asked for after a failed init too; fairness | of an open device lent frames are mapped, and real until a frame call fails; one buffer lost per failure at most; no double release; only a QBUF of stream-on leaves a mapping behind; frames keep coming |
| `camera_silent_failure` | 1 fault in a frame call | *violated*: "0 = success" (`L/enzo_codec.h:157`) |
| `camera_leaked_mapping` | 1 fault | *violated*: "the cleanup would have occured in the init process" (`L/v4l2_camera.c:345`) |
| `ring_stream` | ring of 8, margin 2, frames of 2, 3, 6, 7 bytes, a file of 16, 2 failed reads or updates | the unread bytes are in order and complete; without failures only a file's tail is lost; refines `ByteStream` |
| `ring_empty_frame` | ring of 8, frames of 0 and 3 bytes | *violated*: "only write the actual size" (`L/vpu_decode.c:565`) |
| `decode_loop` | 4 frame buffers, room for 6 motion JPEG or 3 H.264 pictures in the ring, 4 calls, 2 failed calls, clearings or writes; fairness | flags are accounted for, buffers suffice, lag is bounded, calls return |
| `decode_first_frame` | 3 calls, no failure | *violated*: "one framebuffer is delayed for display flag clear" (`L/vpu_decode.c:471`) |
| `encode_frame` | 3 sizes, 3 layouts, every source and format, packed pictures of up to 3 rows too many; period of 3, 1 turn of waiting, up to 4 slices with a table of 3, 2 sizes of headers and of coded pictures, 2 lost pictures; fairness | chroma leaves its plane only if the claimed size does; it is the picture's, row for row; only the tail of a file can be stale; table and picture agree if the VPU did as expected; requests are answered; damage is bounded; calls return |
| `session_release` | every init call may fail, 3 kinds in one behaviour | closing gives back what partial inits acquired but for three mappings and one instance, releases are sound but for four failures, uses are safe after four harmless ones |
| `session_double_release` | 1 failing codec call | *violated*: "Clean up all the stuff we initialized" (`jni/cam_enc.c:116`) |
| `player` | 2 input, 3 output buffers, 2 surface changes, 2 INFO results; fairness | threads and codec do not block each other; the thread stops after `close()` |
| `frame_sync` | 5 frames; fairness | no wake-up is lost, the lag is bounded by the waits that failed in any way, waits end; refines `HandOff`, so an overrun needs a failed wait before it |

The violated properties state what a comment or a header says of the program;
`PROJECT.json` quotes each under "findings" with what the code does.

**Bounds.** Three camera buffers are what the code asks for; a grant of one is
the smallest and starves the driver at once. Four faults allow a failure in
init, in stream-on, in the queue half and in the dequeue half of one behaviour.
A ring of 8 with a margin of 2 and blocks of 2 lets frames fit, fit only the
empty ring (6) and never fit (7), and wrap with every offset; the file is twice
the ring, so its end can meet the ring's end; two failures lose bytes at two
places of one source. In `decode_loop` two failures are
enough for both spare buffers to be lost and for the lag to reach its bound of
five pictures, with the frame of `decoder_open` or without it, and a buffer of
six leaves room above that bound; the loop limit of 2 stands for
1000, it only has to be reached. Three kinds of failing calls cover a failure
in each of camera, decoder and encoder, and in successive sessions. Two surface
changes give the re-entry of `init`; more change nothing, since the second
always ends the process: `start()` of a thread that was started throws. In
`encode_frame` the sizes are a picture of 8 rows, as high as the plane, which
both loops pass several row pairs of; one of 6 rows, where the height is
rounded up and the packed loop stores a row more than the picture has (the 16
of the code scaled to 4); and one whose width is refused. A period of 3 has a P
picture that refers to a P picture; one loss is the first picture, the other
comes at any later place. Two turns more of waiting would repeat the first;
slices of one size, one to four of them, and a table of three (`MaxNal`) fill the
table, overfill it and are off by an entry, with the two headers in it or
without; coded pictures of 1 or 2 bytes (`CodedSizes`) agree with the slices or
not, and headers come in the usual sizes or one byte longer (`HeaderSizes`).
Three rows too many (`Surplus`) reach past the room of every plane and past the
pair of rows that rounding the height up leaves. Five frames in `frame_sync` allow several waits to fail and
the frames to arrive late in every order.

**Fairness.** `V4L2Camera`: a started call goes on, the driver fills buffers it
has, and the application asks for frames in a loop. It is weak fairness on
whole calls; `CameraDeinit` and `CameraInit` are never forced. `DecodeLoop`:
the calling thread runs on, and `vpu_IsBusy` ends or the 50-turn limit does.
`DecoderView`: both threads and the codec are scheduled. `EncodeFrame`: a
started call goes on; nothing is asked of the VPU, which may never finish: the
20-turn limit ends the wait. `FrameSync`: the waiting thread runs, and its wait
ends by the timeout; nothing is asked of the surface. No fairness is assumed of
the UI callbacks, which the user decides, nor of failures.

**Deadlock.** The camera runs, `decode_loop`, `decode_first_frame`, the ring runs,
`encode_frame`, `frame_sync` and `player` switch the deadlock check off: they end
when the bounded calls, frames or the bounded source are used up, when the thread
has ended or when the process has crashed. That no call gets stuck on the way is
what `CallReturns`, `AwaitEnds` and `TurnEnds` say.

## 4. Proofs

For every value of the constants under the named assumptions
(`BuffersAssumption`, `RingAssumption`, ...):

* `V4L2Camera_proofs`: `TypeCorrect`, `NoDoubleRelease`, `FramesAreMapped`,
  `FramesAreReal`, `LossesAreBounded`, `ClosedDeviceIsUnmapped`. The inductive
  invariant `SafeInv` adds to the types what each `pc` implies about the
  descriptor, the array and the mappings (`SessionInv`), which buffers can be
  the driver's (`OwnerInv`), and that a frame is lent only between two calls
  and, with the device open, is that of `device->buf` (`LentInv`). The types alone are not inductive:
  that `idx + 1` is a buffer count needs `idx < num_buffers <= MaxBuffers`,
  which holds only in the loops. `FramesAreReal` adds that `device->buf` names
  a filled buffer unless a call has failed. `LossesAreBounded` counts: a failed
  queue half leaves a buffer that the dequeue half may let go of, so the
  invariant counts that buffer (`Owed`) together with those already lost; the
  failure pays for it in the step before it is lost. `ClosedDeviceIsUnmapped`
  rests on `MappedInv`: until a QBUF of stream-on fails, the mappings are those
  the array has entries for, so that whoever gives up the array can unmap all.
  `FailuresDoNotLast` is about three kinds of steps of a frame call, from types
  and `SessionInv`: a queue half that does not fail leaves the driver something
  to fill, the driver keeps it, and a dequeue half that does not fail lends it.
* `BitstreamRing_proofs`: `TypeCorrect`, `RingKeepsTheStream`,
  `OnlyTailsAreLost`, `RingRefinesStream`. `OnlyTailsAreLost` is about
  sources none of whose reads and updates has failed. Lemmas about the ring
  arithmetic (`Wrap`, `Offset`, what `Copied` leaves and writes) come first; the
  refinement maps every fill to `Put`, `Drop` or a stutter and `Consume` to
  `Take`. It is stated for frames that are not empty, since an
  empty frame breaks it (`ring_empty_frame`). `NothingMissing` stops saying
  anything once a byte is dropped; `BytesStayInOrder` goes on: what is unread
  increases strictly, and each byte is behind its place by no more than was
  dropped.
* `DecodeLoop_proofs`: `TypeCorrect`, `FlagsAreAccounted`,
  `DecoderNeverStarves`, `LagIsTwoPerFailure`, `CallsStayCurrent`.
  The types need the limit of turns beside them (`TurnsLeft`). Flags are counted
  at every step of a call, as the buffers flagged that `disp_clr_index` does not
  name (`FlagsInv`); `LostCount` says that no step adds more to those that are
  lost than to `errors`, a logged clearing included. That buffers suffice is a count of what the VPU keeps
  and what is lost together (`RoomInv`): neither is bounded well enough alone,
  since a failed call may move a buffer from the one to the other. For motion
  JPEG, `LagInv` bounds the waiting pictures at each place of the loop, and
  `OwnInv` says that without failures the pictures in the decoder are the call's
  own and, with the frame of `decoder_open` still there, the one before it.
  With failures two weaker facts stay. `PicturesStayInOrder`: motion JPEG never
  shows a picture after a later one (`OrderInv` orders what was shown, what the
  VPU keeps and what waits in the ring). `PicturesAreWrittenOnce`: no
  H.264 picture is written to `vid_dst` twice (`DistinctInv`: no picture is in two
  places at once). It does not say that every call returns a picture of its
  own: one that gives up after the loop limit, or whose write fails, succeeds
  with what an earlier call wrote.
* `CaptureSession_proofs`: `TypeCorrect`, `ReleasesAreSound`, `ClosingGivesBack`,
  `UsesAreSafe`, for every set of calls that may fail. The steps of the two
  inits are typed by stage first. `ReleaseInv` says that what the deinit
  functions look at tells the truth until one of four calls fails; `ClosedInv`
  what each step of closing has given back and what it leaves (the mappings, and
  the instance lost when `vpu_EncGetInitialInfo` fails); `UseInv` what each stage
  has acquired while only harmless calls have failed, `vpuInit` not among them.
* `EncodeFrame_proofs`: `ChromaStaysInPlane`, `SourceIsThePicture`,
  `FileIsWholeButTheTail`, `TypeCorrect`, `LossDamagesOnePeriod`,
  `RequestIsAnswered`. The loops are proved for every width and height by the
  invariants of their heads, `PlanarAt` and `PackedAt`, and the packed one for every
  size a picture claims: the counter says which
  row of a pair is under way, and with it where the source pointer is for a given
  destination. `Stored` then says that all samples before the destination
  pointer are right. `DamageInv` counts beside the damaged pictures those of the
  rest of the period (`Due`): a loss pays `GopSize - 1` in advance, and every
  picture of the period draws on it. `IntraInv` keeps a request and the
  picture it leads to together across the wait. `HandedOutCoherently` needs what
  the recursive function `Total` yields for sequences of any length. The
  library's induction takes an operator; `SetInduction` takes the set of the
  numbers a statement holds for instead, and follows from `<` being
  well-founded. With it the partial sums exist, and `TotalOfHeaders` says that
  a table with the two headers before it adds up to their sizes more; up to
  `MaxNal` units the table is all of them (`TableFacts`). The theorem says
  nothing about the sum if the report does not cover the picture, if there are
  more units than entries, or if the headers have other sizes: `AsExpected`.
* `DecoderView_proofs`: `TypeCorrect`, `FramesInCodecAreBounded`,
  `NoDeadlyEmbrace`, `SessionUsedWhileOpen`. The latency bound is inductive
  given the types: between its input and its output call the thread may have
  put in one frame more, and when it takes none out because no output is ready,
  all frames are on the input side, which holds `NIn`. The mutual wait is then
  excluded by arithmetic, from `MaxEvents < NOut` (`EventsAssumption`). For the
  session, `SessionInv` ties `pc` and `ui` to `session` as long as
  `surfaceChanged` came once. `InputNeverStarves` adds to the excluded mutual
  wait that the codec is there as long as the thread is in its loop (`CodecInv`).
* `FrameSync_proofs`: `TypeCorrect`, `NoWakeupIsLost`, `OverrunFollowsTimeout`,
  `LagFollowsTimeouts`, `KeepsThePromise`, for any number of frames. `SyncInv` is an equation: the
  calls that set the flag are the waits that took it, plus one if it is set.
  A callback that finds the flag set has then fewer calls than frames before
  it, so a wait has failed and left the flag alone; and after the latch the
  texture is at least as late as the calls. The refinement maps `Render` to
  `Ask`, the latch to `Succeed`, every exception of a wait to `Miss`, an overrun
  to `Die` and all else to a stutter.

**Bounded calls.** Four theorems say how long a call can take, whatever fails
and whatever camera, VPU, codec and the other thread do: `CallsAreBounded` of
camera (`2 * MaxBuffers + 4` steps), decode loop (`3 * LoopMax + 2`) and encoder
(`CallMost`: the turns of the copy loops and of the wait for the VPU), and
`CloseEndsSoon` of the player's thread once `mRunning` is false (`12 + NIn`).
Each counts down a measure that every step of the caller lowers and no step of
another actor raises (`CallIsBounded`, `StopIsBounded`); the bound is what the
measure is at the beginning, and it is a natural number by the invariants above.

**Model-checked only.** `FramesKeepComing`, `TurnEnds`, `StopsAfterClose`,
`AwaitEnds` and the two `CallReturns` are liveness under fairness, out of this
prover's reach, as is `ENABLED`. The bounds above and `FailuresDoNotLast`,
`InputNeverStarves` and `NoWakeupIsLost` are the safety half of them: there are
only finitely many steps to take. That the next one is possible and is taken
is what TLC adds. Every invariant and action property of a passing run has a
theorem, and so have both refinements. No module declares a RECURSIVE operator.

## 5. Not modelled

* `J/CameraView.java`, a preview that no activity of the manifest uses, passes
  the surface callbacks on to `android.hardware.Camera`, all on one thread.
  `J/MainActivity.java` builds the browse list of a sample launcher out of
  strings. `J/STextureRender.java` draws and keeps no state of interest. In
  `J/CodecOutputSurface.java` the EGL set-up and `saveFrame` are left out.
* `fwriten`, `mediaBufferInit` and `mediaBufferDeinit` of `L/enzo_utils.c`: the
  first writes a buffer to a file as `freadn` reads one, the others have no
  caller.
* The VPU library, g2d, the V4L2 driver and MediaCodec have no source here; their
  headers, a third of the code, are declarations. They
  appear as external definitions, as nondeterministic as their use requires.
* How many slices a picture has and how large it is: the rate control of the VPU
  decides, and no code bounds it. The model lets the slices exceed the NAL table
  and says what holds as long as they do not; what the entries behind the table
  overwrite, and the size of the output buffer, are left out. So is what an
  overlong packed picture overwrites behind the planes.
* A second player. A re-created activity makes a new `DecoderView`
  (`J/VideoDecoderActivity.java:23`) over the same native globals, while the
  thread of the old one may still be in its loop; `DecoderView` has one of each.
* What a NULL of `malloc` or `calloc` in `initCamEnc` would do; the six structures
  that stay behind when `vpuInit` fails, and `avcHeaderBuf`, which nothing frees;
  the `-1` that `initCamEnc` returns where a string is due (`jni/cam_enc.c:81`).
  A frame buffer that `IOGetVirtMem` cannot map is taken as noticed.
* Weak memory: `mRunning` is not volatile (`J/DecoderView.java:37`); the model
  lets the thread see the write when it next reads the field.
* A decoder change of resolution inside one session, and the interlaced and
  `VPU_EXTENDED_BUFFER_COUNT` variants of the frame buffer count.
* Logging, timing measurement, and the picture data itself.

What the checks say holds under conditions of the code's own. `SourceIsPicture`
asks for a layout that suits the data (`Suited`): the application sets
the encoder to planar 4:2:2 and relies on a camera that compresses 4:2:2. With a
4:2:0 camera the flat copy would leave the V plane as it was, since the buffer
has room for a U plane of 4:2:2 before it; a height that is no multiple of 16
shifts the planes likewise. The code checks only the width.

## 6. How the modules depend on each other

`DecodeLoop` takes the ring as a bounded sequence of pictures, which
`BitstreamRing` justifies: fills arrive whole and in order or not at all.
`EncodeFrame` takes the picture from the decoder or from anywhere else, in any
format, so it covers what `DecodeLoop` may deliver, an old picture included.
`CaptureSession` takes each component as a unit that is up or not, and
`DecoderView` the native session as open or not: a call of `getEncFrame` gives a
frame or an error. The one fact carried from one to the other is that
calls return, which each lower module states for itself.
