----------------------------- MODULE V4L2Camera -----------------------------
(***************************************************************************)
(* The camera session of v4l2_camera.c: opening the capture device,        *)
(* mapping its buffers, handing them to the driver, and the                *)
(* queue-then-dequeue cycle of v4l2_cameraGetFrame that lends one mapped   *)
(* buffer at a time to the application.                                    *)
(*                                                                         *)
(* The application thread and the capture driver interleave.  The driver   *)
(* is modelled from the ioctls the code issues: a buffer belongs to the    *)
(* application ("app"), waits to be filled ("queued") or waits to be       *)
(* dequeued ("done").  A call that fails takes one unit of a fault budget. *)
(*                                                                         *)
(* v4l2_cameraGetFrame does not ask whether the init before it succeeded,  *)
(* and initCamEnc (cam_enc.c:87 to 91) calls it either way: what it does   *)
(* with a device that is not open is part of the model.                    *)
(***************************************************************************)
EXTENDS Integers, FiniteSets

CONSTANTS
  MaxBuffers,   \* the most buffers VIDIOC_REQBUFS may grant
  Granted,      \* the counts it may grant for the three that are requested
  Faults,       \* the kinds of call that may fail
  MaxFaults,    \* bound: how many calls fail in one behaviour
  NoFrame,      \* cam_src points to no camera buffer
  Wild          \* cam_src points to whatever an entry of a freed array holds

FaultKinds == {"init", "qbuf", "stream_on", "select", "ioctl"}

ASSUME BuffersAssumption ==
  /\ MaxBuffers \in Nat \ {0}
  /\ Granted \subseteq 1 .. MaxBuffers
ASSUME FaultsAssumption ==
  /\ MaxFaults \in Nat
  /\ Faults \subseteq FaultKinds
ASSUME NoFrameAssumption ==
  NoFrame \notin Nat /\ Wild \notin Nat /\ NoFrame # Wild

Requested == 3
Buffers == 0 .. MaxBuffers - 1

VARIABLES
  pc,          \* the call the application thread is in: "idle" between the
               \* calls of a session, "closed" between sessions, "crashed"
               \* once the process has died of a NULL array
  idx,         \* loop variable of the mapping and of the queueing loop
  fd,          \* device->fd: "open" when it is a descriptor
  numBuffers,  \* device->num_buffers
  table,       \* the buf_info array: absent, local to init, installed, freed
  mapped,      \* buffer indices with a live mmap
  owner,       \* the driver's view of each buffer
  cur,         \* device->buf.index
  bytesused,   \* device->buf.bytesused: that of a frame once one was dequeued
  lent,        \* what cam_src->vBufOut points to
  release,     \* "bad" once the array was released while not installed
  faults,      \* failed calls so far
  failed       \* the kinds of the calls that have failed

vars == <<pc, idx, fd, numBuffers, table, mapped, owner, cur, bytesused,
          lent, release, faults, failed>>
buf  == <<cur, bytesused>>

Done    == {i \in Buffers : owner[i] = "done"}
Pending == {i \in Buffers : owner[i] \in {"queued", "done"}}

(* select() reports a capture device readable when a frame is done, and    *)
(* also, as an error condition, when no buffer is pending at all.          *)
Readable == Done # {} \/ Pending = {}

Fault(kind) ==
  /\ kind \in Faults /\ faults < MaxFaults
  /\ faults' = faults + 1 /\ failed' = failed \cup {kind}
NoFault == UNCHANGED <<faults, failed>>

Streaming == fd = "open" /\ pc \in {"idle", "first_dequeue", "queue", "dequeue"}
-----------------------------------------------------------------------------
Init ==
  /\ pc = "closed" /\ idx = 0
  /\ fd = "closed" /\ numBuffers = 0 /\ table = "none" /\ mapped = {}
  /\ owner = [i \in Buffers |-> "app"]
  /\ cur = 0 /\ bytesused = "none" /\ lent = NoFrame
  /\ release = "ok" /\ faults = 0 /\ failed = {}

-----------------------------------------------------------------------------
(* v4l2_cameraInit, up to the open of the device, on the structure that    *)
(* initCamEnc has just allocated and zeroed.  (When vpuInit fails before,  *)
(* initCamEnc leaves the structure zeroed: to the calls that follow, that  *)
(* is a device that could not be opened.)                                  *)
CameraInit ==
  /\ pc = "closed"
  /\ numBuffers' = Requested /\ table' = "none"
  /\ cur' = 0 /\ bytesused' = "none" /\ lent' = NoFrame
  /\ \/ fd' = "open" /\ pc' = "setup" /\ NoFault
     \/ Fault("init") /\ pc' = "idle" /\ UNCHANGED fd
  /\ UNCHANGED <<idx, mapped, owner, release>>

(* The format ioctls, REQBUFS and the malloc of the array; a failure goes  *)
(* to the label ERROR, with num_buffers set only if REQBUFS succeeded.     *)
SetupDevice ==
  /\ pc = "setup"
  /\ \/ /\ \E n \in Granted : numBuffers' = n
        /\ table' = "building" /\ idx' = 0
        /\ owner' = [i \in Buffers |-> "app"]
        /\ pc' = "map" /\ NoFault /\ UNCHANGED fd
     \/ /\ Fault("init")
        /\ numBuffers' \in Granted \cup {numBuffers}
        /\ fd' = "closed" /\ pc' = "idle"
        /\ UNCHANGED <<table, idx, owner>>
  /\ UNCHANGED <<mapped, buf, lent, release>>

(* Mutant: the mapping loop runs one turn too many. *)
MapBuffer_OneTooMany ==
  /\ pc = "map" /\ idx <= numBuffers
  /\ mapped' = mapped \cup {idx} /\ idx' = idx + 1 /\ NoFault
  /\ UNCHANGED <<pc, fd, numBuffers, table, owner, buf, lent, release>>

(* Mutant: a failed mmap goes to the label ERROR, past the unmapping. *)
MapBuffer_NoUnmap ==
  /\ pc = "map" /\ idx < numBuffers
  /\ \/ /\ mapped' = mapped \cup {idx} /\ idx' = idx + 1
        /\ NoFault /\ UNCHANGED <<pc, fd, numBuffers, table>>
     \/ /\ Fault("init")
        /\ numBuffers' = idx
        /\ table' = "none" /\ fd' = "closed" /\ pc' = "idle"
        /\ UNCHANGED <<idx, mapped>>
  /\ UNCHANGED <<owner, buf, lent, release>>

(* One turn of the QUERYBUF and mmap loop; the label ERROR1 unmaps what    *)
(* the turns before it mapped.                                             *)
MapBuffer ==
  /\ pc = "map" /\ idx < numBuffers
  /\ \/ /\ mapped' = mapped \cup {idx} /\ idx' = idx + 1
        /\ NoFault /\ UNCHANGED <<pc, fd, numBuffers, table>>
     \/ /\ Fault("init")
        /\ numBuffers' = idx
        /\ mapped' = mapped \ (0 .. idx - 1)
        /\ table' = "none" /\ fd' = "closed" /\ pc' = "idle"
        /\ UNCHANGED idx
  /\ UNCHANGED <<owner, buf, lent, release>>

(* Mutant: the mapping loop stops before the last buffer. *)
InstallTable_Early ==
  /\ pc = "map" /\ idx = numBuffers - 1
  /\ table' = "installed" /\ idx' = 0 /\ pc' = "stream_on"
  /\ NoFault
  /\ UNCHANGED <<fd, numBuffers, mapped, owner, buf, lent, release>>

InstallTable ==
  /\ pc = "map" /\ idx = numBuffers
  /\ table' = "installed" /\ idx' = 0 /\ pc' = "stream_on"
  /\ NoFault
  /\ UNCHANGED <<fd, numBuffers, mapped, owner, buf, lent, release>>

(* Mutant: exit_device leaves device->fd as it was. *)
ReleaseDevice_KeepsFd(n) ==
  /\ owner' = [i \in Buffers |-> "app"]
  /\ mapped' = mapped \ (0 .. n - 1)
  /\ release' = IF table = "installed" THEN release ELSE "bad"
  /\ table' = "freed" /\ UNCHANGED fd

(* v4l2_cameraDeinit with the device open: stream_off gives every buffer   *)
(* back, exit_device unmaps the first n = num_buffers entries of the array.*)
ReleaseDevice(n) ==
  /\ owner' = [i \in Buffers |-> "app"]
  /\ mapped' = mapped \ (0 .. n - 1)
  /\ release' = IF table = "installed" THEN release ELSE "bad"
  /\ table' = "freed" /\ fd' = "closed"

(* One turn of the QBUF loop of v4l2_stream_on. *)
StreamOnQueue ==
  /\ pc = "stream_on" /\ idx < numBuffers
  /\ \/ /\ owner' = [owner EXCEPT ![idx] = "queued"] /\ idx' = idx + 1
        /\ NoFault
        /\ UNCHANGED <<pc, fd, numBuffers, table, mapped, release>>
     \/ Fault("qbuf") /\ numBuffers' = idx /\ ReleaseDevice(idx)
        /\ pc' = "idle" /\ UNCHANGED idx
  /\ UNCHANGED <<buf, lent>>

(* VIDIOC_STREAMON; a failure deinitializes the camera. *)
StreamOn ==
  /\ pc = "stream_on" /\ idx = numBuffers
  /\ cur' = 0
  /\ \/ /\ pc' = "first_dequeue" /\ NoFault
        /\ UNCHANGED <<fd, table, mapped, owner, release>>
     \/ Fault("stream_on") /\ ReleaseDevice(numBuffers) /\ pc' = "idle"
  /\ UNCHANGED <<idx, numBuffers, bytesused, lent>>
-----------------------------------------------------------------------------
(* Mutant: DQBUF is issued without waiting for the device. *)
DequeueBuffer_NoWait ==
  \/ Done = {} /\ NoFault /\ UNCHANGED <<owner, buf>>
  \/ \E i \in Done : /\ owner' = [owner EXCEPT ![i] = "app"]
                     /\ cur' = i /\ bytesused' = "frame" /\ NoFault

(* The device is not open: select() finds no descriptor and times out, or  *)
(* the ioctl is refused.                                                   *)
NotOpen == fd = "closed" /\ NoFault

(* select() let the call through: the device is readable, or it failed      *)
(* with an error other than EINTR, which the code passes over.             *)
Selected ==
  /\ fd = "open"
  /\ (Readable /\ NoFault) \/ Fault("select")

(* The call on the open device fails: interrupted, or by its ioctl. *)
DeviceFails == fd = "open" /\ (Fault("select") \/ (Readable /\ Fault("ioctl")))

(* v4l2_dequeue_buffer: its result reaches no caller, so a failure shows   *)
(* only in what it leaves undone.                                          *)
DequeueBuffer ==
  \/ (NotOpen \/ DeviceFails) /\ UNCHANGED <<owner, buf>>
  \/ Pending = {} /\ Selected /\ UNCHANGED <<owner, buf>>
  \/ \E i \in Done : /\ owner' = [owner EXCEPT ![i] = "app"]
                     /\ cur' = i /\ bytesused' = "frame" /\ Selected

(* Mutant: the buffer is never given back. *)
QueueBuffer_Forgotten == Readable /\ NoFault /\ UNCHANGED owner

(* v4l2_queue_buffer: select first, then QBUF, which the driver refuses    *)
(* for a buffer it already has.                                            *)
QueueBuffer ==
  \/ (NotOpen \/ DeviceFails) /\ UNCHANGED owner
  \/ Selected /\ owner[cur] # "app" /\ UNCHANGED owner
  \/ Selected /\ owner[cur] = "app"
     /\ owner' = [owner EXCEPT ![cur] = "queued"]

(* The last call of v4l2_cameraInit. *)
FirstDequeue ==
  /\ pc = "first_dequeue"
  /\ DequeueBuffer /\ pc' = "idle"
  /\ UNCHANGED <<idx, fd, numBuffers, table, mapped, lent, release>>

(* v4l2_cameraGetFrame, whether the init before succeeded or not; the      *)
(* caller is finished with the frame before.                               *)
GetFrame ==
  /\ pc = "idle"
  /\ pc' = "queue" /\ lent' = NoFrame /\ NoFault
  /\ UNCHANGED <<idx, fd, numBuffers, table, mapped, owner, buf, release>>

GetFrameQueue ==
  /\ pc = "queue"
  /\ QueueBuffer /\ pc' = "dequeue"
  /\ UNCHANGED <<idx, fd, numBuffers, table, mapped, buf, lent, release>>

(* The dequeue and the rest of the call, which returns 0 in every case it   *)
(* returns: device->buffers is indexed without a look at what it holds.    *)
GetFrameDequeue ==
  /\ pc = "dequeue"
  /\ DequeueBuffer
  /\ \/ table = "installed" /\ lent' = cur' /\ pc' = "idle"
     \/ table = "freed" /\ lent' = Wild /\ pc' = "idle"
     \/ table = "none" /\ pc' = "crashed" /\ UNCHANGED lent
  /\ UNCHANGED <<idx, fd, numBuffers, table, mapped, release>>

(* v4l2_cameraDeinit and the end of the session; with the device closed    *)
(* there is nothing to release.                                            *)
CameraDeinit ==
  /\ pc = "idle" /\ pc' = "closed" /\ lent' = NoFrame /\ NoFault
  /\ \/ fd = "open" /\ ReleaseDevice(numBuffers)
     \/ fd = "closed" /\ UNCHANGED <<owner, mapped, release, table, fd>>
  /\ UNCHANGED <<idx, numBuffers, buf>>

(* The driver fills a queued buffer. *)
Capture ==
  /\ Streaming
  /\ \E i \in Buffers : /\ owner[i] = "queued"
                        /\ owner' = [owner EXCEPT ![i] = "done"]
  /\ NoFault
  /\ UNCHANGED <<pc, idx, fd, numBuffers, table, mapped, buf, lent, release>>
-----------------------------------------------------------------------------
InitSteps == SetupDevice \/ MapBuffer \/ InstallTable \/ StreamOnQueue
             \/ StreamOn \/ FirstDequeue
FrameSteps == GetFrameQueue \/ GetFrameDequeue

Next == CameraInit \/ InitSteps \/ GetFrame \/ FrameSteps \/ CameraDeinit
        \/ Capture

Spec == Init /\ [][Next]_vars

(* A started call is carried on, the camera keeps filling the buffers it   *)
(* is given, and an application with an open camera keeps asking for       *)
(* frames unless it closes the camera.                                     *)
Fairness ==
  /\ WF_vars(InitSteps) /\ WF_vars(FrameSteps)
  /\ WF_vars(Capture) /\ WF_vars(GetFrame)

FairSpec == Spec /\ Fairness
-----------------------------------------------------------------------------
Owners == {"app", "queued", "done"}

(* Every variable has its type. *)
TypeOK ==
  /\ pc \in {"closed", "idle", "setup", "map", "stream_on", "first_dequeue",
             "queue", "dequeue", "crashed"}
  /\ idx \in 0 .. MaxBuffers
  /\ fd \in {"open", "closed"}
  /\ numBuffers \in 0 .. MaxBuffers \cup {Requested}
  /\ table \in {"none", "building", "installed", "freed"}
  /\ mapped \subseteq Buffers
  /\ owner \in [Buffers -> Owners]
  /\ cur \in Buffers
  /\ bytesused \in {"none", "frame"}
  /\ lent \in Buffers \cup {NoFrame, Wild}
  /\ release \in {"ok", "bad"}
  /\ faults \in 0 .. MaxFaults
  /\ failed \subseteq FaultKinds

(* The lent buffer was filled by the driver and is out of its hands. *)
FrameIsReal == lent \in Buffers /\ owner[lent] = "app" /\ bytesused = "frame"

(* With the device open, and as long as no frame call has failed, the      *)
(* buffer behind cam_src was filled by the driver and is not in the        *)
(* driver's hands while the caller decodes it (v4l2_cameraGetFrame ignores *)
(* the results of both its calls); sessions whose initialization failed    *)
(* before do no harm.                                                      *)
LentFrameIsReal ==
  (lent # NoFrame /\ fd = "open" /\ failed \cap {"select", "ioctl"} = {})
    => FrameIsReal

(* The buffers of the open session that neither the driver has nor the     *)
(* next queue call will give back: no later call can ever queue them.      *)
Lost == {i \in 0 .. numBuffers - 1 : owner[i] = "app" /\ i # cur}

(* Each failed call costs at most one buffer: a buffer goes astray only    *)
(* when the queue half of v4l2_cameraGetFrame fails and the dequeue half   *)
(* then succeeds and overwrites device->buf.index.                         *)
LossIsBounded ==
  Streaming => Cardinality(Lost) <= faults

(* While the device is open, and however its calls end, cam_src points     *)
(* into a buffer that is still mapped: v4l2_cameraGetFrame reads from a    *)
(* NULL or a freed array, or lends an unmapped buffer, only after an init  *)
(* that failed (it indexes device->buffers with whatever device->buf.index *)
(* holds, and looks at neither).                                           *)
LentIsMapped ==
  fd = "open" =>
    /\ pc # "crashed"
    /\ lent # NoFrame => (table = "installed" /\ lent \in mapped)

(* exit_device never unmaps and frees through an array that init never     *)
(* installed or that an earlier cleanup freed, whichever init step failed. *)
ReleasedOnce == release = "ok"

(* However often the camera is opened and closed, and whichever calls fail *)
(* but the QBUF of v4l2_stream_on, a closed device has no mapping left.    *)
CleanedUp ==
  (fd = "closed" /\ "qbuf" \notin failed) => mapped = {}

(* The mappings of a device that is closed are all gone: v4l2_camera.c:345 *)
(* says that an init that did not complete has done its own cleanup.       *)
ClosedIsClean ==
  fd = "closed" => mapped = {}

(* What enzo_codec.h:157 says of cameraGetFrame: 0 = success, so a call    *)
(* that returned 0 (every call does) has delivered a filled buffer that    *)
(* the driver does not own.                                                *)
SuccessMeansFrame ==
  lent # NoFrame => FrameIsReal

(* v4l2_cameraGetFrame takes a frame from the driver and lends it. *)
Delivery == \E i \in Done : owner'[i] = "app" /\ lent' = i

(* A caller that keeps calling gets new frames again and again, whatever   *)
(* went wrong before: failed calls never leave a session in which no       *)
(* buffer can reach the driver any more.                                   *)
FramesKeepComing ==
  <>[](fd = "open") => []<><<Delivery>>_vars
=============================================================================
