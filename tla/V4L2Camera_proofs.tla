-------------------------- MODULE V4L2Camera_proofs --------------------------
(***************************************************************************)
(* Theorems about the camera session, for every number of buffers the      *)
(* driver may grant and every budget of failing calls.                     *)
(***************************************************************************)
EXTENDS V4L2Camera, FiniteSetTheorems, TLAPS

USE BuffersAssumption, FaultsAssumption, NoFrameAssumption

(* The device is set up: its array is installed and its buffers are mapped. *)
Held == fd = "open" /\ pc \notin {"setup", "map"}

(* What the steps of v4l2_cameraInit have established when each is reached. *)
SessionInv ==
  /\ fd = "closed" => pc \in {"closed", "idle", "queue", "dequeue", "crashed"}
  /\ pc \in {"closed", "crashed"} => fd = "closed"
  /\ pc = "map" => /\ numBuffers \in 1 .. MaxBuffers /\ idx <= numBuffers
                   /\ 0 .. idx - 1 \subseteq mapped
  /\ pc = "stream_on" => idx <= numBuffers
  /\ Held => /\ table = "installed"
             /\ numBuffers \in 1 .. MaxBuffers
             /\ 0 .. numBuffers - 1 \subseteq mapped
             /\ cur < numBuffers \/ pc = "stream_on"

(* Who owns the buffers while they are handed to the driver and after. *)
OwnerInv ==
  /\ pc = "map" => \A i \in Buffers : owner[i] = "app"
  /\ pc = "stream_on" =>
       \A i \in Buffers : owner[i] = IF i < idx THEN "queued" ELSE "app"
  /\ pc = "first_dequeue" =>
       \A i \in 0 .. numBuffers - 1 : owner[i] # "app"
  /\ Streaming => \A i \in Buffers : owner[i] # "app" => i < numBuffers

(* A frame is lent between two calls only, and with the device open it is  *)
(* that of device->buf.                                                    *)
LentInv == lent # NoFrame => pc = "idle" /\ (fd = "open" => lent = cur)

SafeInv == TypeOK /\ SessionInv /\ OwnerInv /\ LentInv /\ ReleasedOnce
-----------------------------------------------------------------------------
LEMMA InitSafe == Init => SafeInv
BY DEF Init, SafeInv, TypeOK, SessionInv, OwnerInv, LentInv, ReleasedOnce,
       Held, Streaming, Buffers, Owners, Requested, FaultKinds

(* A step counts at most one failed call and notes its kind.               *)
LEMMA FaultStep ==
  ASSUME [Next]_vars
  PROVE  \/ faults' = faults /\ failed' = failed
         \/ \E k \in Faults : /\ faults < MaxFaults /\ faults' = faults + 1
                             /\ failed' = failed \cup {k}
<1> DEFINE Failing == \E k \in FaultKinds : Fault(k)
<1>1. NoFault \/ Failing
  BY DEF Next, InitSteps, FrameSteps, CameraInit, SetupDevice, MapBuffer,
         InstallTable, StreamOnQueue, StreamOn, FirstDequeue, GetFrame,
         GetFrameQueue, GetFrameDequeue, CameraDeinit, Capture, QueueBuffer,
         DequeueBuffer, Selected, NotOpen, DeviceFails, FaultKinds, vars,
         NoFault
<1> QED
  BY <1>1 DEF Fault, NoFault

LEMMA FaultTypes ==
  ASSUME TypeOK, [Next]_vars
  PROVE  faults' \in 0 .. MaxFaults /\ failed' \subseteq FaultKinds
BY FaultStep DEF TypeOK

(* A step of the application thread or of the driver preserves the types.  *)
LEMMA TypeStep ==
  ASSUME TypeOK, SessionInv, [Next]_vars
  PROVE  TypeOK'
<1>0. faults' \in 0 .. MaxFaults /\ failed' \subseteq FaultKinds
  BY FaultTypes
<1> USE <1>0 DEF TypeOK, SessionInv, Held, Buffers, Owners, Requested, buf
<1>1. CASE CameraInit
  BY <1>1 DEF CameraInit
<1>2. CASE SetupDevice
  <2>1. numBuffers' \in 0 .. MaxBuffers \cup {Requested}
    <3>1. numBuffers' \in Granted \/ numBuffers' = numBuffers
      BY <1>2 DEF SetupDevice
    <3>2. Granted \subseteq 0 .. MaxBuffers
      BY BuffersAssumption
    <3>3. numBuffers \in 0 .. MaxBuffers \cup {Requested}
      OBVIOUS
    <3> QED
      BY <3>1, <3>2, <3>3
  <2>2. /\ idx' \in 0 .. MaxBuffers /\ pc' \in {"map", "idle"}
        /\ fd' \in {"open", "closed"}
        /\ table' \in {"none", "building", "installed", "freed"}
    BY <1>2 DEF SetupDevice
  <2>3. owner' \in [Buffers -> Owners]
    BY <1>2 DEF SetupDevice
  <2>4. faults' \in 0 .. MaxFaults /\ failed' \subseteq FaultKinds
    BY <1>0
  <2>5. UNCHANGED <<mapped, cur, bytesused, lent, release>>
    BY <1>2 DEF SetupDevice
  <2> QED
    BY <2>1, <2>2, <2>3, <2>4, <2>5
<1>3. CASE MapBuffer
  <2>1. idx \in Buffers /\ idx + 1 \in 0 .. MaxBuffers
    BY <1>3 DEF MapBuffer
  <2>2. mapped' \subseteq Buffers
    BY <1>3, <2>1 DEF MapBuffer
  <2>3. UNCHANGED <<owner, cur, bytesused, lent, release>>
    BY <1>3 DEF MapBuffer
  <2>4. /\ pc' \in {"map", "idle"} /\ fd' \in {"open", "closed"}
        /\ table' \in {"building", "none", table}
        /\ idx' \in 0 .. MaxBuffers /\ numBuffers' \in 0 .. MaxBuffers
        /\ faults' \in 0 .. MaxFaults /\ failed' \subseteq FaultKinds
    BY <1>3, <2>1 DEF MapBuffer
  <2> QED
    BY <2>2, <2>3, <2>4
<1>4. CASE InstallTable
  BY <1>4 DEF InstallTable
<1>5. CASE StreamOnQueue
  <2>1. idx \in Buffers /\ idx + 1 \in 0 .. MaxBuffers
    BY <1>5 DEF StreamOnQueue
  <2>2. owner' \in [Buffers -> Owners]
    BY <1>5, <2>1 DEF StreamOnQueue, ReleaseDevice
  <2>3. mapped' \subseteq Buffers
    BY <1>5 DEF StreamOnQueue, ReleaseDevice
  <2> QED
    BY <1>5, <2>1, <2>2, <2>3 DEF StreamOnQueue, ReleaseDevice
<1>6. CASE StreamOn
  <2>1. owner' \in [Buffers -> Owners]
    BY <1>6 DEF StreamOn, ReleaseDevice
  <2>2. mapped' \subseteq Buffers
    BY <1>6 DEF StreamOn, ReleaseDevice
  <2> QED
    BY <1>6, <2>1, <2>2 DEF StreamOn, ReleaseDevice
<1>7. CASE FirstDequeue
  BY <1>7 DEF FirstDequeue, DequeueBuffer, Selected, NotOpen, DeviceFails, Done, Pending
<1>8. CASE GetFrame
  BY <1>8 DEF GetFrame
<1>9. CASE GetFrameQueue
  BY <1>9 DEF GetFrameQueue, QueueBuffer, Selected, NotOpen, DeviceFails
<1>10. CASE GetFrameDequeue
  BY <1>10 DEF GetFrameDequeue, DequeueBuffer, Selected, NotOpen, DeviceFails, Done, Pending
<1>11. CASE CameraDeinit
  BY <1>11 DEF CameraDeinit, ReleaseDevice
<1>12. CASE Capture
  BY <1>12 DEF Capture
<1>13. CASE UNCHANGED vars
  BY <1>13 DEF vars
<1> QED
  BY <1>1, <1>2, <1>3, <1>4, <1>5, <1>6, <1>7,
     <1>8, <1>9, <1>10, <1>11, <1>12, <1>13
     DEF Next, InitSteps, FrameSteps

LEMMA SessionStep ==
  ASSUME TypeOK, SessionInv, OwnerInv, [Next]_vars
  PROVE  SessionInv'
<1> USE DEF TypeOK, SessionInv, OwnerInv, Streaming, Held, Buffers, Owners,
            Requested, Fault, NoFault, buf
<1>1. CASE CameraInit
  BY <1>1 DEF CameraInit
<1>2. CASE SetupDevice
  BY <1>2 DEF SetupDevice
<1>3. CASE MapBuffer
  BY <1>3 DEF MapBuffer
<1>4. CASE InstallTable
  BY <1>4 DEF InstallTable
<1>5. CASE StreamOnQueue
  BY <1>5 DEF StreamOnQueue, ReleaseDevice
<1>6. CASE StreamOn
  BY <1>6 DEF StreamOn, ReleaseDevice
<1>7. CASE FirstDequeue
  BY <1>7 DEF FirstDequeue, DequeueBuffer, Selected, NotOpen, DeviceFails, Done, Pending
<1>8. CASE GetFrame
  BY <1>8 DEF GetFrame
<1>9. CASE GetFrameQueue
  BY <1>9 DEF GetFrameQueue, QueueBuffer, Selected, NotOpen, DeviceFails
<1>10. CASE GetFrameDequeue
  BY <1>10 DEF GetFrameDequeue, DequeueBuffer, Selected, NotOpen, DeviceFails, Done, Pending
<1>11. CASE CameraDeinit
  BY <1>11 DEF CameraDeinit, ReleaseDevice
<1>12. CASE Capture
  BY <1>12 DEF Capture
<1>13. CASE UNCHANGED vars
  BY <1>13 DEF vars
<1> QED
  BY <1>1, <1>2, <1>3, <1>4, <1>5, <1>6, <1>7,
     <1>8, <1>9, <1>10, <1>11, <1>12, <1>13
     DEF Next, InitSteps, FrameSteps

LEMMA OwnerStep ==
  ASSUME TypeOK, SessionInv, OwnerInv, [Next]_vars
  PROVE  OwnerInv'
<1> USE DEF TypeOK, SessionInv, OwnerInv, Streaming, Held, Buffers, Owners,
            Requested, Fault, NoFault, buf
<1>1. CASE CameraInit
  BY <1>1 DEF CameraInit
<1>2. CASE SetupDevice
  BY <1>2 DEF SetupDevice
<1>3. CASE MapBuffer
  BY <1>3 DEF MapBuffer
<1>4. CASE InstallTable
  BY <1>4 DEF InstallTable
<1>5. CASE StreamOnQueue
  BY <1>5 DEF StreamOnQueue, ReleaseDevice
<1>6. CASE StreamOn
  BY <1>6 DEF StreamOn, ReleaseDevice
<1>7. CASE FirstDequeue
  BY <1>7 DEF FirstDequeue, DequeueBuffer, Selected, NotOpen, DeviceFails, Done, Pending
<1>8. CASE GetFrame
  BY <1>8 DEF GetFrame
<1>9. CASE GetFrameQueue
  BY <1>9 DEF GetFrameQueue, QueueBuffer, Selected, NotOpen, DeviceFails
<1>10. CASE GetFrameDequeue
  BY <1>10 DEF GetFrameDequeue, DequeueBuffer, Selected, NotOpen, DeviceFails, Done, Pending
<1>11. CASE CameraDeinit
  BY <1>11 DEF CameraDeinit, ReleaseDevice
<1>12. CASE Capture
  BY <1>12 DEF Capture
<1>13. CASE UNCHANGED vars
  BY <1>13 DEF vars
<1> QED
  BY <1>1, <1>2, <1>3, <1>4, <1>5, <1>6, <1>7,
     <1>8, <1>9, <1>10, <1>11, <1>12, <1>13
     DEF Next, InitSteps, FrameSteps

LEMMA LentStep ==
  ASSUME TypeOK, SessionInv, LentInv, ReleasedOnce, [Next]_vars
  PROVE  LentInv' /\ ReleasedOnce'
<1> USE DEF TypeOK, SessionInv, LentInv, ReleasedOnce, Held, Buffers,
            Requested, Fault, NoFault, buf
<1>1. CASE CameraInit
  BY <1>1 DEF CameraInit
<1>2. CASE SetupDevice
  BY <1>2 DEF SetupDevice
<1>3. CASE MapBuffer
  BY <1>3 DEF MapBuffer
<1>4. CASE InstallTable
  BY <1>4 DEF InstallTable
<1>5. CASE StreamOnQueue
  BY <1>5 DEF StreamOnQueue, ReleaseDevice
<1>6. CASE StreamOn
  BY <1>6 DEF StreamOn, ReleaseDevice
<1>7. CASE FirstDequeue
  BY <1>7 DEF FirstDequeue, DequeueBuffer, Selected, NotOpen, DeviceFails, Done, Pending
<1>8. CASE GetFrame
  BY <1>8 DEF GetFrame
<1>9. CASE GetFrameQueue
  BY <1>9 DEF GetFrameQueue, QueueBuffer, Selected, NotOpen, DeviceFails
<1>10. CASE GetFrameDequeue
  BY <1>10 DEF GetFrameDequeue, DequeueBuffer, Selected, NotOpen, DeviceFails, Done, Pending
<1>11. CASE CameraDeinit
  BY <1>11 DEF CameraDeinit, ReleaseDevice
<1>12. CASE Capture
  BY <1>12 DEF Capture
<1>13. CASE UNCHANGED vars
  BY <1>13 DEF vars
<1> QED
  BY <1>1, <1>2, <1>3, <1>4, <1>5, <1>6, <1>7,
     <1>8, <1>9, <1>10, <1>11, <1>12, <1>13
     DEF Next, InitSteps, FrameSteps

LEMMA SafeInvariant == Spec => []SafeInv
<1>1. SafeInv /\ [Next]_vars => SafeInv'
  BY TypeStep, SessionStep, OwnerStep, LentStep DEF SafeInv
<1> QED
  BY <1>1, InitSafe, PTL DEF Spec
-----------------------------------------------------------------------------
(* Every variable of the camera session keeps its type: no index leaves    *)
(* the buffer array in the mapping and queueing loops of v4l2_init_device  *)
(* and v4l2_stream_on.                                                     *)
THEOREM TypeCorrect == Spec => []TypeOK
BY SafeInvariant, PTL DEF SafeInv

(* Whichever step of v4l2_cameraInit failed, v4l2_exit_device has released *)
(* only an installed array.                                                *)
THEOREM NoDoubleRelease == Spec => []ReleasedOnce
BY SafeInvariant, PTL DEF SafeInv

(* Whatever calls have failed in this session and those before, as long as *)
(* the device is open the frame v4l2_cameraGetFrame hands out lies in a    *)
(* mapped buffer, and no call reads through a NULL array: v4l2_cameraInit  *)
(* leaves a device open only with all that the later calls assume.         *)
THEOREM FramesAreMapped == Spec => []LentIsMapped
<1>1. SafeInv => LentIsMapped
  BY DEF SafeInv, TypeOK, SessionInv, LentInv, LentIsMapped, Held, Buffers
<1> QED
  BY <1>1, SafeInvariant, PTL
-----------------------------------------------------------------------------
(* Until a QBUF of v4l2_stream_on fails, the mappings are exactly those of *)
(* the buffers that the array, installed or in the making, has entries for.*)
MappedInv ==
  "qbuf" \notin failed =>
    /\ fd = "closed" \/ pc = "setup" => mapped = {}
    /\ pc = "map" => mapped = 0 .. idx - 1
    /\ Held => mapped = 0 .. numBuffers - 1

LEMMA MappedStep ==
  ASSUME TypeOK, SessionInv, MappedInv, [Next]_vars
  PROVE  MappedInv'
<1>0. "qbuf" \in failed => "qbuf" \in failed'
  BY FaultStep
<1> USE <1>0 DEF TypeOK, SessionInv, MappedInv, Held, Buffers, Requested, buf
<1>1. CASE CameraInit
  BY <1>1 DEF CameraInit
<1>2. CASE SetupDevice
  <2>1. pc' = "map" => 0 .. idx' - 1 = {}
    BY <1>2 DEF SetupDevice
  <2>2. mapped' = mapped /\ pc = "setup" /\ pc' \in {"map", "idle"} /\ ~Held'
    BY <1>2 DEF SetupDevice
  <2>3. pc' = "map" => fd' = fd
    BY <1>2 DEF SetupDevice
  <2> QED
    BY <2>1, <2>2, <2>3
<1>3. CASE MapBuffer
  <2>1. idx \in Nat /\ pc = "map" /\ fd = "open"
    BY <1>3 DEF MapBuffer
  <2>2. (0 .. idx - 1) \cup {idx} = 0 .. (idx + 1) - 1
    BY <2>1
  <2>3. CASE pc' = "map"
    <3>1. mapped' = mapped \cup {idx} /\ idx' = idx + 1 /\ fd' = fd
      BY <1>3, <2>1, <2>3 DEF MapBuffer
    <3> QED
      BY <2>1, <2>2, <2>3, <3>1
  <2>4. CASE pc' # "map"
    <3>1. mapped' = mapped \ (0 .. idx - 1) /\ pc' = "idle" /\ fd' = "closed"
      BY <1>3, <2>4 DEF MapBuffer
    <3> QED
      BY <2>1, <3>1
  <2> QED
    BY <2>3, <2>4
<1>4. CASE InstallTable
  BY <1>4 DEF InstallTable
<1>5. CASE StreamOnQueue
  <2>1. CASE pc' = "stream_on"
    BY <1>5, <2>1 DEF StreamOnQueue, ReleaseDevice
  <2>2. CASE pc' # "stream_on"
    <3>1. "qbuf" \in failed'
      BY <1>5, <2>2 DEF StreamOnQueue, Fault
    <3> QED
      BY <3>1
  <2> QED
    BY <2>1, <2>2
<1>6. CASE StreamOn
  <2>1. CASE fd' = "closed"
    <3>1. mapped' = mapped \ (0 .. numBuffers - 1) /\ Held /\ ~Held'
      BY <1>6, <2>1 DEF StreamOn, ReleaseDevice
    <3>2. pc' = "idle"
      BY <1>6, <2>1 DEF StreamOn, ReleaseDevice
    <3> QED
      BY <3>1, <3>2
  <2>2. CASE fd' # "closed"
    BY <1>6, <2>2 DEF StreamOn, ReleaseDevice
  <2> QED
    BY <2>1, <2>2
<1>7. CASE FirstDequeue
  BY <1>7 DEF FirstDequeue, DequeueBuffer, Selected, NotOpen, DeviceFails, Done, Pending
<1>8. CASE GetFrame
  BY <1>8 DEF GetFrame
<1>9. CASE GetFrameQueue
  BY <1>9 DEF GetFrameQueue, QueueBuffer, Selected, NotOpen, DeviceFails
<1>10. CASE GetFrameDequeue
  BY <1>10 DEF GetFrameDequeue, DequeueBuffer, Selected, NotOpen, DeviceFails, Done, Pending
<1>11. CASE CameraDeinit
  BY <1>11 DEF CameraDeinit, ReleaseDevice
<1>12. CASE Capture
  BY <1>12 DEF Capture
<1>13. CASE UNCHANGED vars
  BY <1>13 DEF vars
<1> QED
  BY <1>1, <1>2, <1>3, <1>4, <1>5, <1>6, <1>7,
     <1>8, <1>9, <1>10, <1>11, <1>12, <1>13
     DEF Next, InitSteps, FrameSteps

(* Whatever fails but a QBUF of v4l2_stream_on, the exits of the           *)
(* initialization and v4l2_exit_device unmap all that was mapped.          *)
THEOREM ClosedDeviceIsUnmapped == Spec => []CleanedUp
<1>1. Init => MappedInv
  BY DEF Init, MappedInv, Held
<1>2. SafeInv /\ MappedInv /\ [Next]_vars => MappedInv'
  BY MappedStep DEF SafeInv
<1>3. MappedInv => CleanedUp
  BY DEF MappedInv, CleanedUp
<1> QED
  BY <1>1, <1>2, <1>3, SafeInvariant, PTL DEF Spec
-----------------------------------------------------------------------------
(* Without a failed frame call the frame at hand is always a real one, and *)
(* the buffer that is given back is always one the application owns.       *)
FrameInv ==
  (failed \cap {"select", "ioctl"} = {} /\ Streaming) =>
    /\ pc \in {"idle", "queue"} => owner[cur] = "app" /\ bytesused = "frame"
    /\ pc = "dequeue" => owner[cur] # "app" /\ bytesused = "frame"

LEMMA FrameStep ==
  ASSUME SafeInv, FrameInv, [Next]_vars
  PROVE  FrameInv'
<1> USE DEF SafeInv, TypeOK, SessionInv, OwnerInv, Held, Streaming, FrameInv,
            Buffers, Owners, Fault, NoFault, buf
<1>1. CASE CameraInit
  BY <1>1 DEF CameraInit
<1>2. CASE SetupDevice
  BY <1>2 DEF SetupDevice
<1>3. CASE MapBuffer
  BY <1>3 DEF MapBuffer
<1>4. CASE InstallTable
  BY <1>4 DEF InstallTable
<1>5. CASE StreamOnQueue
  <2>1. fd' = "closed" \/ pc' = "stream_on"
    BY <1>5 DEF StreamOnQueue, ReleaseDevice
  <2> QED
    BY <2>1 DEF FrameInv, Streaming
<1>6. CASE StreamOn
  <2>1. fd' = "closed" \/ pc' = "first_dequeue"
    BY <1>6 DEF StreamOn, ReleaseDevice
  <2> QED
    BY <2>1 DEF FrameInv, Streaming
<1>7. CASE FirstDequeue
  <2>1. CASE Fault("select") \/ Fault("ioctl")
    BY <2>1
  <2>2. CASE Pending = {} /\ NoFault
    BY <1>7, <2>2 DEF FirstDequeue, Pending
  <2>3. CASE \E i \in Done : /\ owner' = [owner EXCEPT ![i] = "app"]
                           /\ cur' = i /\ bytesused' = "frame"
    BY <1>7, <2>3 DEF FirstDequeue, Done
  <2> QED
    BY <1>7, <2>1, <2>2, <2>3 DEF FirstDequeue, DequeueBuffer, Selected, NotOpen, DeviceFails
<1>8. CASE GetFrame
  BY <1>8 DEF GetFrame
<1>9. CASE GetFrameQueue
  BY <1>9 DEF GetFrameQueue, QueueBuffer, Selected, NotOpen, DeviceFails, Readable
<1>10. CASE GetFrameDequeue
  BY <1>10 DEF GetFrameDequeue, DequeueBuffer, Selected, NotOpen, DeviceFails, Done, Pending
<1>11. CASE CameraDeinit
  BY <1>11 DEF CameraDeinit, ReleaseDevice
<1>12. CASE Capture
  BY <1>12 DEF Capture
<1>13. CASE UNCHANGED vars
  BY <1>13 DEF vars
<1> QED
  BY <1>1, <1>2, <1>3, <1>4, <1>5, <1>6, <1>7,
     <1>8, <1>9, <1>10, <1>11, <1>12, <1>13
     DEF Next, InitSteps, FrameSteps

LEMMA FrameInvariant == Spec => []FrameInv
<1>1. Init => FrameInv
  BY DEF Init, FrameInv, Streaming
<1> QED
  BY <1>1, SafeInvariant, FrameStep, PTL DEF Spec

(* As long as no frame call has failed, the frame v4l2_cameraGetFrame      *)
(* lends is filled and stays out of the driver's hands until the next call.*)
THEOREM FramesAreReal == Spec => []LentFrameIsReal
<1>1. SafeInv /\ FrameInv => LentFrameIsReal
  BY DEF SafeInv, TypeOK, LentInv, FrameInv, Streaming, LentFrameIsReal,
         FrameIsReal
<1> QED
  BY <1>1, SafeInvariant, FrameInvariant, PTL
-----------------------------------------------------------------------------
(* A buffer that the queue half of v4l2_cameraGetFrame failed to give back *)
(* and that the dequeue half is about to let go of.                        *)
Owed == IF pc = "dequeue" /\ owner[cur] = "app" THEN 1 ELSE 0

LossInv == Streaming => Cardinality(Lost) + Owed <= faults

LEMMA LostFinite ==
  ASSUME TypeOK
  PROVE  IsFiniteSet(Lost) /\ Cardinality(Lost) \in Nat
<1>1. Lost \subseteq 0 .. numBuffers - 1
  BY DEF Lost
<1>2. IsFiniteSet(0 .. numBuffers - 1)
  BY FS_Interval DEF TypeOK, Requested
<1> QED
  BY <1>1, <1>2, FS_Subset, FS_CardinalityType

LEMMA LossStep ==
  ASSUME SafeInv, LossInv, [Next]_vars
  PROVE  LossInv'
<1>0. SUFFICES ASSUME Streaming' PROVE LossInv'
  BY DEF LossInv
<1> USE DEF SafeInv, TypeOK, SessionInv, OwnerInv, Held, Streaming, Buffers,
            Owners, Fault, NoFault, buf
<1>1. CASE CameraInit
  BY <1>1 DEF CameraInit, LossInv, Streaming
<1>2. CASE SetupDevice
  BY <1>2 DEF SetupDevice, LossInv, Streaming
<1>3. CASE MapBuffer
  BY <1>3 DEF MapBuffer, LossInv, Streaming
<1>4. CASE InstallTable
  BY <1>4 DEF InstallTable, LossInv, Streaming
<1>5. CASE StreamOnQueue
  BY <1>5 DEF StreamOnQueue, ReleaseDevice, LossInv, Streaming
<1>6. CASE StreamOn
  <2>1. CASE fd' = "closed"
    BY <2>1 DEF LossInv, Streaming
  <2>2. CASE fd' # "closed"
    <3>1. Lost' = {}
      BY <1>6, <2>2 DEF StreamOn, ReleaseDevice, Lost
    <3>2. pc' = "first_dequeue" /\ faults' = faults
      BY <1>6, <2>2 DEF StreamOn, ReleaseDevice
    <3> QED
      BY <3>1, <3>2, FS_EmptySet DEF LossInv, Owed
  <2> QED
    BY <2>1, <2>2
<1>7. CASE FirstDequeue
  <2>1. Lost = {} /\ Lost' = {}
    BY <1>7 DEF FirstDequeue, DequeueBuffer, Selected, NotOpen, DeviceFails, Done, Lost
  <2>2. Owed' = 0 /\ faults' >= 0
    BY <1>7 DEF FirstDequeue, DequeueBuffer, Selected, NotOpen, DeviceFails, Owed
  <2>3. Cardinality(Lost') = 0
    BY <2>1, FS_EmptySet
  <2> QED
    BY <2>2, <2>3 DEF LossInv
<1>8. CASE GetFrame
  <2>1. Lost' = Lost /\ pc' = "queue" /\ faults' = faults /\ Streaming
    BY <1>0, <1>8 DEF GetFrame, Lost
  <2> QED
    BY <2>1, LostFinite DEF LossInv, Owed
<1>9. CASE GetFrameQueue
  <2>1. Lost' = Lost /\ pc' = "dequeue" /\ Streaming /\ cur' = cur
    BY <1>0, <1>9 DEF GetFrameQueue, QueueBuffer, Selected, NotOpen,
                      DeviceFails, Lost
  <2>2. \/ faults' = faults + 1
        \/ faults' = faults /\ owner'[cur] # "app"
    BY <1>0, <1>9 DEF GetFrameQueue, QueueBuffer, Selected, NotOpen,
                      DeviceFails
  <2>3. Owed = 0 /\ Owed' \in {0, 1} /\ (owner'[cur] # "app" => Owed' = 0)
    BY <1>9, <2>1 DEF GetFrameQueue, Owed
  <2> QED
    BY <2>1, <2>2, <2>3, LostFinite DEF LossInv
<1>10. CASE GetFrameDequeue
  <2>1. pc = "dequeue" /\ Streaming /\ Owed' = 0
    BY <1>0, <1>10 DEF GetFrameDequeue, Owed
  <2>2. CASE UNCHANGED <<owner, cur>>
    <3>1. Lost' = Lost
      BY <1>10, <2>2 DEF GetFrameDequeue, Lost
    <3>2. Owed \in {0, 1} /\ faults \in Nat /\ faults' \in {faults, faults + 1}
      BY <1>10 DEF GetFrameDequeue, DequeueBuffer, Selected, NotOpen, DeviceFails, Owed
    <3> HIDE DEF SafeInv, TypeOK, SessionInv, OwnerInv
    <3>3. Cardinality(Lost) \in Nat /\ Cardinality(Lost) + Owed <= faults
      BY <2>1, LostFinite DEF SafeInv, LossInv
    <3> QED
      BY <2>1, <3>1, <3>2, <3>3 DEF LossInv
  <2>3. CASE ~ UNCHANGED <<owner, cur>>
    <3>1. PICK i \in Done : /\ owner' = [owner EXCEPT ![i] = "app"]
                           /\ cur' = i /\ faults' \in {faults, faults + 1}
      BY <1>10, <2>3 DEF GetFrameDequeue, DequeueBuffer, Selected, NotOpen, DeviceFails
    <3>2. owner[i] = "done" /\ numBuffers' = numBuffers
      BY <1>10, <3>1 DEF GetFrameDequeue, Done
    <3>3. CASE owner[cur] = "app"
      <4>1. Lost' \subseteq Lost \cup {cur}
        <5> SUFFICES ASSUME NEW j \in Lost', j # cur PROVE j \in Lost
          OBVIOUS
        <5>1. /\ j \in 0 .. numBuffers - 1 /\ owner'[j] = "app" /\ j # cur'
          BY <3>2 DEF Lost
        <5>2. j \in Buffers /\ j # i
          BY <2>1, <5>1, <3>1, <3>2
        <5>3. owner[j] = "app"
          BY <5>1, <5>2, <3>1
        <5> QED
          BY <5>1, <5>3 DEF Lost
      <4> HIDE DEF SafeInv, TypeOK, SessionInv, OwnerInv
      <4>2. IsFiniteSet(Lost) /\ Cardinality(Lost) \in Nat
        BY LostFinite DEF SafeInv
      <4>3. /\ IsFiniteSet(Lost \cup {cur})
            /\ Cardinality(Lost \cup {cur}) <= Cardinality(Lost) + 1
        BY <4>2, FS_AddElement
      <4>4. Cardinality(Lost') <= Cardinality(Lost \cup {cur})
        BY <4>1, <4>3, FS_Subset
      <4>5. Owed = 1
        BY <2>1, <3>3 DEF Owed
      <4>6. Cardinality(Lost') \in Nat /\ Cardinality(Lost \cup {cur}) \in Nat
        BY <4>1, <4>3, FS_Subset, FS_CardinalityType
      <4> QED
        BY <2>1, <3>1, <4>3, <4>4, <4>5, <4>6, <4>2 DEF LossInv, SafeInv, TypeOK
    <3>4. CASE owner[cur] # "app"
      <4>1. Lost' = Lost
        BY <3>1, <3>2, <3>4 DEF Lost, Done
      <4>2. Owed = 0
        BY <3>4 DEF Owed
      <4>3. Cardinality(Lost) \in Nat /\ Cardinality(Lost) + Owed <= faults
        BY <2>1, LostFinite DEF LossInv
      <4>4. faults \in Nat
        OBVIOUS
      <4> HIDE DEF SafeInv, TypeOK, SessionInv, OwnerInv
      <4> QED
        BY <2>1, <3>1, <4>1, <4>2, <4>3, <4>4 DEF LossInv
    <3> QED
      BY <3>3, <3>4
  <2> QED
    BY <2>2, <2>3
<1>11. CASE CameraDeinit
  BY <1>11 DEF CameraDeinit, ReleaseDevice, LossInv, Streaming
<1>12. CASE Capture
  <2>1. Lost' = Lost /\ faults' = faults /\ Streaming
    BY <1>12 DEF Capture, Lost
  <2>2. Owed' = Owed
    BY <1>12 DEF Capture, Owed
  <2> QED
    BY <2>1, <2>2 DEF LossInv
<1>13. CASE UNCHANGED vars
  BY <1>13 DEF vars, LossInv, Owed, Lost, Streaming
<1> QED
  BY <1>1, <1>2, <1>3, <1>4, <1>5, <1>6, <1>7,
     <1>8, <1>9, <1>10, <1>11, <1>12, <1>13
     DEF Next, InitSteps, FrameSteps

(* However many calls fail, each costs the session at most one buffer.     *)
THEOREM LossesAreBounded == Spec => []LossIsBounded
<1>1. Init => LossInv
  BY DEF Init, LossInv, Streaming
<1>2. SafeInv /\ LossInv => LossIsBounded
  BY LostFinite DEF SafeInv, TypeOK, LossInv, LossIsBounded, Owed
<1> QED
  BY <1>1, <1>2, SafeInvariant, LossStep, PTL DEF Spec
-----------------------------------------------------------------------------
(* The queue half of v4l2_cameraGetFrame leaves the driver something to    *)
(* fill unless it fails, the driver keeps it until the dequeue half, and   *)
(* that half lends a frame unless it fails.                                *)
CallDelivers ==
  [][/\ fd = "open" /\ pc = "queue" /\ pc' = "dequeue" /\ faults' = faults
          => Pending' # {}
     /\ pc = "dequeue" /\ pc' = "dequeue" /\ Pending # {} => Pending' # {}
     /\ fd = "open" /\ pc = "dequeue" /\ pc' = "idle" /\ faults' = faults
          /\ Pending # {} => Delivery]_vars

LEMMA DeliveryStep ==
  ASSUME TypeOK, SessionInv, [Next]_vars
  PROVE  /\ fd = "open" /\ pc = "queue" /\ pc' = "dequeue" /\ faults' = faults
              => Pending' # {}
         /\ pc = "dequeue" /\ pc' = "dequeue" /\ Pending # {} => Pending' # {}
         /\ fd = "open" /\ pc = "dequeue" /\ pc' = "idle" /\ faults' = faults
              /\ Pending # {} => Delivery
<1> USE DEF TypeOK, Buffers, Owners
<1>1. CASE GetFrameQueue
  <2>1. ASSUME fd = "open", faults' = faults PROVE Pending' # {}
    <3>1. NoFault /\ cur' = cur
          /\ (\/ owner[cur] # "app" /\ owner' = owner
              \/ owner' = [owner EXCEPT ![cur] = "queued"])
      BY <1>1, <2>1 DEF GetFrameQueue, QueueBuffer, Selected, NotOpen, DeviceFails, Fault, NoFault, buf
    <3>2. cur \in Buffers /\ owner'[cur] \in {"queued", "done"}
      BY <3>1
    <3> QED
      BY <3>2 DEF Pending
  <2>2. pc = "queue"
    BY <1>1 DEF GetFrameQueue
  <2> QED
    BY <2>1, <2>2
<1>2. CASE GetFrameDequeue
  <2>1. pc = "dequeue" /\ pc' \in {"idle", "crashed"}
    BY <1>2 DEF GetFrameDequeue
  <2>2. ASSUME fd = "open", faults' = faults, Pending # {} PROVE Delivery
    <3>1. PICK i \in Done : owner' = [owner EXCEPT ![i] = "app"] /\ cur' = i
      BY <1>2, <2>2 DEF GetFrameDequeue, DequeueBuffer, Fault, NotOpen,
                        DeviceFails
    <3>2. i \in Buffers /\ table = "installed"
      BY <1>2, <2>2, <3>1 DEF GetFrameDequeue, Done, SessionInv, Held
    <3>3. lent' = i
      BY <1>2, <3>1, <3>2 DEF GetFrameDequeue
    <3> QED
      BY <3>1, <3>2, <3>3 DEF Delivery
  <2> QED
    BY <2>1, <2>2
<1>3. CASE Capture
  <2>1. PICK i \in Buffers : owner' = [owner EXCEPT ![i] = "done"]
    BY <1>3 DEF Capture
  <2>2. i \in Pending'
    BY <2>1 DEF Pending
  <2>3. pc' = pc
    BY <1>3 DEF Capture
  <2> QED
    BY <2>2, <2>3
<1>4. CASE CameraInit \/ SetupDevice \/ MapBuffer \/ InstallTable
  BY <1>4 DEF CameraInit, SetupDevice, MapBuffer, InstallTable
<1>5. CASE StreamOnQueue \/ StreamOn \/ FirstDequeue \/ GetFrame \/ CameraDeinit
  BY <1>5 DEF StreamOnQueue, StreamOn, FirstDequeue, GetFrame, CameraDeinit
<1>6. CASE UNCHANGED vars
  BY <1>6 DEF vars, Pending
<1> QED
  BY <1>1, <1>2, <1>3, <1>4, <1>5, <1>6 DEF Next, InitSteps, FrameSteps

(* Whatever has failed in a session before, a v4l2_cameraGetFrame neither  *)
(* of whose halves fails lends a frame it has just got from the driver     *)
(* (v4l2_camera.c:361 to 386): no failure makes the camera run dry.        *)
THEOREM FailuresDoNotLast == Spec => CallDelivers
<1> DEFINE Step ==
      /\ fd = "open" /\ pc = "queue" /\ pc' = "dequeue" /\ faults' = faults
           => Pending' # {}
      /\ pc = "dequeue" /\ pc' = "dequeue" /\ Pending # {} => Pending' # {}
      /\ fd = "open" /\ pc = "dequeue" /\ pc' = "idle" /\ faults' = faults
           /\ Pending # {} => Delivery
<1>1. SafeInv /\ [Next]_vars => [Step]_vars
  BY DeliveryStep DEF SafeInv
<1> QED
  BY <1>1, SafeInvariant, PTL DEF Spec, CallDelivers
-----------------------------------------------------------------------------
(* The steps a call of the camera has left.  Both loops of the             *)
(* initialization go over the buffers that were granted.                   *)
CallLeft ==
  IF pc = "setup" THEN 2 * MaxBuffers + 4 ELSE
  IF pc = "map" THEN 2 * numBuffers - idx + 3 ELSE
  IF pc = "stream_on" THEN numBuffers - idx + 2 ELSE
  IF pc = "queue" THEN 2 ELSE
  IF pc \in {"first_dequeue", "dequeue"} THEN 1 ELSE 0

(* Every step of a call uses up one of those, and the driver none.         *)
CallIsBounded ==
  [][/\ InitSteps \/ FrameSteps => CallLeft' < CallLeft
     /\ Capture => CallLeft' = CallLeft]_vars

LEMMA BoundedStep ==
  ASSUME TypeOK, SessionInv
  PROVE  /\ InitSteps \/ FrameSteps => CallLeft' < CallLeft
         /\ Capture => CallLeft' = CallLeft
<1>1. /\ MaxBuffers \in Nat /\ idx \in Nat /\ numBuffers \in Nat
      /\ pc = "map" => numBuffers <= MaxBuffers /\ idx <= numBuffers
      /\ pc = "stream_on" => idx <= numBuffers
  BY DEF TypeOK, SessionInv, Requested
<1>2. ASSUME SetupDevice PROVE CallLeft' < CallLeft
  <2>1. /\ pc = "setup"
        /\ \/ pc' = "idle"
           \/ pc' = "map" /\ idx' = 0 /\ numBuffers' \in Granted
    BY <1>2 DEF SetupDevice
  <2>2. CASE pc' = "map"
    <3>1. numBuffers' \in 1 .. MaxBuffers
      <4>1. numBuffers' \in Granted
        BY <2>1, <2>2
      <4> QED
        BY <4>1, BuffersAssumption
    <3>2. 2 * numBuffers' - 0 + 3 < 2 * MaxBuffers + 4
      <4>1. \A m \in Nat : \A n \in 1 .. m : 2 * n - 0 + 3 < 2 * m + 4
        OBVIOUS
      <4> QED
        BY <1>1, <3>1, <4>1, Zenon
    <3>3. /\ CallLeft' = 2 * numBuffers' - 0 + 3
          /\ CallLeft = 2 * MaxBuffers + 4
      BY <2>1, <2>2 DEF CallLeft
    <3> QED
      BY <3>2, <3>3
  <2> QED
    BY <1>1, <2>1, <2>2 DEF CallLeft
<1>3. ASSUME MapBuffer PROVE CallLeft' < CallLeft
  <2>1. /\ pc = "map" /\ idx < numBuffers
        /\ \/ pc' = "idle"
           \/ pc' = "map" /\ idx' = idx + 1 /\ numBuffers' = numBuffers
    BY <1>3 DEF MapBuffer
  <2> QED
    BY <1>1, <2>1 DEF CallLeft
<1>4. ASSUME InstallTable PROVE CallLeft' < CallLeft
  <2>1. /\ pc = "map" /\ idx = numBuffers /\ pc' = "stream_on"
        /\ idx' = 0 /\ numBuffers' = numBuffers
    BY <1>4 DEF InstallTable
  <2> QED
    BY <1>1, <2>1 DEF CallLeft
<1>5. ASSUME StreamOnQueue PROVE CallLeft' < CallLeft
  <2>1. /\ pc = "stream_on" /\ idx < numBuffers
        /\ \/ pc' = "idle"
           \/ pc' = "stream_on" /\ idx' = idx + 1 /\ numBuffers' = numBuffers
    BY <1>5 DEF StreamOnQueue, ReleaseDevice, SessionInv
  <2> QED
    BY <1>1, <2>1 DEF CallLeft
<1>6. ASSUME StreamOn PROVE CallLeft' < CallLeft
  <2>1. pc = "stream_on" /\ idx <= numBuffers /\ pc' \in {"idle", "first_dequeue"}
    BY <1>1, <1>6 DEF StreamOn, ReleaseDevice
  <2> QED
    BY <1>1, <2>1 DEF CallLeft
<1>7. ASSUME FirstDequeue \/ FrameSteps PROVE CallLeft' < CallLeft
  BY <1>7 DEF FirstDequeue, FrameSteps, GetFrameQueue, GetFrameDequeue, CallLeft
<1>8. ASSUME Capture PROVE CallLeft' = CallLeft
  BY <1>8 DEF Capture, CallLeft
<1> QED
  BY <1>2, <1>3, <1>4, <1>5, <1>6, <1>7, <1>8 DEF InitSteps

(* v4l2_cameraInit and v4l2_cameraGetFrame come to their end: neither loop *)
(* over the buffers, whatever fails in it and whatever the driver does     *)
(* meanwhile, has more turns than there are buffers.                       *)
THEOREM CallsAreBounded ==
  Spec => [](CallLeft \in 0 .. 2 * MaxBuffers + 4) /\ CallIsBounded
<1> DEFINE Uses == /\ InitSteps \/ FrameSteps => CallLeft' < CallLeft
                   /\ Capture => CallLeft' = CallLeft
<1>1. SafeInv => CallLeft \in 0 .. 2 * MaxBuffers + 4
  <2> SUFFICES ASSUME SafeInv PROVE CallLeft \in 0 .. 2 * MaxBuffers + 4
    OBVIOUS
  <2>1. /\ MaxBuffers \in Nat /\ MaxBuffers > 0 /\ idx \in Nat
        /\ numBuffers \in Nat
        /\ pc = "map" => numBuffers <= MaxBuffers /\ idx <= numBuffers
        /\ pc = "stream_on" => idx <= numBuffers /\ numBuffers <= MaxBuffers
    BY DEF SafeInv, TypeOK, SessionInv, Requested, Held
  <2> QED
    BY <2>1 DEF CallLeft
<1>2. SafeInv /\ [Next]_vars => [Uses]_vars
  BY BoundedStep DEF SafeInv
<1> QED
  BY <1>1, <1>2, SafeInvariant, PTL DEF Spec, CallIsBounded
=============================================================================
