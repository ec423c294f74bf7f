--------------------------- MODULE CaptureSession ---------------------------
(***************************************************************************)
(* The native session of cam_enc.c: initCamEnc brings up the VPU, the      *)
(* camera, the motion JPEG decoder and the H.264 encoder one after the     *)
(* other, whatever became of those before; getEncFrame passes one frame    *)
(* through all three; closeCamEnc deinitializes all of them.  The control  *)
(* structures are there from initCamEnc to closeCamEnc and zeroed on every *)
(* start.  The camera's own memory is the subject of V4L2Camera; the copy  *)
(* of the headers, avcHeaderBuf, is left out: nothing ever frees it.       *)
(***************************************************************************)
EXTENDS Integers, FiniteSets

CONSTANTS
  Faults,      \* the kinds of call that may fail
  MaxFaults    \* bound: how many kinds fail in one behaviour

ASSUME FaultsAssumption == MaxFaults \in Nat

VARIABLES
  pc,          \* what the native session is doing
  vpu,         \* whether the VPU is initialized
  camera,      \* off, on, or failed to come on
  decStage, decMem, decCounted,
  encStage, encMem, encCounted,
  access,      \* "bad" once a frame was asked of memory that is not held
  release,     \* "bad" once something was released that was not held
  failed       \* the kinds of call that have failed so far

D == INSTANCE DecoderMemory WITH
       stage <- decStage, mem <- decMem, counted <- decCounted,
       left <- MaxFaults - Cardinality(failed)
E == INSTANCE EncoderMemory WITH
       stage <- encStage, mem <- encMem, counted <- encCounted,
       left <- MaxFaults - Cardinality(failed)

decoder == <<decStage, decMem, decCounted>>
encoder == <<encStage, encMem, encCounted>>
vars == <<pc, vpu, camera, decoder, encoder, access, release, failed>>

Touch(ok) == access' = IF ok THEN access ELSE "bad"

Init ==
  /\ pc = "closed" /\ vpu = "down" /\ camera = "off"
  /\ D!Zeroed /\ E!Zeroed
  /\ access = "ok" /\ release = "ok" /\ failed = {}
-----------------------------------------------------------------------------
(* initCamEnc: fresh structures, and vpuInit, without which it returns.    *)
(* DecoderView.init takes no notice, and asks for frames of a session in   *)
(* which nothing was initialized.                                          *)
InitCamEnc ==
  /\ pc = "closed"
  /\ D!Zero /\ E!Zero /\ camera' = "off"
  /\ \/ pc' = "camera" /\ vpu' = "up" /\ D!NoFault
     \/ pc' = "running" /\ vpu' = "down" /\ D!Fault("vpu")
  /\ UNCHANGED <<access, release>>

(* cameraInit; its result is overwritten. *)
StartCamera ==
  /\ pc = "camera" /\ pc' = "first_frame"
  /\ \/ camera' = "on" /\ D!NoFault
     \/ camera' = "failed" /\ D!Fault("camera")
  /\ UNCHANGED <<vpu, decoder, encoder, access, release>>

(* cameraGetFrame looks into the array of buffers, come what may. *)
FirstFrame ==
  /\ pc = "first_frame" /\ pc' = "decoder"
  /\ Touch(camera = "on")
  /\ decStage' = "phys"
  /\ UNCHANGED <<vpu, camera, decMem, decCounted, encoder, release,
                 failed>>

(* decoderInit *)
StartDecoder ==
  /\ pc = "decoder" /\ D!Step
  /\ IF decStage' \in {"ready", "failed"}
     THEN pc' = "encoder" /\ encStage' = "phys"
     ELSE UNCHANGED <<pc, encStage>>
  /\ UNCHANGED <<vpu, camera, encMem, encCounted, access>>

(* encoderInit.  A decoder that failed has left the picture size at 0;     *)
(* whether the VPU takes such a size is left open.  The headers are copied *)
(* as soon as the encoder is open.                                         *)
StartEncoder ==
  /\ pc = "encoder" /\ E!Step
  /\ pc' = IF encStage' \in {"ready", "failed"} THEN "running" ELSE pc
  /\ IF encStage = "open" /\ encStage' = "fb" THEN Touch(E!Mapped)
     ELSE UNCHANGED access
  /\ UNCHANGED <<vpu, camera, decoder>>

(* getEncFrame: the frame of the camera is put into the decoder, and what  *)
(* comes out, if anything does, into the encoder.                          *)
GetEncFrame ==
  /\ pc = "running"
  /\ \/ Touch(camera = "on" /\ D!Decodable)
     \/ decStage = "ready" /\ Touch(camera = "on" /\ E!Encodable)
  /\ UNCHANGED <<pc, vpu, camera, decoder, encoder, release, failed>>

(* Mutant: frames are still asked for while the session is closed. *)
CloseCamera_WhileRunning ==
  /\ pc = "running" /\ camera' = "off"
  /\ UNCHANGED <<pc, vpu, decoder, encoder, access, release, failed>>

(* closeCamEnc deinitializes one component after the other. *)
CloseCamera ==
  /\ pc = "running" /\ pc' = "close_decoder"
  /\ camera' = "off"
  /\ UNCHANGED <<vpu, decoder, encoder, access, release, failed>>

CloseDecoder ==
  /\ pc = "close_decoder" /\ pc' = "close_encoder" /\ D!Deinit
  /\ UNCHANGED <<vpu, camera, encoder, access>>

CloseEncoder ==
  /\ pc = "close_encoder" /\ pc' = "close_vpu" /\ E!Deinit
  /\ UNCHANGED <<vpu, camera, decoder, access>>

(* The structures are freed, and the VPU is deinitialized. *)
VpuDeinit ==
  /\ pc = "close_vpu" /\ pc' = "closed" /\ vpu' = "down"
  /\ UNCHANGED <<camera, decoder, encoder, access, release, failed>>

Next == InitCamEnc \/ StartCamera \/ FirstFrame \/ StartDecoder
        \/ StartEncoder \/ GetEncFrame \/ CloseCamera \/ CloseDecoder
        \/ CloseEncoder \/ VpuDeinit

Spec == Init /\ [][Next]_vars
-----------------------------------------------------------------------------
(* Every variable has its type. *)
TypeOK ==
  /\ pc \in {"closed", "camera", "first_frame", "decoder", "encoder",
             "running", "close_decoder", "close_encoder", "close_vpu"}
  /\ vpu \in {"up", "down"} /\ camera \in {"off", "on", "failed"}
  /\ decStage \in {"closed", "phys", "map", "open", "parse", "outbuf",
                   "fb", "pfbpool", "frames", "ready", "failed"}
  /\ encStage \in {"closed", "phys", "map", "outbuf", "outmap", "open", "fb",
                   "pfbpool", "frames", "report", "ready", "failed"}
  /\ decMem \in [D!Held -> {"null", "held", "dangling"}]
  /\ encMem \in [E!Held -> {"null", "held", "dangling", "lost"}]
  /\ decCounted \in {"yes", "no"} /\ encCounted \in {"yes", "no"}
  /\ access \in {"ok", "bad"} /\ release \in {"ok", "bad"}
  /\ failed \subseteq Faults /\ Cardinality(failed) <= MaxFaults

(* The calls whose failure leaves a pointer behind to what was released,   *)
(* or counts buffers that do not exist.                                    *)
Treacherous == {"dec_frames", "enc_fb", "enc_pfbpool", "enc_frames"}

(* Whichever stage of whichever component fails, other than these four,    *)
(* closeCamEnc releases nothing twice and goes through no array that is    *)
(* not there, although it deinitializes what was never initialized.        *)
ReleaseIsSound == failed \cap Treacherous = {} => release = "ok"

(* Of what a partial initialization has acquired, closing the session      *)
(* gives back everything but the mappings of the two bitstream buffers and *)
(* of the encoder's output buffer, which nothing unmaps, and the instance  *)
(* vpu_EncOpen opened when vpu_EncGetInitialInfo then fails.               *)
OnlyMappingsLeak ==
  pc = "closed" =>
    /\ vpu = "down" /\ camera = "off"
    /\ D!Leaked \subseteq {"map"}
    /\ E!Leaked \subseteq IF "enc_info" \in failed
                          THEN {"map", "outmap", "handle"}
                          ELSE {"map", "outmap"}

(* The calls whose failure a running session survives: the decoder has no  *)
(* handle yet, or no slices are reported.                                  *)
Harmless == {"dec_phys", "dec_map", "dec_open", "enc_report"}

(* As long as only these have failed, no frame is ever asked of a camera   *)
(* that is off, decoded from a bitstream buffer that was given back, or    *)
(* encoded into buffers that are not there, although getEncFrame runs      *)
(* whatever became of the inits (cam_enc.c:83 to 110 keeps no result).     *)
UseIsSafe == failed \subseteq Harmless => access = "ok"

(* cam_enc.c:116 says that closeCamEnc cleans up what was initialized:     *)
(* nothing is released that is not held.                                   *)
CleansUpWhatWasInitialized == release = "ok"
=============================================================================
