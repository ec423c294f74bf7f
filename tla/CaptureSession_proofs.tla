------------------------ MODULE CaptureSession_proofs ------------------------
(***************************************************************************)
(* Theorems about the native session, for every set of calls that may      *)
(* fail and every number of failures, over any number of sessions.         *)
(***************************************************************************)
EXTENDS CaptureSession, FiniteSetTheorems, TLAPS

USE FaultsAssumption
-----------------------------------------------------------------------------
(* The kinds of failed calls only grow, and within their bound.            *)
FailedInv ==
  /\ IsFiniteSet(failed) /\ failed \subseteq Faults
  /\ Cardinality(failed) <= MaxFaults

LEMMA FaultGrows ==
  ASSUME FailedInv, NEW k, D!Fault(k)
  PROVE  FailedInv' /\ failed' = failed \cup {k}
<1>1. /\ k \in Faults \ failed /\ MaxFaults - Cardinality(failed) > 0
      /\ failed' = failed \cup {k}
  BY DEF D!Fault
<1>2. IsFiniteSet(failed') /\ Cardinality(failed') = Cardinality(failed) + 1
  BY <1>1, FS_AddElement DEF FailedInv
<1>3. Cardinality(failed) \in Nat /\ MaxFaults \in Nat
  BY FS_CardinalityType DEF FailedInv
<1>4. Cardinality(failed') <= MaxFaults
  BY <1>1, <1>2, <1>3
<1> QED
  BY <1>1, <1>2, <1>4 DEF FailedInv

(* The stages of both inits, expanded for the steps that look inside.      *)
LEMMA FailedStep ==
  ASSUME FailedInv, [Next]_vars
  PROVE  FailedInv' /\ failed \subseteq failed'
<1> DEFINE Failing == \E k \in {"vpu", "camera", "dec_phys", "dec_map",
             "dec_open", "dec_parse", "dec_outbuf", "dec_fb", "dec_pfbpool",
             "dec_frames", "enc_phys", "enc_map", "enc_outbuf", "enc_outmap",
             "enc_open", "enc_info", "enc_slices", "enc_fb", "enc_pfbpool",
             "enc_frames", "enc_report"} : D!Fault(k)
<1>1. D!Step => failed' = failed \/ Failing
  BY DEF D!Step, D!GetPhysical, D!MapStream, D!DecOpen, D!Parse,
         D!AllocOutbuf, D!AllocFb, D!AllocPfbpool, D!AllocFrames, D!Acquire,
         D!Abandon, D!NoFault
<1>2. E!Step => failed' = failed \/ Failing
  <2>1. \A k : E!Fault(k) <=> D!Fault(k)
    BY DEF D!Fault, E!Fault
  <2> QED
    BY <2>1 DEF E!Step, E!GetPhysical, E!GetOutbuf, E!MapStream, E!MapOutbuf,
         E!Unnoticed, E!EncOpen, E!AllocFb, E!AllocPfbpool, E!AllocFrames, E!ReportSlices, E!Acquire, E!Abandon,
         E!NoFault
<1>3. failed' = failed \/ Failing
  BY <1>1, <1>2 DEF Next, InitCamEnc, StartCamera, FirstFrame, StartDecoder,
     StartEncoder, GetEncFrame, CloseCamera, CloseDecoder, CloseEncoder,
     VpuDeinit, D!Deinit, E!Deinit, D!NoFault, vars
<1>4. CASE failed' = failed
  BY <1>4 DEF FailedInv
<1>5. CASE Failing
  BY <1>5, FaultGrows
<1> QED
  BY <1>3, <1>4, <1>5
-----------------------------------------------------------------------------
DecStages == {"closed", "phys", "map", "open", "parse", "outbuf", "fb",
              "pfbpool", "frames", "ready", "failed"}
EncStages == {"closed", "phys", "map", "outbuf", "outmap", "open", "fb",
              "pfbpool", "frames", "report", "ready", "failed"}

LEMMA DecoderStepTypes ==
  ASSUME TypeOK, D!Step
  PROVE  /\ decStage' \in DecStages /\ decCounted' \in {"yes", "no"}
         /\ decMem' \in [D!Held -> {"null", "held", "dangling"}]
         /\ release' = release
<1> USE DEF TypeOK, DecStages, D!Acquire, D!Abandon, D!Held
<1>1. CASE D!GetPhysical
  BY <1>1 DEF D!GetPhysical
<1>2. CASE D!DecOpen
  BY <1>2 DEF D!DecOpen
<1>3. CASE D!Parse
  BY <1>3 DEF D!Parse
<1>4. CASE D!AllocOutbuf
  BY <1>4 DEF D!AllocOutbuf
<1>5. CASE D!AllocFb
  BY <1>5 DEF D!AllocFb
<1>6. CASE D!AllocPfbpool
  BY <1>6 DEF D!AllocPfbpool
<1>7. CASE D!AllocFrames
  BY <1>7 DEF D!AllocFrames
<1>8. CASE D!MapStream
  BY <1>8 DEF D!MapStream
<1> QED
  BY <1>1, <1>2, <1>3, <1>4, <1>5, <1>6, <1>7, <1>8 DEF D!Step

LEMMA EncoderStepTypes ==
  ASSUME TypeOK, E!Step
  PROVE  /\ encStage' \in EncStages /\ encCounted' \in {"yes", "no"}
         /\ encMem' \in [E!Held -> {"null", "held", "dangling", "lost"}]
         /\ release' = release
<1> USE DEF TypeOK, EncStages, E!Acquire, E!Abandon, E!Held
<1>1. CASE E!GetPhysical
  BY <1>1 DEF E!GetPhysical
<1>2. CASE E!GetOutbuf
  BY <1>2 DEF E!GetOutbuf
<1>3. CASE E!EncOpen
  <2>1. /\ encStage' \in {"fb", "failed"}
        /\ UNCHANGED <<encCounted, release>>
    BY <1>3 DEF E!EncOpen
  <2>2. \/ encMem' = [encMem EXCEPT !.handle = "held", !.slices = "held"]
        \/ encMem' = [encMem EXCEPT !.handle = "held"]
        \/ encMem' = [encMem EXCEPT !.handle = "lost"]
        \/ encMem' = [r \in E!Held |-> encMem[r]]
    BY <1>3 DEF E!EncOpen
  <2>3. encMem' \in [E!Held -> {"null", "held", "dangling", "lost"}]
    <3>1. CASE encMem' = [encMem EXCEPT !.handle = "held", !.slices = "held"]
      BY <3>1
    <3>2. CASE encMem' = [encMem EXCEPT !.handle = "held"]
      BY <3>2
    <3>3. CASE encMem' = [encMem EXCEPT !.handle = "lost"]
      BY <3>3
    <3>4. CASE encMem' = [r \in E!Held |-> encMem[r]]
      BY <3>4
    <3> QED
      BY <2>2, <3>1, <3>2, <3>3, <3>4
  <2> QED
    BY <2>1, <2>3
<1>4. CASE E!AllocFb
  BY <1>4 DEF E!AllocFb
<1>5. CASE E!AllocPfbpool
  BY <1>5 DEF E!AllocPfbpool
<1>6. CASE E!AllocFrames
  BY <1>6 DEF E!AllocFrames
<1>7. CASE E!ReportSlices
  BY <1>7 DEF E!ReportSlices
<1>8. CASE E!MapStream
  BY <1>8 DEF E!MapStream, E!Unnoticed
<1>9. CASE E!MapOutbuf
  BY <1>9 DEF E!MapOutbuf, E!Unnoticed
<1> QED
  BY <1>1, <1>2, <1>3, <1>4, <1>5, <1>6, <1>7, <1>8, <1>9 DEF E!Step

LEMMA TypeStep ==
  ASSUME TypeOK, FailedInv, [Next]_vars
  PROVE  TypeOK'
<1>0. failed' \subseteq Faults /\ Cardinality(failed') <= MaxFaults
  BY FailedStep DEF FailedInv
<1> USE <1>0 DEF TypeOK
<1>1. CASE InitCamEnc
  BY <1>1 DEF InitCamEnc, D!Zero, E!Zero, D!Null, E!Null
<1>2. CASE StartCamera
  BY <1>2 DEF StartCamera, decoder, encoder
<1>3. CASE FirstFrame
  BY <1>3 DEF FirstFrame, Touch, encoder
<1>4. CASE StartDecoder
  BY <1>4, DecoderStepTypes DEF StartDecoder, DecStages
<1>5. CASE StartEncoder
  BY <1>5, EncoderStepTypes DEF StartEncoder, EncStages, Touch, decoder
<1>6. CASE GetEncFrame
  BY <1>6 DEF GetEncFrame, Touch, decoder, encoder
<1>7. CASE CloseCamera
  BY <1>7 DEF CloseCamera, decoder, encoder
<1>8. CASE CloseDecoder
  BY <1>8 DEF CloseDecoder, D!Deinit, D!Close, D!FreeFramebuffer, encoder
<1>9. CASE CloseEncoder
  BY <1>9 DEF CloseEncoder, E!Deinit, E!Close, E!FreeFramebuffer, E!Freed,
     decoder
<1>10. CASE VpuDeinit
  BY <1>10 DEF VpuDeinit, decoder, encoder
<1>11. CASE UNCHANGED vars
  BY <1>11 DEF vars, decoder, encoder
<1> QED
  BY <1>1, <1>2, <1>3, <1>4, <1>5, <1>6, <1>7, <1>8, <1>9, <1>10, <1>11
     DEF Next

LEMMA TypeInvariant == Spec => [](TypeOK /\ FailedInv)
<1>1. Init => TypeOK /\ FailedInv
  <2>1. IsFiniteSet({}) /\ Cardinality({}) = 0
    BY FS_EmptySet
  <2> QED
    BY <2>1 DEF Init, TypeOK, FailedInv, D!Zeroed, E!Zeroed, D!Null, E!Null
<1>2. TypeOK /\ FailedInv /\ [Next]_vars => TypeOK' /\ FailedInv'
  BY TypeStep, FailedStep
<1> QED
  BY <1>1, <1>2, PTL DEF Spec

(* Every variable of the session keeps its type, whatever fails in         *)
(* initCamEnc, and however often the session is closed and opened again.   *)
THEOREM TypeCorrect == Spec => []TypeOK
BY TypeInvariant, PTL
-----------------------------------------------------------------------------
(* Until one of the four treacherous calls fails, what the deinit          *)
(* functions look at tells the truth: outbuf_cached points to memory that  *)
(* is held or is null, and totalfb counts buffers of an array that exists, *)
(* but for the moment in which encoder_allocate_framebuffer makes it.      *)
ReleaseInv ==
  /\ pc \in {"running", "close_decoder", "close_encoder"}
       => encStage \in {"closed", "ready", "failed"}
  /\ failed \cap Treacherous = {} =>
       /\ release = "ok"
       /\ pc \in {"camera", "first_frame", "decoder", "encoder", "running",
                  "close_decoder"} =>
            /\ decMem.outbuf # "dangling"
            /\ decCounted = "yes" \/ decStage = "frames"
                 => decMem.pfbpool = "held"
       /\ pc \in {"camera", "first_frame", "decoder", "encoder", "running",
                  "close_decoder", "close_encoder"} /\ encCounted = "yes" =>
            \/ encMem.pfbpool = "held"
            \/ pc = "encoder" /\ encStage = "pfbpool"

LEMMA ReleaseStep ==
  ASSUME TypeOK, FailedInv, ReleaseInv, [Next]_vars
  PROVE  ReleaseInv'
<1>0. failed \subseteq failed'
  BY FailedStep
<1> USE <1>0 DEF TypeOK, ReleaseInv, Treacherous, D!Acquire, D!Abandon,
     D!Fault, D!Held, E!Acquire, E!Abandon, E!Fault, E!Held
<1>1. CASE InitCamEnc
  BY <1>1 DEF InitCamEnc, D!Zero, E!Zero, D!Null, E!Null
<1>2. CASE StartCamera
  BY <1>2 DEF StartCamera, decoder, encoder
<1>3. CASE FirstFrame
  BY <1>3 DEF FirstFrame, encoder
<1>4. CASE StartDecoder
  <2>1. CASE D!GetPhysical
    BY <1>4, <2>1 DEF StartDecoder, D!GetPhysical
  <2>2. CASE D!DecOpen
    BY <1>4, <2>2 DEF StartDecoder, D!DecOpen
  <2>3. CASE D!Parse
    BY <1>4, <2>3 DEF StartDecoder, D!Parse
  <2>4. CASE D!AllocOutbuf
    BY <1>4, <2>4 DEF StartDecoder, D!AllocOutbuf
  <2>5. CASE D!AllocFb
    BY <1>4, <2>5 DEF StartDecoder, D!AllocFb
  <2>6. CASE D!AllocPfbpool
    BY <1>4, <2>6 DEF StartDecoder, D!AllocPfbpool
  <2>7. CASE D!AllocFrames
    BY <1>4, <2>7 DEF StartDecoder, D!AllocFrames
  <2>8. CASE D!MapStream
    BY <1>4, <2>8 DEF StartDecoder, D!MapStream
  <2> QED
    BY <1>4, <2>1, <2>2, <2>3, <2>4, <2>5, <2>6, <2>7, <2>8
       DEF StartDecoder, D!Step
<1>5. CASE StartEncoder
  <2>1. CASE E!GetPhysical
    BY <1>5, <2>1 DEF StartEncoder, decoder, E!GetPhysical
  <2>2. CASE E!GetOutbuf
    BY <1>5, <2>2 DEF StartEncoder, decoder, E!GetOutbuf
  <2>3. CASE E!EncOpen
    BY <1>5, <2>3 DEF StartEncoder, decoder, E!EncOpen
  <2>4. CASE E!AllocFb
    BY <1>5, <2>4 DEF StartEncoder, decoder, E!AllocFb
  <2>5. CASE E!AllocPfbpool
    BY <1>5, <2>5 DEF StartEncoder, decoder, E!AllocPfbpool
  <2>6. CASE E!AllocFrames
    BY <1>5, <2>6 DEF StartEncoder, decoder, E!AllocFrames
  <2>7. CASE E!ReportSlices
    BY <1>5, <2>7 DEF StartEncoder, decoder, E!ReportSlices
  <2>8. CASE E!MapStream
    BY <1>5, <2>8 DEF StartEncoder, decoder, E!MapStream, E!Unnoticed
  <2>9. CASE E!MapOutbuf
    BY <1>5, <2>9 DEF StartEncoder, decoder, E!MapOutbuf, E!Unnoticed
  <2> QED
    BY <1>5, <2>1, <2>2, <2>3, <2>4, <2>5, <2>6, <2>7, <2>8, <2>9
       DEF StartEncoder, decoder, E!Step
<1>6. CASE GetEncFrame
  BY <1>6 DEF GetEncFrame, decoder, encoder
<1>7. CASE CloseCamera
  BY <1>7 DEF CloseCamera, decoder, encoder
<1>8. CASE CloseDecoder
  BY <1>8 DEF CloseDecoder, D!Deinit, D!Close, D!FreeFramebuffer, encoder
<1>9. CASE CloseEncoder
  BY <1>9 DEF CloseEncoder, E!Deinit, E!Close, E!FreeFramebuffer, E!Freed,
     decoder
<1>10. CASE VpuDeinit
  BY <1>10 DEF VpuDeinit, decoder, encoder
<1>11. CASE UNCHANGED vars
  BY <1>11 DEF vars, decoder, encoder
<1> QED
  BY <1>1, <1>2, <1>3, <1>4, <1>5, <1>6, <1>7, <1>8, <1>9, <1>10, <1>11
     DEF Next

(* Whatever fails but the four treacherous calls, vpu_decoder_deinit and   *)
(* vpu_encoder_deinit release nothing twice and follow no dead pointer,    *)
(* although closeCamEnc calls them whatever became of the inits.           *)
THEOREM ReleasesAreSound == Spec => []ReleaseIsSound
<1>1. Init => ReleaseInv
  BY DEF Init, ReleaseInv
<1>2. TypeOK /\ FailedInv /\ ReleaseInv /\ [Next]_vars => ReleaseInv'
  BY ReleaseStep
<1>3. ReleaseInv => ReleaseIsSound
  BY DEF ReleaseInv, ReleaseIsSound
<1> QED
  BY <1>1, <1>2, <1>3, TypeInvariant, PTL DEF Spec
-----------------------------------------------------------------------------
(* What closing has given back at each of its steps, and what only a       *)
(* failing vpu_EncGetInitialInfo can lose.                                 *)
ClosedInv ==
  /\ pc = "closed" => vpu = "down"
  /\ pc \in {"closed", "close_decoder", "close_encoder", "close_vpu"}
       => camera = "off"
  /\ pc \in {"closed", "close_encoder", "close_vpu"}
       => \A r \in D!Held \ {"map"} : decMem[r] # "held"
  /\ \A r \in E!Held : encMem[r] = "lost" => r = "handle"
  /\ "enc_info" \notin failed => encMem.handle # "lost"
  /\ pc \in {"closed", "close_vpu"}
       => \A r \in E!Held \ {"map", "outmap"} : encMem[r] # "held"

LEMMA ClosedStep ==
  ASSUME TypeOK, FailedInv, ClosedInv, [Next]_vars
  PROVE  ClosedInv'
<1>0. failed \subseteq failed'
  BY FailedStep
<1> USE <1>0 DEF TypeOK, ClosedInv, D!Acquire, D!Abandon,
     D!Fault, D!Held, E!Acquire, E!Abandon, E!Fault, E!Held
<1>1. CASE InitCamEnc
  BY <1>1 DEF InitCamEnc, D!Zero, E!Zero, D!Null, E!Null
<1>2. CASE StartCamera
  BY <1>2 DEF StartCamera, decoder, encoder
<1>3. CASE FirstFrame
  BY <1>3 DEF FirstFrame, encoder
<1>4. CASE StartDecoder
  <2>1. CASE D!GetPhysical
    BY <1>4, <2>1 DEF StartDecoder, D!GetPhysical
  <2>2. CASE D!DecOpen
    BY <1>4, <2>2 DEF StartDecoder, D!DecOpen
  <2>3. CASE D!Parse
    BY <1>4, <2>3 DEF StartDecoder, D!Parse
  <2>4. CASE D!AllocOutbuf
    BY <1>4, <2>4 DEF StartDecoder, D!AllocOutbuf
  <2>5. CASE D!AllocFb
    BY <1>4, <2>5 DEF StartDecoder, D!AllocFb
  <2>6. CASE D!AllocPfbpool
    BY <1>4, <2>6 DEF StartDecoder, D!AllocPfbpool
  <2>7. CASE D!AllocFrames
    BY <1>4, <2>7 DEF StartDecoder, D!AllocFrames
  <2>8. CASE D!MapStream
    BY <1>4, <2>8 DEF StartDecoder, D!MapStream
  <2> QED
    BY <1>4, <2>1, <2>2, <2>3, <2>4, <2>5, <2>6, <2>7, <2>8
       DEF StartDecoder, D!Step
<1>5. CASE StartEncoder
  <2>1. CASE E!GetPhysical
    BY <1>5, <2>1 DEF StartEncoder, decoder, E!GetPhysical
  <2>2. CASE E!GetOutbuf
    BY <1>5, <2>2 DEF StartEncoder, decoder, E!GetOutbuf
  <2>3. CASE E!EncOpen
    <3>1. /\ pc = "encoder" /\ pc' \in {"encoder", "running"}
          /\ UNCHANGED <<vpu, camera, decMem>>
      BY <1>5, <2>3 DEF StartEncoder, decoder
    <3>2. \/ encMem' = [encMem EXCEPT !.handle = "held", !.slices = "held"]
          \/ encMem' = [encMem EXCEPT !.handle = "held"]
          \/ encMem' = [r \in E!Held |-> encMem[r]]
          \/ /\ encMem' = [encMem EXCEPT !.handle = "lost"]
             /\ failed' = failed \cup {"enc_info"}
      BY <2>3 DEF E!EncOpen
    <3>3. /\ \A r \in E!Held : encMem'[r] = "lost" => r = "handle"
          /\ "enc_info" \notin failed' => encMem'.handle # "lost"
      <4>1. CASE encMem' = [encMem EXCEPT !.handle = "held",
                                          !.slices = "held"]
        BY <4>1
      <4>2. CASE encMem' = [encMem EXCEPT !.handle = "held"]
        BY <4>2
      <4>3. CASE encMem' = [r \in E!Held |-> encMem[r]]
        BY <4>3
      <4>4. CASE /\ encMem' = [encMem EXCEPT !.handle = "lost"]
                 /\ failed' = failed \cup {"enc_info"}
        BY <4>4
      <4> QED
        BY <3>2, <4>1, <4>2, <4>3, <4>4
    <3> QED
      BY <3>1, <3>3
  <2>4. CASE E!AllocFb
    BY <1>5, <2>4 DEF StartEncoder, decoder, E!AllocFb
  <2>5. CASE E!AllocPfbpool
    BY <1>5, <2>5 DEF StartEncoder, decoder, E!AllocPfbpool
  <2>6. CASE E!AllocFrames
    BY <1>5, <2>6 DEF StartEncoder, decoder, E!AllocFrames
  <2>7. CASE E!ReportSlices
    BY <1>5, <2>7 DEF StartEncoder, decoder, E!ReportSlices
  <2>8. CASE E!MapStream
    BY <1>5, <2>8 DEF StartEncoder, decoder, E!MapStream, E!Unnoticed
  <2>9. CASE E!MapOutbuf
    BY <1>5, <2>9 DEF StartEncoder, decoder, E!MapOutbuf, E!Unnoticed
  <2> QED
    BY <1>5, <2>1, <2>2, <2>3, <2>4, <2>5, <2>6, <2>7, <2>8, <2>9
       DEF StartEncoder, decoder, E!Step
<1>6. CASE GetEncFrame
  BY <1>6 DEF GetEncFrame, decoder, encoder
<1>7. CASE CloseCamera
  BY <1>7 DEF CloseCamera, decoder, encoder
<1>8. CASE CloseDecoder
  BY <1>8 DEF CloseDecoder, D!Deinit, D!Close, D!FreeFramebuffer, encoder
<1>9. CASE CloseEncoder
  BY <1>9 DEF CloseEncoder, E!Deinit, E!Close, E!FreeFramebuffer, E!Freed,
     decoder
<1>10. CASE VpuDeinit
  BY <1>10 DEF VpuDeinit, decoder, encoder
<1>11. CASE UNCHANGED vars
  BY <1>11 DEF vars, decoder, encoder
<1> QED
  BY <1>1, <1>2, <1>3, <1>4, <1>5, <1>6, <1>7, <1>8, <1>9, <1>10, <1>11
     DEF Next

(* A closed session holds no physical memory, no frame buffer, no open     *)
(* instance and no camera, but for the encoder instance that a failed      *)
(* vpu_EncGetInitialInfo loses (vpu_encode.c:453); what it never gives     *)
(* back are the mappings made at vpu_decode.c:52 and vpu_encode.c:37, 54.  *)
THEOREM ClosingGivesBack == Spec => []OnlyMappingsLeak
<1>1. Init => ClosedInv
  BY DEF Init, ClosedInv, D!Zeroed, E!Zeroed, D!Null, E!Null, D!Held, E!Held
<1>2. TypeOK /\ FailedInv /\ ClosedInv /\ [Next]_vars => ClosedInv'
  BY ClosedStep
<1>3. TypeOK /\ ClosedInv => OnlyMappingsLeak
  BY DEF TypeOK, ClosedInv, OnlyMappingsLeak, D!Leaked, E!Leaked, D!Held,
         E!Held
<1> QED
  BY <1>1, <1>2, <1>3, TypeInvariant, PTL DEF Spec
-----------------------------------------------------------------------------
(* The stages in which the encoder gets and maps its two areas. *)
Acquiring == {"phys", "map", "outbuf", "outmap"}

(* What the stages have acquired, as long as only harmless calls fail.     *)
UseInv ==
  failed \subseteq Harmless =>
    /\ access = "ok"
    /\ pc \in {"first_frame", "decoder", "encoder", "running"}
         => camera = "on"
    /\ pc \in {"camera", "first_frame"} => decStage = "closed"
    /\ pc \in {"camera", "first_frame", "decoder", "encoder", "running"} =>
         /\ decMem.handle = "held" =>
              decMem.phys = "held" /\ decMem.map = "held"
         /\ decStage \in {"closed", "phys", "failed"} \/ decMem.phys = "held"
         /\ decStage \in {"closed", "phys", "map", "failed"}
              \/ decMem.map = "held"
         /\ decStage \in {"closed", "phys", "map", "open"}
              => decMem.handle = "null"
    /\ pc \in {"encoder", "running"} =>
         /\ encStage \in {"phys", "map"} \/ encMem.map = "held"
         /\ encStage \in Acquiring \/ E!Mapped
         /\ encStage \in Acquiring \cup {"open"} \/ encMem.slices = "held"
         /\ encStage \in Acquiring \cup {"open", "fb"} \/ encMem.fb = "held"
         /\ encStage \in Acquiring \cup {"open", "fb", "pfbpool", "frames"}
              \/ encMem.frames = "held"
    /\ pc = "running" => encStage \in {"ready", "failed"}

LEMMA UseStep ==
  ASSUME TypeOK, FailedInv, UseInv, [Next]_vars
  PROVE  UseInv'
<1>0. failed \subseteq failed'
  BY FailedStep
<1> USE <1>0 DEF TypeOK, UseInv, Harmless, Acquiring, D!Acquire, D!Abandon,
     D!Fault, D!Held, E!Acquire, E!Abandon, E!Fault, E!Held, E!Mapped
<1>1. CASE InitCamEnc
  BY <1>1 DEF InitCamEnc, D!Zero, E!Zero, D!Null, E!Null
<1>2. CASE StartCamera
  BY <1>2 DEF StartCamera, decoder, encoder
<1>3. CASE FirstFrame
  BY <1>3 DEF FirstFrame, Touch, encoder
<1>4. CASE StartDecoder
  <2>1. CASE D!GetPhysical
    BY <1>4, <2>1 DEF StartDecoder, D!GetPhysical
  <2>2. CASE D!DecOpen
    BY <1>4, <2>2 DEF StartDecoder, D!DecOpen
  <2>3. CASE D!Parse
    BY <1>4, <2>3 DEF StartDecoder, D!Parse
  <2>4. CASE D!AllocOutbuf
    BY <1>4, <2>4 DEF StartDecoder, D!AllocOutbuf
  <2>5. CASE D!AllocFb
    BY <1>4, <2>5 DEF StartDecoder, D!AllocFb
  <2>6. CASE D!AllocPfbpool
    BY <1>4, <2>6 DEF StartDecoder, D!AllocPfbpool
  <2>7. CASE D!AllocFrames
    BY <1>4, <2>7 DEF StartDecoder, D!AllocFrames
  <2>8. CASE D!MapStream
    BY <1>4, <2>8 DEF StartDecoder, D!MapStream
  <2> QED
    BY <1>4, <2>1, <2>2, <2>3, <2>4, <2>5, <2>6, <2>7, <2>8
       DEF StartDecoder, D!Step
<1>5. CASE StartEncoder
  <2>1. CASE E!GetPhysical
    BY <1>5, <2>1 DEF StartEncoder, Touch, decoder, E!GetPhysical
  <2>2. CASE E!GetOutbuf
    BY <1>5, <2>2 DEF StartEncoder, Touch, decoder, E!GetOutbuf
  <2>3. CASE E!EncOpen
    BY <1>5, <2>3 DEF StartEncoder, Touch, decoder, E!EncOpen
  <2>4. CASE E!AllocFb
    BY <1>5, <2>4 DEF StartEncoder, Touch, decoder, E!AllocFb
  <2>5. CASE E!AllocPfbpool
    BY <1>5, <2>5 DEF StartEncoder, Touch, decoder, E!AllocPfbpool
  <2>6. CASE E!AllocFrames
    BY <1>5, <2>6 DEF StartEncoder, Touch, decoder, E!AllocFrames
  <2>7. CASE E!ReportSlices
    BY <1>5, <2>7 DEF StartEncoder, Touch, decoder, E!ReportSlices
  <2>8. CASE E!MapStream
    BY <1>5, <2>8 DEF StartEncoder, Touch, decoder, E!MapStream, E!Unnoticed
  <2>9. CASE E!MapOutbuf
    BY <1>5, <2>9 DEF StartEncoder, Touch, decoder, E!MapOutbuf, E!Unnoticed
  <2> QED
    BY <1>5, <2>1, <2>2, <2>3, <2>4, <2>5, <2>6, <2>7, <2>8, <2>9
       DEF StartEncoder, Touch, decoder, E!Step
<1>6. CASE GetEncFrame
  BY <1>6 DEF GetEncFrame, Touch, D!Decodable, E!Encodable, decoder,
     encoder
<1>7. CASE CloseCamera
  BY <1>7 DEF CloseCamera, decoder, encoder
<1>8. CASE CloseDecoder
  BY <1>8 DEF CloseDecoder, D!Deinit, D!Close, D!FreeFramebuffer, encoder
<1>9. CASE CloseEncoder
  BY <1>9 DEF CloseEncoder, E!Deinit, E!Close, E!FreeFramebuffer, E!Freed,
     decoder
<1>10. CASE VpuDeinit
  BY <1>10 DEF VpuDeinit, decoder, encoder
<1>11. CASE UNCHANGED vars
  BY <1>11 DEF vars, decoder, encoder
<1> QED
  BY <1>1, <1>2, <1>3, <1>4, <1>5, <1>6, <1>7, <1>8, <1>9, <1>10, <1>11
     DEF Next

(* While nothing but the harmless calls has failed, getEncFrame never      *)
(* touches what cameraInit, decoderInit and encoderInit did not set up.    *)
THEOREM UsesAreSafe == Spec => []UseIsSafe
<1>1. Init => UseInv
  BY DEF Init, UseInv
<1>2. TypeOK /\ FailedInv /\ UseInv /\ [Next]_vars => UseInv'
  BY UseStep
<1>3. UseInv => UseIsSafe
  BY DEF UseInv, UseIsSafe
<1> QED
  BY <1>1, <1>2, <1>3, TypeInvariant, PTL DEF Spec
=============================================================================
