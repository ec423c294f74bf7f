---------------------------- MODULE EncoderMemory ----------------------------
(***************************************************************************)
(* vpu_encoder_init and vpu_encoder_deinit: what each stage acquires, what *)
(* it gives back when it fails, and what the deinitialization releases.    *)
(* Nothing is given back but what encoder_allocate_framebuffer had         *)
(* allocated, and the pointers to that are not cleared.  "map" and         *)
(* "outmap" are the mappings by IOGetVirtMem of the two areas "phys", the  *)
(* bitstream buffer, and "outbuf"; nothing undoes them.                    *)
(***************************************************************************)
Held == {"phys", "map", "outbuf", "outmap", "handle", "slices", "fb",
         "pfbpool", "frames"}

CONSTANT Faults
VARIABLES stage, mem, counted, release, failed, left

INSTANCE StagedInit WITH Resources <- Held

vars == <<stage, mem, counted, release>>

(* The control structure as calloc returns it. *)
Zeroed == stage = "closed" /\ mem = Null /\ counted = "no"
Zero == stage' = "closed" /\ mem' = Null /\ counted' = "no"

(* The bitstream buffer and the output buffer: IOGetPhyMem for each, *)
GetPhysical ==
  /\ stage = "phys"
  /\ Acquire("phys", "map") \/ Abandon("enc_phys", {}, {})
  /\ UNCHANGED <<counted, release>>

GetOutbuf ==
  /\ stage = "outbuf"
  /\ Acquire("outbuf", "outmap") \/ Abandon("enc_outbuf", {}, {})
  /\ UNCHANGED <<counted, release>>

(* and IOGetVirtMem for each.  The result is compared as an unsigned       *)
(* number: 0 is noticed, and the area given back, a failure that is        *)
(* reported as -1 is not, and the init goes on without the mapping.        *)
Unnoticed(kind, next) ==
  Fault(kind) /\ stage' = next /\ UNCHANGED mem

MapStream ==
  /\ stage = "map"
  /\ \/ Acquire("map", "outbuf") \/ Abandon("enc_map", {"phys"}, {})
     \/ Unnoticed("enc_map", "outbuf")
  /\ UNCHANGED <<counted, release>>

MapOutbuf ==
  /\ stage = "outmap"
  /\ \/ Acquire("outmap", "open") \/ Abandon("enc_outmap", {"outbuf"}, {})
     \/ Unnoticed("enc_outmap", "open")
  /\ UNCHANGED <<counted, release>>

(* encoder_open stores the handle last: when vpu_EncGetInitialInfo fails   *)
(* the VPU holds an open instance that enc->handle does not name.  The     *)
(* report buffer may be missing, which is only logged.  The headers that   *)
(* follow cannot fail.                                                     *)
EncOpen ==
  /\ stage = "open"
  /\ \/ /\ stage' = "fb"
        /\ \/ mem' = [mem EXCEPT !.handle = "held", !.slices = "held"] /\ NoFault
           \/ mem' = [mem EXCEPT !.handle = "held"] /\ Fault("enc_slices")
     \/ Abandon("enc_open", {}, {})
     \/ /\ Fault("enc_info") /\ stage' = "failed"
        /\ mem' = [mem EXCEPT !.handle = "lost"]
  /\ UNCHANGED <<counted, release>>

(* encoder_allocate_framebuffer sets enc->totalfb before it allocates; the *)
(* label ERROR frees fb and pfbpool and leaves both pointers.              *)
AllocFb ==
  /\ stage = "fb" /\ counted' = "yes"
  /\ Acquire("fb", "pfbpool") \/ Abandon("enc_fb", {}, {})
  /\ UNCHANGED release

AllocPfbpool ==
  /\ stage = "pfbpool"
  /\ Acquire("pfbpool", "frames") \/ Abandon("enc_pfbpool", {}, {"fb"})
  /\ UNCHANGED <<counted, release>>

AllocFrames ==
  /\ stage = "frames"
  /\ \/ Acquire("frames", "report")
     \/ Abandon("enc_frames", {}, {"fb", "pfbpool"})
  /\ UNCHANGED <<counted, release>>

(* ENC_SET_REPORT_SLICEINFO *)
ReportSlices ==
  /\ stage = "report"
  /\ \/ stage' = "ready" /\ NoFault /\ UNCHANGED mem
     \/ Abandon("enc_report", {}, {})
  /\ UNCHANGED <<counted, release>>

Step == GetPhysical \/ MapStream \/ GetOutbuf \/ MapOutbuf \/ EncOpen
        \/ AllocFb \/ AllocPfbpool \/ AllocFrames \/ ReportSlices

(* Released, with the pointer kept. *)
Freed(state) == IF state = "null" THEN "null" ELSE "dangling"

(* encoder_free_framebuffer goes through enc->pfbpool by totalfb and frees *)
(* both arrays.                                                            *)
FreeFramebuffer(m) ==
  [m EXCEPT !.fb = Freed(@), !.pfbpool = Freed(@), !.frames = "null"]

(* encoder_close closes the handle, if the structure names one. *)
Close(m) == [m EXCEPT !.handle = IF @ = "lost" THEN "lost" ELSE Freed(@)]

(* The report buffer and the physical areas are given back, and the        *)
(* mappings of the areas stay.                                             *)
Deinit ==
  /\ release' = IF counted = "yes" /\ mem.pfbpool # "held"
                THEN "bad" ELSE release
  /\ mem' = [Close(FreeFramebuffer(mem)) EXCEPT !.slices = Freed(@),
                                                !.phys = "null",
                                                !.outbuf = "null"]
  /\ stage' = "closed" /\ UNCHANGED <<counted, failed>>

(* encoder_get_headers copies from the one mapping to the other, and so    *)
(* does the encoding of an intra picture.                                  *)
Mapped == mem.map = "held" /\ mem.outmap = "held"

(* read_source_frame writes into the source frame buffer of enc->fb, and   *)
(* SaveEncSliceInfo reads the report of an intra picture through the       *)
(* pointer to the report buffer, missing or not.                           *)
Encodable ==
  Mapped /\ \A r \in {"fb", "frames", "slices"} : mem[r] = "held"
=============================================================================
