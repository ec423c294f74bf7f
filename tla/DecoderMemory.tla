---------------------------- MODULE DecoderMemory ----------------------------
(***************************************************************************)
(* vpu_decoder_init and vpu_decoder_deinit: what each stage acquires, what *)
(* it gives back when it fails, and what the deinitialization releases.    *)
(* "phys" stands for the areas got with IOGetPhyMem: the bitstream buffer  *)
(* and, for H.264, the parameter sets and the slices, which every exit     *)
(* with an error gives back together; "map" for the mapping of the         *)
(* bitstream buffer by IOGetVirtMem, which no exit and no deinitialization *)
(* undoes; "frames" for the frame buffers, which framebuf_free unmaps.     *)
(***************************************************************************)
Held == {"phys", "map", "handle", "outbuf", "fb", "pfbpool", "frames"}

CONSTANT Faults
VARIABLES stage, mem, counted, release, failed, left

INSTANCE StagedInit WITH Resources <- Held

vars == <<stage, mem, counted, release>>

(* The control structure as calloc returns it. *)
Zeroed == stage = "closed" /\ mem = Null /\ counted = "no"
Zero == stage' = "closed" /\ mem' = Null /\ counted' = "no"

GetPhysical ==
  /\ stage = "phys"
  /\ Acquire("phys", "map") \/ Abandon("dec_phys", {}, {})
  /\ UNCHANGED <<counted, release>>

(* IOGetVirtMem *)
MapStream ==
  /\ stage = "map"
  /\ Acquire("map", "open") \/ Abandon("dec_map", {"phys"}, {})
  /\ UNCHANGED <<counted, release>>

DecOpen ==
  /\ stage = "open"
  /\ Acquire("handle", "parse") \/ Abandon("dec_open", {"phys"}, {})
  /\ UNCHANGED <<counted, release>>

(* Mutant: the handle is stored after decoder_parse, as the encoder does.  *)
Parse_LosesHandle ==
  /\ stage = "parse"
  /\ \/ stage' = "outbuf" /\ NoFault /\ UNCHANGED mem
     \/ /\ Fault("dec_parse") /\ stage' = "failed"
        /\ mem' = [mem EXCEPT !.phys = "null", !.handle = "lost"]
  /\ UNCHANGED <<counted, release>>

(* The first fill of the bitstream buffer, and decoder_parse: the handle   *)
(* stays open over an error, its bitstream buffer does not.                *)
Parse ==
  /\ stage = "parse"
  /\ \/ stage' = "outbuf" /\ NoFault /\ UNCHANGED mem
     \/ Abandon("dec_parse", {"phys"}, {})
  /\ UNCHANGED <<counted, release>>

(* decoder_allocate_framebuffer: g2d_alloc, the two callocs, and at last   *)
(* the frame buffers with their registration, whose failure goes to the    *)
(* label err, where dec->outbuf_cached is freed and not cleared.           *)
AllocOutbuf ==
  /\ stage = "outbuf"
  /\ Acquire("outbuf", "fb") \/ Abandon("dec_outbuf", {"phys"}, {})
  /\ UNCHANGED <<counted, release>>

(* Mutant: totalfb is set before the allocations, as the encoder does. *)
AllocFb_CountsEarly ==
  /\ stage = "fb" /\ counted' = "yes"
  /\ Acquire("fb", "pfbpool") \/ Abandon("dec_fb", {"phys"}, {})
  /\ UNCHANGED release

AllocFb ==
  /\ stage = "fb"
  /\ Acquire("fb", "pfbpool") \/ Abandon("dec_fb", {"phys"}, {})
  /\ UNCHANGED <<counted, release>>

AllocPfbpool ==
  /\ stage = "pfbpool"
  /\ Acquire("pfbpool", "frames") \/ Abandon("dec_pfbpool", {"phys", "fb"}, {})
  /\ UNCHANGED <<counted, release>>

AllocFrames ==
  /\ stage = "frames"
  /\ \/ Acquire("frames", "ready") /\ counted' = "yes"
     \/ /\ Abandon("dec_frames", {"phys", "fb", "pfbpool"}, {"outbuf"})
        /\ UNCHANGED counted
  /\ UNCHANGED release

Step == GetPhysical \/ MapStream \/ DecOpen \/ Parse \/ AllocOutbuf
        \/ AllocFb \/ AllocPfbpool \/ AllocFrames

(* decoder_free_framebuffer releases dec->outbuf_cached whatever its state *)
(* and, by totalfb, the frame buffers of dec->pfbpool.                     *)
FreeFramebuffer(m) ==
  [m EXCEPT !.outbuf = IF @ = "null" THEN "null" ELSE "dangling",
            !.fb = "null", !.pfbpool = "null", !.frames = "null"]

(* Mutant: the handle of a failed init is not closed. *)
Close_OnlyReady(m) ==
  [m EXCEPT !.handle = IF @ = "null" \/ stage = "failed" THEN @
                       ELSE "dangling",
            !.phys = "null"]

(* decoder_close closes the handle and gives back the physical areas; the  *)
(* mapping of the bitstream buffer stays.                                  *)
Close(m) ==
  [m EXCEPT !.handle = IF @ = "null" THEN "null" ELSE "dangling",
            !.phys = "null"]

Deinit ==
  /\ release' = IF \/ mem.outbuf = "dangling"
                   \/ counted = "yes" /\ mem.pfbpool # "held"
                THEN "bad" ELSE release
  /\ mem' = Close(FreeFramebuffer(mem))
  /\ stage' = "closed" /\ UNCHANGED <<counted, failed>>

(* A decode call finds its bitstream buffer where the open handle has it.  *)
Decodable ==
  mem.handle = "held" => mem.phys = "held" /\ mem.map = "held"
=============================================================================
