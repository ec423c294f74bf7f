----------------------------- MODULE EncodeFrame -----------------------------
(***************************************************************************)
(* One call after the other of getEncFrame, from the decoded picture on:   *)
(* encoderEncodeFrame reads the picture into the source frame buffer       *)
(* (SourceFrame), has the VPU encode it, and hands the coded picture to    *)
(* the player, which throws the very first one away.                       *)
(*                                                                         *)
(* The VPU is modelled from what vpu_encode.c and enzo_codec.h say of it:  *)
(* every GopSize-th picture is an I picture, a forced one starts the       *)
(* period anew, and a P picture refers to the one coded before it.  It may *)
(* skip a P picture, and then codes nothing.                               *)
(***************************************************************************)
EXTENDS SourceFrame, Sequences

CONSTANTS
  GopSize,     \* avcEnc->gopSize
  MaxWaits,    \* turns of the wait for the VPU, 20 in the code
  SliceSizes,  \* bytes a slice may have
  MaxSlices,   \* bound: slices of a picture
  CodedSizes,  \* bytes a coded picture may have
  HeaderSizes, \* the sizes of SPS and PPS, as the VPU writes them
  MaxNal,      \* MAX_NAL_PER_PICTURE, 300 in the code
  MaxLost      \* bound: coded pictures that never reach the player

ASSUME EncodeAssumption ==
  /\ GopSize \in Nat \ {0} /\ MaxWaits \in Nat /\ MaxLost \in Nat
  /\ SliceSizes \subseteq Nat /\ MaxSlices \in Nat
  /\ CodedSizes \subseteq Nat /\ HeaderSizes \subseteq Nat \X Nat
  /\ MaxNal \in Nat

SpsSize == 13          \* VPU_SPS_SIZE
PpsSize == 9           \* VPU_PPS_SIZE

VARIABLES
  pc,       \* idle, read, busy, wait or info
  force,    \* encInst->forceIFrame
  forced,   \* enc->force_i_frame
  waits,    \* loop_id
  vpu,      \* what the VPU does: idle, coding, or what it has coded
  gop,      \* pictures coded since the last I picture, that one included
  report,   \* the sizes of the slices the VPU reports of the coded picture
  coded,    \* the size of the coded picture: outinfo.bitstreamSize
  headers,  \* the sizes of the two headers in the output buffer
  bsbuf,    \* the picture in the bitstream buffer: of this call, or an old one
  outbuf,   \* the picture behind the headers in the output buffer
  out,      \* enc_dst: kind, where the data is, its size, the number of NAL
            \* units and the table of their lengths
  result,   \* what the last call returned
  player,   \* whether the player waits for its first picture, or has crashed
  chain,    \* whether the player has what the next P picture refers to
  lost,     \* coded pictures that did not reach the player
  broken    \* P pictures the player got without their reference

encoder == <<force, forced, waits, vpu, gop, report, coded, headers, bsbuf,
             outbuf>>
stream  == <<chain, lost, broken>>
vars    == <<srcVars, pc, encoder, out, result, player, stream>>

Total(s) ==
  LET sum[n \in 0 .. Len(s)] == IF n = 0 THEN 0 ELSE sum[n - 1] + s[n]
  IN  sum[Len(s)]
Slices == UNION {[1 .. n -> SliceSizes] : n \in 1 .. MaxSlices}

Nothing ==
  [kind |-> "none", at |-> "outbuf", size |-> 0, number |-> 0, nal |-> << >>]

Init ==
  /\ SourceInit
  /\ pc = "idle" /\ force = "no" /\ forced = "no" /\ waits = 0
  /\ vpu = "idle" /\ gop = 0 /\ report = << >> /\ coded = 0
  /\ headers \in HeaderSizes /\ bsbuf = "old" /\ outbuf = "old"
  /\ out = [kind |-> "headers", at |-> "outbuf",
            size |-> headers[1] + headers[2], number |-> 0, nal |-> << >>]
  /\ result = "none"
  /\ player = "init" /\ chain = "whole" /\ lost = 0 /\ broken = 0
-----------------------------------------------------------------------------
(* A coded picture is lost: what comes next refers to it. *)
Lose ==
  /\ lost' = lost + 1 /\ chain' = "broken"
  /\ UNCHANGED broken

(* The call returns, and its locals are gone. *)
Return(r) ==
  /\ pc' = "idle" /\ result' = r
  /\ vpu' = "idle" /\ waits' = 0
  /\ UNCHANGED <<force, forced, gop, headers, bsbuf>>

(* The call fails; without the first picture, DecoderView.init throws and  *)
(* the process ends.                                                       *)
Fail ==
  /\ Return("error") /\ UNCHANGED <<outbuf, out>>
  /\ report' = << >> /\ coded' = 0
  /\ player' = IF player = "init" THEN "crashed" ELSE player

(* The user of the library asks for an I picture. *)
ForceIFrame ==
  /\ pc = "idle" /\ player # "crashed" /\ force = "no" /\ force' = "yes"
  /\ UNCHANGED <<srcVars, pc, forced, waits, vpu, gop, report, coded, headers,
                 bsbuf, outbuf, out, result, player, stream>>

(* Mutant: the request is cleared before it is passed on. *)
EncodeCall_ClearsFirst ==
  /\ pc = "idle" /\ player # "crashed" /\ pc' = "read"
  /\ force' = "no" /\ forced' = force'
  /\ bsbuf' = "old" /\ outbuf' = "old"
  /\ report' = << >> /\ coded' = 0 /\ out' = Nothing
  /\ ReadSourceFrame /\ result' = "none"
  /\ UNCHANGED <<waits, vpu, gop, headers, player, stream>>

(* encoderEncodeFrame passes the request on, once, and a picture is read.  *)
(* What the last call handed out was copied, and is not looked at again.   *)
EncodeCall ==
  /\ pc = "idle" /\ player # "crashed" /\ pc' = "read"
  /\ forced' = force /\ force' = "no"
  /\ bsbuf' = "old" /\ outbuf' = "old"
  /\ report' = << >> /\ coded' = 0 /\ out' = Nothing
  /\ ReadSourceFrame /\ result' = "none"
  /\ UNCHANGED <<waits, vpu, gop, headers, player, stream>>

ReadOn ==
  /\ pc = "read" /\ ReadStep
  /\ UNCHANGED <<pc, encoder, out, result, player, stream>>

ReadFailed ==
  /\ pc = "read" /\ read = "failed" /\ Fail
  /\ Returned /\ UNCHANGED stream

StartOneFrame ==
  /\ pc = "read" /\ read = "done"
  /\ \/ Fail                                \* vpu_EncStartOneFrame failed
     \/ /\ pc' = "busy" /\ vpu' = "coding"
        /\ UNCHANGED <<force, forced, waits, gop, report, coded, headers,
                       bsbuf, outbuf, out, result, player>>
  /\ Returned /\ UNCHANGED stream

(* Mutant: the period is not passed to the VPU. *)
NextInPeriod_Unset(g) == IF g = 0 THEN 1 % GopSize ELSE g

(* The place in the period after g, as the VPU was opened with gopSize. *)
NextInPeriod(g) == (g + 1) % GopSize

(* The VPU codes the picture, or skips it.  That the slices it reports are *)
(* all of what it coded is not assumed.  Bound: the picture comes in the   *)
(* turn that is one too many only while lost < MaxLost.                    *)
Code ==
  /\ vpu = "coding"
  /\ (pc = "wait" /\ waits = MaxWaits) => lost < MaxLost
  /\ IF gop = 0 \/ forced = "yes"
     THEN vpu' = "I" /\ gop' = NextInPeriod(0)
     ELSE \/ vpu' = "P" /\ gop' = NextInPeriod(gop)
          \/ vpu' = "skip" /\ UNCHANGED gop
  /\ IF vpu' = "skip" THEN report' = << >> /\ coded' = 0
     ELSE report' \in Slices /\ coded' \in CodedSizes
  /\ bsbuf' = "this"
  /\ UNCHANGED <<srcVars, pc, force, forced, waits, headers, outbuf, out,
                 result, player, stream>>

(* vpu_IsBusy *)
IsBusy ==
  /\ pc = "busy" /\ pc' = IF vpu = "coding" THEN "wait" ELSE "info"
  /\ UNCHANGED <<srcVars, encoder, out, result, player, stream>>

(* Mutant: the wait goes on for as long as the VPU is busy. *)
WaitForInt_Forever ==
  /\ pc = "wait" /\ pc' = "busy"
  /\ UNCHANGED <<srcVars, encoder, out, result, player, stream>>

(* vpu_WaitForInt; the turn that is one too many resets the VPU, even when *)
(* the picture came during its wait.                                       *)
WaitForInt ==
  /\ pc = "wait"
  /\ IF waits = MaxWaits
     THEN Fail /\ (IF vpu \in {"I", "P"} THEN Lose ELSE UNCHANGED stream)
     ELSE /\ pc' = "busy" /\ waits' = waits + 1
          /\ UNCHANGED <<force, forced, vpu, gop, report, coded, headers,
                         bsbuf, outbuf, out, result, player, stream>>
  /\ UNCHANGED srcVars

(* vpu_EncGetOutputInfo fails: the picture stays where it is.  Bound:      *)
(* lost < MaxLost.                                                         *)
OutputInfoFails ==
  /\ pc = "info" /\ Fail /\ UNCHANGED srcVars
  /\ IF vpu = "skip" THEN UNCHANGED stream ELSE lost < MaxLost /\ Lose

(* Mutant: the headers are counted for every picture. *)
SaveEncSliceInfo_Always(iFrame) == <<SpsSize, PpsSize>> \o report

(* The lengths of the NAL units, those of the headers of an I picture      *)
(* first.                                                                  *)
SaveEncSliceInfo(iFrame) ==
  (IF iFrame THEN <<SpsSize, PpsSize>> ELSE << >>) \o report

(* They are counted and stored one after the other, past the end of the    *)
(* table if they are too many; the table keeps the first of them.          *)
Table(units) ==
  SubSeq(units, 1, IF Len(units) <= MaxNal THEN Len(units) ELSE MaxNal)
HandOut(kind, at, bytes, units) ==
  [kind |-> kind, at |-> at, size |-> bytes, number |-> Len(units),
   nal |-> Table(units)]

(* An I picture is copied to where headers of the usual sizes end, a P     *)
(* picture stays where the VPU has put it; a skipped one is only warned    *)
(* about.                                                                  *)
GetOutputInfo ==
  /\ pc = "info" /\ Return("picture") /\ UNCHANGED <<srcVars, report, coded>>
  /\ IF vpu = "I"
     THEN /\ outbuf' = bsbuf
          /\ out' = HandOut("I", "outbuf", coded + SpsSize + PpsSize,
                            SaveEncSliceInfo(TRUE))
     ELSE /\ UNCHANGED outbuf
          /\ out' = HandOut("P", "bsbuf", coded, SaveEncSliceInfo(FALSE))

(* DecoderView.init takes no more than the headers from the first picture. *)
ThrowAway ==
  /\ player = "init" /\ GetOutputInfo
  /\ player' = "running"
  /\ IF vpu = "skip" THEN UNCHANGED <<chain, lost>>
     ELSE lost' = lost + 1 /\ chain' = "broken"
  /\ UNCHANGED broken

(* DecoderView.run gives every other picture to the decoder. *)
Deliver ==
  /\ player = "running" /\ GetOutputInfo
  /\ chain' = IF vpu = "I" THEN "whole" ELSE chain
  /\ broken' = IF vpu = "P" /\ chain = "broken" THEN broken + 1 ELSE broken
  /\ UNCHANGED <<player, lost>>
-----------------------------------------------------------------------------
Steps == ReadOn \/ ReadFailed \/ StartOneFrame \/ IsBusy \/ WaitForInt
         \/ OutputInfoFails \/ ThrowAway \/ Deliver
Next == ForceIFrame \/ EncodeCall \/ Steps \/ Code

Spec == Init /\ [][Next]_vars

(* A call goes on; nothing is asked of the VPU. *)
FairSpec == Spec /\ WF_vars(Steps)
-----------------------------------------------------------------------------
(* Every variable has its type. *)
TypeOK ==
  /\ SourceTypeOK
  /\ pc \in {"idle", "read", "busy", "wait", "info"}
  /\ force \in {"yes", "no"} /\ forced \in {"yes", "no"}
  /\ waits \in 0 .. MaxWaits
  /\ vpu \in {"idle", "coding", "I", "P", "skip"}
  /\ gop \in 0 .. GopSize - 1
  /\ report \in Seq(SliceSizes) /\ coded \in Nat /\ headers \in HeaderSizes
  /\ bsbuf \in {"this", "old"} /\ outbuf \in {"this", "old"}
  /\ out.kind \in {"none", "headers", "I", "P"} /\ out.at \in {"outbuf", "bsbuf"}
  /\ out.size \in Nat /\ out.number \in Nat
  /\ out.nal \in Seq(Nat) /\ Len(out.nal) <= MaxNal
  /\ result \in {"none", "picture", "error"}
  /\ player \in {"init", "running", "crashed"} /\ chain \in {"whole", "broken"}
  /\ lost \in Nat /\ broken \in Nat

(* What the code takes for granted of the VPU: its report names every byte *)
(* of the picture, there are no more units than the table has entries, and *)
(* the headers an I picture comes with have the sizes of enzo_utils.h:29.  *)
AsExpected ==
  /\ Total(report) = coded
  /\ IF out.kind = "I"
     THEN headers = <<SpsSize, PpsSize>> /\ Len(report) + 2 <= MaxNal
     ELSE Len(report) <= MaxNal

(* The data of a picture handed out is of this call, wherever it lies.  If *)
(* the VPU has done as expected, the size is that of the coded picture and *)
(* of the headers before it, and the table of NAL units covers all of it   *)
(* byte by byte.                                                           *)
DeliveredIsCoherent ==
  pc = "idle" /\ result = "picture" =>
    /\ IF out.at = "outbuf" THEN outbuf = "this" ELSE bsbuf = "this"
    /\ AsExpected =>
         /\ out.number = Len(out.nal) /\ Total(out.nal) = out.size
         /\ out.size = IF out.kind = "I" THEN headers[1] + headers[2] + coded
                       ELSE coded

(* A request for an I picture (enzo_codec.h:37) is taken once and not      *)
(* dropped on the way, and if a picture comes out of that call, it is one. *)
ForcedIsIntra ==
  [][/\ force = "yes" /\ force' = "no" => forced' = "yes"
     /\ pc = "info" /\ result' = "picture" /\ forced = "yes" => out'.kind = "I"
    ]_vars

(* A call that fails after the VPU has coded, and DecoderView.init, which  *)
(* throws the first I picture away, leave the player without a reference.  *)
(* No such loss damages more than the rest of one period.                  *)
DamageIsBounded == broken <= (GopSize - 1) * lost

(* Every call returns, even if the VPU is busy for ever. *)
CallReturns == (pc # "idle") ~> (pc = "idle")
=============================================================================
