----------------------------- MODULE DecodeLoop -----------------------------
(***************************************************************************)
(* One open decoder decoding frames that lie in memory: the loop of        *)
(* decoder_decode_frame, the pictures waiting in the bitstream buffer, and *)
(* the display flags with which the decoder and the VPU pass the frame     *)
(* buffers to and fro.                                                     *)
(*                                                                         *)
(* The bitstream buffer is the one of BitstreamRing, seen as a sequence of *)
(* whole pictures: a fill takes a frame in or drops it.  A picture is      *)
(* named by the call that brought it; picture 0 is the frame decoder_open  *)
(* was given to initialize with.  The VPU is modelled from what the        *)
(* code asks of it: it decodes the first picture into a frame buffer that  *)
(* is neither flagged nor kept by itself, and it reports one of the        *)
(* buffers it keeps for display, in any order, or none.                    *)
(***************************************************************************)
EXTENDS Integers, Sequences, FiniteSets

CONSTANTS
  Formats,     \* what dec->format may be
  MinFb,       \* minFrameBufferCount: the VPU keeps fewer buffers to itself
  Capacity,    \* how many pictures of a format the bitstream buffer takes
  LoopMax,     \* AVC_PARAM_LOOP_MAX
  None,        \* no frame was written to vid_dst yet
  MaxCalls,    \* bound: how many frames are decoded
  MaxErrors    \* bound: how many steps fail

ASSUME FormatsAssumption == Formats \subseteq {"MJPEG", "H264AVC"}
ASSUME SizesAssumption ==
  /\ MinFb \in Nat \ {0} /\ LoopMax \in Nat \ {0}
  /\ Capacity \in [Formats -> Nat \ {0}]
  /\ MaxCalls \in Nat /\ MaxErrors \in Nat
ASSUME NoneAssumption == None \notin Nat

(* Mutant: no buffer beyond the minimum is registered. *)
FrameCount_NoSpare == MinFb
FrameCount == MinFb + 2              \* regfbcount, with extended_fbcount = 2
Frames == 0 .. FrameCount - 1

VARIABLES
  pc,       \* where the call is: idle, start, busy, short, output
  format,   \* dec->format
  call,     \* number of the current call, or of the last one
  stream,   \* the pictures in the bitstream buffer
  loop,     \* param_change_loop
  dispClr,  \* dec->disp_clr_index
  flag,     \* the buffers whose display flag is set
  kept,     \* the buffers the VPU keeps: decoded, not yet displayed
  content,  \* the picture in each frame buffer
  shown,    \* the buffer vid_dst points to and the picture put there
  result,   \* what the last call returned: frame (0), nothing (-1), error (-2)
  errors    \* failed steps so far

vars == <<pc, format, call, stream, loop, dispClr, flag, kept, content, shown,
          result, errors>>
vpu  == <<flag, kept, content>>

Free == IF format = "MJPEG" THEN {0} ELSE Frames \ (flag \cup kept)

Fault == errors < MaxErrors /\ errors' = errors + 1
NoFault == UNCHANGED errors
Return(r) == pc' = "idle" /\ result' = r

(* dec->disp_clr_index is 0 from the start: the structure is calloc'ed.    *)
(* decoder_open has pushed a frame (or headers alone) and had it parsed;   *)
(* whether the parser leaves the picture to be decoded is the VPU's affair.*)
Init ==
  /\ pc = "idle" /\ format \in Formats /\ call = 0
  /\ stream \in {<< >>, <<0>>} /\ loop = 0 /\ dispClr = 0
  /\ flag = {} /\ kept = {} /\ content = [f \in Frames |-> 0]
  /\ shown = [frame |-> None, pic |-> 0]
  /\ result = "nothing" /\ errors = 0
-----------------------------------------------------------------------------
(* Mutant: the space is not looked at. *)
Filled_Always(p) == Append(stream, p)

(* Mutant: the fill pushes the frame twice. *)
Filled_Twice(p) ==
  IF Len(stream) + 2 <= Capacity[format] THEN stream \o <<p, p>> ELSE stream

(* dec_fill_bsbuffer: a frame that finds no space is passed over, and the  *)
(* call goes on with whatever is in the buffer.                            *)
Filled(p) ==
  IF Len(stream) < Capacity[format] THEN Append(stream, p) ELSE stream

(* decoder_decode_frame up to its loop. *)
DecodeFrame ==
  /\ pc = "idle" /\ call < MaxCalls
  /\ call' = call + 1 /\ loop' = 0
  /\ \/ /\ stream' = Filled(call + 1) /\ pc' = "start"
        /\ NoFault /\ UNCHANGED result
     \/ Fault /\ Return("error") /\ UNCHANGED stream
  /\ UNCHANGED <<format, dispClr, vpu, shown>>

(* Mutant: having pushed the frame once more the call waits for the VPU    *)
(* instead of failing.                                                     *)
StartOneFrame_GoesOn ==
  /\ pc = "start" /\ loop < LoopMax
  /\ \/ /\ format = "MJPEG" => stream # << >>
        /\ pc' = "busy" /\ NoFault /\ UNCHANGED <<stream, result>>
     \/ /\ format = "MJPEG" /\ pc' = "busy" /\ NoFault
        /\ stream' = Filled(call) /\ UNCHANGED result
     \/ Fault /\ Return("error") /\ UNCHANGED stream
  /\ UNCHANGED <<format, call, loop, dispClr, vpu, shown>>

(* vpu_DecStartOneFrame: the frame is pushed once more when the VPU finds  *)
(* no complete JPEG picture, and then, as after any other failure, the     *)
(* call gives up.                                                          *)
StartOneFrame ==
  /\ pc = "start" /\ loop < LoopMax
  /\ \/ /\ format = "MJPEG" => stream # << >>
        /\ pc' = "busy" /\ NoFault /\ UNCHANGED <<stream, result>>
     \/ /\ format = "MJPEG" /\ Fault
        /\ stream' = Filled(call) /\ Return("error")
     \/ Fault /\ Return("error") /\ UNCHANGED stream
  /\ UNCHANGED <<format, call, loop, dispClr, vpu, shown>>

(* The loop runs out of turns with nothing displayed: the call returns     *)
(* return_code, still 0.                                                   *)
GiveUp ==
  /\ pc = "start" /\ loop = LoopMax
  /\ Return("frame")
  /\ UNCHANGED <<format, call, stream, loop, dispClr, vpu, shown, errors>>

(* The VPU works on the first picture.  With no buffer to decode into, or  *)
(* after a change of the sequence parameters (the comment on the break of  *)
(* the loop tells of hundreds of such turns), it decodes nothing; with no  *)
(* picture it reports too little bitstream.                                *)
VpuDecode ==
  /\ pc = "busy"
  /\ \/ /\ stream = << >>
        /\ pc' = "short" /\ UNCHANGED <<stream, kept, content>>
     \/ /\ stream # << >> /\ format = "H264AVC"
        /\ pc' = "output" /\ UNCHANGED <<stream, kept, content>>
     \/ /\ stream # << >>
        /\ \E f \in Free : /\ content' = [content EXCEPT ![f] = Head(stream)]
                           /\ kept' = kept \cup {f}
        /\ stream' = Tail(stream) /\ pc' = "output"
  /\ UNCHANGED <<format, call, loop, dispClr, flag, shown, result, errors>>

(* vpu_IsBusy stays true for 50 turns: the VPU is reset, with or without   *)
(* the picture it was working on.                                          *)
Hang ==
  /\ pc = "busy" /\ Fault /\ Return("error")
  /\ \/ UNCHANGED stream
     \/ stream # << >> /\ stream' = Tail(stream)
  /\ UNCHANGED <<format, call, loop, dispClr, vpu, shown>>

(* decodingSuccess & 0x10 *)
NotEnough ==
  /\ pc = "short" /\ Return("nothing")
  /\ UNCHANGED <<format, call, stream, loop, dispClr, vpu, shown, errors>>

(* vpu_DecGetOutputInfo fails, or the PS or slice buffer is too small, or  *)
(* the index is -1.  A buffer put up for display with such a report stays  *)
(* flagged, and no one has its index.                                      *)
OutputRefused ==
  /\ pc = "output" /\ Fault /\ Return("error")
  /\ \/ UNCHANGED <<flag, kept>>
     \/ \E f \in kept : /\ kept' = kept \ {f}
                        /\ flag' = IF format = "MJPEG" THEN flag
                                   ELSE flag \cup {f}
  /\ UNCHANGED <<format, call, stream, loop, dispClr, content, shown>>

(* Mutant: the turn without a display is not counted. *)
OutputNothing_Uncounted ==
  /\ pc = "output" /\ format # "MJPEG" /\ Cardinality(kept) < MinFb
  /\ flag' = flag \ {dispClr} /\ NoFault
  /\ pc' = "start" /\ UNCHANGED loop
  /\ UNCHANGED <<format, call, stream, dispClr, kept, content, shown, result>>

(* Index -2 or -3, no picture to be displayed: the flag of the picture     *)
(* displayed last is cleared and the loop continues.  A clearing that      *)
(* fails is logged; dec->disp_clr_index still names the buffer, and the    *)
(* next turn or call clears its flag.                                      *)
OutputNothing ==
  /\ pc = "output" /\ format # "MJPEG" /\ Cardinality(kept) < MinFb
  /\ \/ flag' = flag \ {dispClr} /\ NoFault
     \/ Fault /\ UNCHANGED flag
  /\ pc' = "start" /\ loop' = loop + 1
  /\ UNCHANGED <<format, call, stream, dispClr, kept, content, shown, result>>

(* Mutant: the flag of the picture displayed before stays set. *)
OutputFrame_NoClear ==
  /\ pc = "output"
  /\ \E f \in kept :
       /\ kept' = kept \ {f}
       /\ flag' = IF format = "MJPEG" THEN flag ELSE flag \cup {f}
       /\ shown' = [frame |-> f, pic |-> content[f]]
       /\ dispClr' = f
  /\ Return("frame")
  /\ UNCHANGED <<format, call, stream, loop, content, errors>>

(* A picture is displayed: it is written to vid_dst, and the flag of the   *)
(* one displayed before is cleared.  Either may fail and the call succeeds *)
(* all the same: without the 2D unit vid_dst keeps what it had, and a flag *)
(* whose clearing fails is forgotten, since disp_clr_index is overwritten. *)
OutputFrame ==
  /\ pc = "output"
  /\ \E f \in kept, unwritten \in {0, 1}, uncleared \in {0, 1} :
       /\ format = "MJPEG" => uncleared = 0
       /\ errors + unwritten + uncleared <= MaxErrors
       /\ errors' = errors + unwritten + uncleared
       /\ kept' = kept \ {f}
       /\ flag' = IF format = "MJPEG" THEN flag
                  ELSE IF uncleared = 1 THEN flag \cup {f}
                  ELSE (flag \cup {f}) \ {dispClr}
       /\ shown' = IF unwritten = 1 THEN shown
                   ELSE [frame |-> f, pic |-> content[f]]
       /\ dispClr' = f
  /\ Return("frame")
  /\ UNCHANGED <<format, call, stream, loop, content>>

LoopSteps == StartOneFrame \/ GiveUp \/ VpuDecode \/ NotEnough
             \/ OutputNothing \/ OutputFrame
Next == DecodeFrame \/ LoopSteps \/ Hang \/ OutputRefused

Spec == Init /\ [][Next]_vars

(* The calling thread runs on, and the VPU finishes or is reset. *)
FairSpec == Spec /\ WF_vars(LoopSteps)
-----------------------------------------------------------------------------
Pictures == 0 .. MaxCalls

(* Every variable has its type. *)
TypeOK ==
  /\ pc \in {"idle", "start", "busy", "short", "output"}
  /\ format \in Formats
  /\ call \in 0 .. MaxCalls
  /\ stream \in Seq(Pictures) /\ Len(stream) <= Capacity[format]
  /\ loop \in 0 .. LoopMax
  /\ dispClr \in Frames
  /\ flag \subseteq Frames /\ kept \subseteq Frames
  /\ content \in [Frames -> Pictures]
  /\ shown \in [frame : Frames \cup {None}, pic : Pictures]
  /\ result \in {"frame", "nothing", "error"}
  /\ errors \in 0 .. MaxErrors

(* A display flag is cleared in the end because dec->disp_clr_index        *)
(* remembers it.  Between two calls every flagged buffer but that one was  *)
(* lost, one for each failure: by a call that returned between the report  *)
(* of the VPU and the assignment to disp_clr_index, or by a clearing that  *)
(* failed and was only logged before that assignment.                      *)
FlagsAccounted ==
  pc = "idle" => Cardinality(flag \ {dispClr}) <= errors

(* The two buffers that decoder_parse adds to the minimum are enough: the  *)
(* VPU always has a buffer to decode into, and one to spare, less those    *)
(* that failed calls and failed clearings have lost.                       *)
NeverStarved ==
  (pc = "busy" /\ format = "H264AVC") => Cardinality(Free) + errors >= 2

(* Of motion JPEG a call returns the picture it was given, or, when the    *)
(* frame of decoder_open is still in the buffer, the one of the call       *)
(* before, as long as no call has failed: the decoder never falls further  *)
(* behind the camera by itself.                                            *)
OwnPicture ==
  (format = "MJPEG" /\ pc = "idle" /\ errors = 0 /\ call > 0) =>
     (result = "frame" /\ shown.pic \in {call - 1, call})

(* decoder_open leaves at most one picture behind and a failed call two,   *)
(* its own and the one that is pushed again: the pictures wait for good,   *)
(* since every later call takes one in and one out, and the video lags by  *)
(* as many frames.                                                         *)
LagIsBounded ==
  (format = "MJPEG" /\ pc = "idle") => Len(stream) <= 2 * errors + 1

(* vpu_decode.c:471 says that the clearing of one frame buffer's flag is   *)
(* delayed: the picture a call has returned is still flagged, so the VPU   *)
(* cannot decode into it while the caller uses it and the next call runs.  *)
DisplayedIsHeld ==
  (format = "H264AVC" /\ pc = "idle" /\ result = "frame")
     => shown.frame \in flag

(* Every call returns: however the VPU reports, the loop comes to an end.  *)
CallReturns == (pc # "idle") ~> (pc = "idle")
=============================================================================
