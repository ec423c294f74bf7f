-------------------------- MODULE DecodeLoop_proofs --------------------------
(***************************************************************************)
(* Theorems about the decode loop, for any number of frame buffers, any    *)
(* capacity of the bitstream buffer, any limit of turns, and any number of *)
(* calls and of failures.                                                  *)
(***************************************************************************)
EXTENDS DecodeLoop, FiniteSetTheorems, SequenceTheorems, TLAPS

USE FormatsAssumption, SizesAssumption, NoneAssumption

(* The VPU is started only in a turn that the limit allows. *)
TurnsLeft == pc \in {"busy", "short", "output"} => loop < LoopMax

(* A fill adds one picture, or nothing when the buffer is full. *)
LEMMA FillKeepsType ==
  ASSUME NEW c \in Nat, NEW s \in Seq(Pictures), Len(s) <= c,
         NEW p \in Pictures
  PROVE  LET t == IF Len(s) < c THEN Append(s, p) ELSE s
         IN  t \in Seq(Pictures) /\ Len(t) <= c /\ Len(t) <= Len(s) + 1
<1>1. Len(s) \in Nat
  BY LenProperties
<1>2. Append(s, p) \in Seq(Pictures) /\ Len(Append(s, p)) = Len(s) + 1
  BY AppendProperties
<1> QED
  BY <1>1, <1>2

(* What the fill of a call makes of the bitstream buffer. *)
LEMMA FilledType ==
  ASSUME TypeOK, NEW p \in Pictures
  PROVE  /\ Filled(p) \in Seq(Pictures)
         /\ Len(Filled(p)) <= Capacity[format]
         /\ Len(Filled(p)) <= Len(stream) + 1
<1>1. Capacity[format] \in Nat
  BY DEF TypeOK
<1> QED
  BY <1>1, FillKeepsType DEF TypeOK, Filled

(* The VPU takes the first picture. *)
LEMMA TailType ==
  ASSUME TypeOK, stream # << >>
  PROVE  /\ Head(stream) \in Pictures
         /\ Tail(stream) \in Seq(Pictures)
         /\ Len(stream) \in Nat /\ Len(Tail(stream)) = Len(stream) - 1
<1>1. stream \in Seq(Pictures)
  BY DEF TypeOK
<1>2. Head(stream) \in Pictures
  BY <1>1, HeadTailProperties
<1>3. Tail(stream) \in Seq(Pictures) /\ Len(Tail(stream)) = Len(stream) - 1
  BY <1>1, HeadTailProperties
<1>4. Len(stream) \in Nat
  BY <1>1, LenProperties
<1> QED
  BY <1>2, <1>3, <1>4

LEMMA FramesAreNumbers == 0 \in Frames /\ Frames \subseteq Nat
BY DEF Frames, FrameCount
-----------------------------------------------------------------------------
(* One step preserves the types, and the limit of turns. *)
LEMMA TypeStep ==
  ASSUME TypeOK, TurnsLeft, [Next]_vars
  PROVE  TypeOK' /\ TurnsLeft'
<1> USE DEF Fault, NoFault, Return, vpu
<1>1. CASE DecodeFrame
  <2>1. call + 1 \in Pictures /\ call + 1 \in 0 .. MaxCalls
    BY <1>1 DEF DecodeFrame, TypeOK, Pictures
  <2>2. stream' \in Seq(Pictures) /\ Len(stream') <= Capacity[format]
    BY <1>1, <2>1, FilledType DEF DecodeFrame, TypeOK
  <2> QED
    BY <1>1, <2>1, <2>2 DEF DecodeFrame, TypeOK, TurnsLeft
<1>2. CASE StartOneFrame
  <2>1. call \in Pictures
    BY DEF TypeOK, Pictures
  <2>2. stream' \in Seq(Pictures) /\ Len(stream') <= Capacity[format]
    BY <1>2, <2>1, FilledType DEF StartOneFrame, TypeOK
  <2> QED
    BY <1>2, <2>2 DEF StartOneFrame, TypeOK, TurnsLeft
<1>3. CASE GiveUp
  BY <1>3 DEF GiveUp, TypeOK, TurnsLeft
<1>4. CASE VpuDecode
  <2>1. stream' \in Seq(Pictures) /\ Len(stream') <= Capacity[format]
    <3>1. CASE stream' = stream
      BY <3>1 DEF TypeOK
    <3>2. CASE stream # << >> /\ stream' = Tail(stream)
      <4>1. /\ Tail(stream) \in Seq(Pictures)
            /\ Len(stream) \in Nat /\ Len(Tail(stream)) = Len(stream) - 1
        BY <3>2, TailType
      <4> QED
        BY <3>2, <4>1 DEF TypeOK
    <3> QED
      BY <1>4, <3>1, <3>2 DEF VpuDecode
  <2>2. content' \in [Frames -> Pictures] /\ kept' \subseteq Frames
    <3>1. Free \subseteq Frames
      BY FramesAreNumbers DEF Free
    <3>2. CASE content' = content /\ kept' = kept
      BY <3>2 DEF TypeOK
    <3>3. CASE stream # << >> /\ \E f \in Free :
                 /\ content' = [content EXCEPT ![f] = Head(stream)]
                 /\ kept' = kept \cup {f}
      <4>1. Head(stream) \in Pictures
        BY <3>3, TailType
      <4> QED
        BY <3>1, <3>3, <4>1 DEF TypeOK
    <3> QED
      BY <1>4, <3>2, <3>3 DEF VpuDecode
  <2> QED
    BY <1>4, <2>1, <2>2 DEF VpuDecode, TypeOK, TurnsLeft
<1>5. CASE NotEnough
  BY <1>5 DEF NotEnough, TypeOK, TurnsLeft
<1>6. CASE OutputNothing
  <2>1. loop' \in 0 .. LoopMax
    BY <1>6 DEF OutputNothing, TypeOK, TurnsLeft
  <2> QED
    BY <1>6, <2>1 DEF OutputNothing, TypeOK, TurnsLeft
<1>7. CASE OutputFrame
  <2>1. PICK f \in kept : /\ kept' = kept \ {f}
                          /\ flag' \subseteq flag \cup {f}
                          /\ shown' \in {shown,
                                         [frame |-> f, pic |-> content[f]]}
                          /\ dispClr' = f
    BY <1>7 DEF OutputFrame
  <2>2. f \in Frames /\ content[f] \in Pictures
    BY <2>1 DEF TypeOK
  <2>3. shown' \in [frame : Frames \cup {None}, pic : Pictures]
    BY <2>1, <2>2 DEF TypeOK
  <2>4. errors' \in 0 .. MaxErrors
    BY <1>7 DEF OutputFrame, TypeOK
  <2> QED
    BY <1>7, <2>1, <2>2, <2>3, <2>4 DEF OutputFrame, TypeOK, TurnsLeft
<1>8. CASE Hang
  <2>1. stream' \in Seq(Pictures) /\ Len(stream') <= Capacity[format]
    <3>1. CASE stream' = stream
      BY <3>1 DEF TypeOK
    <3>2. CASE stream # << >> /\ stream' = Tail(stream)
      <4>1. /\ Tail(stream) \in Seq(Pictures)
            /\ Len(stream) \in Nat /\ Len(Tail(stream)) = Len(stream) - 1
        BY <3>2, TailType
      <4> QED
        BY <3>2, <4>1 DEF TypeOK
    <3> QED
      BY <1>8, <3>1, <3>2 DEF Hang
  <2> QED
    BY <1>8, <2>1 DEF Hang, TypeOK, TurnsLeft
<1>9. CASE OutputRefused
  BY <1>9 DEF OutputRefused, TypeOK, TurnsLeft
<1>10. CASE UNCHANGED vars
  BY <1>10 DEF vars, TypeOK, TurnsLeft
<1> QED
  BY <1>1, <1>2, <1>3, <1>4, <1>5, <1>6, <1>7, <1>8, <1>9, <1>10
     DEF Next, LoopSteps

LEMMA TypeInvariant == Spec => [](TypeOK /\ TurnsLeft)
<1>1. Init => TypeOK /\ TurnsLeft
  <2>1. << >> \in Seq(Pictures) /\ Len(<< >>) = 0
    BY EmptySeq
  <2>2. <<0>> \in Seq(Pictures) /\ Len(<<0>>) = 1
    <3>1. 0 \in Pictures
      BY DEF Pictures
    <3> QED
      BY <3>1
  <2>3. ASSUME format \in Formats
        PROVE  0 <= Capacity[format] /\ 1 <= Capacity[format]
    <3>1. Capacity[format] \in Nat \ {0}
      BY <2>3
    <3> QED
      BY <3>1
  <2>4. format \in Formats /\ (stream = << >> \/ stream = <<0>>)
          => stream \in Seq(Pictures) /\ Len(stream) <= Capacity[format]
    BY <2>1, <2>2, <2>3
  <2>5. Init => stream \in Seq(Pictures) /\ Len(stream) <= Capacity[format]
    BY <2>4 DEF Init
  <2> QED
    BY <2>5, FramesAreNumbers DEF Init, TypeOK, TurnsLeft, Pictures
<1>2. TypeOK /\ TurnsLeft /\ [Next]_vars => TypeOK' /\ TurnsLeft'
  BY TypeStep
<1> QED
  BY <1>1, <1>2, PTL DEF Spec

(* The state that the code keeps of an open decoder, and the state of the  *)
(* VPU, keep to their types.                                               *)
THEOREM TypeCorrect == Spec => []TypeOK
BY TypeInvariant, PTL
-----------------------------------------------------------------------------
(* The buffers whose flag nobody remembers: disp_clr_index names another.  *)
Lost == flag \ {dispClr}

(* Motion JPEG uses no flags, and a buffer is lost only by a failure.      *)
FlagsInv ==
  /\ format = "MJPEG" => flag = {}
  /\ Cardinality(Lost) <= errors

(* The buffer that the turn itself may still add to those the VPU keeps.   *)
Turn == IF pc = "output" THEN 0 ELSE 1

(* The lost buffers and those the VPU keeps leave room: a decoding adds a  *)
(* kept buffer, a report without display proves that there were fewer than *)
(* the minimum, a failed call moves a buffer from kept to lost, and a      *)
(* failed clearing loses the buffer displayed before.                      *)
RoomInv ==
  format = "H264AVC" =>
    Cardinality(kept) + Cardinality(Lost) + Turn <= MinFb + errors

LEMMA FramesFinite ==
  IsFiniteSet(Frames) /\ Cardinality(Frames) = MinFb + 2
<1>1. MinFb + 1 \in Int /\ ~(0 > MinFb + 1) /\ (MinFb + 1) - 0 + 1 = MinFb + 2
  OBVIOUS
<1>2. /\ IsFiniteSet(0 .. MinFb + 1)
      /\ Cardinality(0 .. MinFb + 1)
           = IF 0 > MinFb + 1 THEN 0 ELSE (MinFb + 1) - 0 + 1
  BY <1>1, FS_Interval
<1>3. Frames = 0 .. MinFb + 1
  BY DEF Frames, FrameCount
<1> QED
  BY <1>1, <1>2, <1>3

LEMMA SubsetOfFrames ==
  ASSUME NEW S, S \subseteq Frames
  PROVE  IsFiniteSet(S) /\ Cardinality(S) \in Nat
<1>1. IsFiniteSet(S)
  BY FramesFinite, FS_Subset
<1> QED
  BY <1>1, FS_CardinalityType

LEMMA CardinalityMonotone ==
  ASSUME NEW T, T \subseteq Frames, NEW S, S \subseteq T
  PROVE  Cardinality(S) <= Cardinality(T)
BY SubsetOfFrames, FS_Subset

LEMMA CardinalityOneMore ==
  ASSUME NEW T, T \subseteq Frames, NEW f \in Frames, NEW S,
         S \subseteq T \cup {f}
  PROVE  Cardinality(S) <= Cardinality(T) + 1
<1>1. IsFiniteSet(T) /\ Cardinality(T) \in Nat
  BY SubsetOfFrames
<1>2. Cardinality(T \cup {f}) = IF f \in T THEN Cardinality(T)
                                           ELSE Cardinality(T) + 1
  BY <1>1, FS_AddElement
<1>3. Cardinality(S) <= Cardinality(T \cup {f})
  BY CardinalityMonotone
<1>4. Cardinality(S) \in Nat
  BY SubsetOfFrames
<1> QED
  BY <1>1, <1>2, <1>3, <1>4

LEMMA CardinalityOneLess ==
  ASSUME NEW S, S \subseteq Frames, NEW f \in S
  PROVE  Cardinality(S \ {f}) = Cardinality(S) - 1
BY SubsetOfFrames, FS_RemoveElement
-----------------------------------------------------------------------------
(* What a step does to the lost buffers: one more at most, for a failure.  *)
LEMMA LostStep ==
  ASSUME TypeOK, FlagsInv, [Next]_vars
  PROVE  /\ format' = format
         /\ format' = "MJPEG" => flag' = {}
         /\ errors' \in Nat
         /\ \/ Lost' \subseteq Lost /\ errors <= errors'
            \/ \E g \in Frames : /\ Lost' \subseteq Lost \cup {g}
                                /\ errors + 1 <= errors'
<1>0. errors \in Nat /\ kept \subseteq Frames /\ dispClr \in Frames
  BY DEF TypeOK
<1> USE DEF Fault, NoFault, Return, vpu, Lost
<1>1. CASE /\ UNCHANGED <<flag, dispClr, format>>
           /\ errors' \in {errors, errors + 1}
  BY <1>0, <1>1 DEF FlagsInv
<1>2. CASE OutputNothing
  <2>1. format' = format /\ format # "MJPEG" /\ Lost' \subseteq Lost
    BY <1>2 DEF OutputNothing
  <2>2. errors' \in {errors, errors + 1}
    BY <1>2 DEF OutputNothing
  <2> QED
    BY <1>0, <2>1, <2>2
<1>3. CASE OutputFrame
  <2>1. PICK f \in kept, unwritten \in {0, 1}, uncleared \in {0, 1} :
          /\ format = "MJPEG" => uncleared = 0
          /\ errors' = errors + unwritten + uncleared
          /\ flag' = IF format = "MJPEG" THEN flag
                     ELSE IF uncleared = 1 THEN flag \cup {f}
                     ELSE (flag \cup {f}) \ {dispClr}
          /\ dispClr' = f /\ format' = format
    BY <1>3 DEF OutputFrame
  <2>2. format' = "MJPEG" => flag' = {}
    BY <2>1 DEF FlagsInv
  <2>3. errors' \in Nat /\ errors <= errors'
    BY <1>0, <2>1
  <2>4. CASE uncleared = 0
    <3>1. Lost' \subseteq Lost
      BY <2>1, <2>4 DEF FlagsInv
    <3> QED
      BY <2>1, <2>2, <2>3, <3>1
  <2>5. CASE uncleared = 1
    <3>1. Lost' \subseteq Lost \cup {dispClr}
      BY <2>1, <2>5
    <3>2. errors + 1 <= errors'
      BY <1>0, <2>1, <2>5
    <3> QED
      BY <1>0, <2>1, <2>2, <2>3, <3>1, <3>2
  <2> QED
    BY <2>1, <2>4, <2>5
<1>4. CASE OutputRefused
  <2>1. format' = format /\ dispClr' = dispClr /\ errors' = errors + 1
    BY <1>4 DEF OutputRefused
  <2>2. format' = "MJPEG" => flag' = {}
    BY <1>4 DEF OutputRefused, FlagsInv
  <2>3. CASE flag' = flag
    BY <1>0, <2>1, <2>2, <2>3
  <2>4. ASSUME NEW f \in kept, flag' \subseteq flag \cup {f}
        PROVE  \E g \in Frames : Lost' \subseteq Lost \cup {g}
    BY <1>0, <2>1, <2>4
  <2>5. flag' = flag \/ \E f \in kept : flag' \subseteq flag \cup {f}
    BY <1>4 DEF OutputRefused
  <2> QED
    BY <1>0, <2>1, <2>2, <2>3, <2>4, <2>5
<1>5. DecodeFrame \/ StartOneFrame \/ GiveUp \/ VpuDecode \/ NotEnough \/ Hang
        \/ UNCHANGED vars
      => UNCHANGED <<flag, dispClr, format>> /\ errors' \in {errors, errors + 1}
  BY DEF DecodeFrame, StartOneFrame, GiveUp, VpuDecode, NotEnough, Hang, vars
<1> QED
  BY <1>1, <1>2, <1>3, <1>4, <1>5 DEF Next, LoopSteps

(* A step loses no more buffers than it counts failures. *)
LEMMA LostCount ==
  ASSUME TypeOK, FlagsInv, [Next]_vars
  PROVE  /\ errors \in Nat /\ errors' \in Nat
         /\ Cardinality(Lost) \in Nat /\ Cardinality(Lost') \in Nat
         /\ Cardinality(Lost') - Cardinality(Lost) <= errors' - errors
<1>1. Lost \subseteq Frames /\ errors \in Nat
  BY DEF Lost, TypeOK
<1>2. Cardinality(Lost) \in Nat /\ errors' \in Nat
  BY <1>1, SubsetOfFrames, LostStep
<1>3. CASE Lost' \subseteq Lost /\ errors <= errors'
  <2>1. Lost' \subseteq Frames
    BY <1>1, <1>3
  <2>2. Cardinality(Lost') \in Nat /\ Cardinality(Lost') <= Cardinality(Lost)
    BY <1>1, <1>3, <2>1, CardinalityMonotone, SubsetOfFrames
  <2> QED
    BY <1>1, <1>2, <1>3, <2>2
<1>4. ASSUME NEW g \in Frames, Lost' \subseteq Lost \cup {g},
             errors + 1 <= errors'
      PROVE  /\ Cardinality(Lost') \in Nat
             /\ Cardinality(Lost') - Cardinality(Lost) <= errors' - errors
  <2>1. Lost' \subseteq Frames
    BY <1>1, <1>4
  <2>2. Cardinality(Lost') \in Nat
    BY <2>1, SubsetOfFrames
  <2>3. Cardinality(Lost') <= Cardinality(Lost) + 1
    BY <1>1, <1>4, CardinalityOneMore
  <2> QED
    BY <1>1, <1>2, <1>4, <2>2, <2>3
<1> QED
  BY <1>1, <1>2, <1>3, <1>4, LostStep

LEMMA FlagsStep ==
  ASSUME TypeOK, FlagsInv, [Next]_vars
  PROVE  FlagsInv'
<1>1. Cardinality(Lost) <= errors
  BY DEF FlagsInv
<1>2. Cardinality(Lost') <= errors'
  BY <1>1, LostCount
<1> QED
  BY <1>2, LostStep DEF FlagsInv

LEMMA FlagsInvariant == Spec => []FlagsInv
<1>1. Init => FlagsInv
  BY FS_EmptySet DEF Init, FlagsInv, Lost
<1>2. TypeOK /\ FlagsInv /\ [Next]_vars => FlagsInv'
  BY FlagsStep
<1> QED
  BY <1>1, <1>2, TypeInvariant, PTL DEF Spec

(* A display flag is cleared in the end because dec->disp_clr_index        *)
(* remembers it (vpu_decode.c:1032 to 1038): the buffers that stay flagged *)
(* for good are no more than the steps that failed, a clearing that is     *)
(* only logged included.                                                   *)
THEOREM FlagsAreAccounted == Spec => []FlagsAccounted
<1>1. FlagsInv => FlagsAccounted
  BY DEF FlagsInv, FlagsAccounted, Lost
<1> QED
  BY <1>1, FlagsInvariant, PTL
-----------------------------------------------------------------------------
LEMMA RoomStep ==
  ASSUME TypeOK, TurnsLeft, FlagsInv, RoomInv, [Next]_vars
  PROVE  RoomInv'
<1> SUFFICES ASSUME format' = "H264AVC"
             PROVE  Cardinality(kept') + Cardinality(Lost') + Turn'
                      <= MinFb + errors'
  BY DEF RoomInv
<1>1. format = "H264AVC"
  BY LostStep
<1>2. kept \subseteq Frames /\ Cardinality(kept) \in Nat
  BY SubsetOfFrames DEF TypeOK
<1>3. /\ errors \in Nat /\ errors' \in Nat
      /\ Cardinality(Lost) \in Nat /\ Cardinality(Lost') \in Nat
      /\ Cardinality(Lost') - Cardinality(Lost) <= errors' - errors
  BY LostCount
<1>4. Cardinality(kept) + Cardinality(Lost) + Turn <= MinFb + errors
  BY <1>1 DEF RoomInv
<1>5. Turn \in {0, 1} /\ Turn' \in {0, 1}
  BY DEF Turn
<1>6. ASSUME Cardinality(kept') \in Nat,
             Cardinality(kept') + Turn' <= Cardinality(kept) + Turn
      PROVE  Cardinality(kept') + Cardinality(Lost') + Turn'
               <= MinFb + errors'
  BY <1>2, <1>3, <1>4, <1>5, <1>6
<1> USE DEF Fault, NoFault, Return, vpu
<1>7. CASE VpuDecode
  <2>1. Turn = 1
    BY <1>7 DEF VpuDecode, Turn
  <2>2. CASE kept' = kept
    BY <1>2, <1>5, <1>6, <2>1, <2>2
  <2>3. ASSUME NEW f \in Free, kept' = kept \cup {f}, pc' = "output"
        PROVE  Cardinality(kept') + Cardinality(Lost') + Turn'
                 <= MinFb + errors'
    <3>1. f \in Frames /\ f \notin kept
      BY <1>1, <2>3 DEF Free
    <3>2. Cardinality(kept') = Cardinality(kept) + 1
      BY <1>2, <2>3, <3>1, SubsetOfFrames, FS_AddElement
    <3>3. Turn' = 0
      BY <2>3 DEF Turn
    <3> QED
      BY <1>2, <1>6, <2>1, <3>2, <3>3
  <2> QED
    BY <1>7, <2>2, <2>3 DEF VpuDecode
<1>8. CASE OutputNothing
  <2>1. kept' = kept /\ Cardinality(kept) < MinFb
    BY <1>8 DEF OutputNothing
  <2>2. FlagsInv'
    BY FlagsStep
  <2>3. Cardinality(Lost') <= errors'
    BY <2>2 DEF FlagsInv
  <2>4. Cardinality(kept) + 1 <= MinFb
    BY <1>2, <2>1
  <2> QED
    BY <1>2, <1>3, <1>5, <2>1, <2>3, <2>4
<1>9. CASE OutputFrame
  <2>1. PICK f \in kept : kept' = kept \ {f}
    BY <1>9 DEF OutputFrame
  <2>2. Turn = 0
    BY <1>9 DEF OutputFrame, Turn
  <2>3. Cardinality(kept') = Cardinality(kept) - 1
    BY <1>2, <2>1, CardinalityOneLess
  <2>4. Cardinality(kept') \in Nat
    BY <1>2, <2>1, SubsetOfFrames
  <2> QED
    BY <1>2, <1>5, <1>6, <2>2, <2>3, <2>4
<1>10. CASE OutputRefused
  <2>1. Turn = 0 /\ errors' = errors + 1
    BY <1>10 DEF OutputRefused, Turn
  <2>2. CASE UNCHANGED <<flag, kept>>
    <3>1. Lost' = Lost /\ kept' = kept
      BY <1>10, <2>2 DEF OutputRefused, Lost
    <3> QED
      BY <1>2, <1>3, <1>4, <1>5, <2>1, <3>1
  <2>3. ASSUME NEW f \in kept, kept' = kept \ {f}
        PROVE  Cardinality(kept') + Cardinality(Lost') + Turn'
                 <= MinFb + errors'
    <3>1. Cardinality(kept') = Cardinality(kept) - 1
      BY <1>2, <2>3, CardinalityOneLess
    <3>2. Cardinality(kept') \in Nat
      BY <1>2, <2>3, SubsetOfFrames
    <3> QED
      BY <1>2, <1>5, <1>6, <2>1, <3>1, <3>2
  <2> QED
    BY <1>10, <2>2, <2>3 DEF OutputRefused
<1>11. CASE \/ DecodeFrame \/ StartOneFrame \/ GiveUp \/ NotEnough \/ Hang
            \/ UNCHANGED vars
  <2>1. kept' = kept /\ (pc = "output") = (pc' = "output")
    BY <1>11 DEF DecodeFrame, StartOneFrame, GiveUp, NotEnough, Hang, vars
  <2>2. Turn' = Turn
    BY <2>1 DEF Turn
  <2> QED
    BY <1>2, <1>5, <1>6, <2>1, <2>2
<1> QED
  BY <1>7, <1>8, <1>9, <1>10, <1>11 DEF Next, LoopSteps

LEMMA RoomInvariant == Spec => [](TypeOK /\ RoomInv /\ FlagsInv)
<1>1. Init => RoomInv
  <2>1. ASSUME Init PROVE Cardinality(kept) = 0 /\ Cardinality(Lost) = 0
    BY <2>1, FS_EmptySet DEF Init, Lost
  <2>2. Init => Turn = 1 /\ errors = 0
    BY DEF Init, Turn
  <2> QED
    BY <2>1, <2>2 DEF RoomInv
<1>2. TypeOK /\ TurnsLeft /\ FlagsInv /\ RoomInv /\ [Next]_vars => RoomInv'
  BY RoomStep
<1> QED
  BY <1>1, <1>2, TypeInvariant, FlagsInvariant, PTL DEF Spec

(* The two buffers that decoder_parse adds to the minimum (vpu_decode.c:   *)
(* 484) are enough: whenever the VPU works on an H.264 picture, two        *)
(* buffers are free, less those that failures have lost.                   *)
THEOREM DecoderNeverStarves == Spec => []NeverStarved
<1>1. ASSUME TypeOK, RoomInv, pc = "busy", format = "H264AVC"
      PROVE  Cardinality(Free) + errors >= 2
  <2> DEFINE Used == flag \cup kept
  <2>1. /\ Lost \subseteq Frames /\ kept \subseteq Frames /\ errors \in Nat
        /\ Used \subseteq Frames /\ dispClr \in Frames
    BY <1>1 DEF Lost, TypeOK
  <2>2. Cardinality(kept) + Cardinality(Lost) + 1 <= MinFb + errors
    BY <1>1 DEF RoomInv, Turn
  <2>3. /\ Cardinality(kept) \in Nat /\ Cardinality(Lost) \in Nat
        /\ Cardinality(Used) \in Nat
    BY <2>1, SubsetOfFrames
  <2>4. Cardinality(Used) <= Cardinality(kept \cup Lost) + 1
    <3>1. Used \subseteq (kept \cup Lost) \cup {dispClr}
      BY DEF Lost
    <3>2. kept \cup Lost \subseteq Frames
      BY <2>1
    <3> QED
      BY <2>1, <3>1, <3>2, CardinalityOneMore
  <2>5. Cardinality(kept \cup Lost) <= Cardinality(kept) + Cardinality(Lost)
    <3>1. IsFiniteSet(kept) /\ IsFiniteSet(Lost)
      BY <2>1, SubsetOfFrames
    <3>2. Cardinality(kept \cup Lost)
            = Cardinality(kept) + Cardinality(Lost)
                - Cardinality(kept \cap Lost)
      BY <3>1, FS_Union
    <3>3. Cardinality(kept \cap Lost) \in Nat
      <4>1. kept \cap Lost \subseteq Frames
        BY <2>1
      <4> QED
        BY <4>1, SubsetOfFrames
    <3> QED
      BY <2>3, <3>2, <3>3
  <2>6. Cardinality(kept \cup Lost) \in Nat
    <3>1. kept \cup Lost \subseteq Frames
      BY <2>1
    <3> QED
      BY <3>1, SubsetOfFrames
  <2>7. Cardinality(Free) = MinFb + 2 - Cardinality(Used)
    <3>1. Free = Frames \ Used /\ Frames \cap Used = Used
      BY <1>1, <2>1 DEF Free
    <3>2. Cardinality(Frames \ Used)
            = Cardinality(Frames) - Cardinality(Frames \cap Used)
      BY FramesFinite, FS_Difference
    <3>3. Cardinality(Free) = Cardinality(Frames) - Cardinality(Used)
      BY <3>1, <3>2, Zenon
    <3> HIDE DEF Used
    <3> QED
      BY <2>3, <3>3, FramesFinite
  <2> HIDE DEF Used
  <2> QED
    BY <2>1, <2>2, <2>3, <2>4, <2>5, <2>6, <2>7
<1>2. TypeOK /\ RoomInv => NeverStarved
  BY <1>1 DEF NeverStarved
<1> QED
  BY <1>2, RoomInvariant, PTL
-----------------------------------------------------------------------------
(* Motion JPEG.  How many pictures wait where the call is: decoder_open    *)
(* has left one at most and each failed call two, and the call at work     *)
(* adds its own until the VPU has taken one.                               *)
LagInv ==
  format = "MJPEG" =>
    /\ pc \in {"idle", "output"} => Len(stream) <= 2 * errors + 1
    /\ pc \in {"start", "busy"} => Len(stream) <= 2 * errors + 2
    /\ pc = "short" => stream = << >>
    /\ pc # "idle" => loop = 0

LEMMA InitialLag == Init => LagInv
<1> SUFFICES ASSUME Init PROVE LagInv
  OBVIOUS
<1>1. pc = "idle" /\ errors = 0
  BY DEF Init
<1>2. stream = << >> \/ stream = <<0>>
  BY DEF Init
<1>3. Len(<< >>) = 0 /\ Len(<<0>>) = 1
  BY EmptySeq
<1>4. Len(stream) = 0 \/ Len(stream) = 1
  BY <1>2, <1>3
<1>5. 0 <= 2 * errors + 1 /\ 1 <= 2 * errors + 1
  BY <1>1
<1>6. Len(stream) <= 2 * errors + 1
  <2>1. CASE Len(stream) = 0
    BY <2>1, <1>5, Zenon
  <2>2. CASE Len(stream) = 1
    BY <2>2, <1>5, Zenon
  <2> QED
    BY <1>4, <2>1, <2>2
<1> QED
  BY <1>1, <1>6 DEF LagInv

LEMMA LagStep ==
  ASSUME TypeOK, LagInv, [Next]_vars
  PROVE  LagInv'
<1> SUFFICES ASSUME format = "MJPEG" PROVE LagInv'
  <2>1. format' = format
    BY DEF Next, LoopSteps, DecodeFrame, StartOneFrame, GiveUp, VpuDecode,
           NotEnough, OutputNothing, OutputFrame, Hang, OutputRefused, vars
  <2> QED
    BY <2>1 DEF LagInv
<1>1. Len(stream) \in Nat /\ errors \in Nat
  BY LenProperties DEF TypeOK
<1> USE DEF Fault, NoFault, Return, vpu, LagInv
<1>2. CASE DecodeFrame
  <2>1. call + 1 \in Pictures
    BY <1>2 DEF DecodeFrame, TypeOK, Pictures
  <2>2. Filled(call + 1) \in Seq(Pictures)
        /\ Len(Filled(call + 1)) <= Len(stream) + 1
    BY <2>1, FilledType
  <2>3. Len(Filled(call + 1)) \in Nat
    BY <2>2, LenProperties
  <2> QED
    BY <1>1, <1>2, <2>2, <2>3 DEF DecodeFrame
<1>3. CASE StartOneFrame
  <2>1. call \in Pictures
    BY DEF TypeOK, Pictures
  <2>2. Filled(call) \in Seq(Pictures) /\ Len(Filled(call)) <= Len(stream) + 1
    BY <2>1, FilledType
  <2>3. Len(Filled(call)) \in Nat
    BY <2>2, LenProperties
  <2> QED
    BY <1>1, <1>3, <2>2, <2>3 DEF StartOneFrame
<1>4. CASE GiveUp
  BY <1>4 DEF GiveUp
<1>5. CASE VpuDecode
  <2>1. stream # << >> => Len(Tail(stream)) = Len(stream) - 1
    BY TailType
  <2> QED
    BY <1>1, <1>5, <2>1 DEF VpuDecode
<1>6. CASE NotEnough
  <2>1. Len(<< >>) = 0
    BY EmptySeq
  <2> QED
    BY <1>1, <1>6, <2>1 DEF NotEnough
<1>7. CASE OutputNothing
  BY <1>7 DEF OutputNothing
<1>8. CASE OutputFrame
  <2>1. PICK unwritten \in {0, 1}, uncleared \in {0, 1} :
          errors' = errors + unwritten + uncleared
    BY <1>8 DEF OutputFrame
  <2>2. 2 * errors + 1 <= 2 * errors' + 1
    BY <1>1, <2>1
  <2>3. errors' \in Nat
    BY <1>1, <2>1
  <2> QED
    BY <1>1, <1>8, <2>2, <2>3 DEF OutputFrame
<1>9. CASE Hang
  <2>1. stream # << >> => Len(Tail(stream)) = Len(stream) - 1
    BY TailType
  <2> QED
    BY <1>1, <1>9, <2>1 DEF Hang
<1>10. CASE OutputRefused
  BY <1>1, <1>10 DEF OutputRefused
<1>11. CASE UNCHANGED vars
  BY <1>11 DEF vars
<1> QED
  BY <1>2, <1>3, <1>4, <1>5, <1>6, <1>7, <1>8, <1>9, <1>10, <1>11
     DEF Next, LoopSteps

(* What a failed call leaves in the bitstream buffer delays the video for  *)
(* good (vpu_decode.c:851 to 868), by two pictures at the most, and by one *)
(* the frame that decoder_open pushed (vpu_decode.c:191).                  *)
THEOREM LagIsTwoPerFailure == Spec => []LagIsBounded
<1>1. Init => LagInv
  BY InitialLag
<1>2. TypeOK /\ LagInv /\ [Next]_vars => LagInv'
  BY LagStep
<1>3. LagInv => LagIsBounded
  BY DEF LagInv, LagIsBounded
<1> QED
  BY <1>1, <1>2, <1>3, TypeInvariant, PTL DEF Spec
-----------------------------------------------------------------------------
(* Motion JPEG without failures: the pictures in the decoder, in the       *)
(* stream or in the one frame buffer, are those of the call at work and of *)
(* the call before it.                                                     *)
OwnInv ==
  (format = "MJPEG" /\ errors = 0) =>
    /\ pc # "short"
    /\ pc \in {"idle", "output"} => stream \in {<< >>, <<call>>}
    /\ pc \in {"start", "busy"} =>
         stream \in {<<call>>, <<call - 1>>, <<call - 1, call>>}
    /\ pc \in {"idle", "start", "busy"} => kept = {}
    /\ pc = "output" => kept = {0} /\ content[0] \in {call - 1, call}
    /\ (pc = "idle" /\ call > 0) =>
         result = "frame" /\ shown.pic \in {call - 1, call}

LEMMA TwoPictures ==
  ASSUME NEW a \in Int, NEW b \in Int
  PROVE  /\ Append(<<a>>, b) = <<a, b>>
         /\ <<a>> # << >> /\ Head(<<a>>) = a /\ Tail(<<a>>) = << >>
         /\ <<a, b>> # << >> /\ Head(<<a, b>>) = a /\ Tail(<<a, b>>) = <<b>>
<1>1. Append(<<a>>, b) = <<a, b>>
  <2>1. <<a>> \in Seq(Int) /\ Len(<<a>>) = 1 /\ <<a>>[1] = a
    OBVIOUS
  <2>2. /\ Append(<<a>>, b) \in Seq(Int) /\ Len(Append(<<a>>, b)) = 2
        /\ Append(<<a>>, b)[1] = a /\ Append(<<a>>, b)[2] = b
    BY <2>1, AppendProperties
  <2>3. /\ <<a, b>> \in Seq(Int) /\ Len(<<a, b>>) = 2
        /\ <<a, b>>[1] = a /\ <<a, b>>[2] = b
    OBVIOUS
  <2>4. \A i \in 1 .. 2 : Append(<<a>>, b)[i] = <<a, b>>[i]
    BY <2>2, <2>3
  <2> QED
    BY <2>2, <2>3, <2>4, SeqEqual
<1>2. <<a>> # << >> /\ Head(<<a>>) = a /\ Tail(<<a>>) = << >>
  OBVIOUS
<1>3. <<a, b>> # << >> /\ Head(<<a, b>>) = a /\ Tail(<<a, b>>) = <<b>>
  OBVIOUS
<1> QED
  BY <1>1, <1>2, <1>3

LEMMA OwnStep ==
  ASSUME TypeOK, LagInv, OwnInv, [Next]_vars
  PROVE  OwnInv'
<1> SUFFICES ASSUME format = "MJPEG", errors = 0, errors' = 0 PROVE OwnInv'
  <2>1. errors \in Nat
    BY DEF TypeOK
  <2>2. CASE OutputFrame
    <3>1. PICK unwritten \in {0, 1}, uncleared \in {0, 1} :
            errors' = errors + unwritten + uncleared
      BY <2>2 DEF OutputFrame
    <3>2. errors' = 0 => errors = 0
      BY <2>1, <3>1
    <3>3. format' = format
      BY <2>2 DEF OutputFrame
    <3> QED
      BY <3>2, <3>3 DEF OwnInv
  <2>3. CASE format' = format /\ errors' \in {errors, errors + 1}
    BY <2>1, <2>3 DEF OwnInv
  <2>4. ~OutputFrame => format' = format /\ errors' \in {errors, errors + 1}
    BY DEF Next, LoopSteps, DecodeFrame, StartOneFrame, GiveUp, VpuDecode,
           NotEnough, OutputNothing, Hang, OutputRefused, vars, Fault, NoFault
  <2> QED
    BY <2>2, <2>3, <2>4
<1>0. call \in Nat
  BY DEF TypeOK
<1> USE DEF Fault, NoFault, Return, vpu, OwnInv
<1>1. CASE DecodeFrame
  <2>1. /\ stream \in {<< >>, <<call>>} /\ kept = {}
        /\ call' = call + 1 /\ pc' = "start"
        /\ stream' = Filled(call + 1) /\ kept' = kept
    BY <1>1, <1>0 DEF DecodeFrame, TypeOK
  <2>2. call' - 1 = call
    BY <1>0, <2>1
  <2>3. Filled(call + 1) \in {stream, Append(stream, call + 1)}
    BY DEF Filled
  <2>4. stream = << >> => Filled(call + 1) = <<call + 1>>
    <3>1. Capacity[format] \in Nat \ {0}
      BY DEF TypeOK
    <3> QED
      BY <3>1, EmptySeq DEF Filled
  <2>5. Append(<<call>>, call + 1) = <<call, call + 1>>
    <3>1. call \in Int /\ call + 1 \in Int
      BY <1>0
    <3> QED
      BY <3>1, TwoPictures
  <2>6. stream' \in {<<call'>>, <<call' - 1>>, <<call' - 1, call'>>}
    BY <2>1, <2>2, <2>3, <2>4, <2>5
  <2> QED
    BY <2>1, <2>6
<1>2. CASE StartOneFrame
  BY <1>2 DEF StartOneFrame
<1>3. CASE GiveUp
  BY <1>3 DEF GiveUp, LagInv
<1>4. CASE VpuDecode
  <2>1. /\ stream \in {<<call>>, <<call - 1>>, <<call - 1, call>>}
        /\ kept = {} /\ pc = "busy"
    BY <1>4 DEF VpuDecode
  <2>2. /\ stream # << >>
        /\ Head(stream) \in {call - 1, call}
        /\ Tail(stream) \in {<< >>, <<call>>}
    <3>1. call \in Int /\ call - 1 \in Int
      BY <1>0
    <3>2. CASE stream = <<call>>
      BY <3>1, <3>2, TwoPictures
    <3>3. CASE stream = <<call - 1>>
      BY <3>1, <3>3, TwoPictures
    <3>4. CASE stream = <<call - 1, call>>
      BY <3>1, <3>4, TwoPictures
    <3> QED
      BY <2>1, <3>2, <3>3, <3>4
  <2>3. /\ content' = [content EXCEPT ![0] = Head(stream)] /\ kept' = {0}
        /\ stream' = Tail(stream) /\ pc' = "output" /\ call' = call
    BY <1>4, <2>1, <2>2 DEF VpuDecode, Free
  <2>4. content'[0] \in {call - 1, call}
    BY <2>2, <2>3, FramesAreNumbers DEF TypeOK
  <2> QED
    BY <2>2, <2>3, <2>4
<1>5. CASE OutputFrame
  <2>1. PICK f \in kept, unwritten \in {0, 1}, uncleared \in {0, 1} :
          /\ errors' = errors + unwritten + uncleared
          /\ kept' = kept \ {f}
          /\ shown' = IF unwritten = 1 THEN shown
                      ELSE [frame |-> f, pic |-> content[f]]
    BY <1>5 DEF OutputFrame
  <2>2. unwritten = 0
    BY <2>1
  <2>3. kept = {0} /\ content[0] \in {call - 1, call} /\ f = 0
    BY <1>5, <2>1 DEF OutputFrame
  <2>4. shown'.pic \in {call - 1, call} /\ kept' = {}
    BY <2>1, <2>2, <2>3
  <2> QED
    BY <1>5, <2>4 DEF OutputFrame
<1>6. CASE NotEnough \/ OutputNothing
  BY <1>6 DEF NotEnough, OutputNothing
<1>7. CASE Hang \/ OutputRefused
  BY <1>7 DEF Hang, OutputRefused
<1>8. CASE UNCHANGED vars
  BY <1>8 DEF vars
<1> QED
  BY <1>1, <1>2, <1>3, <1>4, <1>5, <1>6, <1>7, <1>8 DEF Next, LoopSteps

(* As long as nothing fails, a motion JPEG call puts into vid_dst the very *)
(* picture it was given, or the one of the call before while the frame of  *)
(* decoder_open is in the bitstream buffer (vpu_decode.c:733 to 1058).     *)
THEOREM CallsStayCurrent == Spec => []OwnPicture
<1>1. Init => LagInv /\ OwnInv
  <2>1. Init => LagInv
    BY InitialLag
  <2>2. Init => OwnInv
    BY DEF Init, OwnInv
  <2> QED
    BY <2>1, <2>2
<1>2. TypeOK /\ LagInv /\ OwnInv /\ [Next]_vars => LagInv' /\ OwnInv'
  BY LagStep, OwnStep
<1>3. OwnInv => OwnPicture
  BY DEF OwnInv, OwnPicture
<1> QED
  BY <1>1, <1>2, <1>3, TypeInvariant, PTL DEF Spec
-----------------------------------------------------------------------------
(* How many more steps the call can take: three for each turn of the loop  *)
(* that is left, and one that gives up.                                    *)
StepsLeft ==
  IF pc = "idle" THEN 0
  ELSE 3 * (LoopMax - loop)
         + (IF pc = "start" THEN 1 ELSE IF pc = "busy" THEN 0 ELSE -1)

(* Every step of a call uses up one of the steps it has left, of which     *)
(* there are at most 3 * LoopMax + 1 when it begins.                       *)
CallIsBounded ==
  [][/\ pc # "idle" => StepsLeft' < StepsLeft
     /\ pc = "idle" => StepsLeft' <= 3 * LoopMax + 1]_vars

LEMMA BoundedStep ==
  ASSUME TypeOK, TurnsLeft, Next
  PROVE  /\ StepsLeft \in Nat
         /\ pc # "idle" => StepsLeft' < StepsLeft
         /\ pc = "idle" => StepsLeft' <= 3 * LoopMax + 1
<1>1. LoopMax \in Nat /\ loop \in 0 .. LoopMax
  BY DEF TypeOK
<1>2. StepsLeft \in Nat
  BY <1>1 DEF StepsLeft, TypeOK, TurnsLeft
<1> USE DEF Fault, NoFault, Return
<1>3. CASE DecodeFrame
  BY <1>1, <1>2, <1>3 DEF DecodeFrame, StepsLeft
<1>4. CASE StartOneFrame
  BY <1>1, <1>2, <1>4 DEF StartOneFrame, StepsLeft
<1>5. CASE GiveUp
  BY <1>1, <1>2, <1>5 DEF GiveUp, StepsLeft
<1>6. CASE VpuDecode
  BY <1>1, <1>2, <1>6 DEF VpuDecode, StepsLeft
<1>7. CASE OutputNothing
  BY <1>1, <1>2, <1>7 DEF OutputNothing, StepsLeft
<1>8. CASE NotEnough \/ OutputFrame \/ Hang \/ OutputRefused
  <2>1. pc' = "idle" /\ pc \in {"short", "output", "busy"} /\ loop < LoopMax
    BY <1>8 DEF NotEnough, OutputFrame, Hang, OutputRefused, TurnsLeft
  <2> QED BY <1>1, <2>1 DEF StepsLeft
<1> QED
  BY <1>2, <1>3, <1>4, <1>5, <1>6, <1>7, <1>8 DEF Next, LoopSteps

(* The loop of decoder_decode_frame (vpu_decode.c:851 to 1058) cannot go   *)
(* on for ever, however the VPU reports: a call is over after at most      *)
(* 3 * LoopMax + 2 steps, the first one included.                          *)
THEOREM CallsAreBounded == Spec => [](StepsLeft \in Nat) /\ CallIsBounded
<1> DEFINE Uses == /\ pc # "idle" => StepsLeft' < StepsLeft
                   /\ pc = "idle" => StepsLeft' <= 3 * LoopMax + 1
<1>1. TypeOK /\ TurnsLeft => StepsLeft \in Nat
  BY DEF TypeOK, TurnsLeft, StepsLeft
<1>2. TypeOK /\ TurnsLeft /\ [Next]_vars => [Uses]_vars
  BY BoundedStep
<1> QED
  BY <1>1, <1>2, TypeInvariant, PTL DEF Spec, CallIsBounded
-----------------------------------------------------------------------------
(* What is in the bitstream buffer after a fill: what was in it, and       *)
(* perhaps the new picture behind.                                         *)
LEMMA FilledMembers ==
  ASSUME TypeOK, NEW p \in Pictures
  PROVE  \/ Filled(p) = stream
         \/ /\ Len(Filled(p)) = Len(stream) + 1 /\ Len(stream) \in Nat
            /\ \A i \in 1 .. Len(stream) : Filled(p)[i] = stream[i]
            /\ Filled(p)[Len(stream) + 1] = p
BY AppendProperties, LenProperties DEF TypeOK, Filled

(* What is in it after the VPU has taken the first picture. *)
LEMMA TailMembers ==
  ASSUME TypeOK, stream # << >>
  PROVE  /\ Len(Tail(stream)) = Len(stream) - 1 /\ Len(stream) \in Nat
         /\ \A i \in 1 .. Len(stream) - 1 : Tail(stream)[i] = stream[i + 1]
         /\ Head(stream) = stream[1] /\ 1 \in 1 .. Len(stream)
<1>1. stream \in Seq(Pictures)
  BY DEF TypeOK
<1> QED
  BY <1>1, HeadTailProperties, LenProperties, EmptySeq

LEMMA MembersArePictures ==
  ASSUME TypeOK
  PROVE  /\ Len(stream) \in Nat /\ call \in Nat /\ shown.pic \in Nat
         /\ \A i \in 1 .. Len(stream) : stream[i] \in Nat
         /\ \A f \in kept : content[f] \in Nat /\ f \in Frames
<1>1. stream \in Seq(Pictures) /\ Pictures \subseteq Nat
  BY DEF TypeOK, Pictures
<1>2. \A i \in 1 .. Len(stream) : stream[i] \in Nat
  BY <1>1, ElementOfSeq
<1>3. Len(stream) \in Nat
  BY <1>1, LenProperties
<1>4. shown.pic \in Nat /\ call \in Nat
  <2>1. shown \in [frame : Frames \cup {None}, pic : Pictures]
    BY DEF TypeOK
  <2>2. call \in Nat
    BY DEF TypeOK
  <2> QED BY <1>1, <2>1, <2>2
<1>5. \A f \in kept : content[f] \in Nat /\ f \in Frames
  BY <1>1 DEF TypeOK
<1> QED BY <1>2, <1>3, <1>4, <1>5

(* The pictures of motion JPEG, from the one shown last to the newest in   *)
(* the bitstream buffer, are in the order in which they came.              *)
OrderInv ==
  format = "MJPEG" =>
    /\ shown.pic <= call
    /\ \A i \in 1 .. Len(stream) : shown.pic <= stream[i] /\ stream[i] <= call
    /\ \A i, j \in 1 .. Len(stream) : i <= j => stream[i] <= stream[j]
    /\ \A f \in kept : /\ f = 0 /\ shown.pic <= content[0] /\ content[0] <= call
                       /\ \A i \in 1 .. Len(stream) : content[0] <= stream[i]

(* Whatever fails and is pushed once more, motion JPEG never shows a       *)
(* picture after a later one.                                              *)
PicturesInOrder == [][format = "MJPEG" => shown.pic <= shown'.pic]_vars

(* A fill puts the newest picture behind the others. *)
LEMMA OrderAfterFill ==
  ASSUME TypeOK, OrderInv, format = "MJPEG", NEW p \in Pictures, call <= p,
         stream' = Filled(p), UNCHANGED <<format, shown, kept, content>>,
         call' = p
  PROVE  OrderInv'
<1>1. CASE Filled(p) = stream
  BY <1>1, MembersArePictures DEF OrderInv, Pictures
<1>2. CASE /\ Len(Filled(p)) = Len(stream) + 1
           /\ \A i \in 1 .. Len(stream) : Filled(p)[i] = stream[i]
           /\ Filled(p)[Len(stream) + 1] = p
  <2>1. /\ Len(stream) \in Nat /\ call \in Nat /\ shown.pic \in Nat /\ p \in Nat
        /\ \A i \in 1 .. Len(stream) : stream[i] \in Nat
        /\ \A f \in kept : content[f] \in Nat
    BY MembersArePictures DEF Pictures
  <2>2. \A i \in 1 .. Len(stream') :
          \/ i \in 1 .. Len(stream) /\ stream'[i] = stream[i]
          \/ i = Len(stream) + 1 /\ stream'[i] = p
    BY <1>2, <2>1
  <2>3. shown'.pic <= call'
    BY <2>1 DEF OrderInv
  <2>4. \A i \in 1 .. Len(stream') : shown'.pic <= stream'[i] /\ stream'[i] <= call'
    BY <2>1, <2>2 DEF OrderInv
  <2>5. \A i, j \in 1 .. Len(stream') : i <= j => stream'[i] <= stream'[j]
    BY <2>1, <2>2 DEF OrderInv
  <2>6. \A f \in kept' : /\ f = 0 /\ shown'.pic <= content'[0] /\ content'[0] <= call'
                         /\ \A i \in 1 .. Len(stream') : content'[0] <= stream'[i]
    BY <2>1, <2>2 DEF OrderInv
  <2> QED BY <2>3, <2>4, <2>5, <2>6 DEF OrderInv
<1> QED BY <1>1, <1>2, FilledMembers

(* What is taken out of the bitstream buffer leaves the rest in order. *)
LEMMA OrderAfterTake ==
  ASSUME TypeOK, OrderInv, format = "MJPEG", stream # << >>,
         stream' = Tail(stream), UNCHANGED <<format, shown, call>>,
         \/ UNCHANGED <<kept, content>>
         \/ /\ content' = [content EXCEPT ![0] = Head(stream)]
            /\ kept' = kept \cup {0}
  PROVE  OrderInv'
<1>1. /\ Len(stream) \in Nat /\ call \in Nat /\ shown.pic \in Nat
      /\ \A i \in 1 .. Len(stream) : stream[i] \in Nat
      /\ \A f \in kept : content[f] \in Nat
  BY MembersArePictures
<1>2. /\ Len(stream') = Len(stream) - 1 /\ Head(stream) = stream[1]
      /\ 1 \in 1 .. Len(stream)
      /\ \A i \in 1 .. Len(stream') : /\ i + 1 \in 1 .. Len(stream)
                                      /\ stream'[i] = stream[i + 1]
  BY <1>1, TailMembers
<1>3. \A i \in 1 .. Len(stream') : shown'.pic <= stream'[i] /\ stream'[i] <= call'
  BY <1>1, <1>2 DEF OrderInv
<1>4. \A i, j \in 1 .. Len(stream') : i <= j => stream'[i] <= stream'[j]
  <2> SUFFICES ASSUME NEW i \in 1 .. Len(stream'), NEW j \in 1 .. Len(stream'),
                      i <= j
               PROVE  stream'[i] <= stream'[j]
    OBVIOUS
  <2>1. i + 1 \in 1 .. Len(stream) /\ j + 1 \in 1 .. Len(stream) /\ i + 1 <= j + 1
    BY <1>1, <1>2
  <2> QED BY <1>2, <2>1 DEF OrderInv
<1>5. ASSUME NEW f \in kept'
      PROVE  /\ f = 0 /\ shown'.pic <= content'[0] /\ content'[0] <= call'
             /\ \A i \in 1 .. Len(stream') : content'[0] <= stream'[i]
  <2>1. CASE UNCHANGED <<kept, content>>
    BY <1>1, <1>2, <1>5, <2>1 DEF OrderInv
  <2>2. CASE /\ content' = [content EXCEPT ![0] = Head(stream)]
             /\ kept' = kept \cup {0}
    <3>1. content'[0] = stream[1] /\ f = 0
      BY <1>2, <1>5, <2>2, FramesAreNumbers DEF OrderInv, TypeOK
    <3>2. \A i \in 1 .. Len(stream') : stream[1] <= stream'[i]
      <4> SUFFICES ASSUME NEW i \in 1 .. Len(stream') PROVE stream[1] <= stream'[i]
        OBVIOUS
      <4>1. i + 1 \in 1 .. Len(stream) /\ 1 <= i + 1 /\ stream'[i] = stream[i + 1]
        BY <1>1, <1>2
      <4> QED BY <1>2, <4>1 DEF OrderInv
    <3> QED BY <1>2, <3>1, <3>2 DEF OrderInv
  <2> QED BY <2>1, <2>2
<1> QED BY <1>1, <1>3, <1>4, <1>5 DEF OrderInv

(* The picture that is shown is the one decoded: older than all that wait, *)
(* and newer than all that were shown.                                     *)
LEMMA OrderStep ==
  ASSUME TypeOK, OrderInv, [Next]_vars
  PROVE  OrderInv' /\ (format = "MJPEG" => shown.pic <= shown'.pic)
<1>1. format' = format
  BY DEF Next, LoopSteps, DecodeFrame, StartOneFrame, GiveUp, VpuDecode,
         NotEnough, OutputNothing, OutputFrame, Hang, OutputRefused, vars
<1> SUFFICES ASSUME format = "MJPEG" PROVE OrderInv' /\ shown.pic <= shown'.pic
  BY <1>1 DEF OrderInv
<1>2. /\ call \in Pictures /\ shown.pic \in Nat /\ call <= call
      /\ \A f \in kept : content[f] \in Nat /\ f \in Frames
  BY MembersArePictures DEF TypeOK, Pictures
<1> USE DEF Fault, NoFault, Return, vpu
<1>3. CASE UNCHANGED <<format, call, stream, kept, content, shown>>
  BY <1>2, <1>3 DEF OrderInv
<1>4. CASE DecodeFrame
  <2>1. call + 1 \in Pictures /\ call <= call + 1 /\ call' = call + 1
        /\ UNCHANGED <<format, shown, kept, content>>
    BY <1>4 DEF DecodeFrame, TypeOK, Pictures
  <2>2. CASE stream' = Filled(call + 1)
    BY <1>2, <2>1, <2>2, OrderAfterFill
  <2>3. CASE stream' = stream
    BY <1>2, <2>1, <2>3, MembersArePictures DEF OrderInv
  <2> QED BY <1>4, <2>2, <2>3 DEF DecodeFrame
<1>5. CASE StartOneFrame
  <2>1. UNCHANGED <<format, call, shown, kept, content>>
    BY <1>5 DEF StartOneFrame
  <2>2. CASE stream' = Filled(call)
    BY <1>2, <2>1, <2>2, OrderAfterFill
  <2>3. CASE stream' = stream
    BY <2>1, <2>3, <1>3
  <2> QED BY <1>5, <2>2, <2>3 DEF StartOneFrame
<1>6. CASE VpuDecode
  <2>1. UNCHANGED <<format, call, shown>>
    BY <1>6 DEF VpuDecode
  <2>2. CASE UNCHANGED <<stream, kept, content>>
    BY <2>1, <2>2, <1>3
  <2>3. CASE /\ stream # << >> /\ stream' = Tail(stream)
             /\ content' = [content EXCEPT ![0] = Head(stream)]
             /\ kept' = kept \cup {0}
    BY <1>2, <2>1, <2>3, OrderAfterTake
  <2> QED BY <1>6, <2>2, <2>3 DEF VpuDecode, Free
<1>7. CASE Hang
  <2>1. UNCHANGED <<format, call, shown, kept, content>>
    BY <1>7 DEF Hang
  <2>2. CASE stream # << >> /\ stream' = Tail(stream)
    BY <1>2, <2>1, <2>2, OrderAfterTake
  <2> QED BY <1>7, <2>1, <2>2, <1>3 DEF Hang
<1>8. CASE OutputRefused
  <2>1. UNCHANGED <<format, call, stream, content, shown>> /\ kept' \subseteq kept
    BY <1>8 DEF OutputRefused
  <2> QED BY <1>2, <2>1 DEF OrderInv
<1>9. CASE OutputFrame
  <2>1. PICK f \in kept :
          /\ kept' = kept \ {f}
          /\ shown' \in {shown, [frame |-> f, pic |-> content[f]]}
          /\ UNCHANGED <<format, call, stream, content>>
    BY <1>9 DEF OutputFrame
  <2>2. f = 0 /\ kept' = {} /\ shown'.pic \in {shown.pic, content[0]}
    BY <2>1 DEF OrderInv
  <2>3. /\ shown.pic <= content[0] /\ content[0] <= call
        /\ \A i \in 1 .. Len(stream) : content[0] <= stream[i]
    BY <2>1, <2>2 DEF OrderInv
  <2>4. CASE shown'.pic = shown.pic
    BY <1>2, <2>1, <2>2, <2>4 DEF OrderInv
  <2>5. CASE shown'.pic = content[0]
    BY <2>1, <2>2, <2>3, <2>5 DEF OrderInv
  <2> QED BY <2>2, <2>4, <2>5
<1>10. GiveUp \/ NotEnough \/ OutputNothing \/ UNCHANGED vars
         => UNCHANGED <<format, call, stream, kept, content, shown>>
  BY DEF GiveUp, NotEnough, OutputNothing, vars
<1> QED
  BY <1>3, <1>4, <1>5, <1>6, <1>7, <1>8, <1>9, <1>10 DEF Next, LoopSteps

(* Whatever fails and is pushed once more (vpu_decode.c:733 to 1058), the  *)
(* pictures of motion JPEG come out in the order in which they went in.    *)
THEOREM PicturesStayInOrder == Spec => PicturesInOrder
<1> DEFINE Forward == format = "MJPEG" => shown.pic <= shown'.pic
<1>1. Init => OrderInv
  <2> SUFFICES ASSUME Init PROVE OrderInv
    OBVIOUS
  <2>1. call = 0 /\ kept = {} /\ shown.pic = 0 /\ stream \in {<< >>, <<0>>}
    BY DEF Init
  <2>2. CASE stream = << >>
    BY <2>1, <2>2 DEF OrderInv
  <2>3. CASE stream = <<0>>
    BY <2>1, <2>3 DEF OrderInv
  <2> QED BY <2>1, <2>2, <2>3
<1>2. TypeOK /\ OrderInv /\ [Next]_vars => OrderInv' /\ [Forward]_vars
  BY OrderStep
<1> QED
  BY <1>1, <1>2, TypeInvariant, PTL DEF Spec, PicturesInOrder

(* The pictures of H.264 are all different: those in the bitstream buffer, *)
(* those decoded and the one shown last.                                   *)
DistinctInv ==
  format = "H264AVC" =>
    /\ \A i \in 1 .. Len(stream) : stream[i] <= call
    /\ \A i, j \in 1 .. Len(stream) : stream[i] = stream[j] => i = j
    /\ \A f \in kept : /\ content[f] <= call
                       /\ \A i \in 1 .. Len(stream) : content[f] # stream[i]
    /\ \A f, g \in kept : content[f] = content[g] => f = g
    /\ shown.frame # None => shown.pic <= call

(* The picture of H.264 written last is in no buffer the VPU may still     *)
(* report.                                                                 *)
ShownOnce ==
  (format = "H264AVC" /\ shown.frame # None) =>
    /\ \A i \in 1 .. Len(stream) : stream[i] # shown.pic
    /\ \A f \in kept : content[f] # shown.pic

(* A fill brings a picture that is new. *)
LEMMA DistinctAfterFill ==
  ASSUME TypeOK, DistinctInv, ShownOnce, format = "H264AVC",
         NEW p \in Pictures, call < p,
         stream' = Filled(p), UNCHANGED <<format, shown, kept, content>>,
         call' = p
  PROVE  DistinctInv' /\ ShownOnce'
<1>1. /\ Len(stream) \in Nat /\ call \in Nat /\ shown.pic \in Nat /\ p \in Nat
      /\ \A i \in 1 .. Len(stream) : stream[i] \in Nat
      /\ \A f \in kept : content[f] \in Nat
  BY MembersArePictures DEF Pictures
<1>2. \A i \in 1 .. Len(stream') :
        \/ i \in 1 .. Len(stream) /\ stream'[i] = stream[i]
        \/ i = Len(stream) + 1 /\ stream'[i] = p
  BY <1>1, FilledMembers
<1>3. \A i \in 1 .. Len(stream') : stream'[i] <= call'
  BY <1>1, <1>2 DEF DistinctInv
<1>4. \A i, j \in 1 .. Len(stream') : stream'[i] = stream'[j] => i = j
  BY <1>1, <1>2 DEF DistinctInv
<1>5. \A f \in kept' : /\ content'[f] <= call'
                       /\ \A i \in 1 .. Len(stream') : content'[f] # stream'[i]
  BY <1>1, <1>2 DEF DistinctInv
<1>6. \A f, g \in kept' : content'[f] = content'[g] => f = g
  BY DEF DistinctInv
<1>7. ASSUME shown'.frame # None
      PROVE  /\ shown'.pic <= call'
             /\ \A i \in 1 .. Len(stream') : stream'[i] # shown'.pic
             /\ \A f \in kept' : content'[f] # shown'.pic
  BY <1>1, <1>2, <1>7 DEF DistinctInv, ShownOnce
<1>8. DistinctInv'
  BY <1>3, <1>4, <1>5, <1>6, <1>7 DEF DistinctInv
<1> QED BY <1>7, <1>8 DEF ShownOnce

(* The first picture leaves the bitstream buffer, for a frame buffer that  *)
(* was free, or for nowhere.                                               *)
LEMMA DistinctAfterTake ==
  ASSUME TypeOK, DistinctInv, ShownOnce, format = "H264AVC", stream # << >>,
         stream' = Tail(stream), UNCHANGED <<format, shown, call>>,
         \/ UNCHANGED <<kept, content>>
         \/ \E f \in Free : /\ content' = [content EXCEPT ![f] = Head(stream)]
                            /\ kept' = kept \cup {f}
  PROVE  DistinctInv' /\ ShownOnce'
<1>1. /\ Len(stream) \in Nat /\ call \in Nat /\ shown.pic \in Nat
      /\ \A i \in 1 .. Len(stream) : stream[i] \in Nat
      /\ \A f \in kept : content[f] \in Nat
  BY MembersArePictures
<1>2. /\ Len(stream') = Len(stream) - 1 /\ Head(stream) = stream[1]
      /\ 1 \in 1 .. Len(stream)
      /\ \A i \in 1 .. Len(stream') : /\ i + 1 \in 1 .. Len(stream)
                                      /\ stream'[i] = stream[i + 1]
                                      /\ i + 1 # 1
  BY <1>1, TailMembers
<1>3. \A i \in 1 .. Len(stream') : stream'[i] <= call'
  BY <1>2 DEF DistinctInv
<1>4. \A i, j \in 1 .. Len(stream') : stream'[i] = stream'[j] => i = j
  <2> SUFFICES ASSUME NEW i \in 1 .. Len(stream'), NEW j \in 1 .. Len(stream'),
                      stream'[i] = stream'[j]
               PROVE  i = j
    OBVIOUS
  <2>1. i + 1 = j + 1
    BY <1>2 DEF DistinctInv
  <2> QED BY <2>1
<1>5. \A i \in 1 .. Len(stream') : stream'[i] # stream[1]
  BY <1>2 DEF DistinctInv
<1>6. CASE UNCHANGED <<kept, content>>
  <2>1. DistinctInv'
    BY <1>2, <1>3, <1>4, <1>6 DEF DistinctInv
  <2>2. ShownOnce'
    BY <1>2, <1>6 DEF ShownOnce
  <2> QED BY <2>1, <2>2
<1>7. ASSUME NEW f \in Free, content' = [content EXCEPT ![f] = Head(stream)],
             kept' = kept \cup {f}
      PROVE  DistinctInv' /\ ShownOnce'
  <2>1. f \in Frames /\ f \notin kept /\ kept \subseteq Frames
    BY <1>7 DEF Free, TypeOK
  <2>2. content'[f] = stream[1]
    BY <1>2, <1>7, <2>1 DEF TypeOK
  <2>3. \A g \in kept : content'[g] = content[g]
    BY <1>7, <2>1 DEF TypeOK
  <2>4. \A g \in kept' : g = f \/ g \in kept
    BY <1>7
  <2>5. \A g \in kept' : /\ content'[g] <= call'
                         /\ \A i \in 1 .. Len(stream') : content'[g] # stream'[i]
    BY <1>2, <1>5, <2>2, <2>3, <2>4 DEF DistinctInv
  <2>6. \A g, h \in kept' : content'[g] = content'[h] => g = h
    BY <1>2, <2>2, <2>3, <2>4 DEF DistinctInv
  <2>7. DistinctInv'
    BY <1>3, <1>4, <2>5, <2>6 DEF DistinctInv
  <2>8. ShownOnce'
    BY <1>2, <2>2, <2>3, <2>4 DEF ShownOnce
  <2> QED BY <2>7, <2>8
<1> QED BY <1>6, <1>7

LEMMA DistinctStep ==
  ASSUME TypeOK, DistinctInv, ShownOnce, [Next]_vars
  PROVE  DistinctInv' /\ ShownOnce'
<1>1. format' = format
  BY DEF Next, LoopSteps, DecodeFrame, StartOneFrame, GiveUp, VpuDecode,
         NotEnough, OutputNothing, OutputFrame, Hang, OutputRefused, vars
<1> SUFFICES ASSUME format = "H264AVC" PROVE DistinctInv' /\ ShownOnce'
  BY <1>1 DEF DistinctInv, ShownOnce
<1> USE DEF Fault, NoFault, Return, vpu
<1>2. CASE UNCHANGED <<format, call, stream, kept, content, shown>>
  BY <1>2 DEF DistinctInv, ShownOnce
<1>3. CASE DecodeFrame
  <2>1. /\ call + 1 \in Pictures /\ call < call + 1 /\ call' = call + 1
        /\ call <= call' /\ UNCHANGED <<format, shown, kept, content>>
    BY <1>3 DEF DecodeFrame, TypeOK, Pictures
  <2>2. CASE stream' = Filled(call + 1)
    BY <2>1, <2>2, DistinctAfterFill
  <2>3. CASE stream' = stream
    <3>1. /\ call \in Nat /\ shown.pic \in Nat
          /\ \A i \in 1 .. Len(stream) : stream[i] \in Nat
          /\ \A f \in kept : content[f] \in Nat
      BY MembersArePictures
    <3>2. DistinctInv'
      BY <2>1, <2>3, <3>1 DEF DistinctInv
    <3>3. ShownOnce'
      BY <2>1, <2>3 DEF ShownOnce
    <3> QED BY <3>2, <3>3
  <2> QED BY <1>3, <2>2, <2>3 DEF DecodeFrame
<1>4. CASE VpuDecode
  <2>1. UNCHANGED <<format, call, shown>>
    BY <1>4 DEF VpuDecode
  <2>2. CASE UNCHANGED <<stream, kept, content>>
    BY <2>1, <2>2, <1>2
  <2>3. ASSUME NEW f \in Free, stream # << >>, stream' = Tail(stream),
               content' = [content EXCEPT ![f] = Head(stream)],
               kept' = kept \cup {f}
        PROVE  DistinctInv' /\ ShownOnce'
    BY <2>1, <2>3, DistinctAfterTake
  <2> QED BY <1>4, <2>2, <2>3 DEF VpuDecode
<1>5. CASE Hang
  <2>1. UNCHANGED <<format, call, shown, kept, content>>
    BY <1>5 DEF Hang
  <2>2. CASE stream # << >> /\ stream' = Tail(stream)
    BY <2>1, <2>2, DistinctAfterTake
  <2> QED BY <1>5, <2>1, <2>2, <1>2 DEF Hang
<1>6. CASE OutputRefused
  <2>1. UNCHANGED <<format, call, stream, content, shown>> /\ kept' \subseteq kept
    BY <1>6 DEF OutputRefused
  <2>2. DistinctInv'
    BY <2>1 DEF DistinctInv
  <2> QED BY <2>1, <2>2 DEF ShownOnce
<1>7. CASE OutputFrame
  <2>1. PICK f \in kept :
          /\ kept' = kept \ {f}
          /\ shown' \in {shown, [frame |-> f, pic |-> content[f]]}
          /\ UNCHANGED <<format, call, stream, content>>
    BY <1>7 DEF OutputFrame
  <2>2. CASE shown' = shown
    <3>1. DistinctInv'
      BY <2>1, <2>2 DEF DistinctInv
    <3> QED BY <2>1, <2>2, <3>1 DEF ShownOnce
  <2>3. CASE shown' = [frame |-> f, pic |-> content[f]]
    <3>1. shown'.pic = content[f] /\ content[f] <= call
      BY <2>1, <2>3 DEF DistinctInv
    <3>2. DistinctInv'
      BY <2>1, <3>1 DEF DistinctInv
    <3>3. \A i \in 1 .. Len(stream') : stream'[i] # shown'.pic
      BY <2>1, <3>1 DEF DistinctInv
    <3>4. \A g \in kept' : content'[g] # shown'.pic
      BY <2>1, <3>1 DEF DistinctInv
    <3> QED BY <3>2, <3>3, <3>4 DEF ShownOnce
  <2> QED BY <2>1, <2>2, <2>3
<1>8. StartOneFrame \/ GiveUp \/ NotEnough \/ OutputNothing \/ UNCHANGED vars
        => UNCHANGED <<format, call, stream, kept, content, shown>>
  BY DEF StartOneFrame, GiveUp, NotEnough, OutputNothing, vars
<1> QED
  BY <1>2, <1>3, <1>4, <1>5, <1>6, <1>7, <1>8 DEF Next, LoopSteps

(* The pictures that may still be written: those the calls have yet to     *)
(* bring, those in the bitstream buffer and those the VPU keeps.           *)
Coming ==
  {p \in Pictures : \/ call < p
                    \/ \E i \in 1 .. Len(stream) : stream[i] = p
                    \/ \E f \in kept : content[f] = p}

(* A picture of H.264 is written to vid_dst once at most: what is written  *)
(* was still to come and is so no more, and nothing comes back.            *)
WrittenOnce ==
  [][format = "H264AVC" =>
       /\ Coming' \subseteq Coming
       /\ shown' # shown => shown'.pic \in Coming \ Coming']_vars

LEMMA ComingStep ==
  ASSUME TypeOK, DistinctInv, [Next]_vars, format = "H264AVC"
  PROVE  /\ Coming' \subseteq Coming
         /\ shown' # shown => shown'.pic \in Coming \ Coming'
<1>0. /\ Len(stream) \in Nat /\ call \in Nat
      /\ \A i \in 1 .. Len(stream) : stream[i] \in Nat
      /\ \A f \in kept : content[f] \in Nat /\ f \in Frames
  BY MembersArePictures
<1> USE DEF Fault, NoFault, Return, vpu
<1>1. CASE UNCHANGED <<call, stream, kept, content, shown>>
  BY <1>1 DEF Coming
<1>2. CASE DecodeFrame
  <2>1. call + 1 \in Pictures /\ call' = call + 1
        /\ UNCHANGED <<shown, kept, content>>
    BY <1>2 DEF DecodeFrame, TypeOK, Pictures
  <2>2. \A i \in 1 .. Len(stream') :
          \/ i \in 1 .. Len(stream) /\ stream'[i] = stream[i]
          \/ stream'[i] = call + 1
    <3>1. CASE stream' = stream
      BY <3>1
    <3>2. CASE stream' = Filled(call + 1)
      BY <2>1, <3>2, FilledMembers
    <3> QED BY <1>2, <3>1, <3>2 DEF DecodeFrame
  <2>3. \A p \in Pictures : p \in Coming' => p \in Coming
    <3> SUFFICES ASSUME NEW p \in Pictures, p \in Coming' PROVE p \in Coming
      OBVIOUS
    <3>1. call < call + 1 /\ (call + 1 < p => call < p)
      BY <1>0 DEF Pictures
    <3>2. CASE call' < p
      BY <2>1, <3>1, <3>2 DEF Coming
    <3>3. CASE \E i \in 1 .. Len(stream') : stream'[i] = p
      BY <2>2, <3>1, <3>3 DEF Coming
    <3>4. CASE \E f \in kept' : content'[f] = p
      BY <2>1, <3>4 DEF Coming
    <3> QED BY <3>2, <3>3, <3>4 DEF Coming
  <2> QED BY <2>1, <2>3 DEF Coming
<1>3. CASE stream # << >> /\ stream' = Tail(stream)
           /\ UNCHANGED <<call, shown>>
           /\ \/ UNCHANGED <<kept, content>>
              \/ \E f \in Free :
                    /\ content' = [content EXCEPT ![f] = Head(stream)]
                    /\ kept' = kept \cup {f}
  <2>1. /\ Len(stream') = Len(stream) - 1 /\ Head(stream) = stream[1]
        /\ 1 \in 1 .. Len(stream)
        /\ \A i \in 1 .. Len(stream') : /\ i + 1 \in 1 .. Len(stream)
                                        /\ stream'[i] = stream[i + 1]
    BY <1>0, <1>3, TailMembers
  <2>2. \A g \in kept' : \/ g \in kept /\ content'[g] = content[g]
                         \/ content'[g] = stream[1]
    <3>1. CASE UNCHANGED <<kept, content>>
      BY <3>1
    <3>2. ASSUME NEW f \in Free,
                 content' = [content EXCEPT ![f] = Head(stream)],
                 kept' = kept \cup {f}
          PROVE  \A g \in kept' : \/ g \in kept /\ content'[g] = content[g]
                                  \/ content'[g] = stream[1]
      <4>1. f \in Frames /\ kept \subseteq Frames
        BY <3>2 DEF Free, TypeOK
      <4> QED BY <2>1, <3>2, <4>1 DEF TypeOK
    <3> QED BY <1>3, <3>1, <3>2
  <2>3. \A p \in Pictures : p \in Coming' => p \in Coming
    <3> SUFFICES ASSUME NEW p \in Pictures, p \in Coming' PROVE p \in Coming
      OBVIOUS
    <3>1. CASE call' < p
      BY <1>3, <3>1 DEF Coming
    <3>2. CASE \E i \in 1 .. Len(stream') : stream'[i] = p
      BY <2>1, <3>2 DEF Coming
    <3>3. CASE \E f \in kept' : content'[f] = p
      BY <2>1, <2>2, <3>3 DEF Coming
    <3> QED BY <3>1, <3>2, <3>3 DEF Coming
  <2> QED BY <1>3, <2>3 DEF Coming
<1>4. CASE OutputRefused
  <2>1. UNCHANGED <<call, stream, content, shown>> /\ kept' \subseteq kept
    BY <1>4 DEF OutputRefused
  <2> QED BY <2>1 DEF Coming
<1>5. CASE OutputFrame
  <2>1. PICK f \in kept :
          /\ kept' = kept \ {f}
          /\ shown' \in {shown, [frame |-> f, pic |-> content[f]]}
          /\ UNCHANGED <<call, stream, content>>
    BY <1>5 DEF OutputFrame
  <2>2. Coming' \subseteq Coming
    BY <2>1 DEF Coming
  <2>3. content[f] \in Coming
    <3>1. content[f] \in Pictures
      BY <2>1 DEF TypeOK
    <3> QED BY <2>1, <3>1 DEF Coming
  <2>4. content[f] \notin Coming'
    <3>1. content[f] <= call
      BY <2>1 DEF DistinctInv
    <3>2. ~(call' < content[f])
      BY <1>0, <2>1, <3>1
    <3>3. \A i \in 1 .. Len(stream') : stream'[i] # content[f]
      BY <2>1 DEF DistinctInv
    <3>4. \A g \in kept' : content'[g] # content[f]
      BY <2>1 DEF DistinctInv
    <3> QED BY <3>2, <3>3, <3>4 DEF Coming
  <2> QED BY <2>1, <2>2, <2>3, <2>4
<1>6. VpuDecode \/ Hang
        => \/ UNCHANGED <<call, stream, kept, content, shown>>
           \/ /\ stream # << >> /\ stream' = Tail(stream)
              /\ UNCHANGED <<call, shown>>
              /\ \/ UNCHANGED <<kept, content>>
                 \/ \E f \in Free :
                       /\ content' = [content EXCEPT ![f] = Head(stream)]
                       /\ kept' = kept \cup {f}
  BY DEF VpuDecode, Hang
<1>7. StartOneFrame \/ GiveUp \/ NotEnough \/ OutputNothing \/ UNCHANGED vars
        => UNCHANGED <<call, stream, kept, content, shown>>
  BY DEF StartOneFrame, GiveUp, NotEnough, OutputNothing, vars
<1> QED
  BY <1>1, <1>2, <1>3, <1>4, <1>5, <1>6, <1>7 DEF Next, LoopSteps

(* No picture of H.264 is written to vid_dst twice, by the same call or by *)
(* two (vpu_decode.c:733 to 1058): the one written last is in no buffer    *)
(* the VPU may report, every write takes a picture that was still to come, *)
(* and what is written or lost does not come back.  A call that gives up   *)
(* or whose write fails writes nothing and leaves the picture of an        *)
(* earlier call in vid_dst, with the result of a success.                  *)
THEOREM PicturesAreWrittenOnce == Spec => []ShownOnce /\ WrittenOnce
<1> DEFINE Once == format = "H264AVC" =>
                     /\ Coming' \subseteq Coming
                     /\ shown' # shown => shown'.pic \in Coming \ Coming'
<1>1. Init => DistinctInv /\ ShownOnce
  <2> SUFFICES ASSUME Init PROVE DistinctInv /\ ShownOnce
    OBVIOUS
  <2>1. call = 0 /\ kept = {} /\ shown.frame = None /\ stream \in {<< >>, <<0>>}
    BY DEF Init
  <2>2. CASE stream = << >>
    BY <2>1, <2>2 DEF DistinctInv, ShownOnce
  <2>3. CASE stream = <<0>>
    BY <2>1, <2>3 DEF DistinctInv, ShownOnce
  <2> QED BY <2>1, <2>2, <2>3
<1>2. TypeOK /\ DistinctInv /\ ShownOnce /\ [Next]_vars
        => DistinctInv' /\ ShownOnce'
  BY DistinctStep
<1>3. TypeOK /\ DistinctInv /\ [Next]_vars => [Once]_vars
  BY ComingStep
<1> QED
  BY <1>1, <1>2, <1>3, TypeInvariant, PTL DEF Spec, WrittenOnce
=============================================================================
