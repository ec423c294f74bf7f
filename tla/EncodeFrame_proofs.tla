------------------------- MODULE EncodeFrame_proofs -------------------------
(***************************************************************************)
(* Proofs about EncodeFrame.  What a step does to the source picture is    *)
(* one of the steps of SourceFrame, whatever else the step does, so the    *)
(* invariants of the copies are proved for those alone (SourceNext).       *)
(***************************************************************************)
EXTENDS EncodeFrame, SequenceTheorems, WellFoundedInduction, TLAPS

SourceNext == ReadSourceFrame \/ ReadStep \/ Returned

(* Every step of a call is a step of its picture, or leaves it alone. *)
LEMMA SourceSteps ==
  ASSUME [Next]_vars PROVE SourceNext \/ UNCHANGED srcVars
<1> USE DEF SourceNext, srcVars
<1>1. CASE Next
  BY <1>1 DEF Next, Steps, ForceIFrame, EncodeCall, ReadOn, ReadFailed,
     StartOneFrame, IsBusy, WaitForInt, OutputInfoFails, ThrowAway, Deliver,
     GetOutputInfo, Code
<1>2. CASE UNCHANGED vars
  BY <1>2 DEF vars
<1> QED BY <1>1, <1>2

(* What the assumptions say of the picture that is being read. *)
LEMMA SizeFacts ==
  ASSUME size \in Sizes
  PROVE  /\ Cols \in Nat /\ Cols > 0 /\ Half \in Nat /\ Half > 0
         /\ size["room"] \in Nat /\ Half <= size["room"]
         /\ size["room"] % 2 = 0
         /\ <<0, 0>> \in Nat \X Nat
         /\ Surplus \in Nat
BY SizesAssumption, SurplusAssumption DEF Cols, Half

(* The pointer moves on within the columns of the plane. *)
LEMMA AfterFacts ==
  ASSUME Cols \in Nat, Cols > 0, NEW p \in Nat \X Nat, p[2] < Cols
  PROVE  /\ After(p) \in Nat \X Nat /\ After(p)[2] < Cols
         /\ p[2] + 1 < Cols => After(p)[1] = p[1] /\ After(p)[2] = p[2] + 1
         /\ p[2] + 1 = Cols => After(p)[1] = p[1] + 1 /\ After(p)[2] = 0
<1>1. CASE p[2] + 1 = Cols
  BY <1>1 DEF After
<1>2. CASE p[2] + 1 < Cols
  BY <1>2 DEF After
<1> QED BY <1>1, <1>2
-----------------------------------------------------------------------------
(* Where the two loops are, at the head of a turn: the destination pointer *)
(* inside the plane, and the source pointer where the counter says, with   *)
(* the first or the second row of a pair under way.                        *)
PlanarAt ==
  /\ to[2] < Cols /\ to[1] < Half /\ from[2] = to[2]
  /\ count < Cols  => count = to[2] /\ from[1] = 2 * to[1]
  /\ count >= Cols => count = to[2] + Cols /\ from[1] = 2 * to[1] - 1

PackedAt ==
  /\ to[2] < Cols /\ from[2] < Cols /\ from[1] < have
  /\ count < Cols => count = from[2]
  /\ count >= Cols => count = from[2] + Cols
  /\ chroma = "on" =>
       /\ to[2] = from[2]
       /\ count < Cols  => from[1] = 2 * to[1] /\ to[1] % 2 = 0
       /\ count >= Cols => from[1] = 2 * to[1] - 1 /\ to[1] % 2 = 1
  /\ chroma = "off" =>
       /\ to[2] = 0 /\ to[1] % 2 = 0
       /\ count < Cols  => from[1] = 2 * to[1] - 2
       /\ count >= Cols => from[1] = 2 * to[1] - 1

(* The sample at p is the right one.                                       *)
Right(p) == origin[p] \in {<<2 * p[1] - 1, p[2]>>, <<2 * p[1], p[2]>>}
Before(p, q) == p[1] < q[1] \/ (p[1] = q[1] /\ p[2] < q[2])

(* What holds of the picture between two steps.                            *)
Reading ==
  /\ read = "idle" => to = <<0, 0>> /\ from = <<0, 0>> /\ count = 0
                      /\ chroma = "on" /\ origin = Untouched /\ slip = "no"
  /\ read = "planar" => /\ source = "VPU_CODEC" /\ format = "YUV422P"
                        /\ fb["y"] = "whole" /\ PlanarAt
  /\ read = "packed" => source # "FILE_SRC" /\ format = "YUYV" /\ PackedAt
  /\ read \in Planes => source = "FILE_SRC"
Stored ==
  read \in {"planar", "packed"} => \A p \in Grid : Before(p, to) => Right(p)

LEMMA SourceInitially ==
  ASSUME SourceInit PROVE SourceTypeOK /\ Reading /\ Stored
<1>1. size \in Sizes
  BY DEF SourceInit
<1>2. SourceTypeOK
  BY <1>1, SizeFacts DEF SourceInit, SourceTypeOK, Sources, Formats, Untouched,
     All, Planes, Grid
<1> QED
  BY <1>2 DEF SourceInit, Reading, Stored, Planes

(* Beginning and ending a picture. *)
LEMMA BeginTypes ==
  ASSUME SourceTypeOK, Reading, ReadSourceFrame \/ Returned
  PROVE  SourceTypeOK' /\ Reading' /\ Stored'
<1>1. size \in Sizes
  BY DEF SourceTypeOK
<1> USE SizeFacts, <1>1 DEF SourceTypeOK, Sources, Formats, Planes, Grid, Cols,
        Half, All, input, cursor, disk
<1>2. CASE Returned
  BY <1>2 DEF Returned, Reading, Stored, Untouched
<1>3. CASE Refuse
  BY <1>3 DEF Refuse, Begin, Reading, Stored
<1>4. CASE OpenFile
  BY <1>4 DEF OpenFile, Begin, Reading, Stored
<1>5. CASE StartPlanar
  BY <1>5 DEF StartPlanar, Begin, Reading, Stored, PlanarAt, Before
<1>6. CASE StartPacked
  <2>1. have' \in 0 .. 2 * Half' + Surplus
    BY <1>6, SurplusAssumption DEF StartPacked, Begin
  <2>2. have' # 0 => 0 < have'
    BY <2>1, SurplusAssumption, <1>6 DEF StartPacked, Begin
  <2> QED BY <1>6, <2>1, <2>2 DEF StartPacked, Begin, Reading, Stored, PackedAt,
         Before
<1>7. CASE CopyFlat
  BY <1>7 DEF CopyFlat, Begin, Reading, Stored
<1> QED
  BY <1>2, <1>3, <1>4, <1>5, <1>6, <1>7 DEF ReadSourceFrame

-----------------------------------------------------------------------------
(* Storing through the pointer: what was right stays right, and what was   *)
(* before the pointer now includes the pointer.                            *)
LEMMA StoreRight ==
  ASSUME Cols \in Nat, Cols > 0, SourceTypeOK, Store, to[2] < Cols,
         \A p \in Grid : Before(p, to) => Right(p),
         from \in {<<2 * to[1] - 1, to[2]>>, <<2 * to[1], to[2]>>}
  PROVE  /\ \A p \in Grid : Before(p, After(to)) => Right(p)'
         /\ origin' \in [Grid -> (Nat \X Nat) \cup {Stale}]
<1> USE DEF SourceTypeOK
<1>1. origin' \in [Grid -> (Nat \X Nat) \cup {Stale}]
  BY DEF Store
<1>2. ASSUME NEW p \in Grid, Before(p, After(to)) PROVE Right(p)'
  <2>1. p[1] \in Nat /\ p[2] \in Nat /\ p[2] < Cols /\ p = <<p[1], p[2]>>
        /\ to = <<to[1], to[2]>> /\ to[1] \in Nat /\ to[2] \in Nat
    BY SizeFacts DEF Grid
  <2>2. Before(p, to) \/ p = to
    <3>1. /\ to[2] + 1 < Cols => After(to)[1] = to[1] /\ After(to)[2] = to[2] + 1
          /\ to[2] + 1 = Cols => After(to)[1] = to[1] + 1 /\ After(to)[2] = 0
      BY AfterFacts
    <3>2. p[1] < to[1] \/ (p[1] = to[1] /\ p[2] <= to[2])
      BY <1>2, <2>1, <3>1 DEF Before
    <3>3. p[1] = to[1] /\ p[2] = to[2] => p = to
      BY <2>1
    <3> QED BY <2>1, <3>2, <3>3 DEF Before
  <2>3. CASE p = to
    BY <2>3, <1>2 DEF Store, Right
  <2>4. CASE p # to
    <3>1. Right(p)
      BY <2>2, <2>4
    <3>2. origin'[p] = origin[p]
      BY <2>4 DEF Store
    <3> QED BY <3>1, <3>2 DEF Right
  <2> QED BY <2>3, <2>4
<1> QED BY <1>1, <1>2

(* A turn of the planar loop. *)
LEMMA PlanarStep ==
  ASSUME SourceTypeOK, Reading, Stored, PlanarTurn
  PROVE  /\ SourceTypeOK' /\ Reading' /\ Stored'
         /\ read' = "done" => /\ fb' = All("whole")
                             /\ \A p \in Grid : p[1] < Half => Right(p)'
<1>0. size \in Sizes /\ Cols \in Nat /\ Cols > 0 /\ Half \in Nat /\ Half > 0
  BY SizeFacts DEF SourceTypeOK
<1>1. /\ PlanarAt /\ to[1] \in Nat /\ to[2] \in Nat /\ count \in Nat
      /\ from[1] \in Nat /\ from[2] \in Nat
      /\ source = "VPU_CODEC" /\ format = "YUV422P" /\ fb["y"] = "whole"
  BY DEF PlanarTurn, Reading, SourceTypeOK
<1>2. from \in {<<2 * to[1] - 1, to[2]>>, <<2 * to[1], to[2]>>}
  <2>1. from = <<from[1], from[2]>>
    BY DEF SourceTypeOK
  <2> QED BY <1>0, <1>1, <2>1 DEF PlanarAt
<1>3. /\ \A p \in Grid : Before(p, After(to)) => Right(p)'
      /\ origin' \in [Grid -> (Nat \X Nat) \cup {Stale}]
  BY <1>0, <1>1, <1>2, StoreRight DEF PlanarTurn, PlanarAt, Stored
<1>4. UNCHANGED <<layout, size, input, chroma, disk>> /\ to' = After(to)
      /\ Cols' = Cols /\ Half' = Half /\ Grid' = Grid
  BY DEF PlanarTurn, Cols, Half, Grid
<1>5. /\ to' \in Nat \X Nat /\ to'[2] < Cols
      /\ to[2] + 1 < Cols => to'[1] = to[1] /\ to'[2] = to[2] + 1
      /\ to[2] + 1 = Cols => to'[1] = to[1] + 1 /\ to'[2] = 0
  BY <1>0, <1>1, <1>4, AfterFacts DEF PlanarAt, SourceTypeOK
<1>6. /\ After(from) \in Nat \X Nat /\ After(from)[2] = to'[2]
      /\ to[2] + 1 < Cols => After(from)[1] = from[1]
      /\ to[2] + 1 = Cols => After(from)[1] = from[1] + 1
  BY <1>0, <1>1, <1>5, AfterFacts DEF PlanarAt, SourceTypeOK
<1>7. /\ from' \in Nat \X Nat /\ count' \in 0 .. 2 * Cols - 1
      /\ from'[2] = to'[2]
      /\ count' < Cols  => count' = to'[2] /\ from'[1] = 2 * to'[1]
      /\ count' >= Cols => count' = to'[2] + Cols /\ from'[1] = 2 * to'[1] - 1
  <2>1. CASE count + 1 = 2 * Cols
    <3>1. count' = 0 /\ from' = <<After(from)[1] + 2, After(from)[2]>>
      BY <2>1 DEF PlanarTurn
    <3>2. to[2] + 1 = Cols /\ from[1] = 2 * to[1] - 1
      BY <2>1, <1>0, <1>1 DEF PlanarAt
    <3> QED BY <3>1, <3>2, <1>0, <1>1, <1>5, <1>6
  <2>2. CASE count + 1 # 2 * Cols
    <3>1. count' = count + 1 /\ from' = After(from)
      BY <2>2 DEF PlanarTurn
    <3>2. count \in 0 .. 2 * Cols - 1
      BY DEF SourceTypeOK
    <3>3. CASE count < Cols
      BY <3>1, <3>2, <3>3, <2>2, <1>0, <1>1, <1>5, <1>6 DEF PlanarAt
    <3>4. CASE count >= Cols
      BY <3>1, <3>2, <3>4, <2>2, <1>0, <1>1, <1>5, <1>6 DEF PlanarAt
    <3> QED BY <3>2, <3>3, <3>4, <1>0
  <2> QED BY <2>1, <2>2
<1>8. CASE to'[1] < Half
  <2>1. UNCHANGED <<read, fb>> /\ read = "planar"
    BY <1>8 DEF PlanarTurn
  <2>2. SourceTypeOK'
    BY <1>3, <1>4, <1>5, <1>7, <2>1 DEF SourceTypeOK, input, disk
  <2>3. PlanarAt'
    BY <1>4, <1>5, <1>7, <1>8 DEF PlanarAt
  <2>4. Reading' /\ Stored'
    BY <1>1, <1>3, <1>4, <2>1, <2>3 DEF Reading, Stored, input, Planes, Before
  <2> QED BY <2>1, <2>2, <2>4
<1>9. CASE ~ (to'[1] < Half)
  <2>1. read' = "done" /\ fb' = [fb EXCEPT !["u"] = "whole", !["v"] = "whole"]
    BY <1>9 DEF PlanarTurn
  <2>2. fb' = All("whole") /\ fb' \in [Planes -> {"stale", "part", "whole"}]
    BY <1>1, <2>1 DEF SourceTypeOK, All, Planes
  <2>3. SourceTypeOK'
    BY <1>3, <1>4, <1>5, <1>7, <2>1, <2>2 DEF SourceTypeOK, input, disk
  <2>4. Reading' /\ Stored'
    BY <2>1 DEF Reading, Stored, Planes
  <2>5. ASSUME NEW p \in Grid, p[1] < Half PROVE Before(p, After(to))
    BY <1>0, <1>4, <1>5, <1>9, <2>5, SizeFacts DEF Before, Grid
  <2> QED BY <1>3, <2>2, <2>3, <2>4, <2>5
<1> QED BY <1>8, <1>9


(* A turn of the packed loop. *)
LEMMA PackedStep ==
  ASSUME SourceTypeOK, Reading, Stored, PackedTurn
  PROVE  /\ SourceTypeOK' /\ Reading' /\ Stored'
         /\ read' = "done" /\ have \in 2 * Half .. 2 * size["room"] =>
              /\ fb' = All("whole")
              /\ \A p \in Grid : p[1] < Half => Right(p)'
<1>0. size \in Sizes /\ Cols \in Nat /\ Cols > 0 /\ Half \in Nat /\ Half > 0
  BY SizeFacts DEF SourceTypeOK
<1>1. /\ PackedAt /\ to[1] \in Nat /\ to[2] \in Nat /\ count \in Nat
      /\ from[1] \in Nat /\ from[2] \in Nat /\ have \in Nat
      /\ count <= 2 * Cols - 1 /\ chroma \in {"on", "off"}
      /\ source # "FILE_SRC" /\ format = "YUYV"
      /\ from = <<from[1], from[2]>>
  BY <1>0, SurplusAssumption DEF PackedTurn, Reading, SourceTypeOK
<1>2. UNCHANGED <<layout, size, input, disk>> /\ from' = After(from)
      /\ Cols' = Cols /\ Half' = Half /\ Grid' = Grid /\ have' = have
  BY DEF PackedTurn, Cols, Half, Grid, input
<1>3. /\ from' \in Nat \X Nat /\ from'[2] < Cols
      /\ from'[1] \in Nat /\ from'[2] \in Nat
      /\ from[2] + 1 < Cols => from'[1] = from[1] /\ from'[2] = from[2] + 1
      /\ from[2] + 1 = Cols => from'[1] = from[1] + 1 /\ from'[2] = 0
  BY <1>0, <1>1, <1>2, AfterFacts DEF PackedAt, SourceTypeOK
<1>4. /\ After(to) \in Nat \X Nat /\ After(to)[2] < Cols
      /\ After(to)[1] \in Nat /\ After(to)[2] \in Nat
      /\ to[2] + 1 < Cols => After(to)[1] = to[1] /\ After(to)[2] = to[2] + 1
      /\ to[2] + 1 = Cols => After(to)[1] = to[1] + 1 /\ After(to)[2] = 0
  BY <1>0, <1>1, AfterFacts DEF PackedAt, SourceTypeOK
<1>5. /\ \A p \in Grid : Before(p, to') => Right(p)'
      /\ origin' \in [Grid -> (Nat \X Nat) \cup {Stale}]
      /\ to' \in Nat \X Nat
  <2>1. CASE chroma = "on"
    <3>1. from \in {<<2 * to[1] - 1, to[2]>>, <<2 * to[1], to[2]>>}
      BY <1>0, <1>1, <2>1 DEF PackedAt
    <3>2. Store /\ to' = After(to)
      BY <2>1 DEF PackedTurn
    <3> QED BY <1>0, <1>1, <1>4, <3>1, <3>2, StoreRight
          DEF PackedTurn, PackedAt, Stored
  <2>2. CASE chroma = "off"
    <3>1. to' = to /\ origin' = origin
      BY <2>2 DEF PackedTurn
    <3> QED BY <3>1 DEF PackedTurn, Stored, SourceTypeOK, Right
  <2> QED BY <1>1, <2>1, <2>2
<1>6. /\ chroma = "on" => to' = After(to)
      /\ chroma = "off" => to' = to
      /\ count + 1 = 2 * Cols => count' = 0
      /\ count + 1 = 2 * Cols /\ chroma = "on" => chroma' = "off"
      /\ count + 1 = 2 * Cols /\ chroma = "off" => chroma' = "on"
      /\ count + 1 # 2 * Cols => count' = count + 1 /\ chroma' = chroma
  BY DEF PackedTurn
<1> DEFINE At == /\ to'[2] < Cols
                 /\ count' < Cols => count' = from'[2]
                 /\ count' >= Cols => count' = from'[2] + Cols
                 /\ chroma' = "on" =>
                      /\ to'[2] = from'[2]
                      /\ count' < Cols  => from'[1] = 2 * to'[1] /\ to'[1] % 2 = 0
                      /\ count' >= Cols => from'[1] = 2 * to'[1] - 1 /\ to'[1] % 2 = 1
                 /\ chroma' = "off" =>
                      /\ to'[2] = 0 /\ to'[1] % 2 = 0
                      /\ count' < Cols  => from'[1] = 2 * to'[1] - 2
                      /\ count' >= Cols => from'[1] = 2 * to'[1] - 1
<1>7. At /\ count' \in 0 .. 2 * Cols - 1 /\ chroma' \in {"on", "off"}
  <2>1. CASE chroma = "on" /\ count + 1 = 2 * Cols
    <3>1. count >= Cols /\ from[2] + 1 = Cols /\ to[2] + 1 = Cols
          /\ from[1] = 2 * to[1] - 1 /\ to[1] % 2 = 1
      BY <2>1, <1>0, <1>1 DEF PackedAt
    <3>2. /\ count' = 0 /\ chroma' = "off" /\ to'[1] = to[1] + 1 /\ to'[2] = 0
          /\ from'[1] = from[1] + 1 /\ from'[2] = 0
      <4>1. count' = 0 /\ chroma' = "off"
        BY <2>1, <1>0, <1>1, <1>6
      <4>2. to' = After(to)
        BY <2>1, <1>6
      <4>3. to'[1] = to[1] + 1 /\ to'[2] = 0
        BY <3>1, <4>2, <1>4
      <4> QED BY <3>1, <4>1, <4>3, <1>3
    <3>3. (to[1] + 1) % 2 = 0
      BY <3>1, <1>1
    <3> QED BY <3>1, <3>2, <3>3, <1>0, <1>1
  <2>2. CASE chroma = "off" /\ count + 1 = 2 * Cols
    <3>1. count >= Cols /\ from[2] + 1 = Cols /\ to[2] = 0
          /\ from[1] = 2 * to[1] - 1 /\ to[1] % 2 = 0
      BY <2>2, <1>0, <1>1 DEF PackedAt
    <3>2. /\ count' = 0 /\ chroma' = "on" /\ to' = to
          /\ from'[1] = from[1] + 1 /\ from'[2] = 0
      <4>1. count' = 0 /\ chroma' = "on"
        BY <2>2, <1>0, <1>1, <1>6
      <4>2. to' = to
        BY <2>2, <1>6
      <4> QED BY <3>1, <4>1, <4>2, <1>3
    <3> QED BY <3>1, <3>2, <1>0, <1>1
  <2>3. CASE chroma = "on" /\ count + 1 # 2 * Cols /\ count < Cols
    BY <2>3, <1>0, <1>1, <1>3, <1>4, <1>6 DEF PackedAt
  <2>4. CASE chroma = "on" /\ count + 1 # 2 * Cols /\ count >= Cols
    BY <2>4, <1>0, <1>1, <1>3, <1>4, <1>6 DEF PackedAt
  <2>5. CASE chroma = "off" /\ count + 1 # 2 * Cols /\ count < Cols
    <3>1. count' = count + 1 /\ chroma' = "off" /\ to' = to
      BY <2>5, <1>6
    <3>2. count = from[2] /\ to[2] = 0 /\ to[1] % 2 = 0
          /\ from[1] = 2 * to[1] - 2 /\ from[2] < Cols
      BY <2>5, <1>1 DEF PackedAt
    <3>3. CASE from[2] + 1 < Cols
      BY <2>5, <3>1, <3>2, <3>3, <1>0, <1>1, <1>3
    <3>4. CASE from[2] + 1 = Cols
      BY <2>5, <3>1, <3>2, <3>4, <1>0, <1>1, <1>3
    <3> QED BY <3>2, <3>3, <3>4, <1>0, <1>1
  <2>6. CASE chroma = "off" /\ count + 1 # 2 * Cols /\ count >= Cols
    <3>1. count' = count + 1 /\ chroma' = "off" /\ to' = to
      BY <2>6, <1>6
    <3>2. count = from[2] + Cols /\ to[2] = 0 /\ to[1] % 2 = 0
          /\ from[1] = 2 * to[1] - 1 /\ from[2] < Cols
      BY <2>6, <1>1 DEF PackedAt
    <3>3. CASE from[2] + 1 < Cols
      BY <2>6, <3>1, <3>2, <3>3, <1>0, <1>1, <1>3
    <3>4. CASE from[2] + 1 = Cols
      BY <2>6, <3>1, <3>2, <3>4, <1>0, <1>1, <1>3
    <3> QED BY <3>2, <3>3, <3>4, <1>0, <1>1
  <2> QED BY <1>0, <1>1, <2>1, <2>2, <2>3, <2>4, <2>5, <2>6
<1>8. CASE from'[1] < have
  <2>1. UNCHANGED <<read, fb>> /\ read = "packed"
    BY <1>8 DEF PackedTurn
  <2>2. SourceTypeOK'
    BY <1>2, <1>3, <1>5, <1>7, <2>1 DEF SourceTypeOK, input, disk
  <2>3. PackedAt'
    BY <1>2, <1>3, <1>7, <1>8 DEF PackedAt
  <2>4. Reading' /\ Stored'
    BY <1>1, <1>2, <1>5, <2>1, <2>3 DEF Reading, Stored, input, Planes, Before
  <2> QED BY <2>1, <2>2, <2>4
<1>9. CASE ~ (from'[1] < have)
  <2>1. read' = "done" /\ fb' = Unpacked
    BY <1>9 DEF PackedTurn
  <2>2. fb' \in [Planes -> {"stale", "part", "whole"}]
    BY <2>1 DEF Unpacked, All
  <2>3. SourceTypeOK'
    BY <1>2, <1>3, <1>5, <1>7, <2>1, <2>2 DEF SourceTypeOK, input, disk
  <2>4. Reading' /\ Stored'
    BY <2>1 DEF Reading, Stored, Planes
  <2>5. ASSUME have >= 2 * Half, NEW p \in Grid, p[1] < Half
        PROVE  Before(p, to')
    <3>1. from'[1] >= 2 * Half
      BY <1>0, <1>1, <1>3, <1>9, <2>5
    <3>2. to'[1] \in Nat /\ to'[2] \in Nat
      BY <1>5
    <3>3. to'[1] >= Half
      BY <1>0, <1>7, <3>1, <3>2
    <3>4. p[1] \in Nat
      BY <1>0, SizeFacts DEF Grid
    <3> QED BY <1>0, <2>5, <3>2, <3>3, <3>4 DEF Before
  <2>6. have \in 2 * Half .. 2 * size["room"] => fb' = All("whole")
    BY <2>1 DEF Unpacked
  <2>7. have \in 2 * Half .. 2 * size["room"] => have >= 2 * Half
    OBVIOUS
  <2> QED BY <1>5, <2>1, <2>3, <2>4, <2>5, <2>6, <2>7
<1> QED BY <1>8, <1>9

(* A read of a file. *)
LEMMA FileStep ==
  ASSUME SourceTypeOK, Reading, ReadPlane
  PROVE  SourceTypeOK' /\ Reading' /\ Stored'
<1>1. PICK how \in {"stale", "part", "whole"} :
        fb' = [p \in Planes |-> IF p \in Filled(read) THEN how ELSE fb[p]]
  BY DEF ReadPlane, Freadn
<1>2. /\ file' \in {"more", "end"} /\ slip' \in {"no", "yes"}
      /\ ret' \in {"data", "nothing", "error"}
  BY DEF ReadPlane, Freadn, SourceTypeOK
<1>3. fb' \in [Planes -> {"stale", "part", "whole"}]
  BY <1>1 DEF SourceTypeOK
<1>4. /\ read' \in {"u", "v", "done", "failed"} /\ source = "FILE_SRC"
      /\ UNCHANGED <<layout, size, input, cursor>>
  BY DEF ReadPlane, Following, Reading
<1> QED BY <1>2, <1>3, <1>4 DEF SourceTypeOK, Reading, Stored, input, cursor,
       Cols, Half, Grid, Planes

-----------------------------------------------------------------------------
(* As long as no read failed and the file has not ended, every plane that  *)
(* is behind is whole.                                                     *)
FileWhole ==
  slip = "no" /\ file = "more" =>
    /\ read \in {"u", "v"} => fb["y"] = "whole"
    /\ read = "v" => fb["u"] = "whole"

(* The picture the VPU gets: the two properties, with what they need.      *)
Finished == SourceIsPicture /\ OnlyTheTailIsStale
SourceInv == SourceTypeOK /\ Reading /\ Stored /\ FileWhole /\ Finished

LEMMA SourceInvInitially == ASSUME SourceInit PROVE SourceInv
BY SourceInitially DEF SourceInit, SourceInv, FileWhole, Finished,
   SourceIsPicture, OnlyTheTailIsStale

LEMMA BeginFinished ==
  ASSUME SourceInv, ReadSourceFrame \/ Returned PROVE SourceInv'
<1>1. SourceTypeOK' /\ Reading' /\ Stored'
  BY BeginTypes DEF SourceInv
<1>2. FileWhole'
  BY DEF FileWhole, ReadSourceFrame, Returned, Refuse, OpenFile, StartPlanar,
     StartPacked, CopyFlat
<1>3. read' = "done" => CopyFlat
  BY DEF ReadSourceFrame, Returned, Refuse, OpenFile, StartPlanar, StartPacked
<1>4. ASSUME CopyFlat, read' = "done" PROVE Finished'
  <2>1. PICK src \in {"VPU_CODEC", "memory"}, fmt \in {"YUV420P", "NV12"} :
          /\ source' = src /\ format' = fmt /\ UNCHANGED <<layout, size>>
          /\ fb' = [p \in Planes |-> IF Flat(fmt, p) THEN "whole" ELSE "stale"]
    BY <1>4 DEF CopyFlat, Begin
  <2>2. ASSUME Suited' PROVE fb' = All("whole")
    <3>1. layout = fmt /\ size["room"] = Half
      BY <2>1, <2>2 DEF Suited, Half
    <3>2. \A p \in Planes : Flat(fmt, p)
      BY <3>1 DEF Flat, Start
    <3> QED BY <2>1, <3>2 DEF All
  <2> QED BY <2>1, <2>2 DEF Finished, SourceIsPicture, OnlyTheTailIsStale
<1>5. read' # "done" => Finished'
  BY DEF Finished, SourceIsPicture, OnlyTheTailIsStale
<1> QED BY <1>1, <1>2, <1>3, <1>4, <1>5 DEF SourceInv

LEMMA FileFinished ==
  ASSUME SourceInv, ReadPlane PROVE FileWhole' /\ Finished'
<1>1. PICK how \in {"stale", "part", "whole"} :
        /\ fb' = [p \in Planes |-> IF p \in Filled(read) THEN how ELSE fb[p]]
        /\ \/ /\ file = "more" \/ how = "stale"
              /\ file' = IF how = "whole" THEN "more" ELSE "end"
              /\ ret' = IF how = "stale" THEN "nothing" ELSE "data"
              /\ UNCHANGED slip
           \/ /\ how # "whole" /\ ret' = "error" /\ slip' = "yes"
              /\ UNCHANGED file
  BY DEF ReadPlane, Freadn
<1>2. /\ read \in Planes /\ source = "FILE_SRC" /\ source' = source
      /\ layout' = layout
      /\ read' = IF Following(read) # "last" THEN Following(read)
                 ELSE IF ret' = "data" THEN "done" ELSE "failed"
  BY DEF ReadPlane, SourceInv, Reading, input
<1>3. FileWhole
  BY DEF SourceInv
<1>4. fb'["y"] = IF read = "y" THEN how ELSE fb["y"]
  BY <1>1, <1>2 DEF Filled, Planes
<1>5. fb'["u"] = IF read = "u" THEN how ELSE fb["u"]
  BY <1>1, <1>2 DEF Filled, Planes
<1>6. fb'["v"] = IF read = "v" \/ (read = "u" /\ Interleaved(layout))
                 THEN how ELSE fb["v"]
  BY <1>1, <1>2 DEF Filled, Planes
<1>7. FileWhole'
  BY <1>1, <1>2, <1>3, <1>4, <1>5 DEF FileWhole, Following, Planes
<1>8. OnlyTheTailIsStale'
  BY <1>1, <1>2, <1>3, <1>4, <1>5, <1>6
     DEF OnlyTheTailIsStale, FileWhole, Following, Planes, Interleaved
<1> QED BY <1>2, <1>7, <1>8 DEF Finished, SourceIsPicture

(* Every step of a picture keeps the invariant. *)
LEMMA SourceStep ==
  ASSUME SourceInv, SourceNext \/ UNCHANGED srcVars PROVE SourceInv'
<1>1. CASE ReadSourceFrame \/ Returned
  BY <1>1, BeginFinished
<1>2. CASE PlanarTurn
  <2>1. /\ SourceTypeOK' /\ Reading' /\ Stored'
        /\ read' = "done" => /\ fb' = All("whole")
                            /\ \A p \in Grid : p[1] < Half => Right(p)'
    BY <1>2, PlanarStep DEF SourceInv
  <2>2. UNCHANGED <<layout, size, input, disk>> /\ read' \in {"planar", "done"}
        /\ source = "VPU_CODEC" /\ Grid' = Grid /\ Half' = Half
    BY <1>2 DEF PlanarTurn, SourceInv, Reading, Grid, Half, Cols
  <2>3. FileWhole' /\ Finished'
    BY <2>1, <2>2 DEF FileWhole, Finished, SourceIsPicture, OnlyTheTailIsStale,
       Right, input
  <2> QED BY <2>1, <2>3 DEF SourceInv
<1>3. CASE PackedTurn
  <2>1. /\ SourceTypeOK' /\ Reading' /\ Stored'
        /\ read' = "done" /\ have \in 2 * Half .. 2 * size["room"] =>
             /\ fb' = All("whole")
             /\ \A p \in Grid : p[1] < Half => Right(p)'
    BY <1>3, PackedStep DEF SourceInv
  <2>2. UNCHANGED <<layout, size, input, disk>> /\ read' \in {"packed", "done"}
        /\ source # "FILE_SRC" /\ Grid' = Grid /\ Half' = Half
        /\ format = "YUYV"
    BY <1>3 DEF PackedTurn, SourceInv, Reading, Grid, Half, Cols
  <2>3. Suited' => have \in 2 * Half .. 2 * size["room"]
    BY <2>2 DEF Suited, input
  <2>4. FileWhole' /\ Finished'
    BY <2>1, <2>2, <2>3 DEF FileWhole, Finished, SourceIsPicture,
       OnlyTheTailIsStale, Right, input
  <2> QED BY <2>1, <2>4 DEF SourceInv
<1>4. CASE ReadPlane
  BY <1>4, FileStep, FileFinished DEF SourceInv
<1>5. CASE UNCHANGED srcVars
  <2>1. SourceTypeOK' /\ Reading' /\ Stored'
    BY <1>5 DEF SourceInv, srcVars, input, cursor, disk, SourceTypeOK, Reading,
       Stored, PlanarAt, PackedAt, Cols, Half, Grid, Right, Before, Untouched
  <2>2. FileWhole' /\ Finished'
    BY <1>5 DEF SourceInv, srcVars, input, cursor, disk, FileWhole, Finished,
       SourceIsPicture, OnlyTheTailIsStale, Suited, Cols, Half, Grid
  <2> QED BY <2>1, <2>2 DEF SourceInv
<1> QED BY <1>1, <1>2, <1>3, <1>4, <1>5 DEF SourceNext, ReadStep

LEMMA SourceAlways == Spec => []SourceInv
<1>1. Init => SourceInv
  BY SourceInvInitially DEF Init
<1>2. SourceInv /\ [Next]_vars => SourceInv'
  BY SourceSteps, SourceStep
<1> QED BY <1>1, <1>2, PTL DEF Spec

(* No turn of a copy loop stores behind its plane, for every size and      *)
(* layout and whatever size a packed picture claims up to the rounded      *)
(* height, or reads behind a picture that claims no more than its own.     *)
THEOREM ChromaStaysInPlane == Spec => []ChromaInPlane
<1>1. SourceInv => ChromaInPlane
  <2> SUFFICES ASSUME SourceInv PROVE ChromaInPlane
    OBVIOUS
  <2>1. /\ size \in Sizes /\ to[1] \in Nat /\ to[2] \in Nat /\ from[1] \in Nat
        /\ to = <<to[1], to[2]>> /\ have \in 0 .. 2 * Half + Surplus
    BY DEF SourceInv, SourceTypeOK
  <2>2. /\ Cols \in Nat /\ Cols > 0 /\ Half \in Nat /\ Half > 0
        /\ size["room"] \in Nat /\ Half <= size["room"] /\ size["room"] % 2 = 0
        /\ Surplus \in Nat
    BY <2>1, SizeFacts, SurplusAssumption
  <2>3. CASE read = "planar"
    <3>1. to[2] < Cols /\ to[1] < Half
          /\ (from[1] = 2 * to[1] \/ from[1] = 2 * to[1] - 1)
      BY <2>1, <2>2, <2>3 DEF SourceInv, Reading, PlanarAt, SourceTypeOK
    <3>2. to[1] \in 0 .. size["room"] - 1 /\ to[2] \in 0 .. Cols - 1
      BY <2>1, <2>2, <3>1
    <3>3. from[1] < 2 * Half
      BY <2>1, <2>2, <3>1
    <3> QED BY <2>1, <2>3, <3>2, <3>3 DEF ChromaInPlane, Grid
  <2>4. CASE read = "packed"
    <3>1. to[2] < Cols /\ from[1] < have
      BY <2>1, <2>2, <2>4 DEF SourceInv, Reading, PackedAt
    <3>2. have <= 2 * Half => from[1] < 2 * Half
      BY <2>1, <2>2, <3>1
    <3>3. ASSUME chroma = "on", have <= 2 * size["room"]
          PROVE  to[1] < size["room"]
      <4>1. \/ from[1] = 2 * to[1]
            \/ from[1] = 2 * to[1] - 1 /\ to[1] % 2 = 1
        BY <2>1, <2>2, <2>4, <3>3 DEF SourceInv, Reading, PackedAt, SourceTypeOK
      <4>2. from[1] < 2 * size["room"]
        BY <2>1, <2>2, <3>1, <3>3
      <4>3. CASE from[1] = 2 * to[1]
        BY <2>1, <2>2, <4>2, <4>3
      <4>4. CASE from[1] = 2 * to[1] - 1 /\ to[1] % 2 = 1
        BY <2>1, <2>2, <4>2, <4>4
      <4> QED BY <4>1, <4>3, <4>4
    <3>4. chroma = "on" /\ have <= 2 * size["room"]
            => to[1] \in 0 .. size["room"] - 1 /\ to[2] \in 0 .. Cols - 1
      BY <2>1, <2>2, <3>1, <3>3
    <3> QED BY <2>1, <2>4, <3>2, <3>4 DEF ChromaInPlane, Grid
  <2> QED BY <2>3, <2>4 DEF ChromaInPlane
<1> QED BY <1>1, SourceAlways, PTL

(* Every chroma sample the VPU gets is of this picture and of its place.   *)
THEOREM SourceIsThePicture == Spec => []SourceIsPicture
<1>1. SourceInv => SourceIsPicture
  BY DEF SourceInv, Finished
<1> QED BY <1>1, SourceAlways, PTL

(* Of a file that ends, only the last plane of a picture can be short.     *)
THEOREM FileIsWholeButTheTail == Spec => []OnlyTheTailIsStale
<1>1. SourceInv => OnlyTheTailIsStale
  BY DEF SourceInv, Finished
<1> QED BY <1>1, SourceAlways, PTL

-----------------------------------------------------------------------------
USE EncodeAssumption

(* Where the next picture lies in its period. *)
LEMMA PeriodFacts ==
  ASSUME NEW g \in 0 .. GopSize - 1
  PROVE  /\ 1 % GopSize \in 0 .. GopSize - 1
         /\ 1 % GopSize = IF GopSize = 1 THEN 0 ELSE 1
         /\ (g + 1) % GopSize \in 0 .. GopSize - 1
         /\ (g + 1) % GopSize = IF g + 1 = GopSize THEN 0 ELSE g + 1
<1>1. GopSize \in Nat /\ GopSize > 0 /\ g \in Nat /\ g < GopSize
  OBVIOUS
<1>2. ASSUME NEW x \in Nat, x < GopSize PROVE x % GopSize = x
  BY <1>1, <1>2
<1>3. GopSize % GopSize = 0
  BY <1>1
<1>4. (g + 1) % GopSize = IF g + 1 = GopSize THEN 0 ELSE g + 1
  <2>1. CASE g + 1 = GopSize
    BY <2>1, <1>3
  <2>2. CASE g + 1 < GopSize
    BY <2>2, <1>1, <1>2
  <2> QED BY <2>1, <2>2, <1>1
<1>5. 1 % GopSize = IF GopSize = 1 THEN 0 ELSE 1
  <2>1. CASE GopSize = 1
    BY <2>1, <1>3
  <2>2. CASE GopSize > 1
    BY <2>2, <1>2
  <2> QED BY <2>1, <2>2, <1>1
<1> QED BY <1>1, <1>4, <1>5

EncoderTypes ==
  /\ pc \in {"idle", "read", "busy", "wait", "info"}
  /\ force \in {"yes", "no"} /\ forced \in {"yes", "no"}
  /\ waits \in 0 .. MaxWaits
  /\ vpu \in {"idle", "coding", "I", "P", "skip"}
  /\ gop \in 0 .. GopSize - 1
  /\ report \in Seq(SliceSizes) /\ coded \in Nat /\ headers \in HeaderSizes
  /\ bsbuf \in {"this", "old"} /\ outbuf \in {"this", "old"}
  /\ out.kind \in {"none", "headers", "I", "P"} /\ out.at \in {"outbuf", "bsbuf"}
  /\ out.size \in Nat /\ out.number \in Nat
  /\ out.nal \in Seq(Nat) /\ Len(out.nal) <= MaxNal
  /\ result \in {"none", "picture", "error"}
  /\ player \in {"init", "running", "crashed"} /\ chain \in {"whole", "broken"}
  /\ lost \in Nat /\ broken \in Nat
  /\ pc \in {"idle", "read"} => vpu = "idle"

LEMMA SliceFacts ==
  /\ Slices \subseteq Seq(SliceSizes) /\ << >> \in Seq(SliceSizes)
  /\ << >> \in Seq(Nat)
  /\ report \in Seq(SliceSizes) =>
       /\ report \in Seq(Nat) /\ << >> \o report \in Seq(Nat)
       /\ <<SpsSize, PpsSize>> \o report \in Seq(Nat)
<1>1. Slices \subseteq Seq(SliceSizes)
  BY DEF Slices
<1>2. ASSUME report \in Seq(SliceSizes)
      PROVE  /\ report \in Seq(Nat) /\ << >> \o report \in Seq(Nat)
             /\ <<SpsSize, PpsSize>> \o report \in Seq(Nat)
  <2>1. report \in Seq(Nat)
    <3>1. Len(report) \in Nat /\ report \in [1 .. Len(report) -> SliceSizes]
      BY <1>2, LenProperties
    <3>2. report \in [1 .. Len(report) -> Nat]
      BY <3>1
    <3> QED BY <3>1, <3>2, SeqDef
  <2>2. <<SpsSize, PpsSize>> \in Seq(Nat) /\ << >> \in Seq(Nat)
    BY DEF SpsSize, PpsSize
  <2> QED BY <2>1, <2>2
<1> QED BY <1>1, <1>2

(* The table keeps the lengths that it has room for. *)
LEMMA TableFacts ==
  ASSUME NEW u \in Seq(Nat)
  PROVE  /\ Table(u) \in Seq(Nat) /\ Len(Table(u)) <= MaxNal
         /\ Len(u) \in Nat /\ Len(u) <= MaxNal => Table(u) = u
<1>1. Len(u) \in Nat /\ MaxNal \in Nat
  BY LenProperties
<1>2. CASE Len(u) <= MaxNal
  <2>1. Table(u) = SubSeq(u, 1, Len(u))
    BY <1>2 DEF Table
  <2>2. SubSeq(u, 1, Len(u)) = u
    BY SubSeqFull
  <2> QED BY <1>1, <1>2, <2>1, <2>2
<1>3. CASE ~ (Len(u) <= MaxNal)
  <2>1. Table(u) = SubSeq(u, 1, MaxNal) /\ MaxNal \in 0 .. Len(u)
    BY <1>1, <1>3 DEF Table
  <2>2. SubSeq(u, 1, MaxNal) \in Seq(Nat) /\ Len(SubSeq(u, 1, MaxNal)) = MaxNal
    BY <1>1, <2>1, SubSeqProperties
  <2> QED BY <1>1, <1>3, <2>1, <2>2
<1> QED BY <1>2, <1>3

(* A coded picture has a size. *)
LEMMA CodedFacts == ASSUME Code PROVE coded' \in Nat
<1>1. CASE vpu' = "skip"
  <2>1. coded' = 0
    BY <1>1 DEF Code
  <2> QED BY <2>1
<1>2. CASE vpu' # "skip"
  <2>1. coded' \in CodedSizes
    BY <1>2 DEF Code
  <2> QED BY <2>1
<1> QED BY <1>1, <1>2

(* What is handed out, field by field. *)
LEMMA HandedOutFields ==
  ASSUME GetOutputInfo
  PROVE  /\ UNCHANGED <<report, coded, headers>>
         /\ vpu = "I" =>
              /\ outbuf' = bsbuf /\ out'.kind = "I" /\ out'.at = "outbuf"
              /\ out'.size = coded + SpsSize + PpsSize
              /\ out'.number = Len(<<SpsSize, PpsSize>> \o report)
              /\ out'.nal = Table(<<SpsSize, PpsSize>> \o report)
         /\ vpu # "I" =>
              /\ outbuf' = outbuf /\ out'.kind = "P" /\ out'.at = "bsbuf"
              /\ out'.size = coded
              /\ out'.number = Len(<< >> \o report)
              /\ out'.nal = Table(<< >> \o report)
<1>1. UNCHANGED <<report, coded, headers>>
  BY DEF GetOutputInfo, Return
<1>2. ASSUME vpu = "I"
      PROVE  /\ outbuf' = bsbuf
             /\ out' = [kind |-> "I", at |-> "outbuf",
                        size |-> coded + SpsSize + PpsSize,
                        number |-> Len(<<SpsSize, PpsSize>> \o report),
                        nal |-> Table(<<SpsSize, PpsSize>> \o report)]
  BY <1>2 DEF GetOutputInfo, HandOut, SaveEncSliceInfo
<1>3. ASSUME vpu # "I"
      PROVE  /\ outbuf' = outbuf
             /\ out' = [kind |-> "P", at |-> "bsbuf", size |-> coded,
                        number |-> Len(<< >> \o report),
                        nal |-> Table(<< >> \o report)]
  BY <1>3 DEF GetOutputInfo, HandOut, SaveEncSliceInfo
<1> QED BY <1>1, <1>2, <1>3

LEMMA HandedOutTypes ==
  ASSUME GetOutputInfo, coded \in Nat, report \in Seq(SliceSizes),
         bsbuf \in {"this", "old"}, outbuf \in {"this", "old"}
  PROVE  /\ outbuf' \in {"this", "old"} /\ report' = report /\ coded' = coded
         /\ out'.kind \in {"I", "P"} /\ out'.at \in {"outbuf", "bsbuf"}
         /\ out'.size \in Nat /\ out'.number \in Nat
         /\ out'.nal \in Seq(Nat) /\ Len(out'.nal) <= MaxNal
<1>1. coded + SpsSize + PpsSize \in Nat
  BY DEF SpsSize, PpsSize
<1>2. CASE vpu = "I"
  <2> DEFINE u == <<SpsSize, PpsSize>> \o report
  <2>1. u \in Seq(Nat)
    BY SliceFacts
  <2>2. out'.size \in Nat /\ out'.number = Len(u) /\ out'.nal = Table(u)
    BY <1>1, <1>2, HandedOutFields
  <2>3. /\ outbuf' \in {"this", "old"} /\ report' = report /\ coded' = coded
        /\ out'.kind \in {"I", "P"} /\ out'.at \in {"outbuf", "bsbuf"}
    BY <1>2, HandedOutFields
  <2> HIDE DEF u
  <2>4. /\ Table(u) \in Seq(Nat) /\ Len(Table(u)) <= MaxNal /\ Len(u) \in Nat
    BY <2>1, TableFacts
  <2> QED BY <2>2, <2>3, <2>4
<1>3. CASE vpu # "I"
  <2> DEFINE u == << >> \o report
  <2>1. u \in Seq(Nat)
    BY SliceFacts
  <2>2. out'.size \in Nat /\ out'.number = Len(u) /\ out'.nal = Table(u)
    BY <1>3, HandedOutFields
  <2>3. /\ outbuf' \in {"this", "old"} /\ report' = report /\ coded' = coded
        /\ out'.kind \in {"I", "P"} /\ out'.at \in {"outbuf", "bsbuf"}
    BY <1>3, HandedOutFields
  <2> HIDE DEF u
  <2>4. /\ Table(u) \in Seq(Nat) /\ Len(Table(u)) <= MaxNal /\ Len(u) \in Nat
    BY <2>1, TableFacts
  <2> QED BY <2>2, <2>3, <2>4
<1> QED BY <1>2, <1>3

LEMMA ReturnTypes ==
  ASSUME EncoderTypes, NEW r \in {"none", "picture", "error"}, Return(r)
  PROVE  /\ pc' = "idle" /\ result' = r /\ vpu' = "idle"
         /\ waits' \in 0 .. MaxWaits
         /\ UNCHANGED <<force, forced, gop, headers, bsbuf>>
BY DEF Return

LEMMA TypeStep ==
  ASSUME EncoderTypes, [Next]_vars PROVE EncoderTypes'
<1> USE DEF EncoderTypes, stream, encoder
<1>1. CASE ForceIFrame
  BY <1>1 DEF ForceIFrame
<1>2. CASE EncodeCall
  BY <1>2, SliceFacts DEF EncodeCall, Nothing
<1>3. CASE ReadOn
  BY <1>3 DEF ReadOn
<1>4. CASE ReadFailed
  BY <1>4, ReturnTypes, SliceFacts DEF ReadFailed, Fail
<1>5. CASE StartOneFrame
  <2>1. CASE Fail
    BY <1>5, <2>1, ReturnTypes, SliceFacts DEF StartOneFrame, Fail
  <2>2. CASE pc' = "busy" /\ vpu' = "coding"
    BY <1>5, <2>2 DEF StartOneFrame, Fail, Return
  <2> QED BY <1>5, <2>1, <2>2 DEF StartOneFrame
<1>6. CASE Code
  <2>1. vpu' \in {"I", "P", "skip"} /\ gop' \in 0 .. GopSize - 1
    BY <1>6, PeriodFacts DEF Code, NextInPeriod
  <2>2. report' \in Seq(SliceSizes)
    BY <1>6, SliceFacts DEF Code
  <2>3. coded' \in Nat
    BY <1>6, CodedFacts
  <2>4. /\ bsbuf' = "this" /\ pc \notin {"idle", "read"}
        /\ UNCHANGED <<pc, force, forced, waits, headers, outbuf, out, result,
                       player, stream>>
    BY <1>6 DEF Code
  <2> QED BY <2>1, <2>2, <2>3, <2>4
<1>7. CASE IsBusy
  BY <1>7 DEF IsBusy
<1>8. CASE WaitForInt
  <2>1. CASE waits = MaxWaits
    <3>1. Fail /\ lost' \in Nat /\ chain' \in {"whole", "broken"}
          /\ broken' = broken
      BY <1>8, <2>1 DEF WaitForInt, Lose
    <3> QED BY <3>1, ReturnTypes, SliceFacts DEF Fail
  <2>2. CASE waits # MaxWaits
    <3>1. /\ pc' = "busy" /\ waits' = waits + 1 /\ waits + 1 \in 0 .. MaxWaits
          /\ UNCHANGED <<force, forced, vpu, gop, report, coded, headers,
                         bsbuf, outbuf, out, result, player, stream>>
      BY <1>8, <2>2 DEF WaitForInt
    <3> QED BY <3>1
  <2> QED BY <2>1, <2>2
<1>9. CASE OutputInfoFails
  <2>1. Fail /\ UNCHANGED srcVars
    BY <1>9 DEF OutputInfoFails
  <2>2. lost' \in Nat /\ broken' \in Nat /\ chain' \in {"whole", "broken"}
    <3>1. CASE vpu = "skip"
      BY <1>9, <3>1 DEF OutputInfoFails
    <3>2. CASE vpu # "skip"
      BY <1>9, <3>2 DEF OutputInfoFails, Lose
    <3> QED BY <3>1, <3>2
  <2> QED BY <2>1, <2>2, ReturnTypes, SliceFacts DEF Fail
<1>11. CASE ThrowAway
  <2>1. Return("picture") /\ GetOutputInfo
    BY <1>11 DEF ThrowAway, GetOutputInfo
  <2>2. /\ player' = "running" /\ lost' \in Nat /\ broken' \in Nat
        /\ chain' \in {"whole", "broken"}
    BY <1>11 DEF ThrowAway
  <2> QED BY <2>1, <2>2, ReturnTypes, HandedOutTypes
<1>12. CASE Deliver
  <2>1. Return("picture") /\ GetOutputInfo
    BY <1>12 DEF Deliver, GetOutputInfo
  <2>2. /\ player' = player /\ lost' \in Nat /\ broken' \in Nat
        /\ chain' \in {"whole", "broken"}
    BY <1>12 DEF Deliver
  <2> QED BY <2>1, <2>2, ReturnTypes, HandedOutTypes
<1>13. CASE UNCHANGED vars
  BY <1>13 DEF vars
<1> QED BY <1>1, <1>2, <1>3, <1>4, <1>5, <1>6, <1>7, <1>8, <1>9, <1>11, <1>12,
       <1>13 DEF Next, Steps

LEMMA EncoderTypesAlways == Spec => []EncoderTypes
<1>1. Init => EncoderTypes
  <2>1. \A h \in HeaderSizes : h[1] + h[2] \in Nat
    OBVIOUS
  <2> QED BY <2>1, SliceFacts DEF Init, EncoderTypes
<1>2. EncoderTypes /\ [Next]_vars => EncoderTypes'
  BY TypeStep
<1> QED BY <1>1, <1>2, PTL DEF Spec

(* Every variable has its type. *)
THEOREM TypeCorrect == Spec => []TypeOK
<1>1. SourceInv /\ EncoderTypes => TypeOK
  BY DEF SourceInv, EncoderTypes, TypeOK
<1> QED BY <1>1, SourceAlways, EncoderTypesAlways, PTL

-----------------------------------------------------------------------------
(* How many P pictures may still come before the next I picture: those of  *)
(* the rest of the period, and one that is coded and not handed out.       *)
Rest == IF gop = 0 THEN 0 ELSE GopSize - gop
Due == IF vpu = "I" THEN 0 ELSE IF vpu = "P" THEN Rest + 1 ELSE Rest

(* A player without its reference has a loss that pays for all of them.    *)
DamageInv ==
  /\ vpu = "I" => gop = 1 % GopSize
  /\ vpu = "P" => Due <= GopSize - 1
  /\ chain = "whole"  => broken <= (GopSize - 1) * lost
  /\ chain = "broken" => broken + Due <= (GopSize - 1) * lost

LEMMA BudgetGrows ==
  ASSUME NEW n \in Nat
  PROVE  /\ (GopSize - 1) * n \in Nat
         /\ (GopSize - 1) * (n + 1) = (GopSize - 1) * n + (GopSize - 1)
OBVIOUS

LEMMA RestFacts ==
  ASSUME EncoderTypes
  PROVE  /\ Rest \in Nat /\ Due \in Nat /\ Rest <= GopSize - 1
         /\ vpu = "P" => Rest = Due - 1
         /\ vpu \notin {"I", "P"} => Due = Rest
  BY DEF EncoderTypes, Rest, Due

(* A picture is lost. *)
LEMMA LossStep ==
  ASSUME EncoderTypes, DamageInv, lost' = lost + 1, broken' = broken,
         chain' = "broken", vpu' = "idle", gop' = gop
  PROVE  DamageInv'
<1>1. Due' = Rest /\ Rest <= GopSize - 1 /\ Rest \in Nat /\ Due \in Nat
  BY RestFacts DEF Rest, Due
<1>2. /\ (GopSize - 1) * lost \in Nat /\ broken \in Nat /\ GopSize \in Nat
      /\ (GopSize - 1) * lost' = (GopSize - 1) * lost + (GopSize - 1)
  BY BudgetGrows DEF EncoderTypes
<1>3. broken <= (GopSize - 1) * lost
  <2> DEFINE B == (GopSize - 1) * lost
  <2>1. B \in Nat /\ broken \in Nat /\ Due \in Nat
    BY <1>1, <1>2
  <2>2. broken <= B \/ broken + Due <= B
    BY DEF DamageInv, EncoderTypes
  <2> HIDE DEF B
  <2>3. broken <= B
    BY <2>1, <2>2
  <2> QED BY <2>3 DEF B
<1>4. broken' + Due' <= (GopSize - 1) * lost'
  <2> DEFINE B == (GopSize - 1) * lost
  <2>1. B \in Nat /\ broken <= B /\ (GopSize - 1) * lost' = B + (GopSize - 1)
    BY <1>2, <1>3
  <2> HIDE DEF B
  <2>2. broken + Rest <= B + (GopSize - 1)
    BY <1>1, <1>2, <2>1
  <2> QED BY <1>1, <2>1, <2>2
<1> QED BY <1>4 DEF DamageInv

(* The call fails, and no picture is lost. *)
LEMMA FailStep ==
  ASSUME EncoderTypes, DamageInv, vpu \notin {"I", "P"}, vpu' \notin {"I", "P"},
         UNCHANGED <<gop, stream>>
  PROVE  DamageInv'
BY DEF DamageInv, Rest, Due, stream

LEMMA DamageStep ==
  ASSUME EncoderTypes, DamageInv, [Next]_vars PROVE DamageInv'
<1> USE DEF encoder
<1>1. CASE ForceIFrame
  BY <1>1 DEF ForceIFrame, DamageInv, Rest, Due, stream
<1>2. CASE EncodeCall
  BY <1>2 DEF EncodeCall, DamageInv, Rest, Due, stream
<1>3. CASE ReadOn
  BY <1>3 DEF ReadOn, DamageInv, Rest, Due, stream
<1>4. CASE ReadFailed
  BY <1>4, FailStep DEF ReadFailed, Fail, Return, EncoderTypes
<1>5. CASE StartOneFrame
  BY <1>5, FailStep DEF StartOneFrame, Fail, Return, EncoderTypes
<1>6. CASE Code
  <2>1. UNCHANGED stream /\ vpu = "coding" /\ Due = Rest
    BY <1>6 DEF Code, Due
  <2>2. CASE vpu' = "I"
    <3>1. gop' = 1 % GopSize /\ Due' = 0
      BY <1>6, <2>2 DEF Code, NextInPeriod, Due
    <3>2. broken' + Due' <= broken + Due
      BY <2>1, <3>1, RestFacts DEF stream, EncoderTypes
    <3> QED BY <2>1, <2>2, <3>1, <3>2, RestFacts, BudgetGrows
          DEF DamageInv, stream, EncoderTypes
  <2>3. CASE vpu' = "P"
    <3>1. gop \in 1 .. GopSize - 1 /\ gop' = (gop + 1) % GopSize
      BY <1>6, <2>3 DEF Code, NextInPeriod, EncoderTypes
    <3>2. gop' = IF gop + 1 = GopSize THEN 0 ELSE gop + 1
      BY <3>1, PeriodFacts
    <3>3. Due' = Rest /\ Rest <= GopSize - 1
      BY <2>3, <3>1, <3>2 DEF Rest, Due
    <3> QED BY <2>1, <2>3, <3>3 DEF DamageInv, stream
  <2>4. CASE vpu' = "skip"
    BY <1>6, <2>1, <2>4 DEF Code, DamageInv, Rest, Due, stream
  <2> QED BY <1>6, <2>2, <2>3, <2>4 DEF Code
<1>7. CASE IsBusy
  BY <1>7 DEF IsBusy, DamageInv, Rest, Due, stream
<1>8. CASE WaitForInt
  <2>1. CASE Fail /\ vpu \in {"I", "P"} /\ Lose
    BY <2>1, LossStep DEF Fail, Return, Lose
  <2>2. CASE Fail /\ vpu \notin {"I", "P"} /\ UNCHANGED stream
    BY <2>2, FailStep DEF Fail, Return
  <2>3. CASE UNCHANGED <<vpu, gop, stream>>
    BY <2>3 DEF DamageInv, Rest, Due, stream
  <2> QED BY <1>8, <2>1, <2>2, <2>3 DEF WaitForInt
<1>9. CASE OutputInfoFails
  <2>1. CASE vpu = "skip"
    BY <1>9, <2>1, FailStep DEF OutputInfoFails, Fail, Return
  <2>2. CASE vpu # "skip"
    BY <1>9, <2>2, LossStep DEF OutputInfoFails, Fail, Return, Lose
  <2> QED BY <2>1, <2>2
<1>10. CASE ThrowAway
  <2>1. vpu' = "idle" /\ gop' = gop
    BY <1>10 DEF ThrowAway, GetOutputInfo, Return
  <2>2. CASE vpu = "skip"
    BY <1>10, <2>1, <2>2 DEF ThrowAway, DamageInv, Rest, Due
  <2>3. CASE vpu # "skip"
    BY <1>10, <2>1, <2>3, LossStep DEF ThrowAway
  <2> QED BY <2>2, <2>3
<1>11. CASE Deliver
  <2>1. vpu' = "idle" /\ gop' = gop /\ lost' = lost /\ Due' = Rest
    BY <1>11 DEF Deliver, GetOutputInfo, Return, Rest, Due
  <2>2. CASE vpu = "I"
    <3>1. chain' = "whole" /\ broken' = broken /\ broken <= (GopSize - 1) * lost
      BY <1>11, <2>2 DEF Deliver, DamageInv, Due, EncoderTypes
    <3> QED BY <2>1, <3>1 DEF DamageInv
  <2>3. CASE vpu = "P" /\ chain = "broken"
    <3>1. chain' = "broken" /\ broken' = broken + 1 /\ Rest = Due - 1
      BY <1>11, <2>3, RestFacts DEF Deliver
    <3>2. broken' + Due' = broken + Due
      BY <2>1, <3>1, RestFacts DEF EncoderTypes
    <3> QED BY <2>1, <2>3, <3>1, <3>2 DEF DamageInv
  <2>4. CASE vpu # "I" /\ ~ (vpu = "P" /\ chain = "broken")
    <3>1. chain' = chain /\ broken' = broken
      BY <1>11, <2>4 DEF Deliver
    <3>2. chain = "broken" => Due = Rest
      BY <2>4 DEF Due
    <3> QED BY <2>1, <3>1, <3>2 DEF DamageInv
  <2> QED BY <2>2, <2>3, <2>4
<1>12. CASE UNCHANGED vars
  BY <1>12 DEF vars, DamageInv, Rest, Due, stream
<1> QED BY <1>1, <1>2, <1>3, <1>4, <1>5, <1>6, <1>7, <1>8, <1>9, <1>10, <1>11,
       <1>12 DEF Next, Steps

(* No loss of a coded picture damages more than the rest of one period,    *)
(* whatever the period is and however many are lost.                       *)
THEOREM LossDamagesOnePeriod == Spec => []DamageIsBounded
<1>1. Init => DamageInv
  <2>1. ASSUME Init PROVE broken <= (GopSize - 1) * lost
    BY <2>1, BudgetGrows DEF Init
  <2> QED BY <2>1 DEF Init, DamageInv
<1>2. EncoderTypes /\ DamageInv /\ [Next]_vars => DamageInv'
  BY DamageStep
<1>3. ASSUME EncoderTypes, DamageInv PROVE DamageIsBounded
  <2> DEFINE B == (GopSize - 1) * lost
  <2>1. B \in Nat /\ broken \in Nat /\ Due \in Nat
    BY <1>3, BudgetGrows, RestFacts DEF EncoderTypes
  <2>2. broken <= B \/ broken + Due <= B
    BY <1>3 DEF DamageInv, EncoderTypes
  <2> HIDE DEF B
  <2>3. broken <= B
    BY <2>1, <2>2
  <2> QED BY <2>3 DEF B, DamageIsBounded
<1> QED BY <1>1, <1>2, <1>3, EncoderTypesAlways, PTL DEF Spec

(* While a request is passed on, the VPU codes nothing but an I picture.   *)
IntraInv ==
  /\ forced = "yes" => vpu \notin {"P", "skip"}
  /\ pc \in {"busy", "wait", "info"} => vpu # "idle"
  /\ pc = "info" => vpu # "coding"

LEMMA IntraStep ==
  ASSUME EncoderTypes, IntraInv, [Next]_vars PROVE IntraInv'
<1> USE DEF IntraInv, EncoderTypes, encoder, stream
<1>1. CASE ForceIFrame
  BY <1>1 DEF ForceIFrame
<1>2. CASE EncodeCall
  BY <1>2 DEF EncodeCall
<1>3. CASE ReadOn
  BY <1>3 DEF ReadOn
<1>4. CASE ReadFailed
  BY <1>4 DEF ReadFailed, Fail, Return
<1>5. CASE StartOneFrame
  BY <1>5 DEF StartOneFrame, Fail, Return
<1>6. CASE Code
  BY <1>6 DEF Code
<1>7. CASE IsBusy
  BY <1>7 DEF IsBusy
<1>8. CASE WaitForInt
  BY <1>8 DEF WaitForInt, Fail, Return
<1>9. CASE OutputInfoFails
  BY <1>9 DEF OutputInfoFails, Fail, Return
<1>10. CASE ThrowAway
  BY <1>10 DEF ThrowAway, GetOutputInfo, Return
<1>11. CASE Deliver
  BY <1>11 DEF Deliver, GetOutputInfo, Return
<1>12. CASE UNCHANGED vars
  BY <1>12 DEF vars
<1> QED BY <1>1, <1>2, <1>3, <1>4, <1>5, <1>6, <1>7, <1>8, <1>9, <1>10, <1>11,
       <1>12 DEF Next, Steps

(* A request for an I picture is taken once, and answered by one if the    *)
(* call gives a picture at all.                                            *)
THEOREM RequestIsAnswered == Spec => ForcedIsIntra
<1> DEFINE Honoured ==
      /\ force = "yes" /\ force' = "no" => forced' = "yes"
      /\ pc = "info" /\ result' = "picture" /\ forced = "yes" => out'.kind = "I"
<1>1. Init => IntraInv
  BY DEF Init, IntraInv
<1>2. EncoderTypes /\ IntraInv /\ [Next]_vars => IntraInv'
  BY IntraStep
<1>3. ASSUME EncoderTypes, IntraInv, Next PROVE Honoured \/ UNCHANGED vars
  <2>1. ASSUME force = "yes", force' = "no" PROVE forced' = "yes"
    BY <1>3, <2>1 DEF Next, Steps, ForceIFrame, EncodeCall, ReadOn, ReadFailed,
       StartOneFrame, Code, IsBusy, WaitForInt, OutputInfoFails, ThrowAway,
       Deliver, GetOutputInfo, Fail, Return, encoder
  <2>2. ASSUME pc = "info", result' = "picture", forced = "yes"
        PROVE  out'.kind = "I" \/ UNCHANGED vars
    <3>1. vpu = "I"
      BY <1>3, <2>2 DEF IntraInv, EncoderTypes
    <3>2. CASE ThrowAway \/ Deliver
      <4>1. GetOutputInfo
        BY <3>2 DEF ThrowAway, Deliver
      <4> QED BY <3>1, <4>1, HandedOutFields
    <3>3. CASE OutputInfoFails
      BY <3>3, <2>2 DEF OutputInfoFails, Fail, Return
    <3>4. ThrowAway \/ Deliver \/ OutputInfoFails
      BY <1>3, <2>2, <3>1 DEF Next, Steps, ForceIFrame, EncodeCall, ReadOn,
         ReadFailed, StartOneFrame, Code, IsBusy, WaitForInt
    <3> QED BY <3>2, <3>3, <3>4
  <2> QED BY <2>1, <2>2
<1>4. EncoderTypes /\ IntraInv /\ [Next]_vars => [Honoured]_vars
  BY <1>3
<1>5. QED
  BY <1>1, <1>2, <1>4, EncoderTypesAlways, PTL DEF Spec, ForcedIsIntra
-----------------------------------------------------------------------------
(* Induction on the natural numbers, for a set instead of a predicate: the *)
(* least number that is not in T would have one before it that is.         *)
LEMMA SetInduction ==
  ASSUME NEW T, 0 \in T, \A n \in Nat : n \in T => n + 1 \in T
  PROVE  \A n \in Nat : n \in T
<1> DEFINE M == Nat \ T
<1> SUFFICES ASSUME M # {} PROVE FALSE
  OBVIOUS
<1>1. PICK x \in M : \A y \in M : ~ (<<y, x>> \in OpToRel(<, Nat))
  <2>1. M \subseteq Nat
    OBVIOUS
  <2> HIDE DEF M
  <2> QED BY <2>1, WFMin, NatLessThanWellFounded, Zenon
<1>2. \A y \in M : ~ (y < x)
  BY <1>1 DEF OpToRel
<1>3. x # 0 /\ x \in Nat
  OBVIOUS
<1>4. x - 1 \in Nat /\ x - 1 < x /\ (x - 1) + 1 = x
  BY <1>3
<1>5. x - 1 \in T
  BY <1>2, <1>4
<1> QED BY <1>4, <1>5

(* There is a table of the partial sums of s: one for its first k members  *)
(* gives one for its first k + 1.                                          *)
LEMMA SumExists ==
  ASSUME NEW s \in Seq(Nat)
  PROVE  \E f : f = [n \in 0 .. Len(s) |-> IF n = 0 THEN 0 ELSE f[n - 1] + s[n]]
<1> DEFINE P(k) == \E f : f = [n \in 0 .. k |-> IF n = 0 THEN 0 ELSE f[n - 1] + s[n]]
<1> DEFINE T == {k \in Nat : P(k)}
<1>1. 0 \in T
  <2> DEFINE f == [n \in {0} |-> 0]
  <2>1. f = [n \in 0 .. 0 |-> IF n = 0 THEN 0 ELSE f[n - 1] + s[n]]
    OBVIOUS
  <2> QED BY <2>1
<1>2. ASSUME NEW k \in Nat, k \in T PROVE k + 1 \in T
  <2>1. PICK f : f = [n \in 0 .. k |-> IF n = 0 THEN 0 ELSE f[n - 1] + s[n]]
    BY <1>2
  <2> DEFINE g == [n \in 0 .. k + 1 |-> IF n = k + 1 THEN f[k] + s[k + 1] ELSE f[n]]
  <2>2. g = [n \in 0 .. k + 1 |-> IF n = 0 THEN 0 ELSE g[n - 1] + s[n]]
    <3> SUFFICES ASSUME NEW n \in 0 .. k + 1
                 PROVE  g[n] = IF n = 0 THEN 0 ELSE g[n - 1] + s[n]
      OBVIOUS
    <3>1. CASE n = 0
      BY <3>1, <2>1
    <3>2. CASE n = k + 1
      BY <3>2, <2>1
    <3>3. CASE n # 0 /\ n # k + 1
      <4>1. n \in 0 .. k /\ n - 1 \in 0 .. k /\ n - 1 \in 0 .. k + 1 /\ n - 1 # k + 1
        BY <3>3
      <4>2. g[n] = f[n] /\ g[n - 1] = f[n - 1]
        BY <3>3, <4>1
      <4>3. f[n] = f[n - 1] + s[n]
        BY <2>1, <4>1, <3>3
      <4> QED BY <4>2, <4>3, <3>3
    <3> QED BY <3>1, <3>2, <3>3
  <2>3. P(k + 1)
    <3> HIDE DEF g
    <3> QED BY <2>2
  <2>4. k + 1 \in Nat
    OBVIOUS
  <2> HIDE DEF P
  <2> QED BY <2>3, <2>4
<1>3. \A k \in Nat : k \in T
  <2> HIDE DEF T
  <2> QED BY <1>1, <1>2, SetInduction
<1> QED BY <1>3, LenProperties

(* Total(s) is the last of the partial sums of s, all natural numbers.     *)
LEMMA TotalUnfolds ==
  ASSUME NEW s \in Seq(Nat)
  PROVE  \E f : /\ Total(s) = f[Len(s)]
                /\ f[0] = 0
                /\ \A n \in 1 .. Len(s) : f[n] = f[n - 1] + s[n]
                /\ \A n \in 0 .. Len(s) : f[n] \in Nat
<1> DEFINE sum == CHOOSE f : f = [n \in 0 .. Len(s) |-> IF n = 0 THEN 0 ELSE f[n - 1] + s[n]]
<1>1. sum = [n \in 0 .. Len(s) |-> IF n = 0 THEN 0 ELSE sum[n - 1] + s[n]]
  BY SumExists
<1>2. Total(s) = sum[Len(s)]
  BY DEF Total
<1> HIDE DEF sum
<1>0. Len(s) \in Nat
  BY LenProperties
<1>3. sum[0] = 0
  BY <1>1, <1>0
<1>4. ASSUME NEW n \in 1 .. Len(s) PROVE sum[n] = sum[n - 1] + s[n]
  BY <1>1, <1>0
<1> DEFINE T == {n \in Nat : n <= Len(s) => sum[n] \in Nat}
<1>5. 0 \in T
  BY <1>3
<1>6. ASSUME NEW n \in Nat, n \in T PROVE n + 1 \in T
  <2> SUFFICES ASSUME n + 1 <= Len(s) PROVE sum[n + 1] \in Nat
    OBVIOUS
  <2>1. n + 1 \in 1 .. Len(s) /\ (n + 1) - 1 = n
    BY <1>0
  <2>2. s[n + 1] \in Nat
    BY <2>1, ElementOfSeq
  <2>3. sum[n] \in Nat
    BY <1>6, <1>0
  <2> QED BY <2>1, <2>2, <2>3, <1>4
<1>7. \A n \in Nat : n \in T
  <2> HIDE DEF T
  <2> QED BY <1>5, <1>6, SetInduction
<1>8. \A n \in 0 .. Len(s) : sum[n] \in Nat
  BY <1>7, <1>0
<1> QED BY <1>2, <1>3, <1>4, <1>8

(* Two more sizes in front of a list add just themselves to its total: the *)
(* partial sums of the longer list are those of r, moved by two and a + b. *)
LEMMA TotalOfHeaders ==
  ASSUME NEW r \in Seq(Nat), NEW a \in Nat, NEW b \in Nat
  PROVE  Total(<<a, b>> \o r) = a + b + Total(r)
<1> DEFINE s == <<a, b>> \o r
<1>1. s \in Seq(Nat)
  OBVIOUS
<1>2. /\ Len(s) = Len(r) + 2 /\ s[1] = a /\ s[2] = b
      /\ \A n \in 1 .. Len(r) : s[n + 2] = r[n]
      /\ Len(r) \in Nat
  OBVIOUS
<1> HIDE DEF s
<1>3. PICK f : /\ Total(r) = f[Len(r)] /\ f[0] = 0
               /\ \A n \in 1 .. Len(r) : f[n] = f[n - 1] + r[n]
               /\ \A n \in 0 .. Len(r) : f[n] \in Nat
  BY TotalUnfolds
<1>4. PICK g : /\ Total(s) = g[Len(s)] /\ g[0] = 0
               /\ \A n \in 1 .. Len(s) : g[n] = g[n - 1] + s[n]
               /\ \A n \in 0 .. Len(s) : g[n] \in Nat
  BY TotalUnfolds, <1>1
<1> DEFINE T == {n \in Nat : n <= Len(r) => g[n + 2] = f[n] + (a + b)}
<1>5. 0 \in T
  <2>1. g[1] = g[0] + s[1] /\ g[2] = g[1] + s[2]
    BY <1>2, <1>4
  <2>2. g[2] = a + b
    BY <2>1, <1>4, <1>2
  <2> QED BY <2>2, <1>3
<1>6. ASSUME NEW n \in Nat, n \in T PROVE n + 1 \in T
  <2> SUFFICES ASSUME n + 1 <= Len(r) PROVE g[(n + 1) + 2] = f[n + 1] + (a + b)
    OBVIOUS
  <2>1. n + 3 \in 1 .. Len(s) /\ n + 1 \in 1 .. Len(r) /\ n \in 0 .. Len(r)
    BY <1>2
  <2>2. g[n + 3] = g[n + 2] + s[n + 3]
    BY <2>1, <1>4
  <2>3. s[n + 3] = r[n + 1]
    BY <2>1, <1>2
  <2>4. f[n + 1] = f[n] + r[n + 1]
    BY <2>1, <1>3
  <2>5. g[n + 2] = f[n] + (a + b)
    BY <1>6, <1>2
  <2>6. r[n + 1] \in Nat /\ f[n] \in Nat
    BY <2>1, <1>3, ElementOfSeq
  <2>7. (n + 1) + 2 = n + 3
    OBVIOUS
  <2> QED BY <2>2, <2>3, <2>4, <2>5, <2>6, <2>7
<1>7. \A n \in Nat : n \in T
  <2> HIDE DEF T
  <2> QED BY <1>5, <1>6, SetInduction
<1>8. g[Len(r) + 2] = f[Len(r)] + (a + b)
  BY <1>7, <1>2
<1>9. f[Len(r)] \in Nat
  BY <1>3, <1>2
<1> QED
  <2>1. Total(s) = f[Len(r)] + (a + b)
    BY <1>2, <1>4, <1>8
  <2>2. Total(r) = f[Len(r)]
    BY <1>3
  <2>3. Total(s) = a + b + Total(r)
    BY <2>1, <2>2, <1>9
  <2> QED BY <2>3 DEF s

(* What the picture being handed out is made of: once the VPU has coded,   *)
(* the bitstream buffer holds the picture of this call, until the next.    *)
CoherenceInv ==
  /\ vpu \in {"I", "P", "skip"} => bsbuf = "this"
  /\ DeliveredIsCoherent

(* The sizes of the NAL table add up to the size that goes with it.        *)
LEMMA HandedOut ==
  ASSUME EncoderTypes, IntraInv, CoherenceInv, pc = "info", GetOutputInfo
  PROVE  CoherenceInv'
<1>1. /\ pc' = "idle" /\ result' = "picture" /\ vpu' = "idle"
      /\ bsbuf' = bsbuf /\ bsbuf = "this"
  BY DEF EncoderTypes, IntraInv, CoherenceInv, GetOutputInfo, Return
<1>2. report \in Seq(Nat)
  <2>1. report \in Seq(SliceSizes) /\ SliceSizes \subseteq Nat
    BY DEF EncoderTypes
  <2>2. Len(report) \in Nat /\ report \in [1 .. Len(report) -> SliceSizes]
    BY <2>1, LenProperties
  <2>3. report \in [1 .. Len(report) -> Nat]
    BY <2>1, <2>2
  <2> QED BY <2>2, <2>3, SeqDef
<1>3. /\ UNCHANGED <<report, coded, headers>> /\ coded \in Nat
      /\ SpsSize \in Nat /\ PpsSize \in Nat /\ Len(report) \in Nat
  BY <1>2 DEF GetOutputInfo, Return, EncoderTypes, SpsSize, PpsSize
<1>4. Total(report)' = Total(report)
  BY <1>3 DEF Total
<1>5. Total(out.nal)' = Total(out'.nal)
  BY DEF Total
<1>6. CASE vpu = "I"
  <2> DEFINE u == <<SpsSize, PpsSize>> \o report
  <2>1. u \in Seq(Nat) /\ Len(u) = Len(report) + 2
    BY <1>2, <1>3
  <2>2. Total(u) = SpsSize + PpsSize + Total(report)
    BY <1>2, <1>3, TotalOfHeaders
  <2>3. outbuf' = "this"
    BY <1>1, <1>6, HandedOutFields
  <2>4. /\ out'.kind = "I" /\ out'.at = "outbuf" /\ out'.number = Len(u)
        /\ out'.size = coded + SpsSize + PpsSize /\ out'.nal = Table(u)
    BY <1>6, HandedOutFields
  <2> HIDE DEF u
  <2>5. ASSUME AsExpected'
        PROVE  /\ out'.number = Len(out'.nal) /\ Total(out'.nal) = out'.size
               /\ out'.size = headers'[1] + headers'[2] + coded'
    <3>1. /\ Total(report) = coded /\ headers = <<SpsSize, PpsSize>>
          /\ Len(report) + 2 <= MaxNal
      BY <2>5, <2>4, <1>3, <1>4 DEF AsExpected
    <3>2. out'.nal = u
      BY <2>1, <2>4, <3>1, TableFacts
    <3> QED BY <1>3, <2>2, <2>4, <3>1, <3>2
  <2> QED BY <1>1, <1>5, <2>3, <2>4, <2>5 DEF CoherenceInv, DeliveredIsCoherent
<1>7. CASE vpu # "I"
  <2>2. << >> \o report = report
    BY <1>2
  <2>3. /\ out'.kind = "P" /\ out'.at = "bsbuf" /\ out'.number = Len(report)
        /\ out'.size = coded /\ out'.nal = Table(report)
    BY <1>7, <2>2, HandedOutFields
  <2>4. ASSUME AsExpected'
        PROVE  /\ out'.number = Len(out'.nal) /\ Total(out'.nal) = out'.size
               /\ out'.size = coded'
    <3>1. Total(report) = coded /\ Len(report) <= MaxNal
      BY <2>3, <2>4, <1>3, <1>4 DEF AsExpected
    <3>2. out'.nal = report
      BY <1>2, <2>3, <3>1, TableFacts
    <3> QED BY <1>3, <2>3, <3>1, <3>2
  <2> QED BY <1>1, <1>5, <2>3, <2>4 DEF CoherenceInv, DeliveredIsCoherent
<1> QED BY <1>6, <1>7

(* No other step gives a picture, or touches one that is handed out.       *)
LEMMA CoherenceStep ==
  ASSUME EncoderTypes, IntraInv, CoherenceInv, [Next]_vars PROVE CoherenceInv'
<1>1. CASE ThrowAway \/ Deliver
  <2>1. GetOutputInfo /\ pc = "info"
    BY <1>1 DEF ThrowAway, Deliver, GetOutputInfo
  <2> QED BY <2>1, HandedOut
<1>2. CASE ForceIFrame
  BY <1>2 DEF ForceIFrame, CoherenceInv, DeliveredIsCoherent, AsExpected, Total
<1>3. CASE EncodeCall
  BY <1>3 DEF EncodeCall, CoherenceInv, DeliveredIsCoherent, EncoderTypes
<1>4. CASE ReadOn
  BY <1>4 DEF ReadOn, CoherenceInv, DeliveredIsCoherent, encoder
<1>5. CASE ReadFailed
  BY <1>5 DEF ReadFailed, Fail, Return, CoherenceInv, DeliveredIsCoherent
<1>6. CASE StartOneFrame
  BY <1>6 DEF StartOneFrame, Fail, Return, CoherenceInv, DeliveredIsCoherent
<1>7. CASE Code
  BY <1>7 DEF Code, CoherenceInv, DeliveredIsCoherent, EncoderTypes
<1>8. CASE IsBusy
  BY <1>8 DEF IsBusy, CoherenceInv, DeliveredIsCoherent, encoder
<1>9. CASE WaitForInt
  BY <1>9 DEF WaitForInt, Fail, Return, CoherenceInv, DeliveredIsCoherent
<1>10. CASE OutputInfoFails
  BY <1>10 DEF OutputInfoFails, Fail, Return, CoherenceInv, DeliveredIsCoherent
<1>11. CASE UNCHANGED vars
  BY <1>11 DEF vars, encoder, CoherenceInv, DeliveredIsCoherent, AsExpected,
     Total
<1> QED BY <1>1, <1>2, <1>3, <1>4, <1>5, <1>6, <1>7, <1>8, <1>9, <1>10, <1>11
        DEF Next, Steps

(* The data handed out is of this call; and for every picture of which the *)
(* VPU reports all slices, no more than the table has entries, and for     *)
(* headers of the sizes the code takes for granted, size and table cover   *)
(* the coded picture and its headers byte by byte.                         *)
THEOREM HandedOutCoherently == Spec => []DeliveredIsCoherent
<1>1. Init => IntraInv /\ CoherenceInv
  BY DEF Init, IntraInv, CoherenceInv, DeliveredIsCoherent
<1>2. EncoderTypes /\ IntraInv /\ [Next]_vars => IntraInv'
  BY IntraStep
<1>3. EncoderTypes /\ IntraInv /\ CoherenceInv /\ [Next]_vars => CoherenceInv'
  BY CoherenceStep
<1>4. CoherenceInv => DeliveredIsCoherent
  BY DEF CoherenceInv
<1> QED BY <1>1, <1>2, <1>3, <1>4, EncoderTypesAlways, PTL DEF Spec
-----------------------------------------------------------------------------
(* The turns a loop has left whose pointer is at p and which goes over so  *)
(* many rows.                                                              *)
TurnsLeft(p, rows) == (rows - p[1]) * Cols - p[2]

(* A turn of either loop is one turn less, wherever in a row it was.       *)
LEMMA TurnsFall ==
  ASSUME Cols \in Nat, Cols > 0, NEW p \in Nat \X Nat, p[2] < Cols,
         NEW rows \in Nat, p[1] < rows
  PROVE  /\ TurnsLeft(p, rows) \in 1 .. rows * Cols
         /\ TurnsLeft(After(p), rows) = TurnsLeft(p, rows) - 1
<1>1. p[1] \in Nat /\ p[2] \in Nat /\ rows - p[1] \in Nat /\ rows - p[1] >= 1
  OBVIOUS
<1>2. rows * Cols = (rows - p[1]) * Cols + p[1] * Cols
  BY <1>1
<1>3. (rows - p[1]) * Cols = (rows - p[1] - 1) * Cols + Cols
  BY <1>1
<1>4. /\ p[1] * Cols \in Nat /\ (rows - p[1] - 1) * Cols \in Nat
      /\ (rows - p[1]) * Cols \in Nat /\ rows * Cols \in Nat
  BY <1>1
<1>5. TurnsLeft(p, rows) \in 1 .. rows * Cols
  BY <1>1, <1>2, <1>3, <1>4 DEF TurnsLeft
<1>6. CASE p[2] + 1 < Cols
  BY <1>1, <1>4, <1>6, AfterFacts DEF TurnsLeft
<1>7. CASE p[2] + 1 = Cols
  <2>1. After(p)[1] = p[1] + 1 /\ After(p)[2] = 0
    BY <1>7, AfterFacts
  <2>2. rows - (p[1] + 1) = rows - p[1] - 1
    BY <1>1
  <2>3. TurnsLeft(After(p), rows) = (rows - p[1] - 1) * Cols - 0
    BY <2>1, <2>2 DEF TurnsLeft
  <2> QED BY <2>3, <1>1, <1>3, <1>4, <1>7 DEF TurnsLeft
<1> QED BY <1>1, <1>5, <1>6, <1>7

(* What a picture that is being read has still to go through. *)
ReadLeft ==
  IF read = "planar" THEN TurnsLeft(to, Half) ELSE
  IF read = "packed" THEN TurnsLeft(from, have) ELSE
  IF read = "y" THEN 3 ELSE IF read = "u" THEN 2 ELSE IF read = "v" THEN 1 ELSE 0

ReadMost == (2 * Half + Surplus) * Cols + 3

LEMMA ReadLeftBound ==
  ASSUME SourceInv
  PROVE  ReadLeft \in 0 .. ReadMost /\ ReadMost \in Nat
<1>1. /\ size \in Sizes /\ Cols \in Nat /\ Cols > 0 /\ Half \in Nat /\ Half > 0
      /\ to \in Nat \X Nat /\ from \in Nat \X Nat
      /\ have \in 0 .. 2 * Half + Surplus /\ Surplus \in Nat
  BY SizeFacts, SurplusAssumption DEF SourceInv, SourceTypeOK
<1>2. /\ Half * Cols \in Nat /\ Surplus * Cols \in Nat
      /\ ReadMost = 2 * (Half * Cols) + Surplus * Cols + 3
  BY <1>1 DEF ReadMost
<1>3. CASE read = "planar"
  <2>1. to[2] < Cols /\ to[1] < Half
    BY <1>3 DEF SourceInv, Reading, PlanarAt
  <2>2. TurnsLeft(to, Half) \in 1 .. Half * Cols
    BY <1>1, <2>1, TurnsFall
  <2> QED BY <1>2, <1>3, <2>2 DEF ReadLeft
<1>4. CASE read = "packed"
  <2>1. from[2] < Cols /\ from[1] < have
    BY <1>4 DEF SourceInv, Reading, PackedAt
  <2>2. TurnsLeft(from, have) \in 1 .. have * Cols
    BY <1>1, <2>1, TurnsFall
  <2>3. have * Cols + (2 * Half + Surplus - have) * Cols
          = 2 * (Half * Cols) + Surplus * Cols
    BY <1>1
  <2>4. (2 * Half + Surplus - have) * Cols \in Nat /\ have * Cols \in Nat
    BY <1>1
  <2> QED BY <1>2, <1>4, <2>2, <2>3, <2>4 DEF ReadLeft
<1>5. CASE read \notin {"planar", "packed"}
  BY <1>2, <1>5 DEF ReadLeft
<1> QED BY <1>3, <1>4, <1>5, <1>2

LEMMA ReadLeftFalls ==
  ASSUME SourceInv, ReadStep
  PROVE  ReadLeft' \in Int /\ ReadLeft' < ReadLeft
<1>1. /\ size \in Sizes /\ Cols \in Nat /\ Cols > 0 /\ Half \in Nat /\ Half > 0
      /\ to \in Nat \X Nat /\ from \in Nat \X Nat /\ have \in Nat
  BY SizeFacts, SurplusAssumption DEF SourceInv, SourceTypeOK
<1>2. CASE PlanarTurn
  <2>1. /\ read = "planar" /\ to' = After(to) /\ read' \in {"planar", "done"}
        /\ Half' = Half /\ Cols' = Cols
    BY <1>2 DEF PlanarTurn, Half, Cols
  <2>2. to[2] < Cols /\ to[1] < Half
    BY <2>1 DEF SourceInv, Reading, PlanarAt
  <2>3. /\ TurnsLeft(to, Half) \in Nat /\ TurnsLeft(to, Half) >= 1
        /\ TurnsLeft(After(to), Half) = TurnsLeft(to, Half) - 1
    <3>1. Half * Cols \in Nat
      BY <1>1
    <3> QED BY <1>1, <2>2, <3>1, TurnsFall
  <2>4. TurnsLeft(to, Half)' = TurnsLeft(After(to), Half)
    BY <2>1 DEF TurnsLeft
  <2> QED BY <2>1, <2>3, <2>4 DEF ReadLeft
<1>3. CASE PackedTurn
  <2>1. /\ read = "packed" /\ from' = After(from) /\ read' \in {"packed", "done"}
        /\ have' = have /\ Cols' = Cols
    BY <1>3 DEF PackedTurn, Cols, input
  <2>2. from[2] < Cols /\ from[1] < have
    BY <2>1 DEF SourceInv, Reading, PackedAt
  <2>3. /\ TurnsLeft(from, have) \in Nat /\ TurnsLeft(from, have) >= 1
        /\ TurnsLeft(After(from), have) = TurnsLeft(from, have) - 1
    <3>1. have * Cols \in Nat
      BY <1>1
    <3> QED BY <1>1, <2>2, <3>1, TurnsFall
  <2>4. TurnsLeft(from, have)' = TurnsLeft(After(from), have)
    BY <2>1 DEF TurnsLeft
  <2> QED BY <2>1, <2>3, <2>4 DEF ReadLeft
<1>4. CASE ReadPlane
  BY <1>4 DEF ReadPlane, Following, Planes, ReadLeft
<1> QED BY <1>2, <1>3, <1>4 DEF ReadStep

(* The steps a call has left: the turns of its loops, and two for every    *)
(* turn it may still wait for the VPU.                                     *)
CallLeft ==
  IF pc = "read" THEN ReadLeft + 2 * MaxWaits + 4 ELSE
  IF pc = "busy" THEN 2 * (MaxWaits - waits) + 3 ELSE
  IF pc = "wait" THEN 2 * (MaxWaits - waits) + 2 ELSE
  IF pc = "info" THEN 1 ELSE 0

CallMost == ReadMost + 2 * MaxWaits + 4

(* A call begins to wait anew. *)
WaitsInv == pc \in {"idle", "read"} => waits = 0

LEMMA WaitsStep ==
  ASSUME WaitsInv, [Next]_vars PROVE WaitsInv'
<1> USE DEF WaitsInv, encoder, Return, Fail
<1>1. CASE ForceIFrame \/ EncodeCall \/ ReadOn
  BY <1>1 DEF ForceIFrame, EncodeCall, ReadOn
<1>2. CASE ReadFailed \/ StartOneFrame
  BY <1>2 DEF ReadFailed, StartOneFrame
<1>3. CASE Code \/ IsBusy
  BY <1>3 DEF Code, IsBusy
<1>4. CASE WaitForInt
  BY <1>4 DEF WaitForInt
<1>5. CASE OutputInfoFails \/ ThrowAway \/ Deliver
  BY <1>5 DEF OutputInfoFails, ThrowAway, Deliver, GetOutputInfo
<1>6. CASE UNCHANGED vars
  BY <1>6 DEF vars
<1> QED BY <1>1, <1>2, <1>3, <1>4, <1>5, <1>6 DEF Next, Steps

(* Every step of a call uses up one of the steps it has left, and the VPU  *)
(* gives it none back.                                                     *)
CallIsBounded ==
  [][/\ Steps => CallLeft' < CallLeft
     /\ Code => CallLeft' = CallLeft]_vars

LEMMA CallLeftBound ==
  ASSUME SourceInv, EncoderTypes
  PROVE  CallLeft \in 0 .. CallMost
<1>1. ReadLeft \in 0 .. ReadMost /\ ReadMost \in Nat
  BY ReadLeftBound
<1>2. MaxWaits \in Nat /\ waits \in 0 .. MaxWaits
  BY DEF EncoderTypes
<1> QED BY <1>1, <1>2 DEF CallLeft, CallMost

LEMMA CallStep ==
  ASSUME SourceInv, EncoderTypes, WaitsInv
  PROVE  /\ Steps => CallLeft' < CallLeft
         /\ Code => CallLeft' = CallLeft
<1>1. ReadLeft \in Nat
  BY ReadLeftBound
<1>2. MaxWaits \in Nat /\ waits \in 0 .. MaxWaits
  BY DEF EncoderTypes
<1>3. ASSUME Steps PROVE CallLeft' < CallLeft
  <2>1. CASE ReadOn
    <3>1. /\ ReadLeft' \in Int /\ ReadLeft' < ReadLeft
          /\ pc = "read" /\ pc' = "read"
      BY <2>1, ReadLeftFalls DEF ReadOn
    <3>2. /\ CallLeft = ReadLeft + 2 * MaxWaits + 4
          /\ CallLeft' = ReadLeft' + 2 * MaxWaits + 4
      BY <3>1 DEF CallLeft
    <3>3. \A a, b, c \in Int : a < b => a + c + 4 < b + c + 4
      OBVIOUS
    <3>4. ReadLeft' \in Int /\ ReadLeft \in Int /\ 2 * MaxWaits \in Int
      BY <1>1, <1>2, <3>1
    <3>5. ReadLeft' + 2 * MaxWaits + 4 < ReadLeft + 2 * MaxWaits + 4
      BY <3>1, <3>3, <3>4, Zenon
    <3> QED BY <3>2, <3>5
  <2>2. CASE ReadFailed
    BY <1>1, <1>2, <2>2 DEF ReadFailed, Fail, Return, CallLeft
  <2>3. CASE StartOneFrame
    <3>1. pc = "read" /\ waits = 0
          /\ (pc' = "idle" \/ (pc' = "busy" /\ waits' = waits))
      BY <2>3 DEF StartOneFrame, Fail, Return, WaitsInv
    <3> QED BY <1>1, <1>2, <3>1 DEF CallLeft
  <2>4. CASE IsBusy
    <3>1. pc = "busy" /\ pc' \in {"wait", "info"} /\ waits' = waits
      BY <2>4 DEF IsBusy, encoder
    <3> QED BY <1>2, <3>1 DEF CallLeft
  <2>5. CASE WaitForInt
    <3>1. CASE waits = MaxWaits
      <4>1. pc = "wait" /\ pc' = "idle"
        BY <2>5, <3>1 DEF WaitForInt, Fail, Return
      <4> QED BY <1>2, <4>1 DEF CallLeft
    <3>2. CASE waits # MaxWaits
      <4>1. pc = "wait" /\ pc' = "busy" /\ waits' = waits + 1
        BY <2>5, <3>2 DEF WaitForInt
      <4>2. waits + 1 <= MaxWaits
        BY <1>2, <3>2
      <4> QED BY <1>2, <4>1, <4>2 DEF CallLeft
    <3> QED BY <3>1, <3>2
  <2>6. CASE OutputInfoFails \/ ThrowAway \/ Deliver
    <3>1. pc = "info" /\ pc' = "idle"
      BY <2>6 DEF OutputInfoFails, ThrowAway, Deliver, GetOutputInfo, Fail,
         Return
    <3> QED BY <3>1 DEF CallLeft
  <2> QED
    BY <1>3, <2>1, <2>2, <2>3, <2>4, <2>5, <2>6 DEF Steps
<1>4. ASSUME Code PROVE CallLeft' = CallLeft
  <2>1. pc' = pc /\ waits' = waits /\ pc # "read"
    BY <1>4 DEF Code, EncoderTypes
  <2> QED BY <2>1 DEF CallLeft
<1> QED BY <1>3, <1>4

(* A call of getEncFrame has at most so many steps, the loops over the     *)
(* picture and over the wait for the VPU included, even if the VPU is busy *)
(* for ever (vpu_encode.c:117 to 229 and 527 to 711).                      *)
THEOREM CallsAreBounded == Spec => [](CallLeft \in 0 .. CallMost) /\ CallIsBounded
<1> DEFINE Uses == /\ Steps => CallLeft' < CallLeft
                   /\ Code => CallLeft' = CallLeft
<1>1. Init => WaitsInv
  BY DEF Init, WaitsInv
<1>2. WaitsInv /\ [Next]_vars => WaitsInv'
  BY WaitsStep
<1>3. SourceInv /\ EncoderTypes => CallLeft \in 0 .. CallMost
  BY CallLeftBound
<1>4. SourceInv /\ EncoderTypes /\ WaitsInv /\ [Next]_vars => [Uses]_vars
  BY CallStep
<1> QED
  BY <1>1, <1>2, <1>3, <1>4, SourceAlways, EncoderTypesAlways, PTL
     DEF Spec, CallIsBounded
=============================================================================
