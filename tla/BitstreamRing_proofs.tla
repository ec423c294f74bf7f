------------------------ MODULE BitstreamRing_proofs ------------------------
(***************************************************************************)
(* Theorems about the bitstream ring, for every size of the ring, the      *)
(* frames and the file.                                                    *)
(***************************************************************************)
EXTENDS BitstreamRing, SequenceTheorems, TLAPS

USE RingAssumption, SourceAssumption

-----------------------------------------------------------------------------
(* Rounding down to blocks neither exceeds the space nor goes below 0.     *)
LEMMA BlocksBounded ==
  ASSUME NEW n \in Nat
  PROVE  Blocks(n) \in 0 .. n
<1>1. n % Block \in 0 .. Block - 1
  OBVIOUS
<1>2. n % Block <= n
  <2>1. n = Block * (n \div Block) + (n % Block)
    OBVIOUS
  <2>2. n \div Block \in Nat
    OBVIOUS
  <2>3. Block * (n \div Block) \in Nat
    BY <2>2
  <2> QED
    BY <1>1, <2>1, <2>3
<1> QED
  BY <1>1, <1>2 DEF Blocks

(* An accepted request is positive and fits into the space.                *)
LEMMA RequestFits ==
  ASSUME TypeOK, NEW n \in Nat
  PROVE  /\ Accepts(n) => FillRequest(n) \in 1 .. Space
         /\ Request \in Nat
         /\ Request > 0 => (Request <= Space \/ src # 0)
<1>1. Space \in Nat
  BY DEF TypeOK, Space
<1>2. Blocks(Space) \in 0 .. Space
  BY <1>1, BlocksBounded
<1> QED
  BY <1>1, <1>2 DEF Accepts, FillRequest, Request, TypeOK

(* A pointer less than one turn ahead of a cell wraps to a cell.           *)
LEMMA WrapInCells ==
  ASSUME NEW p \in Cells, NEW k \in 0 .. Size - 1
  PROVE  Wrap(p + k) \in Cells
BY DEF Wrap, Cells

(* Cell k of the ring, counted from the read pointer, lies k - used ahead  *)
(* of the write pointer, or a full turn more when it is occupied.          *)
LEMMA OffsetOf ==
  ASSUME TypeOK, NEW k \in 0 .. Size - 1
  PROVE  /\ Wrap(rd + k) \in Cells
         /\ Offset(Wrap(rd + k)) = IF k >= used THEN k - used
                                   ELSE k - used + Size
BY DEF TypeOK, Wrap, Offset, wr, Cells

(* What a copy of n bytes, the first m of them from the source, leaves in  *)
(* the ring: the occupied cells are untouched and the new bytes follow.    *)
LEMMA CopiedContent ==
  ASSUME TypeOK, NEW n \in 0 .. Space, NEW m \in 0 .. n
  PROVE  /\ Copied(n, m) \in [Cells -> Nat \cup {Junk}]
         /\ \A k \in 0 .. used - 1 : Copied(n, m)[Wrap(rd + k)] = Content(k)
         /\ \A k \in used .. used + m - 1 :
              Copied(n, m)[Wrap(rd + k)] = src + (k - used)
<1>1. \A i \in Cells : Offset(i) \in 0 .. Size - 1
  BY DEF TypeOK, Wrap, Offset, wr, Cells
<1>2. Copied(n, m) \in [Cells -> Nat \cup {Junk}]
  BY <1>1 DEF Copied, TypeOK
<1>3. ASSUME NEW k \in 0 .. used - 1
      PROVE  Copied(n, m)[Wrap(rd + k)] = Content(k)
  <2>1. Wrap(rd + k) \in Cells /\ Offset(Wrap(rd + k)) = k - used + Size
    BY OffsetOf DEF TypeOK
  <2>2. k - used + Size >= n
    BY DEF TypeOK, Space
  <2> QED
    BY <2>1, <2>2 DEF Copied, Content
<1>4. ASSUME NEW k \in used .. used + m - 1
      PROVE  Copied(n, m)[Wrap(rd + k)] = src + (k - used)
  <2>1. k \in 0 .. Size - 1
    BY DEF TypeOK, Space
  <2>2. Wrap(rd + k) \in Cells /\ Offset(Wrap(rd + k)) = k - used
    BY <2>1, OffsetOf DEF TypeOK
  <2>3. k - used < m /\ k - used < n
    BY DEF TypeOK
  <2> QED
    BY <2>2, <2>3 DEF Copied, TypeOK
<1> QED
  BY <1>2, <1>3, <1>4
-----------------------------------------------------------------------------
LEMMA TypeInit == Init => TypeOK
BY DEF Init, TypeOK, Cells

LEMMA TypeStep ==
  ASSUME TypeOK, [Next]_vars
  PROVE  TypeOK'
<1> USE DEF Publish, PublishEnd, UpdateFails
<1>1. ASSUME NEW n \in FrameSizes, FillFromMemory(n)
      PROVE  TypeOK'
  <2>1. FillRequest(n) \in 1 .. Space /\ n <= FillRequest(n)
    BY <1>1, RequestFits DEF FillFromMemory, FillRequest
  <2>2. Copied(FillRequest(n), n) \in [Cells -> Nat \cup {Junk}]
    BY <2>1, CopiedContent
  <2>3. src' \in Nat /\ dropped' \in 0 .. src'
    BY <1>1, <2>1 DEF FillFromMemory, TypeOK
  <2> QED
    BY <1>1, <2>1, <2>2, <2>3 DEF FillFromMemory, TypeOK, Space
<1>2. CASE FillFromFile(Request)
  <2>1. Read(Request) \in 0 .. Space /\ Space \in Nat
    BY <1>2, RequestFits DEF FillFromFile, Read, Least, left, TypeOK, Space
  <2>2. Copied(Read(Request), Read(Request)) \in [Cells -> Nat \cup {Junk}]
    BY <2>1, CopiedContent
  <2>3. src' \in Nat /\ dropped' \in 0 .. src'
    BY <1>2, <2>1 DEF FillFromFile, TypeOK
  <2> QED
    BY <1>2, <2>1, <2>2, <2>3 DEF FillFromFile, TypeOK, Space
<1>3. CASE FillAtEndOfFile(Request)
  <2>1. room \in 0 .. Size
    BY DEF TypeOK, room, wr, Wrap, Cells
  <2>2. CASE left = 0 /\ UNCHANGED <<ring, src>> /\ PublishEnd(0)
    BY <1>3, <2>2 DEF FillAtEndOfFile, TypeOK
  <2>3. CASE /\ Request > room /\ ring' = Copied(room, room)
             /\ src' = src + room /\ PublishEnd(room)
    <3>1. room \in 0 .. Space
      BY <1>3, <2>1, <2>3, RequestFits DEF FillAtEndOfFile, TypeOK, Space
    <3>2. Copied(room, room) \in [Cells -> Nat \cup {Junk}]
      BY <3>1, CopiedContent
    <3> QED
      BY <1>3, <2>1, <2>3, <3>2 DEF FillAtEndOfFile, TypeOK
  <2> QED
    BY <1>3, <2>2, <2>3 DEF FillAtEndOfFile
<1>4. CASE FillFails(Request)
  <2>1. PICK m \in 0 .. Read(Request) :
          ring' = Copied(m, m) /\ src' = src + m /\ dropped' = dropped + m
    BY <1>4 DEF FillFails
  <2>2. m \in 0 .. Space
    BY <1>4, <2>1, RequestFits DEF FillFails, Read, Least, left, TypeOK, Space
  <2>3. Copied(m, m) \in [Cells -> Nat \cup {Junk}]
    BY <2>2, CopiedContent
  <2> QED
    BY <1>4, <2>1, <2>2, <2>3 DEF FillFails, TypeOK
<1>5. CASE FillFromNowhere(Request)
  BY <1>5 DEF FillFromNowhere, TypeOK
<1>6. ASSUME NEW n \in 1 .. used, Consume(n)
      PROVE  TypeOK'
  BY <1>6 DEF Consume, TypeOK, Wrap, Cells
<1>7. CASE UNCHANGED vars
  BY <1>7 DEF vars, TypeOK
<1> QED
  BY <1>1, <1>2, <1>3, <1>4, <1>5, <1>6, <1>7 DEF Next

(* Every variable of the ring keeps its type, and no fill of               *)
(* dec_fill_bsbuffer publishes into the margin the VPU library keeps.      *)
THEOREM TypeCorrect == Spec => []TypeOK
BY TypeInit, TypeStep, PTL DEF Spec
-----------------------------------------------------------------------------
(* How the content of the ring changes in a step: a fill that publishes    *)
(* appends the bytes of the source that follow; nothing else touches what  *)
(* the VPU has not read yet.                                               *)
NextContent(k) == ring'[Wrap(rd' + k)]

Appends(m) ==
  /\ m \in 1 .. Space
  /\ rd' = rd /\ used' = used + m /\ src' = src + m
  /\ \A k \in 0 .. used - 1 : NextContent(k) = Content(k)
  /\ \A k \in used .. used + m - 1 : NextContent(k) = src + (k - used)

Skips(m) ==
  /\ m \in 0 .. Space
  /\ rd' = rd /\ used' = used /\ src' = src + m
  /\ \A k \in 0 .. used - 1 : NextContent(k) = Content(k)

Removes(n) ==
  /\ n \in 1 .. used
  /\ used' = used - n /\ src' = src
  /\ \A k \in 0 .. used - n - 1 : NextContent(k) = Content(k + n)

(* A fill whose data arrives appends it, or loses it all when the update   *)
(* of the write pointer fails.                                             *)
Fills(m) ==
  \/ Appends(m) /\ dropped' = dropped /\ errors' = errors
  \/ Skips(m) /\ dropped' = dropped + m /\ errors' = errors + 1

LEMMA CopyFills ==
  ASSUME TypeOK, NEW m \in 1 .. Space, ring' = Copied(m, m), rd' = rd,
         src' = src + m, Publish(m, m)
  PROVE  Fills(m)
<1>1. /\ \A k \in 0 .. used - 1 : NextContent(k) = Content(k)
      /\ \A k \in used .. used + m - 1 : NextContent(k) = src + (k - used)
  BY CopiedContent DEF Content, NextContent, Wrap
<1>2. m \in 0 .. Space
  OBVIOUS
<1> QED
  BY <1>1, <1>2 DEF Fills, Appends, Skips, Publish, UpdateFails

LEMMA MemoryFills ==
  ASSUME TypeOK, 0 \notin FrameSizes, NEW n \in FrameSizes, FillFromMemory(n)
  PROVE  Fills(n) /\ n > 0 /\ source = "memory" /\ UNCHANGED <<source, stream>>
<1>1. FillRequest(n) = n /\ n \in 1 .. Space
  BY RequestFits DEF FillFromMemory, FillRequest
<1>2. /\ ring' = Copied(n, n) /\ rd' = rd /\ src' = src + n /\ Publish(n, n)
      /\ source = "memory" /\ UNCHANGED <<source, stream>>
  BY <1>1 DEF FillFromMemory
<1> QED
  BY <1>1, <1>2, CopyFills

LEMMA FileFills ==
  ASSUME TypeOK, FillFromFile(Request)
  PROVE  /\ Fills(Read(Request)) /\ source = "file" /\ left > 0
         /\ UNCHANGED <<source, stream>>
<1>1. Read(Request) \in 1 .. Space
  BY RequestFits DEF FillFromFile, Read, Least, left, TypeOK, Space
<1>2. /\ ring' = Copied(Read(Request), Read(Request)) /\ rd' = rd
      /\ src' = src + Read(Request) /\ Publish(Read(Request), Read(Request))
      /\ source = "file" /\ left > 0 /\ UNCHANGED <<source, stream>>
  BY DEF FillFromFile
<1> QED
  BY <1>1, <1>2, CopyFills

(* The end of a file publishes nothing; if the update with STREAM_END_SIZE *)
(* succeeds, or was made before, no call has failed.                       *)
LEMMA EndSkips ==
  ASSUME TypeOK, FillAtEndOfFile(Request)
  PROVE  /\ source = "file"
         /\ \/ stream' = "ended" /\ errors' = errors
            \/ errors' = errors + 1
         /\ \/ Skips(0) /\ left = 0 /\ dropped' = dropped
            \/ /\ Skips(room) /\ room > 0 /\ left = room
               /\ dropped' = dropped + room
<1> USE DEF PublishEnd, UpdateFails
<1>1. CASE left = 0 /\ UNCHANGED <<ring, src>> /\ PublishEnd(0)
  BY <1>1 DEF FillAtEndOfFile, Skips, Content, NextContent, Wrap, TypeOK, Space
<1>2. CASE /\ Request > room /\ left = room /\ ring' = Copied(room, room)
           /\ src' = src + room /\ PublishEnd(room)
  <2>1. room \in 1 .. Size
    BY DEF TypeOK, room, wr, Wrap, Cells
  <2>2. room \in 0 .. Space
    BY <1>2, <2>1, RequestFits DEF FillAtEndOfFile, TypeOK, Space
  <2>3. Skips(room)
    BY <1>2, <2>2, CopiedContent DEF FillAtEndOfFile, Skips, Content, NextContent, Wrap
  <2> QED
    BY <1>2, <2>1, <2>3 DEF FillAtEndOfFile
<1> QED
  BY <1>1, <1>2 DEF FillAtEndOfFile

(* A fill from no known source changes nothing the VPU reads.              *)
LEMMA NowhereSkips ==
  ASSUME TypeOK, FillFromNowhere(Request)
  PROVE  Skips(0) /\ dropped' = dropped /\ errors' \in {errors, errors + 1}
BY DEF FillFromNowhere, PublishEnd, UpdateFails, Skips, Content, NextContent,
       Wrap, TypeOK, Space

LEMMA FailureSkips ==
  ASSUME TypeOK, FillFails(Request)
  PROVE  /\ source = "file" /\ errors' = errors + 1
         /\ \E m \in 0 .. Space : Skips(m) /\ dropped' = dropped + m
<1>1. PICK m \in 0 .. Read(Request) :
        ring' = Copied(m, m) /\ src' = src + m /\ dropped' = dropped + m
  BY DEF FillFails
<1>2. m \in 0 .. Space
  BY <1>1, RequestFits DEF FillFails, Read, Least, left, TypeOK, Space
<1>3. Skips(m)
  BY <1>1, <1>2, CopiedContent DEF FillFails, Skips, Content, NextContent, Wrap
<1> QED
  BY <1>1, <1>2, <1>3 DEF FillFails

LEMMA ConsumeRemoves ==
  ASSUME TypeOK, NEW n \in 1 .. used, Consume(n)
  PROVE  Removes(n) /\ UNCHANGED <<source, dropped, errors, stream, wr>>
<1>1. ASSUME NEW k \in 0 .. used - n - 1
      PROVE  Wrap(rd' + k) = Wrap(rd + (k + n))
  BY DEF Consume, Wrap, TypeOK, Cells
<1>2. wr' = wr
  BY DEF Consume, wr, Wrap, TypeOK, Cells
<1> QED
  BY <1>1, <1>2 DEF Consume, Removes, Content, NextContent
-----------------------------------------------------------------------------
LEMMA MissingStep ==
  ASSUME TypeOK, NothingMissing, [Next]_vars
  PROVE  NothingMissing'
<1> SUFFICES ASSUME dropped' = 0, 0 \notin FrameSizes
             PROVE  \A k \in 0 .. used' - 1 : NextContent(k) = src' - used' + k
  BY DEF NothingMissing, Content, NextContent
<1>1. ASSUME NEW n, Appends(n), dropped' = dropped
      PROVE  \A k \in 0 .. used' - 1 : NextContent(k) = src' - used' + k
  BY <1>1 DEF Appends, NothingMissing, TypeOK, Space
<1>2. ASSUME NEW n, Skips(n), dropped' = dropped + n
      PROVE  \A k \in 0 .. used' - 1 : NextContent(k) = src' - used' + k
  BY <1>2 DEF Skips, NothingMissing, TypeOK
<1>3. ASSUME NEW n, Removes(n), dropped' = dropped
      PROVE  \A k \in 0 .. used' - 1 : NextContent(k) = src' - used' + k
  BY <1>3 DEF Removes, NothingMissing, TypeOK
<1>4. ASSUME NEW n \in FrameSizes, FillFromMemory(n)
      PROVE  \A k \in 0 .. used' - 1 : NextContent(k) = src' - used' + k
  BY <1>4, <1>1, <1>2, MemoryFills DEF Fills
<1>5. CASE FillFromFile(Request)
  BY <1>5, <1>1, <1>2, FileFills DEF Fills
<1>6. CASE FillAtEndOfFile(Request)
  BY <1>6, <1>2, EndSkips DEF TypeOK
<1>7. CASE FillFails(Request)
  BY <1>7, <1>2, FailureSkips
<1>8. ASSUME NEW n \in 1 .. used, Consume(n)
      PROVE  \A k \in 0 .. used' - 1 : NextContent(k) = src' - used' + k
  BY <1>8, <1>3, ConsumeRemoves
<1>9. CASE FillFromNowhere(Request)
  BY <1>9, <1>2, NowhereSkips DEF TypeOK
<1>10. CASE UNCHANGED vars
  BY <1>10 DEF vars, NothingMissing, Content, NextContent, Wrap
<1> QED
  BY <1>4, <1>5, <1>6, <1>7, <1>8, <1>9, <1>10 DEF Next

(* As long as no byte was dropped and no frame is empty, the VPU reads     *)
(* exactly what the source supplied, whatever the sizes and however the    *)
(* fills are split at the end of the ring.                                 *)
THEOREM RingKeepsTheStream == Spec => []NothingMissing
<1>1. Init => NothingMissing
  BY DEF Init, NothingMissing
<1> QED
  BY <1>1, TypeInit, TypeStep, MissingStep, PTL DEF Spec
-----------------------------------------------------------------------------
(* Without a failed update bytes are dropped from a file only.             *)
TailInv == OnlyTheTailIsLost /\ (dropped # 0 /\ errors = 0 => source = "file")

LEMMA TailStep ==
  ASSUME TypeOK, TailInv, [Next]_vars
  PROVE  TailInv'
<1> USE DEF TailInv, OnlyTheTailIsLost
<1>1. ASSUME NEW n \in FrameSizes, FillFromMemory(n)
      PROVE  TailInv'
  <2>1. CASE UNCHANGED <<dropped, errors>>
    BY <1>1, <2>1 DEF FillFromMemory
  <2>2. CASE errors' = errors + 1
    BY <2>2 DEF TypeOK
  <2> QED
    BY <1>1, <2>1, <2>2 DEF FillFromMemory, Publish, UpdateFails
<1>2. CASE FillFromFile(Request)
  <2>1. CASE UNCHANGED <<dropped, errors>>
    BY <1>2, <2>1 DEF FillFromFile, left, TypeOK
  <2>2. CASE errors' = errors + 1
    BY <2>2 DEF TypeOK
  <2> QED
    BY <1>2, <2>1, <2>2 DEF FillFromFile, Publish, UpdateFails
<1>3. CASE FillAtEndOfFile(Request)
  <2>1. room' = room
    BY <1>3 DEF FillAtEndOfFile, room, wr, Wrap
  <2>2. room \in 1 .. Size
    BY DEF TypeOK, room, wr, Wrap, Cells
  <2>3. CASE errors' = errors + 1
    BY <2>3 DEF TypeOK
  <2>4. CASE stream' = "ended" /\ errors' = errors
    BY <1>3, <2>1, <2>2, <2>4, EndSkips DEF Skips, left, TypeOK, FillAtEndOfFile
  <2> QED
    BY <1>3, <2>3, <2>4, EndSkips
<1>4. CASE FillFails(Request)
  BY <1>4 DEF FillFails, TypeOK
<1>5. ASSUME NEW n \in 1 .. used, Consume(n)
      PROVE  TailInv'
  <2>1. room' = room
    BY <1>5, ConsumeRemoves DEF room
  <2> QED
    BY <1>5, <2>1 DEF Consume
<1>6. CASE FillFromNowhere(Request)
  BY <1>6 DEF FillFromNowhere, PublishEnd, UpdateFails, TypeOK, room, wr, Wrap
<1>7. CASE UNCHANGED vars
  BY <1>7 DEF vars, room, wr, Wrap
<1> QED
  BY <1>1, <1>2, <1>3, <1>4, <1>5, <1>6, <1>7 DEF Next

(* Unless a read or vpu_DecUpdateBitstreamBuffer fails, no frame in memory *)
(* loses a byte, and a file at most its last stretch, and that only when   *)
(* it ends with the ring.                                                  *)
THEOREM OnlyTailsAreLost == Spec => []OnlyTheTailIsLost
<1>1. Init => TailInv
  BY DEF Init, TailInv, OnlyTheTailIsLost
<1>2. TailInv => OnlyTheTailIsLost
  BY DEF TailInv
<1> QED
  BY <1>1, <1>2, TypeInit, TypeStep, TailStep, PTL DEF Spec
-----------------------------------------------------------------------------
(* Three facts about sequences of positions.                               *)
LEMMA MapIsSeq ==
  ASSUME NEW n \in Nat, NEW f \in [1 .. n -> Int]
  PROVE  f \in Seq(Int) /\ Len(f) = n
BY SeqDef

LEMMA IsConcatenation ==
  ASSUME NEW s \in Seq(Int), NEW t \in Seq(Int), NEW u \in Seq(Int),
         Len(u) = Len(s) + Len(t),
         \A k \in 1 .. Len(s) : u[k] = s[k],
         \A k \in 1 .. Len(t) : u[Len(s) + k] = t[k]
  PROVE  u = s \o t
<1> DEFINE c == s \o t
<1>1. /\ c \in Seq(Int) /\ Len(c) = Len(s) + Len(t)
      /\ \A k \in 1 .. Len(s) + Len(t) :
           c[k] = IF k <= Len(s) THEN s[k] ELSE t[k - Len(s)]
  BY ConcatProperties
<1>2. Len(s) \in Nat /\ Len(t) \in Nat
  BY LenProperties
<1> HIDE DEF c
<1>3. ASSUME NEW k \in 1 .. Len(u) PROVE u[k] = c[k]
  <2>1. CASE k <= Len(s)
    <3>1. k \in 1 .. Len(s) /\ k \in 1 .. Len(s) + Len(t)
      BY <1>2, <2>1
    <3>2. u[k] = s[k]
      BY <3>1
    <3> QED
      BY <1>1, <2>1, <3>1, <3>2
  <2>2. CASE k > Len(s)
    <3>1. k - Len(s) \in 1 .. Len(t) /\ Len(s) + (k - Len(s)) = k
      BY <1>2, <2>2
    <3>2. u[Len(s) + (k - Len(s))] = t[k - Len(s)]
      BY <3>1
    <3>3. u[k] = t[k - Len(s)]
      BY <3>1, <3>2
    <3>4. k \in 1 .. Len(s) + Len(t) /\ ~ (k <= Len(s))
      BY <1>2, <2>2
    <3>5. c[k] = t[k - Len(s)]
      BY <1>1, <3>4
    <3> QED
      BY <3>3, <3>5
  <2> QED
    BY <1>2, <2>1, <2>2
<1>4. u = c
  BY <1>1, <1>3, SeqEqual
<1> QED
  BY <1>4 DEF c

LEMMA IsSuffix ==
  ASSUME NEW s \in Seq(Int), NEW u \in Seq(Int), NEW n \in 1 .. Len(s),
         Len(u) = Len(s) - n,
         \A k \in 1 .. Len(u) : u[k] = s[n + k]
  PROVE  u = SubSeq(s, n + 1, Len(s))
<1> DEFINE c == SubSeq(s, n + 1, Len(s))
<1>1. Len(s) \in Nat /\ n \in Nat /\ \A k \in n + 1 .. Len(s) : s[k] \in Int
  BY LenProperties, ElementOfSeq
<1>2. /\ c \in Seq(Int)
      /\ Len(c) = IF n + 1 <= Len(s) THEN Len(s) - (n + 1) + 1 ELSE 0
      /\ \A k \in 1 .. Len(s) - (n + 1) + 1 : c[k] = s[(n + 1) + k - 1]
  <2>1. n + 1 \in Int /\ Len(s) \in Int
    BY <1>1
  <2>2. SubSeq(s, n + 1, Len(s)) \in Seq(Int)
    BY <1>1, <2>1, SubSeqProperties
  <2>3. Len(SubSeq(s, n + 1, Len(s)))
          = IF n + 1 <= Len(s) THEN Len(s) - (n + 1) + 1 ELSE 0
    BY <1>1, <2>1, SubSeqProperties
  <2>4. \A k \in 1 .. Len(s) - (n + 1) + 1 :
          SubSeq(s, n + 1, Len(s))[k] = s[(n + 1) + k - 1]
    BY <1>1, <2>1, SubSeqProperties
  <2> QED
    BY <2>2, <2>3, <2>4
<1> HIDE DEF c
<1>3. Len(c) = Len(u)
  BY <1>1, <1>2
<1>4. ASSUME NEW k \in 1 .. Len(u) PROVE u[k] = c[k]
  <2>1. (n + 1) + k - 1 = n + k /\ k \in 1 .. Len(s) - (n + 1) + 1
    BY <1>1
  <2> QED
    BY <1>2, <2>1
<1>5. u = c
  BY <1>2, <1>3, <1>4, SeqEqual
<1> QED
  BY <1>5 DEF c
-----------------------------------------------------------------------------
(* The channel of the byte stream as the refinement mapping defines it.    *)
Chan == [k \in 1 .. used |-> Content(k - 1)]

LEMMA ChanIsSeq ==
  ASSUME TypeOK
  PROVE  /\ Chan \in Seq(Int) /\ Len(Chan) = used
         /\ \A k \in 1 .. used : Chan[k] = Content(k - 1)
<1>1. \A k \in 0 .. Size - 1 : Content(k) \in Int
  BY DEF TypeOK, Content, NextContent, Wrap, Cells, Junk
<1>2. Chan \in [1 .. used -> Int] /\ used \in Nat
  BY <1>1 DEF Chan, TypeOK
<1> QED
  BY <1>2, MapIsSeq DEF Chan

LEMMA NextChanIsSeq ==
  ASSUME TypeOK'
  PROVE  /\ Chan' \in Seq(Int) /\ Len(Chan') = used'
         /\ \A k \in 1 .. used' : Chan'[k] = NextContent(k - 1)
<1>1. \A k \in 0 .. Size - 1 : NextContent(k) \in Int
  <2>1. /\ ring' \in [Cells -> Nat \cup {Junk}] /\ rd' \in Cells
        /\ Nat \cup {Junk} \subseteq Int
    BY DEF TypeOK, Junk
  <2>2. \A k \in 0 .. Size - 1 : Wrap(rd' + k) \in Cells
    BY <2>1, WrapInCells
  <2> QED
    BY <2>1, <2>2 DEF NextContent, Cells
<1>2. Chan' \in [1 .. used' -> Int] /\ used' \in Nat
  BY <1>1 DEF Chan, Content, NextContent, TypeOK
<1>3. \A k \in 1 .. used' : Chan'[k] = NextContent(k - 1)
  BY DEF Chan, Content, NextContent
<1> HIDE DEF Chan
<1> QED
  BY <1>2, <1>3, MapIsSeq

LEMMA RunIsSeq ==
  ASSUME TypeOK, NEW m \in Nat
  PROVE  /\ Stream!Run(m) \in Seq(Int) /\ Len(Stream!Run(m)) = m
         /\ \A k \in 1 .. m : Stream!Run(m)[k] = src + k - 1
<1>1. Stream!Run(m) = [i \in 1 .. m |-> src + i - 1]
  BY DEF Stream!Run
<1>2. Stream!Run(m) \in [1 .. m -> Int]
  BY <1>1 DEF TypeOK
<1> QED
  BY <1>1, <1>2, MapIsSeq

LEMMA AppendsIsPut ==
  ASSUME TypeOK, TypeOK', NEW m, Appends(m)
  PROVE  Stream!Next
<1>1. /\ m \in 1 .. Size - used /\ m \in Nat /\ used \in Nat /\ src \in Nat
      /\ used' = used + m
  BY DEF Appends, TypeOK, Space
<1>2. \A k \in 1 .. used : Chan'[k] = Chan[k]
  <2>1. \A k \in 1 .. used : NextContent(k - 1) = Content(k - 1)
    BY <1>1 DEF Appends
  <2> QED
    BY <1>1, <2>1, ChanIsSeq, NextChanIsSeq
<1>3. ASSUME NEW k \in 1 .. m PROVE Chan'[used + k] = Stream!Run(m)[k]
  <2>1. (used + k) - 1 \in used .. used + m - 1 /\ used + k \in 1 .. used'
    BY <1>1
  <2>2. NextContent((used + k) - 1) = src + (((used + k) - 1) - used)
    BY <2>1 DEF Appends
  <2>3. Chan'[used + k] = src + k - 1
    BY <1>1, <2>1, <2>2, NextChanIsSeq
  <2> QED
    BY <1>1, <2>3, RunIsSeq
<1>4. Chan' = Chan \o Stream!Run(m)
  <2>1. /\ Chan \in Seq(Int) /\ Chan' \in Seq(Int) /\ Stream!Run(m) \in Seq(Int)
        /\ Len(Chan) = used /\ Len(Stream!Run(m)) = m
        /\ Len(Chan') = Len(Chan) + Len(Stream!Run(m))
    BY <1>1, ChanIsSeq, NextChanIsSeq, RunIsSeq
  <2>2. /\ \A k \in 1 .. Len(Chan) : Chan'[k] = Chan[k]
        /\ \A k \in 1 .. Len(Stream!Run(m)) :
             Chan'[Len(Chan) + k] = Stream!Run(m)[k]
    BY <1>2, <1>3, <2>1
  <2> QED
    BY <2>1, <2>2, IsConcatenation
<1> QED
  BY <1>1, <1>4, ChanIsSeq DEF Appends, Stream!Next, Stream!Put, Chan

LEMMA SkipsIsDrop ==
  ASSUME TypeOK, TypeOK', NEW m, Skips(m)
  PROVE  Stream!Next \/ UNCHANGED Stream!vars
<1>1. m \in 0 .. Size /\ used' = used /\ src' = src + m /\ src \in Nat
  BY DEF Skips, TypeOK, Space
<1>2. Chan' = Chan
  <2>1. \A k \in 1 .. used : NextContent(k - 1) = Content(k - 1)
    BY DEF Skips, TypeOK
  <2> QED
    BY <1>1, <2>1 DEF Chan, Content, NextContent
<1>3. CASE m = 0
  BY <1>1, <1>2, <1>3 DEF Stream!vars, Chan
<1>4. CASE m # 0
  BY <1>1, <1>2, <1>4 DEF Stream!Next, Stream!Drop, Chan
<1> QED
  BY <1>3, <1>4

LEMMA RemovesIsTake ==
  ASSUME TypeOK, TypeOK', NEW n, Removes(n)
  PROVE  Stream!Next
<1>1. n \in 1 .. used /\ used \in Nat /\ used' = used - n /\ src' = src
  BY DEF Removes, TypeOK
<1>2. ASSUME NEW k \in 1 .. used' PROVE Chan'[k] = Chan[n + k]
  <2>1. k - 1 \in 0 .. used - n - 1 /\ n + k \in 1 .. used
        /\ (k - 1) + n = (n + k) - 1
    BY <1>1
  <2>2. NextContent(k - 1) = Content((n + k) - 1)
    BY <2>1 DEF Removes
  <2> QED
    BY <2>1, <2>2, ChanIsSeq, NextChanIsSeq
<1>3. Chan' = SubSeq(Chan, n + 1, Len(Chan))
  BY <1>1, <1>2, ChanIsSeq, NextChanIsSeq, IsSuffix
<1> QED
  BY <1>1, <1>3, ChanIsSeq DEF Stream!Next, Stream!Take, Chan

(* The ring buffer implements the byte stream: whatever the VPU reads, it  *)
(* reads in source order, and a byte it has not read is neither            *)
(* overwritten nor reordered, across every split at the ring's end, every  *)
(* short or failed read, failed update and the end of the file.            *)
THEOREM RingRefinesStream == ASSUME 0 \notin FrameSizes PROVE Spec => StreamSpec
<1>1. Init => Stream!Init
  <2>1. ASSUME Init PROVE Chan = << >>
    BY <2>1, TypeInit, ChanIsSeq, EmptySeq DEF Init
  <2> QED
    BY <2>1 DEF Init, Stream!Init, Chan
<1>2. ASSUME TypeOK, TypeOK', [Next]_vars
      PROVE  [Stream!Next]_(Stream!vars)
  <2>1. ASSUME NEW n \in FrameSizes, FillFromMemory(n)
        PROVE  Stream!Next \/ UNCHANGED Stream!vars
    BY <1>2, <2>1, MemoryFills, AppendsIsPut, SkipsIsDrop DEF Fills
  <2>2. CASE FillFromFile(Request)
    BY <1>2, <2>2, FileFills, AppendsIsPut, SkipsIsDrop DEF Fills
  <2>3. CASE FillAtEndOfFile(Request)
    BY <1>2, <2>3, EndSkips, SkipsIsDrop
  <2>4. CASE FillFails(Request)
    BY <1>2, <2>4, FailureSkips, SkipsIsDrop
  <2>5. ASSUME NEW n \in 1 .. used, Consume(n)
        PROVE  Stream!Next
    BY <1>2, <2>5, ConsumeRemoves, RemovesIsTake
  <2>6. CASE FillFromNowhere(Request)
    BY <1>2, <2>6, NowhereSkips, SkipsIsDrop
  <2>7. CASE UNCHANGED vars
    BY <2>7 DEF vars, Stream!vars, Content, NextContent, Wrap
  <2> QED
    BY <1>2, <2>1, <2>2, <2>3, <2>4, <2>5, <2>6, <2>7 DEF Next
<1> QED
  BY <1>1, <1>2, TypeCorrect, PTL DEF Spec, StreamSpec, Stream!Spec
-----------------------------------------------------------------------------
(* What the VPU has not read yet comes in source order, each byte at most  *)
(* once, and between it and the next byte of the source nothing is missing *)
(* but bytes that failed reads or updates or the end of the file dropped.  *)
Near(c, k) == src - used + k - dropped <= c /\ c <= src - used + k

OnlyDropsAreMissing ==
  0 \notin FrameSizes =>
    /\ \A k \in 0 .. used - 1 : Near(Content(k), k)
    /\ \A i, k \in 0 .. used - 1 : i < k => Content(i) < Content(k)

(* The same of the content after a step, named as the steps name it.       *)
NextOrdered ==
  /\ \A k \in 0 .. used' - 1 :
       /\ src' - used' + k - dropped' <= NextContent(k)
       /\ NextContent(k) <= src' - used' + k
  /\ \A i, k \in 0 .. used' - 1 : i < k => NextContent(i) < NextContent(k)

LEMMA OrderStep ==
  ASSUME TypeOK, OnlyDropsAreMissing, [Next]_vars
  PROVE  OnlyDropsAreMissing'
<1> SUFFICES ASSUME 0 \notin FrameSizes PROVE NextOrdered
  BY DEF OnlyDropsAreMissing, NextOrdered, Near, Content, NextContent
<1> USE DEF NextOrdered
<1>0. /\ src \in Nat /\ used \in Nat /\ dropped \in Nat
      /\ \A k \in 0 .. used - 1 : /\ Content(k) \in Int
                                  /\ src - used + k - dropped <= Content(k)
                                  /\ Content(k) <= src - used + k
      /\ \A i, k \in 0 .. used - 1 : i < k => Content(i) < Content(k)
  <2>1. used \in Nat /\ \A k \in 0 .. used - 1 : Content(k) \in Int
    <3>1. \A k \in 0 .. Size - 1 : Content(k) \in Int
      BY DEF TypeOK, Content, Wrap, Cells, Junk
    <3>2. used \in Nat /\ used <= Size
      BY DEF TypeOK
    <3> QED
      BY <3>1, <3>2
  <2>2. src \in Nat /\ dropped \in Nat
    BY DEF TypeOK
  <2> QED
    BY <2>1, <2>2 DEF OnlyDropsAreMissing, Near
<1>1. ASSUME NEW n, Appends(n), dropped' = dropped PROVE NextOrdered
  <2>1. /\ n \in Nat /\ used' = used + n /\ src' = src + n
        /\ \A k \in 0 .. used - 1 : NextContent(k) = Content(k)
        /\ \A k \in used .. used + n - 1 : NextContent(k) = src + (k - used)
    BY <1>0, <1>1 DEF Appends, TypeOK, Space
  <2>2. ASSUME NEW k \in 0 .. used + n - 1
        PROVE  /\ src - used + k - dropped <= NextContent(k)
               /\ NextContent(k) <= src - used + k
    <3>1. CASE k < used
      BY <1>0, <2>1, <3>1
    <3>2. CASE k >= used
      BY <1>0, <2>1, <3>2
    <3> QED
      BY <1>0, <2>1, <3>1, <3>2
  <2>3. ASSUME NEW i \in 0 .. used + n - 1, NEW k \in 0 .. used + n - 1, i < k
        PROVE  NextContent(i) < NextContent(k)
    <3>1. CASE k < used
      BY <1>0, <2>1, <2>3, <3>1
    <3>2. CASE i < used /\ k >= used
      <4>1. Content(i) <= src - used + i /\ Content(i) \in Int
        BY <1>0, <3>2
      <4>2. NextContent(i) = Content(i) /\ NextContent(k) = src + (k - used)
        BY <1>0, <2>1, <3>2
      <4> QED
        BY <1>0, <2>1, <2>3, <4>1, <4>2
    <3>3. CASE i >= used
      BY <1>0, <2>1, <2>3, <3>3
    <3> QED
      BY <1>0, <2>1, <2>3, <3>1, <3>2, <3>3
  <2>4. src' - used' = src - used /\ used' - 1 = used + n - 1
    BY <1>0, <2>1
  <2> QED
    BY <1>1, <2>2, <2>3, <2>4
<1>2. ASSUME NEW n, Skips(n), dropped' = dropped + n PROVE NextOrdered
  <2>1. /\ n \in Nat /\ used' = used /\ src' = src + n
        /\ \A k \in 0 .. used - 1 : NextContent(k) = Content(k)
    BY <1>2 DEF Skips, TypeOK, Space
  <2> QED
    BY <1>0, <1>2, <2>1
<1>3. ASSUME NEW n, Removes(n), dropped' = dropped PROVE NextOrdered
  <2>1. /\ n \in Nat /\ n <= used /\ used' = used - n /\ src' = src
        /\ \A k \in 0 .. used - n - 1 : NextContent(k) = Content(k + n)
    BY <1>0, <1>3 DEF Removes
  <2>2. ASSUME NEW k \in 0 .. used' - 1
        PROVE  /\ k + n \in 0 .. used - 1 /\ NextContent(k) = Content(k + n)
               /\ src' - used' + k = src - used + (k + n)
    BY <1>0, <2>1
  <2> QED
    BY <1>0, <1>3, <2>1, <2>2
<1>4. ASSUME NEW n \in FrameSizes, FillFromMemory(n) PROVE NextOrdered
  BY <1>4, <1>1, <1>2, MemoryFills DEF Fills
<1>5. CASE FillFromFile(Request)
  BY <1>5, <1>1, <1>2, FileFills DEF Fills
<1>6. CASE FillAtEndOfFile(Request)
  <2>1. dropped' = dropped => dropped' = dropped + 0
    BY <1>0
  <2> QED
    BY <1>6, <1>2, <2>1, EndSkips
<1>7. CASE FillFails(Request)
  BY <1>7, <1>2, FailureSkips
<1>8. ASSUME NEW n \in 1 .. used, Consume(n) PROVE NextOrdered
  BY <1>8, <1>3, ConsumeRemoves
<1>9. CASE FillFromNowhere(Request)
  <2>1. dropped' = dropped => dropped' = dropped + 0
    BY <1>0
  <2> QED
    BY <1>9, <1>2, <2>1, NowhereSkips
<1>10. CASE UNCHANGED vars
  BY <1>0, <1>10 DEF vars, Content, NextContent, Wrap
<1> QED
  BY <1>4, <1>5, <1>6, <1>7, <1>8, <1>9, <1>10 DEF Next

(* Whichever reads and updates fail and wherever the file ends,            *)
(* dec_fill_bsbuffer never gives the VPU a byte twice or out of order, and *)
(* what it leaves out is what those have dropped (vpu_decode.c:548 to 731).*)
THEOREM BytesStayInOrder == Spec => []OnlyDropsAreMissing
<1>1. Init => OnlyDropsAreMissing
  BY DEF Init, OnlyDropsAreMissing
<1> QED
  BY <1>1, TypeInit, TypeStep, OrderStep, PTL DEF Spec
=============================================================================
