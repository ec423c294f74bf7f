---------------------------- MODULE BitstreamRing ----------------------------
(***************************************************************************)
(* The bitstream ring buffer of one decoder: dec_fill_bsbuffer of          *)
(* vpu_decode.c copies coded data into it, the VPU consumes it.  The ring  *)
(* holds, for each cell, the position in the source of the byte there, so  *)
(* that order, loss and overwriting are all visible.  A fill that finds    *)
(* too little space returns 0 and changes nothing: a stuttering step.      *)
(***************************************************************************)
EXTENDS Integers

CONSTANTS
  Size,         \* STREAM_BUF_SIZE
  Margin,       \* what the VPU library keeps between the two pointers
  Block,        \* 512: what an unsized fill is rounded down to
  FillSize,     \* STREAM_FILL_SIZE, what a fill from a file asks for
  Sources,      \* the kinds of enc_src->dataSource
  FrameSizes,   \* the values of enc_src->bufOutSize for a frame in memory
  FileLength,   \* bytes in the file of a file source
  MaxErrors,    \* bound: how many reads of the file and updates fail
  MaxStream     \* bound: how many bytes memory frames bring in all

ASSUME RingAssumption ==
  /\ Size \in Nat /\ Margin \in 1 .. Size
  /\ Block \in Nat \ {0} /\ FillSize \in Nat \ {0}
ASSUME SourceAssumption ==
  /\ Sources \subseteq {"memory", "file", "other"}
  /\ FrameSizes \subseteq Nat /\ FileLength \in Nat
  /\ MaxErrors \in Nat /\ MaxStream \in Nat

Cells == 0 .. Size - 1
Junk == -1     \* a byte from beyond the end of a frame

VARIABLES
  source,   \* enc_src->dataSource: a frame in memory, a file, or neither
  rd,       \* the VPU's read pointer
  used,     \* bytes published with vpu_DecUpdateBitstreamBuffer, not consumed
  ring,     \* for each cell the source position of the byte there
  src,      \* the position of the next byte of the source
  dropped,  \* bytes taken from the source and never published
  stream,   \* "ended" once STREAM_END_SIZE was published
  errors    \* failed reads and failed updates so far

vars == <<source, rd, used, ring, src, dropped, stream, errors>>

Wrap(i) == IF i >= Size THEN i - Size ELSE i
Least(m, n) == IF m < n THEN m ELSE n

wr == Wrap(rd + used)              \* pa_write_ptr
Space == Size - used - Margin      \* what vpu_DecGetBitstreamBuffer reports
room == Size - wr                  \* from the write pointer to the ring's end
left == FileLength - src           \* what the file still has

(* (space >> 9) << 9 *)
Blocks(n) == n - (n % Block)

(* How far cell i lies ahead of the write pointer. *)
Offset(i) == IF i >= wr THEN i - wr ELSE i - wr + Size

(* Mutant: the second part of a split frame starts over at vBufOut. *)
Copied_StartsOver(n, m) ==
  [i \in Cells |-> IF Offset(i) >= n THEN ring[i]
                   ELSE IF Offset(i) < m THEN src + i - (IF i >= wr THEN wr ELSE 0)
                   ELSE Junk]

(* The ring after n bytes are copied to the write pointer, around the end  *)
(* of the ring if need be, the first m of them from the source.            *)
Copied(n, m) ==
  [i \in Cells |-> IF Offset(i) >= n THEN ring[i]
                   ELSE IF Offset(i) < m THEN src + Offset(i) ELSE Junk]

UpdateFails == errors < MaxErrors /\ errors' = errors + 1

(* vpu_DecUpdateBitstreamBuffer(n): when it fails, the m bytes that were    *)
(* copied from the source are behind the write pointer for nobody.         *)
Publish(n, m) ==
  \/ used' = used + n /\ UNCHANGED <<dropped, errors>>
  \/ UpdateFails /\ dropped' = dropped + m /\ UNCHANGED used

(* The end of the stream, after m bytes that are never published: an update *)
(* with STREAM_END_SIZE, once.  One that fails is made again at the next   *)
(* fill.                                                                   *)
PublishEnd(m) ==
  /\ dropped' = dropped + m
  /\ \/ stream' = "ended" /\ UNCHANGED errors
     \/ stream = "open" /\ UpdateFails /\ UNCHANGED stream
-----------------------------------------------------------------------------
Init ==
  /\ source \in Sources
  /\ rd = 0 /\ used = 0
  /\ ring = [i \in Cells |-> Junk]
  /\ src = 0 /\ dropped = 0 /\ stream = "open" /\ errors = 0

(* The size a fill settles on when asked for n bytes; none when there is   *)
(* no space, less than n, or nothing to round down to.                     *)
FillRequest(n) == IF n > 0 THEN n ELSE Blocks(Space)
(* Mutant: the space is not compared with the request. *)
Accepts_NoCheck(n) == Space > 0 /\ FillRequest(n) # 0
Accepts(n) == Space > 0 /\ Space >= n /\ FillRequest(n) # 0

(* A frame of n = bufOutSize bytes in memory: the whole request is copied  *)
(* from vBufOut, in one piece or in two.                                   *)
FillFromMemory(n) ==
  /\ source = "memory" /\ Accepts(n) /\ src + n <= MaxStream
  /\ ring' = Copied(FillRequest(n), n)
  /\ Publish(FillRequest(n), n)
  /\ src' = src + n
  /\ UNCHANGED <<source, rd, stream>>

(* What freadn gets when it is asked for n bytes: fewer at the end of the  *)
(* file only.                                                              *)
Read(n) == Least(n, left)

(* The first fill, from decoder_open, is unsized; those of the decode loop *)
(* ask for STREAM_FILL_SIZE.                                               *)
Request == FillRequest(IF src = 0 THEN 0 ELSE FillSize)

(* Mutant: the size asked for is published, not the size that was read. *)
FillFromFile_WholeRequest(n) ==
  /\ source = "file" /\ Space >= n /\ n > 0
  /\ left > 0 /\ ~(n > room /\ left = room)
  /\ ring' = Copied(Read(n), Read(n)) /\ src' = src + Read(n)
  /\ Publish(n, Read(n))
  /\ UNCHANGED <<source, rd, stream>>

(* Data arrives; around the end of the ring a second read follows only a   *)
(* complete first one, and a short first part is published without it.     *)
FillFromFile(n) ==
  /\ source = "file" /\ Space >= n /\ n > 0
  /\ left > 0 /\ ~(n > room /\ left = room)
  /\ ring' = Copied(Read(n), Read(n))
  /\ Publish(Read(n), Read(n))
  /\ src' = src + Read(n)
  /\ UNCHANGED <<source, rd, stream>>

(* Mutant: a fill that reaches the end of the ring takes it for the end of *)
(* the file, whatever the second read returns.                             *)
FillAtEndOfFile_AtWrap(n) ==
  /\ source = "file" /\ Space >= n /\ n > 0
  /\ \/ left = 0 /\ UNCHANGED <<ring, src>> /\ PublishEnd(0)
     \/ /\ n > room /\ left >= room
        /\ ring' = Copied(room, room) /\ src' = src + room
        /\ PublishEnd(room)
  /\ UNCHANGED <<source, rd, used>>

(* The end of the file: the first read gets nothing, or the second one     *)
(* does, and then the bytes of the first are never published.              *)
FillAtEndOfFile(n) ==
  /\ source = "file" /\ Space >= n /\ n > 0
  /\ \/ left = 0 /\ UNCHANGED <<ring, src>> /\ PublishEnd(0)
     \/ /\ n > room /\ left = room
        /\ ring' = Copied(room, room) /\ src' = src + room
        /\ PublishEnd(room)
  /\ UNCHANGED <<source, rd, used>>

(* read() fails after m bytes, in either part: freadn returns -1, nothing  *)
(* is published and the m bytes are gone.                                  *)
FillFails(n) ==
  /\ source = "file" /\ Space >= n /\ n > 0
  /\ errors < MaxErrors /\ errors' = errors + 1
  /\ \E m \in 0 .. Read(n) :
       /\ m < n
       /\ ring' = Copied(m, m)
       /\ src' = src + m /\ dropped' = dropped + m
  /\ UNCHANGED <<source, rd, used, stream>>

(* No known source: an error where the fill would wrap (a stuttering       *)
(* step), otherwise taken for the end of the stream.                       *)
FillFromNowhere(n) ==
  /\ source = "other" /\ Space >= n /\ n > 0 /\ n <= room
  /\ PublishEnd(0)
  /\ UNCHANGED <<source, rd, used, ring, src>>

(* The VPU reads n published bytes. *)
Consume(n) ==
  /\ rd' = Wrap(rd + n) /\ used' = used - n
  /\ UNCHANGED <<source, ring, src, dropped, stream, errors>>

Next ==
  \/ \E n \in FrameSizes : FillFromMemory(n)
  \/ FillFromFile(Request) \/ FillAtEndOfFile(Request) \/ FillFails(Request)
  \/ FillFromNowhere(Request)
  \/ \E n \in 1 .. used : Consume(n)

Spec == Init /\ [][Next]_vars
-----------------------------------------------------------------------------
(* Every variable has its type; the published bytes leave the margin free. *)
TypeOK ==
  /\ source \in Sources
  /\ rd \in Cells
  /\ used \in 0 .. Size - Margin
  /\ ring \in [Cells -> Nat \cup {Junk}]
  /\ src \in Nat
  /\ dropped \in 0 .. src
  /\ stream \in {"open", "ended"}
  /\ errors \in 0 .. MaxErrors

Content(k) == ring[Wrap(rd + k)]

(* What the VPU will read next is, byte for byte, the last stretch of the  *)
(* source: no fill of dec_fill_bsbuffer, split at the end of the ring or   *)
(* not, overwrites, swaps or repeats a byte the VPU has not consumed, as   *)
(* long as nothing was dropped and no frame is empty.                      *)
NothingMissing ==
  (dropped = 0 /\ 0 \notin FrameSizes) =>
     \A k \in 0 .. used - 1 : Content(k) = src - used + k

(* Without a failed read or update, bytes are lost in one way only: the    *)
(* end of a file coincides with the end of the ring in the middle of a     *)
(* fill, and what is lost is exactly the stretch from the write pointer to *)
(* the ring's end, the last of the file.                                   *)
OnlyTheTailIsLost ==
  (errors = 0 /\ dropped # 0) =>
     (stream = "ended" /\ src = FileLength /\ dropped = room)

(* vpu_decode.c:565 says that only the actual size of a camera frame is    *)
(* written to the VPU: no byte from beyond a frame is ever published.      *)
OnlyFrameBytes == \A k \in 0 .. used - 1 : Content(k) # Junk

(* The ring implements the byte stream: the channel is what lies between   *)
(* the read and the write pointer.                                         *)
Stream == INSTANCE ByteStream WITH
            Capacity <- Size, next <- src,
            chan <- [k \in 1 .. used |-> Content(k - 1)]
StreamSpec == Stream!Spec
=============================================================================
