----------------------------- MODULE SourceFrame -----------------------------
(***************************************************************************)
(* read_source_frame of vpu_encode.c: how one picture gets from a file,    *)
(* from the decoder or from plain memory into the source frame buffer of   *)
(* the encoder, whose chroma planes hold every other row (4:2:0).          *)
(*                                                                         *)
(* A chroma plane is a grid of <<row, column>>.  A column is what one turn *)
(* of a copy loop moves: a word of a plane, or the U or V of one packed    *)
(* pair.  Both chroma planes are written in lockstep, so one map of the    *)
(* rows the samples came from stands for the two.  The contents of an      *)
(* earlier picture are all the same: stale.                                *)
(***************************************************************************)
EXTENDS Integers

CONSTANTS
  Layouts,   \* what enc->color_space may be
  Sizes,     \* pictures: cols, half (rows of 4:2:0 chroma), room (rows a chroma
             \* plane has room for, the height being rounded up to 16) and
             \* excess (what rounding up adds to the width)
  Surplus,   \* bound: rows a packed picture may claim beyond its height
  Stale      \* a sample of an earlier picture

ASSUME LayoutsAssumption == Layouts \subseteq {"YUV420P", "YUV422P", "NV12"}
ASSUME SizesAssumption ==
  \A s \in Sizes :
    /\ s["cols"] \in Nat \ {0} /\ s["half"] \in Nat \ {0}
    /\ s["room"] \in Nat /\ s["half"] <= s["room"] /\ s["room"] % 2 = 0
    /\ s["excess"] \in Nat
ASSUME SurplusAssumption == Surplus \in Nat
ASSUME StaleAssumption == Stale \notin Nat \X Nat

VARIABLES
  layout,   \* enc->color_space
  size,     \* the size of the pictures
  source,   \* vid_src->dataSource
  format,   \* vid_src->colorSpace
  have,     \* vid_src->bufOutSize in rows of a packed picture
  read,     \* where read_source_frame is
  ret,      \* what the last read of a file returned
  to, from, \* the chroma pointers into the frame buffer and the source
  count,    \* j of the planar loop, c_count of the packed one, in turns
  chroma,   \* whether the packed loop stores chroma
  origin,   \* where each chroma sample of the frame buffer came from
  fb,       \* how much of each plane is of the picture being read
  file,     \* whether the file has more to read
  slip      \* whether a read of this picture failed

input  == <<source, format, have>>
cursor == <<to, from, count, chroma, origin>>
disk   == <<ret, file, slip>>
srcVars == <<layout, size, input, read, cursor, fb, disk>>

Sources == {"FILE_SRC", "VPU_CODEC", "memory"}
Formats == {"YUV420P", "NV12", "YUYV", "YUV422P", "other"}
Planes == {"y", "u", "v"}
Cols == size["cols"]
Half == size["half"]
Grid == (0 .. size["room"] - 1) \X (0 .. Cols - 1)

Untouched == [p \in Grid |-> Stale]
All(how) == [p \in Planes |-> how]

SourceInit ==
  /\ layout \in Layouts /\ size \in Sizes
  /\ source = "memory" /\ format = "other" /\ have = 0
  /\ read = "idle" /\ ret = "nothing"
  /\ to = <<0, 0>> /\ from = <<0, 0>> /\ count = 0 /\ chroma = "on"
  /\ origin = Untouched /\ fb = All("stale")
  /\ file = "more" /\ slip = "no"

(* Once read_source_frame has returned, its locals are gone, and what it   *)
(* left in the frame buffer is an earlier picture to the next call.        *)
Returned ==
  /\ source' = "memory" /\ format' = "other" /\ have' = 0
  /\ read' = "idle" /\ ret' = "nothing"
  /\ to' = <<0, 0>> /\ from' = <<0, 0>> /\ count' = 0 /\ chroma' = "on"
  /\ origin' = Untouched /\ fb' = All("stale") /\ slip' = "no"
  /\ UNCHANGED <<layout, size, file>>
-----------------------------------------------------------------------------
Begin(src, fmt) ==
  /\ read = "idle" /\ source' = src /\ format' = fmt
  /\ UNCHANGED <<layout, size, cursor, disk>>

(* The width must be a multiple of 16, and the format one of four. *)
Valid(fmt) == size["excess"] = 0 /\ fmt # "other"

(* Otherwise, or when planar 4:2:2 does not come from a file or from the   *)
(* decoder, nothing is read.                                               *)
Refuse ==
  /\ \E src \in Sources, fmt \in Formats :
       /\ ~ Valid(fmt) \/ (src = "memory" /\ fmt = "YUV422P")
       /\ Begin(src, fmt)
  /\ have' = 0 /\ fb' = All("stale") /\ read' = "failed"

(* A file is read plane by plane. *)
OpenFile ==
  /\ \E fmt \in Formats : Valid(fmt) /\ Begin("FILE_SRC", fmt)
  /\ have' = 0 /\ fb' = All("stale") /\ read' = "y"

(* The decoder's planar 4:2:2: g2d copies Y, the loop the rest. *)
StartPlanar ==
  /\ Valid("YUV422P") /\ Begin("VPU_CODEC", "YUV422P") /\ have' = 0
  /\ \/ fb' = [All("stale") EXCEPT !["y"] = "whole"] /\ read' = "planar"
     \/ fb' = All("stale") /\ read' = "failed"        \* g2d_open failed

(* Packed pictures from anywhere but a file, of the size that comes with   *)
(* them, which is not compared with that of the picture: none of it, half  *)
(* of it, all of it or more may be claimed; an empty one is no data.       *)
StartPacked ==
  /\ Valid("YUYV") /\ \E src \in {"VPU_CODEC", "memory"} : Begin(src, "YUYV")
  /\ have' \in {0, Half} \cup 2 * Half .. 2 * Half + Surplus
  /\ fb' = All("stale")
  /\ read' = IF have' = 0 THEN "failed" ELSE "packed"

Interleaved(space) == space = "NV12"

(* Where a plane starts in a buffer, in half rows of luma: behind Y, V     *)
(* behind U, whose size depends on the color space.  framebuf_alloc is     *)
(* given the height rounded up, a source has its own.                      *)
Start(space, rows, plane) ==
  CASE plane = "y" -> 0
    [] plane = "u" -> 4 * rows
    [] plane = "v" -> IF space = "YUV422P" THEN 6 * rows ELSE 5 * rows

(* One copy of the whole picture: a plane arrives where it starts at the   *)
(* same place in both buffers.                                             *)
Flat(fmt, p) ==
  \/ p = "y"
  \/ /\ Interleaved(fmt) = Interleaved(layout)
     /\ Start(fmt, Half, p) = Start(layout, size["room"], p)

(* 4:2:0 is copied flat, by g2d (which may not open) when the decoder has  *)
(* it interleaved, and by memcpy otherwise.                                *)
CopyFlat ==
  /\ have' = 0
  /\ \E src \in {"VPU_CODEC", "memory"}, fmt \in {"YUV420P", "NV12"} :
       /\ Valid(fmt) /\ Begin(src, fmt)
       /\ \/ /\ fb' = [p \in Planes |->
                         IF Flat(fmt, p) THEN "whole" ELSE "stale"]
             /\ read' = "done"
          \/ /\ src = "VPU_CODEC" /\ fmt = "NV12"
             /\ fb' = All("stale") /\ read' = "failed"
-----------------------------------------------------------------------------
(* The pointer one turn on, in a plane of Cols columns. *)
After(p) == IF p[2] + 1 = Cols THEN <<p[1] + 1, 0>> ELSE <<p[1], p[2] + 1>>

(* A sample stored behind its plane hits what lies there: the next plane,  *)
(* or the memory behind the frame buffer.                                  *)
Store == origin' = [p \in Grid |-> IF p = to THEN from ELSE origin[p]]

(* What the packed loop leaves: a picture that ends early is a part of     *)
(* one, and past the rows the planes have room for it destroys them.       *)
Unpacked ==
  All(IF have \in 2 * Half .. 2 * size["room"] THEN "whole" ELSE "part")

(* Mutant: a single row is passed over. *)
PlanarTurn_SkipsOne ==
  /\ read = "planar" /\ Store /\ to' = After(to)
  /\ IF count + 1 = 2 * Cols
     THEN count' = 0 /\ from' = <<After(from)[1] + 1, After(from)[2]>>
     ELSE count' = count + 1 /\ from' = After(from)
  /\ IF to'[1] < Half THEN UNCHANGED <<read, fb>>
     ELSE read' = "done" /\ fb' = [fb EXCEPT !["u"] = "whole", !["v"] = "whole"]
  /\ UNCHANGED <<layout, size, input, chroma, disk>>

(* Mutant: the counter of the row pairs is not set back. *)
PlanarTurn_NoReset ==
  /\ read = "planar" /\ Store /\ to' = After(to)
  /\ count' = count + 1 /\ from' = After(from)
  /\ IF to'[1] < Half THEN UNCHANGED <<read, fb>>
     ELSE read' = "done" /\ fb' = [fb EXCEPT !["u"] = "whole", !["v"] = "whole"]
  /\ UNCHANGED <<layout, size, input, chroma, disk>>

(* One turn of the planar loop: after two rows, two are passed over. *)
PlanarTurn ==
  /\ read = "planar" /\ Store /\ to' = After(to)
  /\ IF count + 1 = 2 * Cols
     THEN count' = 0 /\ from' = <<After(from)[1] + 2, After(from)[2]>>
     ELSE count' = count + 1 /\ from' = After(from)
  /\ IF to'[1] < Half THEN UNCHANGED <<read, fb>>
     ELSE read' = "done" /\ fb' = [fb EXCEPT !["u"] = "whole", !["v"] = "whole"]
  /\ UNCHANGED <<layout, size, input, chroma, disk>>

(* Mutant: the chroma of every row is stored. *)
PackedTurn_KeepsAll ==
  /\ read = "packed" /\ from' = After(from)
  /\ Store /\ to' = After(to)
  /\ UNCHANGED <<chroma, count>>
  /\ IF from'[1] < have THEN UNCHANGED <<read, fb>>
     ELSE read' = "done" /\ fb' = Unpacked
  /\ UNCHANGED <<layout, size, input, disk>>

(* One turn of the packed loop, over all rows, with chroma stored in every *)
(* other pair of rows.                                                     *)
PackedTurn ==
  /\ read = "packed" /\ from' = After(from)
  /\ IF chroma = "on" THEN Store /\ to' = After(to) ELSE UNCHANGED <<to, origin>>
  /\ IF count + 1 = 2 * Cols
     THEN count' = 0 /\ chroma' = (IF chroma = "on" THEN "off" ELSE "on")
     ELSE count' = count + 1 /\ UNCHANGED chroma
  /\ IF from'[1] < have THEN UNCHANGED <<read, fb>>
     ELSE read' = "done" /\ fb' = Unpacked
  /\ UNCHANGED <<layout, size, input, disk>>
-----------------------------------------------------------------------------
(* Which planes the next freadn fills, and what follows it. *)
Filled(r) ==
  CASE r = "y" -> {"y"} [] r = "v" -> {"v"}
    [] r = "u" -> IF Interleaved(layout) THEN {"u", "v"} ELSE {"u"}
Following(r) ==
  IF r = "y" THEN "u"
  ELSE IF r = "u" /\ ~ Interleaved(layout) THEN "v" ELSE "last"

(* freadn: all of it, some of it or nothing before the end of the file, or *)
(* an error after any part of it.                                          *)
Freadn(planes) ==
  \E how \in {"stale", "part", "whole"} :
    /\ fb' = [p \in Planes |-> IF p \in planes THEN how ELSE fb[p]]
    /\ \/ /\ file = "more" \/ how = "stale"
          /\ file' = IF how = "whole" THEN "more" ELSE "end"
          /\ ret' = IF how = "stale" THEN "nothing" ELSE "data"
          /\ UNCHANGED slip
       \/ /\ how # "whole" /\ ret' = "error" /\ slip' = "yes"
          /\ UNCHANGED file

(* Mutant: the first result is the one that counts. *)
ReadPlane_FirstCounts ==
  /\ read \in Planes
  /\ Freadn(Filled(read))
  /\ read' = IF read = "y" /\ ret' # "data" THEN "failed"
             ELSE IF Following(read) = "last" THEN "done" ELSE Following(read)
  /\ UNCHANGED <<layout, size, input, cursor>>

(* Every result but that of the last read is overwritten. *)
ReadPlane ==
  /\ read \in Planes
  /\ Freadn(Filled(read))
  /\ read' = IF Following(read) # "last" THEN Following(read)
             ELSE IF ret' = "data" THEN "done" ELSE "failed"
  /\ UNCHANGED <<layout, size, input, cursor>>

ReadSourceFrame ==
  Refuse \/ OpenFile \/ StartPlanar \/ StartPacked \/ CopyFlat
ReadStep == PlanarTurn \/ PackedTurn \/ ReadPlane
-----------------------------------------------------------------------------
SourceTypeOK ==
  /\ layout \in Layouts /\ size \in Sizes
  /\ source \in Sources /\ format \in Formats
  /\ have \in 0 .. 2 * Half + Surplus
  /\ read \in {"idle", "planar", "packed", "y", "u", "v", "done", "failed"}
  /\ ret \in {"data", "nothing", "error"}
  /\ to \in Nat \X Nat /\ from \in Nat \X Nat
  /\ count \in 0 .. 2 * Cols - 1 /\ chroma \in {"on", "off"}
  /\ origin \in [Grid -> (Nat \X Nat) \cup {Stale}]
  /\ fb \in [Planes -> {"stale", "part", "whole"}]
  /\ file \in {"more", "end"} /\ slip \in {"no", "yes"}

(* The packed loop goes by the size that came with the picture, and stores *)
(* whole pairs of rows of chroma.  Neither loop stores chroma behind its   *)
(* plane unless that size claims more rows than the frame buffer has room  *)
(* for: a row too many, when the height is not a multiple of 4, still      *)
(* lands in what rounding up leaves.  Nor does either read behind a        *)
(* picture that claims no more than its height.                            *)
ChromaInPlane ==
  /\ \/ read = "planar"
     \/ read = "packed" /\ chroma = "on" /\ have <= 2 * size["room"]
     => to \in Grid
  /\ read \in {"planar", "packed"} /\ have <= 2 * Half => from[1] < 2 * Half

(* The layout is that of the data, as enzo_codec.h:45 has it; 4:2:2 goes   *)
(* into any planar layout.  A flat copy also needs a height that is not    *)
(* rounded up, and a packed picture must be whole and fit the planes.      *)
Suited ==
  IF format \in {"YUV420P", "NV12"} THEN layout = format /\ size["room"] = Half
  ELSE ~ Interleaved(layout) /\ (format = "YUYV" => have \in 2 * Half .. 2 * size["room"])

(* Both loops find their way by counters of their own, one skipping in the *)
(* source and the other in the destination.  Either way every chroma       *)
(* sample the VPU gets is of this picture, of the same column, and of a    *)
(* row that lies under it, or one above.                                   *)
SourceIsPicture ==
  read = "done" /\ source # "FILE_SRC" /\ Suited =>
    /\ fb = All("whole")
    /\ format \in {"YUYV", "YUV422P"} =>
         \A p \in Grid : p[1] < Half =>
           origin[p] \in {<<2 * p[1] - 1, p[2]>>, <<2 * p[1], p[2]>>}

(* Of a file that ends, only the last plane can be short in a picture that *)
(* is encoded, although the results of the other reads are overwritten.    *)
OnlyTheTailIsStale ==
  read = "done" /\ source = "FILE_SRC" /\ slip = "no" =>
    /\ fb["y"] = "whole" /\ fb["v"] # "stale"
    /\ Interleaved(layout) \/ fb["u"] = "whole"
=============================================================================
