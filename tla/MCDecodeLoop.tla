---------------------------- MODULE MCDecodeLoop ----------------------------
(* Instances of DecodeLoop for TLC. *)
EXTENDS DecodeLoop

BothFormats == {"MJPEG", "H264AVC"}
AvcOnly == {"H264AVC"}

(* The lag of motion JPEG has room to grow beyond its bound for as many    *)
(* failures as the run allows; H.264 fills the buffer within four calls.   *)
PicturesThatFit == [f \in Formats |-> IF f = "MJPEG" THEN 6 ELSE 3]
=============================================================================
