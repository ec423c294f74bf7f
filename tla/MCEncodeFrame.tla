--------------------------- MODULE MCEncodeFrame ---------------------------
(* An instance of EncodeFrame for TLC.  The sizes: a height that is a      *)
(* multiple of 16 and one that is no multiple of 4, scaled down, and a     *)
(* width that is rounded up.                                               *)
EXTENDS EncodeFrame

MCSizes == {[cols |-> 1, half |-> 4, room |-> 4, excess |-> 0],
            [cols |-> 2, half |-> 3, room |-> 4, excess |-> 0],
            [cols |-> 1, half |-> 2, room |-> 2, excess |-> 1]}
MCHeaderSizes == {<<SpsSize, PpsSize>>, <<SpsSize + 1, PpsSize>>}
MCLayouts == {"YUV420P", "YUV422P", "NV12"}
=============================================================================
