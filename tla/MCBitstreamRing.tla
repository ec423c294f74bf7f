--------------------------- MODULE MCBitstreamRing ---------------------------
(* Instances of BitstreamRing for TLC: a ring of eight bytes, frames that   *)
(* fit, that fit only an empty ring, and that never fit.                    *)
EXTENDS BitstreamRing

AllSources == {"memory", "file", "other"}
MemorySource == {"memory"}
SomeSizes == {2, 3, 6, 7}
SizesWithNone == {0, 3}
=============================================================================
