----------------------------- MODULE MCKdEngine -----------------------------
(* Instance of KdEngine for TLC: chunks of 2 bytes in a buffer of 5, so that *)
(* reads take none, one, two or three chunks, fit exactly, or do not fit;    *)
(* one unreadable address lies in the first, the last or no chunk.           *)
EXTENDS KdEngine

MCPointers == {0, 3, 9}
MCSizes    == {0, 1, 2, 3, 4, 5, 6}
MCReadable == (0..20) \ {4, 10}
=============================================================================
