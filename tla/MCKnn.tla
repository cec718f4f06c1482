------------------------------- MODULE MCKnn -------------------------------
(***************************************************************************)
(* Small instances of Knn: every distance vector over a small range.       *)
(***************************************************************************)
EXTENDS Knn

\* What subGT can deliver: every value of DistanceBits bits.
AnyDistances == [Rows -> 0 .. MaxValue]
=============================================================================
