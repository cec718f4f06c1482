--------------------------- MODULE MCCuckooFilter ---------------------------
(***************************************************************************)
(* Two buckets: the multiplier of AltIndex is odd, so that tags with the   *)
(* low bit set have both buckets and the others have one bucket twice.     *)
(***************************************************************************)
EXTENDS CuckooFilter

MCAltIndex(i, t) == (i + t) % 2
=============================================================================
