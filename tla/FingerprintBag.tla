--------------------------- MODULE FingerprintBag ---------------------------
(***************************************************************************)
(* What a cuckoo filter keeps: how many of the items added and not deleted *)
(* again it cannot tell apart from a given one.  Items with the same       *)
(* fingerprint and the same two buckets are one class.                     *)
(***************************************************************************)
EXTENDS Integers

CONSTANT Class

VARIABLE bag

Init == bag = [c \in Class |-> 0]

Add(c) == bag' = [bag EXCEPT ![c] = @ + 1]

Delete(c) ==
    /\ bag[c] > 0
    /\ bag' = [bag EXCEPT ![c] = @ - 1]

Next == \E c \in Class : Add(c) \/ Delete(c)

Spec == Init /\ [][Next]_bag
=============================================================================
