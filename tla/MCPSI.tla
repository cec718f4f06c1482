------------------------------- MODULE MCPSI -------------------------------
(***************************************************************************)
(* Three-bit elements, exponents modulo 11 (2 generates them all) and a    *)
(* filter of two buckets, as in MCCuckooFilter.                            *)
(***************************************************************************)
EXTENDS PSI

MCAltIndex(i, t) == (i + t) % 2

MCCipher == [x \in Element |-> (3 * x + 4) % 8]
MCa == [j \in Positions |-> CASE j = 0 -> 2 [] j = 1 -> 4 [] j = 2 -> 5]

\* Tags that use both buckets, with collisions; tags that crowd the first
\* bucket and have no other; and tags that overflow into the second one.
MCHashes ==
    {[c \in Code |-> [index |-> c % 2, tag |-> (c % 4) + 1]],
     [c \in Code |-> [index |-> 0, tag |-> 2 * ((c % 5) + 1)]],
     [c \in Code |-> [index |-> 0, tag |-> 2 * (c % 5) + 1]]}

\* Sets the constructor gives two buckets, with three to five elements.
MCServerSets == {<<0, 1, 2>>, <<5, 1, 6, 2>>, <<6, 0, 7, 3, 5>>}
MCClientSets == {<<0, 4>>, <<3>>, <<7, 5, 1>>}

\* Every choice of a few; one key is not yet reduced modulo the order.
MCChoices(n) == {[k \in 0 .. n-1 |-> b] : b \in {0, 1}} \cup {[k \in 0 .. n-1 |-> k % 2]}
MCKeys(n) == {[k \in 0 .. n-1 |-> [b \in {0, 1} |-> IF b = 0 THEN k + 1 ELSE 12 + (k % 4)]]}
=============================================================================
