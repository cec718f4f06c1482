------------------------- MODULE MCArithmeticShares -------------------------
(***************************************************************************)
(* Small instances of ArithmeticShares: one or two seeds, two draws and    *)
(* two key vectors stand for the random generators, a few input vectors    *)
(* for the database and the fingerprint.                                   *)
(***************************************************************************)
EXTENDS ArithmeticShares

\* Any function of the seed will do for rand(); this one is not additive.
MCRand(seed) == seed * seed + 3 * seed + 1

MCPads ==
    {[b \in 0 .. NumBaseBits-1 |-> (5 * b + 3) % 2^WireBits],
     [b \in 0 .. NumBaseBits-1 |-> (b * b + 6) % 2^WireBits]}

MCDraws ==
    {[c \in 0 .. M*N - 1 |-> 7 * c + 2], [c \in 0 .. M*N - 1 |-> c * c + 13]}

\* Rows at the largest possible distance and nearer, for several fingerprints.
MCFewInputs ==
    {[database |-> [i \in Rows |-> [j \in Cols |-> (i + (2^RSSBits - 1) * j) % 2^RSSBits]],
      fingerprint |-> [j \in Cols |-> (f * (j + 1)) % 2^RSSBits]] : f \in {2, 2^RSSBits - 1}}

\* One-bit signal strengths: rows at distance 0, 1 and in between.
MCOneBitInputs ==
    {[database |-> [i \in Rows |-> [j \in Cols |-> (i + 2 * j) % 2^RSSBits]],
      fingerprint |-> [j \in Cols |-> f]] : f \in RSS}
=============================================================================
