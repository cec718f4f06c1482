--------------------------- MODULE SharedDistance ---------------------------
(***************************************************************************)
(* What the arithmetic-sharing phase promises: each party is given, once,  *)
(* a vector with one ring element per database row, and the server's       *)
(* vector minus the client's is the vector of squared distances.  Which    *)
(* party is first, and what the first one is given, is left open.          *)
(***************************************************************************)
EXTENDS Integers

CONSTANTS Party, Rows, Ring, None

VARIABLES
    distance,   \* the squared distances of this localisation, in the ring
    output      \* output[p]: None until p holds its vector

vars == <<distance, output>>

Vector == [Rows -> 0 .. Ring-1]

Init ==
    /\ distance \in Vector
    /\ output = [p \in Party |-> None]

Matches(out) ==
    (\A p \in Party : out[p] # None) =>
        \A i \in Rows : (out["server"][i] - out["client"][i]) % Ring = distance[i]

Deliver(p) ==
    /\ output[p] = None
    /\ output'[p] \in Vector
    /\ output' = [output EXCEPT ![p] = output'[p]]
    /\ Matches(output')
    /\ UNCHANGED distance

Next == \E p \in Party : Deliver(p)

Spec == Init /\ [][Next]_vars
=============================================================================
