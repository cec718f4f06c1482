-------------------------------- MODULE Knn --------------------------------
(***************************************************************************)
(* PPILCircuit::knnAlgo: an insertion sort over K+1 slots finds the ids of *)
(* the K database rows nearest to the fingerprint.  The circuit is         *)
(* data-independent, so a swap gate either exchanges two slots or leaves   *)
(* both alone; wires carry the distances and ids as numbers here (module   *)
(* PPILGates shows the gates compute those numbers, HalfGates that the     *)
(* garbled wires carry them).                                              *)
(***************************************************************************)
EXTENDS Integers, FiniteSets

CONSTANTS
    M,             \* rows of the database
    K,             \* neighbours asked for
    DistanceBits,  \* DISTANCE_BIT_SIZE
    Distances      \* set of distance vectors that may be searched

Rows == 0 .. M-1
Slots == 0 .. K

\* The placeholder distance of a slot no row has reached yet.
MaxValue == 2^DistanceBits - 1

ASSUME ParameterAssumption ==
    /\ M \in Nat \ {0} /\ K \in Nat \ {0}
    /\ MaxValue \in Nat
    /\ Distances \subseteq [Rows -> Nat]

-----------------------------------------------------------------------------
VARIABLES
    distances,  \* the input wires
    minDist,    \* distance in each slot; slot K is the row being inserted
    minID,      \* row id in each slot
    i,          \* outer loop: next row, or the row being inserted
    j           \* inner loop; 0 between two insertions

vars == <<distances, minDist, minID, i, j>>

Init ==
    /\ distances \in Distances
    /\ minDist = [s \in Slots |-> MaxValue]
    /\ minID = [s \in Slots |-> 0]
    /\ i = 0
    /\ j = 0

\* GreaterThanGT: strict, so that equal distances keep their order.
GreaterThan_OrEqual(a, b) == a >= b
GreaterThan(a, b) == a > b

SwapIf(select, f, a, b) ==
    IF select THEN [f EXCEPT ![a] = f[b], ![b] = f[a]] ELSE f

RowID_FromOne(row) == row + 1
RowID(row) == row

\* minDist[k] = distances[i]; minID[k] = i; the inner loop starts at k.
Load_SkipsScratch ==
    /\ j = 0 /\ i < M
    /\ minDist' = [minDist EXCEPT ![K] = distances[i]]
    /\ minID' = [minID EXCEPT ![K] = RowID(i)]
    /\ j' = K - 1
    /\ UNCHANGED <<distances, i>>

Load ==
    /\ j = 0 /\ i < M
    /\ minDist' = [minDist EXCEPT ![K] = distances[i]]
    /\ minID' = [minID EXCEPT ![K] = RowID(i)]
    /\ j' = K
    /\ UNCHANGED <<distances, i>>

\* One round of the inner loop: slots j-1 and j are compared and swapped, ids
\* under the same selector as distances; after j = 1 comes the next row.
CompareSwap_DistancesOnly ==
    /\ j > 0
    /\ LET gt == GreaterThan(minDist[j-1], minDist[j])
       IN  minDist' = SwapIf(gt, minDist, j-1, j)
    /\ j' = j - 1
    /\ i' = IF j = 1 THEN i + 1 ELSE i
    /\ UNCHANGED <<distances, minID>>

CompareSwap ==
    /\ j > 0
    /\ LET gt == GreaterThan(minDist[j-1], minDist[j])
       IN  /\ minDist' = SwapIf(gt, minDist, j-1, j)
           /\ minID' = SwapIf(gt, minID, j-1, j)
    /\ j' = j - 1
    /\ i' = IF j = 1 THEN i + 1 ELSE i
    /\ UNCHANGED distances

Next == Load \/ CompareSwap

Spec == Init /\ [][Next]_vars

\* The first K ids are the result; slot K is scratch.
Done == i = M /\ j = 0
Result == [s \in 0 .. K-1 |-> minID[s]]

-----------------------------------------------------------------------------
(* Properties *)

\* Ids name rows of the database and the loop indices stay in the arrays.
TypeOK ==
    /\ distances \in [Rows -> Nat]
    /\ minDist \in [Slots -> Nat]
    /\ minID \in [Slots -> Rows]
    /\ i \in 0 .. M
    /\ j \in Slots
    /\ j > 0 => i < M

\* Number of rows that have been put into a slot.
Seen == IF j = 0 THEN i ELSE i + 1

Filled(s) == minDist[s] < MaxValue
Holds(s, r) == minID[s] = r /\ minDist[s] = distances[r]
AllBelowMax == \A r \in Rows : distances[r] < MaxValue

\* Only the row on its way up is out of order, and it is the smallest from
\* its own slot down.
Sorted ==
    \A a, b \in Slots : a < b =>
        /\ (a # j /\ b # j) => minDist[a] <= minDist[b]
        /\ a = j => minDist[a] <= minDist[b]

\* A slot without the placeholder distance holds a row seen before, with the
\* row's own distance, and no two such slots hold the same row.
Genuine ==
    /\ \A s \in Slots : Filled(s) => minID[s] < Seen /\ Holds(s, minID[s])
    /\ \A s, t \in Slots : s # t /\ Filled(s) /\ Filled(t) => minID[s] # minID[t]

\* A row that has been dropped is no nearer than what the K results hold.
Covered ==
    \A r \in Rows : r < Seen =>
        \/ \E s \in Slots : Holds(s, r)
        \/ \A s \in Slots : s < K => minDist[s] <= distances[r]

\* Slots that as many rows have reached.
Reached(s) ==
    \/ s < i /\ (j = 0 \/ s < j)
    \/ s = j /\ j > 0
    \/ s <= i /\ s > j /\ j > 0

\* Rows nearer than the placeholder push every placeholder they can out.
PushedOut == AllBelowMax => \A s \in Slots : Reached(s) => Filled(s)

\* The loop invariant of the insertion: the two arrays, swapped by separate
\* gates, stay one sorted list of rows from which only far rows fall out.
InsertionInvariant == Sorted /\ Genuine /\ Covered /\ PushedOut

\* The ids are K different rows, nearest first, and no other row is nearer.
IsNearest(ids) ==
    /\ \A s, t \in 0 .. K-1 : s < t =>
          ids[s] # ids[t] /\ distances[ids[s]] <= distances[ids[t]]
    /\ \A r \in Rows :
          (\A s \in 0 .. K-1 : ids[s] # r) =>
              \A s \in 0 .. K-1 : distances[ids[s]] <= distances[r]

\* With enough rows, all nearer than the placeholder, the search returns the
\* K nearest.
ReturnsNearest == Done /\ K <= M /\ AllBelowMax => IsNearest(Result)

\* The same for every distance of DistanceBits bits; knnAlgo does not keep it.
FindsNearest == Done /\ K <= M => IsNearest(Result)

\* A row counts as looked at once it has been compared with the K-th result:
\* insertion by insertion the slots then hold what the abstract search holds,
\* ties in favour of the earlier row included, if all rows are nearer than the
\* placeholder (the distances of a behaviour never change).
Search == INSTANCE NearestNeighbours WITH
    seen <- IF j \in {0, K} THEN i ELSE i + 1,
    best <- {minID[s] : s \in {t \in 0 .. K-1 : Filled(t)}}
ImplementsSearch ==
    /\ AllBelowMax => Search!Init
    /\ [][AllBelowMax => Search!Look]_(Search!vars)
=============================================================================
