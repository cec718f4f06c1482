---------------------------- MODULE PPILCircuit ----------------------------
(***************************************************************************)
(* PPILCircuit::computeFunction, for one-bit signal strengths (Hamming     *)
(* distance of the database rows and the fingerprint) and for wider ones   *)
(* (difference of the two parties' additive shares), followed by knnAlgo   *)
(* on vectors of wires.  Garbler and evaluator both run it gate by gate;   *)
(* here it runs once on the plain bits.                                    *)
(***************************************************************************)
EXTENDS PPILGates, FiniteSets

CONSTANTS
    M,       \* rows of the database
    N,       \* access points: width of a one-bit row
    L,       \* inputElementsLength: width of a share of a distance
    K,       \* neighbours asked for
    Inputs   \* set of [protNum, server, client] to compute on

Rows == 0 .. M-1
Slots == 0 .. K

\* size_t x = ceil(log2(n))
CeilLog2(n) == CHOOSE x \in 0 .. n : 2^x >= n /\ (x > 0 => 2^(x-1) < n)
IdBits == CeilLog2(M)

\* The widths are those that the two computeFunctions assert or, for the shares,
\* that the input labels were made with.
Vectors(n) == [1 .. n -> BOOLEAN]
InputType ==
    [protNum : {0}, server : [Rows -> Vectors(N)], client : Vectors(N)]
    \cup [protNum : {1}, server : [Rows -> Vectors(L)], client : [Rows -> Vectors(L)]]

ASSUME ParameterAssumption ==
    /\ M \in Nat \ {0} /\ N \in Nat \ {0} /\ L \in Nat \ {0} /\ K \in Nat \ {0}
    /\ Inputs \subseteq InputType

-----------------------------------------------------------------------------
VARIABLES
    input,             \* protocol and input bits of both parties
    DISTANCE_BIT_SIZE, \* the field: L, until the Hamming distances are done
    distances,         \* distance vectors computed so far, by row
    minDist, minID,    \* slots of knnAlgo, empty before it starts
    i, j               \* its loop indices

vars == <<input, DISTANCE_BIT_SIZE, distances, minDist, minID, i, j>>

Init ==
    /\ input \in Inputs
    /\ DISTANCE_BIT_SIZE = L
    /\ distances = <<>>
    /\ minDist = <<>> /\ minID = <<>>
    /\ i = 0 /\ j = 0

Searching == minDist # <<>>

\* The loops over the rows in the two computeFunctions: distances[i] is
\* element i+1 of the sequence.
HammingDistance ==
    /\ input.protNum = 0 /\ Len(distances) < M
    /\ LET row == input.server[Len(distances)]
       IN  distances' = Append(distances,
             hammingweight([k \in DOMAIN row |-> XOR(input.client[k], row[k])]))
    /\ UNCHANGED <<input, DISTANCE_BIT_SIZE, minDist, minID, i, j>>

SharedDistance ==
    /\ input.protNum = 1 /\ Len(distances) < M
    /\ LET r == Len(distances)
       IN  distances' = Append(distances, subGT(input.server[r], input.client[r]))
    /\ UNCHANGED <<input, DISTANCE_BIT_SIZE, minDist, minID, i, j>>

\* The size of a Hamming distance is set only now; then knnAlgo fills its slots
\* with placeholders.
StartSearch ==
    /\ Len(distances) = M /\ ~Searching
    /\ DISTANCE_BIT_SIZE' =
          IF input.protNum = 0 THEN CeilLog2(N) ELSE DISTANCE_BIT_SIZE
    /\ minDist' = [s \in Slots |->
                     ConsGT(2^(DISTANCE_BIT_SIZE') - 1, DISTANCE_BIT_SIZE')]
    /\ minID' = [s \in Slots |-> ConsGT(0, IdBits)]
    /\ UNCHANGED <<input, distances, i, j>>

RowID_Truncated(row) == SubSeq(ConsGT(row, IdBits), 1, 1)
RowID(row) == ConsGT(row, IdBits)

Load ==
    /\ Searching /\ j = 0 /\ i < M
    /\ minDist' = [minDist EXCEPT ![K] = distances[i+1]]
    /\ minID' = [minID EXCEPT ![K] = RowID(i)]
    /\ j' = K
    /\ UNCHANGED <<input, DISTANCE_BIT_SIZE, distances, i>>

SwapSlots(f, gt) ==
    LET swapped == conditionalSwap(f[j], f[j-1], gt)
    IN  [f EXCEPT ![j] = swapped[1], ![j-1] = swapped[2]]

CompareSwap ==
    /\ j > 0
    /\ LET gt == GreaterThanGT(minDist[j-1], minDist[j])
       IN  minDist' = SwapSlots(minDist, gt) /\ minID' = SwapSlots(minID, gt)
    /\ j' = j - 1
    /\ i' = IF j = 1 THEN i + 1 ELSE i
    /\ UNCHANGED <<input, DISTANCE_BIT_SIZE, distances>>

Next == HammingDistance \/ SharedDistance \/ StartSearch \/ Load \/ CompareSwap

Spec == Init /\ [][Next]_vars

Done == Searching /\ i = M /\ j = 0

-----------------------------------------------------------------------------
(* Properties *)

\* Every wire vector is as wide as its place needs: the ids the evaluator
\* decodes have exactly the bits of a row number, and distances keep theirs.
TypeOK ==
    /\ input \in Inputs
    /\ Len(distances) <= M
    /\ \A r \in 1 .. Len(distances) : distances[r] \in BitVectors
    /\ Searching =>
         /\ \A s \in Slots : Len(minID[s]) = IdBits
         /\ \A s \in Slots : minDist[s] \in BitVectors
    /\ i \in 0 .. M /\ j \in Slots

\* The distance of a row in ordinary arithmetic.
PlainDistance(r) ==
    IF input.protNum = 0
    THEN Cardinality({k \in 1 .. N : input.server[r][k] # input.client[k]})
    ELSE (Number(input.server[r]) - Number(input.client[r])) % 2^L

\* The state of Knn that a state of the circuit stands for.
SlotNumbers(f, none) == [s \in Slots |-> IF Searching THEN Number(f[s]) ELSE none]
HammingSearch == INSTANCE Knn WITH
    DistanceBits <- CeilLog2(N), Distances <- [Rows -> Nat],
    distances <- [r \in Rows |-> PlainDistance(r)],
    minDist <- SlotNumbers(minDist, 2^CeilLog2(N) - 1),
    minID <- SlotNumbers(minID, 0)
ShareSearch == INSTANCE Knn WITH
    DistanceBits <- L, Distances <- [Rows -> Nat],
    distances <- [r \in Rows |-> PlainDistance(r)],
    minDist <- SlotNumbers(minDist, 2^L - 1),
    minID <- SlotNumbers(minID, 0)

\* The gates do what Knn does on ordinary Hamming distances: every comparison
\* decides, and every swap exchanges, as on numbers, also when a distance has
\* more wires than the placeholder it meets.
SearchesHamming ==
    /\ input.protNum = 0 => HammingSearch!Init
    /\ [][input.protNum = 0 => HammingSearch!Next]_(HammingSearch!vars)

\* The same for the distances that the two parties' shares stand for.
SearchesShares ==
    /\ input.protNum = 1 => ShareSearch!Init
    /\ [][input.protNum = 1 => ShareSearch!Next]_(ShareSearch!vars)
=============================================================================
