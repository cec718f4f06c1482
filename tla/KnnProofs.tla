----------------------------- MODULE KnnProofs -----------------------------
(***************************************************************************)
(* Proofs about knnAlgo for every number of rows, every K, every width and *)
(* every distance vector: the loop invariant of the insertion holds, what  *)
(* the search returns are the K nearest rows, and row by row it implements *)
(* the abstract search of NearestNeighbours.                               *)
(***************************************************************************)
EXTENDS Knn, FiniteSetTheorems, TLAPS

\* What the initial state, Load and CompareSwap say, with the swap unfolded:
\* the slots that are not written keep their value.
LEMMA LoadEffect ==
    ASSUME ParameterAssumption, TypeOK, Load
    PROVE  /\ minDist'[K] = distances[i] /\ minID'[K] = i
           /\ \A s \in Slots : s # K => minDist'[s] = minDist[s] /\ minID'[s] = minID[s]
           /\ j = 0 /\ i < M /\ j' = K /\ i' = i /\ distances' = distances
           /\ i \in Rows /\ K \in Slots
  BY DEF ParameterAssumption, TypeOK, Load, RowID, Slots, Rows

\* A round of the inner loop exchanges distance and id of two slots, or neither.
LEMMA CompareSwapEffect ==
    ASSUME ParameterAssumption, TypeOK, CompareSwap
    PROVE  /\ j > 0 /\ j' = j - 1 /\ distances' = distances /\ j \in Slots /\ j - 1 \in Slots
           /\ i' = IF j = 1 THEN i + 1 ELSE i
           /\ \A s \in Slots : s # j /\ s # j - 1 =>
                 minDist'[s] = minDist[s] /\ minID'[s] = minID[s]
           /\ \/ /\ minDist[j-1] > minDist[j]
                 /\ minDist'[j] = minDist[j-1] /\ minDist'[j-1] = minDist[j]
                 /\ minID'[j] = minID[j-1] /\ minID'[j-1] = minID[j]
              \/ /\ minDist[j-1] <= minDist[j]
                 /\ minDist'[j] = minDist[j] /\ minDist'[j-1] = minDist[j-1]
                 /\ minID'[j] = minID[j] /\ minID'[j-1] = minID[j-1]
  <1>1. /\ j > 0 /\ j' = j - 1 /\ distances' = distances /\ j \in Slots /\ j - 1 \in Slots
        /\ i' = IF j = 1 THEN i + 1 ELSE i
    BY DEF ParameterAssumption, TypeOK, CompareSwap, Slots
  <1>2. CASE minDist[j-1] > minDist[j]
    <2>1. /\ minDist' = [minDist EXCEPT ![j-1] = minDist[j], ![j] = minDist[j-1]]
          /\ minID' = [minID EXCEPT ![j-1] = minID[j], ![j] = minID[j-1]]
      BY <1>2 DEF CompareSwap, SwapIf, GreaterThan
    <2>2. QED
      BY <1>1, <1>2, <2>1 DEF TypeOK
  <1>3. CASE ~(minDist[j-1] > minDist[j])
    <2>1. minDist' = minDist /\ minID' = minID
      BY <1>3 DEF CompareSwap, SwapIf, GreaterThan
    <2>2. minDist[j-1] \in Nat /\ minDist[j] \in Nat
      BY <1>1 DEF TypeOK
    <2>3. QED
      BY <1>1, <1>3, <2>1, <2>2
  <1>4. QED
    BY <1>2, <1>3

-----------------------------------------------------------------------------
(* Type correctness *)

\* The slots knnAlgo fills before its loops are well-typed.
LEMMA InitTypeOK == ASSUME ParameterAssumption, Init PROVE TypeOK
  BY DEF ParameterAssumption, Init, TypeOK, Slots, Rows

\* Neither loading a row nor a conditional swap leaves the types.
LEMMA NextTypeOK == ASSUME ParameterAssumption, TypeOK, [Next]_vars PROVE TypeOK'
  <1>1. CASE Load
    BY <1>1 DEF ParameterAssumption, TypeOK, Load, RowID, Slots, Rows
  <1>2. CASE CompareSwap
    <2>1. j \in Slots /\ j - 1 \in Slots /\ j > 0 /\ i < M
      BY <1>2 DEF ParameterAssumption, TypeOK, CompareSwap, Slots
    <2>2. minDist' \in [Slots -> Nat] /\ minID' \in [Slots -> Rows]
      BY <1>2, <2>1 DEF TypeOK, CompareSwap, SwapIf
    <2>3. i' \in 0 .. M /\ j' \in Slots /\ (j' > 0 => i' < M)
      BY <1>2, <2>1 DEF ParameterAssumption, TypeOK, CompareSwap, Slots
    <2>4. QED
      BY <1>2, <2>2, <2>3 DEF TypeOK, CompareSwap
  <1>3. CASE UNCHANGED vars
    BY <1>3 DEF TypeOK, vars
  <1>4. QED
    BY <1>1, <1>2, <1>3 DEF Next

\* Row ids always name rows and the loop indices stay within the arrays.
THEOREM TypeCorrect == Spec => []TypeOK
  <1>1. Init => TypeOK
    BY ParameterAssumption, InitTypeOK
  <1>2. TypeOK /\ [Next]_vars => TypeOK'
    BY ParameterAssumption, NextTypeOK
  <1>3. QED
    BY <1>1, <1>2, PTL DEF Spec

-----------------------------------------------------------------------------
(* The loop invariant *)

\* The inductive invariant.
IInv == TypeOK /\ InsertionInvariant

\* Slots that hold only placeholders satisfy the loop invariant.
LEMMA InitInvariant == ASSUME ParameterAssumption, Init PROVE IInv
  <1>1. TypeOK
    BY InitTypeOK
  <1>2. \A s \in Slots : minDist[s] = MaxValue /\ ~Filled(s) /\ ~Reached(s)
    BY DEF ParameterAssumption, Init, Filled, Reached, Slots
  <1>3. Sorted
    BY <1>2 DEF ParameterAssumption, Sorted
  <1>4. Genuine
    BY <1>2 DEF Genuine
  <1>5. Covered
    BY DEF Init, Covered, Seen, Rows
  <1>6. PushedOut
    BY <1>2 DEF PushedOut
  <1>7. QED
    BY <1>1, <1>3, <1>4, <1>5, <1>6 DEF IInv, InsertionInvariant

\* A row is loaded into the scratch slot, below everything else.
LEMMA LoadInvariant ==
    ASSUME ParameterAssumption, IInv, Load
    PROVE  InsertionInvariant'
  <1> USE DEF IInv, InsertionInvariant
  <1>1. /\ minDist'[K] = distances[i] /\ minID'[K] = i
        /\ \A s \in Slots : s # K => minDist'[s] = minDist[s] /\ minID'[s] = minID[s]
        /\ j = 0 /\ i < M /\ j' = K /\ i' = i /\ distances' = distances
        /\ i \in Rows /\ K \in Slots
    BY LoadEffect
  <1>2. /\ K \in Nat \ {0} /\ M \in Nat /\ MaxValue \in Nat /\ i \in Nat
        /\ Seen = i /\ Seen' = i + 1
        /\ \A s \in Slots : minDist[s] \in Nat /\ minID[s] \in Nat /\ s \in Nat /\ s <= K
        /\ \A r \in Rows : r \in Nat /\ distances[r] \in Nat
    BY <1>1 DEF ParameterAssumption, TypeOK, Slots, Rows, Seen
  <1>3. Sorted'
    BY <1>1, <1>2 DEF Sorted, Slots
  <1>4. Genuine'
    <2>1. ASSUME NEW s \in Slots, Filled(s)'
          PROVE  minID'[s] < Seen' /\ Holds(s, minID[s])'
      BY <1>1, <1>2, <2>1 DEF Genuine, Filled, Holds
    <2>2. ASSUME NEW s \in Slots, NEW t \in Slots, s # t, Filled(s)', Filled(t)'
          PROVE  minID'[s] # minID'[t]
      BY <1>1, <1>2, <2>2 DEF Genuine, Filled
    <2>3. QED
      BY <2>1, <2>2 DEF Genuine
  <1>5. Covered'
    <2> SUFFICES ASSUME NEW r \in Rows, r < Seen'
                 PROVE  \/ \E s \in Slots : Holds(s, r)'
                        \/ \A s \in Slots : s < K => minDist'[s] <= distances'[r]
      BY DEF Covered
    <2>1. CASE r = i
      BY <1>1, <2>1 DEF Holds
    <2>2. CASE r # i
      <3>1. r < Seen
        BY <1>2, <2>2
      <3>2. CASE \E s \in Slots : s # K /\ Holds(s, r)
        BY <1>1, <3>2 DEF Holds
      <3>3. CASE Holds(K, r)
        <4>1. \A s \in Slots : s < K => minDist[s] <= distances[r]
          BY <1>1, <1>2, <3>3 DEF Sorted, Holds
        <4>2. QED
          BY <1>1, <1>2, <4>1
      <3>4. CASE \A s \in Slots : s < K => minDist[s] <= distances[r]
        BY <1>1, <1>2, <3>4
      <3>5. QED
        BY <3>1, <3>2, <3>3, <3>4 DEF Covered
    <2>3. QED
      BY <2>1, <2>2
  <1>6. PushedOut'
    <2> SUFFICES ASSUME AllBelowMax', NEW s \in Slots, Reached(s)'
                 PROVE  Filled(s)'
      BY DEF PushedOut
    <2>1. AllBelowMax /\ distances[i] < MaxValue
      BY <1>1 DEF AllBelowMax
    <2>2. CASE s = K
      BY <1>1, <2>1, <2>2 DEF Filled
    <2>3. CASE s # K
      <3>1. Reached(s)
        BY <1>1, <1>2, <2>3 DEF Reached
      <3>2. QED
        BY <1>1, <2>1, <2>3, <3>1 DEF PushedOut, Filled
    <2>4. QED
      BY <2>2, <2>3
  <1>7. QED
    BY <1>3, <1>4, <1>5, <1>6

\* One comparison moves the inserted row up or leaves it below a nearer one;
\* the content of the two slots is exchanged as a whole.
LEMMA CompareSwapInvariant ==
    ASSUME ParameterAssumption, IInv, CompareSwap
    PROVE  InsertionInvariant'
  <1> USE DEF IInv, InsertionInvariant
  <1>1. /\ j > 0 /\ j' = j - 1 /\ distances' = distances /\ j \in Slots /\ j - 1 \in Slots
        /\ i' = IF j = 1 THEN i + 1 ELSE i
        /\ \A s \in Slots : s # j /\ s # j - 1 =>
              minDist'[s] = minDist[s] /\ minID'[s] = minID[s]
    BY CompareSwapEffect
  <1>2. \/ /\ minDist[j-1] > minDist[j]
           /\ minDist'[j] = minDist[j-1] /\ minDist'[j-1] = minDist[j]
           /\ minID'[j] = minID[j-1] /\ minID'[j-1] = minID[j]
        \/ /\ minDist[j-1] <= minDist[j]
           /\ minDist'[j] = minDist[j] /\ minDist'[j-1] = minDist[j-1]
           /\ minID'[j] = minID[j] /\ minID'[j-1] = minID[j-1]
    BY CompareSwapEffect
  <1>3. /\ K \in Nat \ {0} /\ M \in Nat /\ MaxValue \in Nat /\ i \in Nat /\ j \in Nat
        /\ Seen' = Seen /\ Seen = i + 1
        /\ \A s \in Slots : minDist[s] \in Nat /\ minID[s] \in Nat /\ s \in Nat /\ s <= K
        /\ \A r \in Rows : r \in Nat /\ distances[r] \in Nat
    BY <1>1 DEF ParameterAssumption, TypeOK, Slots, Rows, Seen
  <1>4. Sorted'
    <2> SUFFICES ASSUME NEW a \in Slots, NEW b \in Slots, a < b
                 PROVE  /\ (a # j' /\ b # j') => minDist'[a] <= minDist'[b]
                        /\ a = j' => minDist'[a] <= minDist'[b]
      BY DEF Sorted
    <2>1. \A x, y \in Slots : x < y =>
             /\ (x # j /\ y # j) => minDist[x] <= minDist[y]
             /\ x = j => minDist[x] <= minDist[y]
      BY DEF Sorted
    <2>2. ASSUME a # j', b # j' PROVE minDist'[a] <= minDist'[b]
      <3>1. CASE a = j
        BY <1>1, <1>2, <1>3, <2>1, <2>2, <3>1
      <3>2. CASE b = j
        BY <1>1, <1>2, <1>3, <2>1, <2>2, <3>2
      <3>3. CASE a # j /\ b # j
        BY <1>1, <1>3, <2>1, <2>2, <3>3
      <3>4. QED
        BY <3>1, <3>2, <3>3
    <2>3. ASSUME a = j' PROVE minDist'[a] <= minDist'[b]
      <3>1. CASE b = j
        BY <1>1, <1>2, <1>3, <2>3, <3>1
      <3>2. CASE b # j
        BY <1>1, <1>2, <1>3, <2>1, <2>3, <3>2
      <3>3. QED
        BY <3>1, <3>2
    <2>4. QED
      BY <2>2, <2>3
  <1> DEFINE From(s) == IF minDist[j-1] > minDist[j]
                        THEN IF s = j THEN j - 1 ELSE IF s = j - 1 THEN j ELSE s
                        ELSE s
  <1>5. \A s \in Slots : /\ From(s) \in Slots /\ From(From(s)) = s
                          /\ minDist'[s] = minDist[From(s)]
                          /\ minID'[s] = minID[From(s)]
    BY <1>1, <1>2, <1>3
  <1> HIDE DEF From
  <1>6. Genuine'
    <2>1. ASSUME NEW s \in Slots, Filled(s)'
          PROVE  minID'[s] < Seen' /\ Holds(s, minID[s])'
      <3>1. Filled(From(s))
        BY <1>5, <2>1 DEF Filled
      <3>2. minID[From(s)] < Seen /\ Holds(From(s), minID[From(s)])
        BY <1>5, <3>1 DEF Genuine
      <3>3. QED
        BY <1>1, <1>3, <1>5, <3>2 DEF Holds
    <2>2. ASSUME NEW s \in Slots, NEW t \in Slots, s # t, Filled(s)', Filled(t)'
          PROVE  minID'[s] # minID'[t]
      <3>1. From(s) # From(t) /\ Filled(From(s)) /\ Filled(From(t))
        BY <1>5, <2>2 DEF Filled
      <3>2. QED
        BY <1>5, <3>1 DEF Genuine
    <2>3. QED
      BY <2>1, <2>2 DEF Genuine
  <1>7. Covered'
    <2> SUFFICES ASSUME NEW r \in Rows, r < Seen'
                 PROVE  \/ \E s \in Slots : Holds(s, r)'
                        \/ \A s \in Slots : s < K => minDist'[s] <= distances'[r]
      BY DEF Covered
    <2>1. CASE \E s \in Slots : Holds(s, r)
      <3>1. PICK s \in Slots : Holds(s, r)
        BY <2>1
      <3>2. \E t \in Slots : t = From(s)
        BY <1>5
      <3>3. PICK t \in Slots : t = From(s)
        BY <3>2
      <3>4. From(t) = s /\ minID'[t] = minID[s] /\ minDist'[t] = minDist[s]
        BY <1>5, <3>3
      <3>5. Holds(t, r)'
        BY <1>1, <3>1, <3>4 DEF Holds
      <3>6. QED
        BY <3>5
    <2>2. CASE \A s \in Slots : s < K => minDist[s] <= distances[r]
      <3> SUFFICES ASSUME NEW s \in Slots, s < K
                   PROVE  minDist'[s] <= distances[r]
        BY <1>1
      <3>1. CASE s = j \/ s = j - 1
        BY <1>1, <1>2, <1>3, <2>2, <3>1
      <3>2. CASE s # j /\ s # j - 1
        BY <1>1, <2>2, <3>2
      <3>3. QED
        BY <3>1, <3>2
    <2>3. QED
      BY <1>3, <2>1, <2>2 DEF Covered
  <1>8. PushedOut'
    <2> SUFFICES ASSUME AllBelowMax', NEW s \in Slots, Reached(s)'
                 PROVE  Filled(s)'
      BY DEF PushedOut
    <2>1. AllBelowMax /\ \A t \in Slots : Reached(t) => Filled(t)
      BY <1>1 DEF PushedOut, AllBelowMax
    <2>2. Filled(j)
      BY <1>1, <2>1 DEF Reached
    <2>3. CASE s = j - 1
      BY <1>1, <1>2, <1>3, <2>2, <2>3 DEF Filled
    <2>4. CASE s = j
      <3>1. s <= i
        BY <1>1, <1>3, <2>4 DEF Reached
      <3>2. Reached(j - 1)
        BY <1>1, <1>3, <2>4, <3>1 DEF Reached
      <3>3. QED
        BY <1>1, <1>2, <2>1, <2>2, <2>4, <3>2 DEF Filled
    <2>5. CASE s # j /\ s # j - 1
      <3>1. Reached(s)
        BY <1>1, <1>3, <2>5 DEF Reached
      <3>2. QED
        BY <1>1, <2>1, <2>5, <3>1 DEF Filled
    <2>6. QED
      BY <2>3, <2>4, <2>5
  <1>9. QED
    BY <1>4, <1>6, <1>7, <1>8

\* Every step of the two loops of knnAlgo preserves the loop invariant.
LEMMA NextInvariant == ASSUME ParameterAssumption, IInv, [Next]_vars PROVE IInv'
  <1>1. TypeOK'
    BY NextTypeOK DEF IInv
  <1>2. CASE Load
    BY <1>1, <1>2, LoadInvariant DEF IInv
  <1>3. CASE CompareSwap
    BY <1>1, <1>3, CompareSwapInvariant DEF IInv
  <1>4. CASE UNCHANGED vars
    BY <1>1, <1>4 DEF IInv, InsertionInvariant, Sorted, Genuine, Covered, PushedOut,
       Filled, Holds, Reached, Seen, AllBelowMax, vars
  <1>5. QED
    BY <1>2, <1>3, <1>4 DEF Next

\* The two arrays, swapped by separate gates, stay one sorted list of rows
\* from which only rows fall out that are no nearer than all K results.
THEOREM InsertionCorrect == Spec => []InsertionInvariant
  <1>1. Init => IInv
    BY ParameterAssumption, InitInvariant
  <1>2. IInv /\ [Next]_vars => IInv'
    BY ParameterAssumption, NextInvariant
  <1>3. IInv => InsertionInvariant
    BY DEF IInv
  <1>4. QED
    BY <1>1, <1>2, <1>3, PTL DEF Spec

-----------------------------------------------------------------------------
(* What is returned *)

LEMMA InvariantNearest == ASSUME ParameterAssumption, IInv PROVE ReturnsNearest
  <1> SUFFICES ASSUME Done, K <= M, AllBelowMax
               PROVE  IsNearest(Result)
    BY DEF ReturnsNearest
  <1>1. /\ K \in Nat \ {0} /\ M \in Nat /\ i = M /\ j = 0 /\ Seen = M
        /\ \A r \in Rows : distances[r] \in Nat /\ r < M
        /\ \A s \in Slots : minDist[s] \in Nat
        /\ \A s \in 0 .. K-1 : s \in Slots /\ s < K /\ s < M /\ Result[s] = minID[s]
    BY DEF ParameterAssumption, IInv, TypeOK, Done, Seen, Slots, Rows, Result
  <1>2. \A s \in 0 .. K-1 : Filled(s) /\ Holds(s, minID[s])
    BY <1>1 DEF IInv, InsertionInvariant, PushedOut, Reached, Genuine
  <1>3. \A a, b \in Slots : a < b => minDist[a] <= minDist[b]
    BY <1>1 DEF IInv, InsertionInvariant, Sorted, Slots
  <1>4. ASSUME NEW s \in 0 .. K-1, NEW t \in 0 .. K-1, s < t
        PROVE  minID[s] # minID[t] /\ distances[minID[s]] <= distances[minID[t]]
    BY <1>1, <1>2, <1>3, <1>4 DEF IInv, InsertionInvariant, Genuine, Holds
  <1>5. ASSUME NEW r \in Rows, \A t \in 0 .. K-1 : minID[t] # r, NEW s \in 0 .. K-1
        PROVE  distances[minID[s]] <= distances[r]
    <2>1. minDist[s] = distances[minID[s]]
      BY <1>2 DEF Holds
    <2>2. CASE \E t \in Slots : Holds(t, r)
      <3>1. Holds(K, r) /\ K \in Slots
        BY <1>1, <1>5, <2>2 DEF Holds, Slots
      <3>2. QED
        BY <1>1, <1>3, <2>1, <3>1 DEF Holds
    <2>3. CASE \A t \in Slots : t < K => minDist[t] <= distances[r]
      BY <1>1, <2>1, <2>3
    <2>4. QED
      BY <1>1, <2>2, <2>3 DEF IInv, InsertionInvariant, Covered
  <1>6. QED
    BY <1>1, <1>4, <1>5 DEF IsNearest

\* If every distance is below the placeholder and there are at least K rows,
\* knnAlgo returns K different rows, nearest first, and no other is nearer.
THEOREM NearestCorrect == Spec => []ReturnsNearest
  <1>1. Init => IInv
    BY ParameterAssumption, InitInvariant
  <1>2. IInv /\ [Next]_vars => IInv'
    BY ParameterAssumption, NextInvariant
  <1>3. IInv => ReturnsNearest
    BY ParameterAssumption, InvariantNearest
  <1>4. QED
    BY <1>1, <1>2, <1>3, PTL DEF Spec
-----------------------------------------------------------------------------
(* knnAlgo implements the abstract search *)

\* The order in which the abstract search takes rows: ties for the earlier row.
Before(q, r) == distances[q] < distances[r] \/ (distances[q] = distances[r] /\ q < r)
InOrder(a, b) == Filled(a) /\ Filled(b) => Before(minID[a], minID[b])

\* What Sorted and Covered leave open is the order of equal distances.  The row
\* on its way up is the newest one, until it meets a row that is not farther;
\* from there on the slots are in order and nothing is swapped any more.
Stable ==
    AllBelowMax =>
        /\ \A a, b \in Slots : a < b /\ b # j => InOrder(a, b)
        /\ j > 0 => Holds(j, i) \/ \A a \in Slots : a < j => InOrder(a, j)
        /\ \A r \in Rows : r < Seen =>
              \/ \E s \in Slots : Holds(s, r)
              \/ \A s \in Slots : s < K => Filled(s) /\ Before(minID[s], r)

LEMMA InitStable == ASSUME ParameterAssumption, Init PROVE Stable
  <1>1. \A s \in Slots : ~Filled(s)
    BY DEF ParameterAssumption, Init, Filled, Slots
  <1>2. j = 0 /\ \A r \in Rows : ~(r < Seen)
    BY DEF Init, Seen, Rows
  <1>3. QED
    BY <1>1, <1>2 DEF Stable, InOrder

\* The row loaded into the scratch slot is the newest; what it overwrites is in
\* order behind the results.
LEMMA LoadStable ==
    ASSUME ParameterAssumption, IInv, Stable, Load
    PROVE  Stable'
  <1> SUFFICES ASSUME AllBelowMax'
               PROVE  /\ \A a, b \in Slots : a < b /\ b # j' => InOrder(a, b)'
                      /\ Holds(j, i)'
                      /\ \A r \in Rows : r < Seen' =>
                            \/ \E s \in Slots : Holds(s, r)'
                            \/ \A s \in Slots : s < K => Filled(s)' /\ Before(minID[s], r)'
    BY DEF Stable
  <1>1. /\ minDist'[K] = distances[i] /\ minID'[K] = i
        /\ \A s \in Slots : s # K => minDist'[s] = minDist[s] /\ minID'[s] = minID[s]
        /\ j = 0 /\ i < M /\ j' = K /\ i' = i /\ distances' = distances
        /\ i \in Rows /\ K \in Slots
    BY LoadEffect DEF IInv
  <1>2. /\ K \in Nat \ {0} /\ MaxValue \in Nat /\ i \in Nat /\ Seen = i /\ Seen' = i + 1
        /\ \A s \in Slots : minDist[s] \in Nat /\ s \in Nat /\ s <= K
        /\ \A r \in Rows : r \in Nat
    BY <1>1 DEF ParameterAssumption, IInv, TypeOK, Slots, Rows, Seen
  <1>3. /\ AllBelowMax
        /\ \A a, b \in Slots : a < b => InOrder(a, b)
        /\ \A r \in Rows : r < Seen =>
              \/ \E s \in Slots : Holds(s, r)
              \/ \A s \in Slots : s < K => Filled(s) /\ Before(minID[s], r)
    BY <1>1, <1>2 DEF Stable, AllBelowMax
  <1>4. \A s \in Slots : s # K =>
          /\ Filled(s)' = Filled(s) /\ \A r : Before(minID[s], r)' = Before(minID[s], r)
          /\ \A r : Holds(s, r)' = Holds(s, r)
    BY <1>1 DEF Filled, Before, Holds
  <1>5. ASSUME NEW a \in Slots, NEW b \in Slots, a < b, b # j'
        PROVE  InOrder(a, b)'
    <2>1. a # K /\ b # K
      BY <1>1, <1>2, <1>5
    <2>2. minID'[b] = minID[b]
      BY <1>1, <2>1
    <2>3. QED
      BY <1>3, <1>4, <1>5, <2>1, <2>2 DEF InOrder, Before
  <1>6. ASSUME NEW r \in Rows, r < Seen'
        PROVE  \/ \E s \in Slots : Holds(s, r)'
               \/ \A s \in Slots : s < K => Filled(s)' /\ Before(minID[s], r)'
    <2>1. CASE r = i
      BY <1>1, <2>1 DEF Holds
    <2>2. CASE \E s \in Slots : s # K /\ Holds(s, r)
      BY <1>4, <2>2
    <2>3. CASE r # i /\ Holds(K, r)
      <3> SUFFICES ASSUME NEW s \in Slots, s < K PROVE Filled(s) /\ Before(minID[s], r)
        BY <1>2, <1>4
      <3>1. Filled(K)
        BY <1>3, <2>3 DEF AllBelowMax, Holds, Filled
      <3>2. minDist[s] <= minDist[K]
        BY <1>1, <1>2 DEF IInv, InsertionInvariant, Sorted
      <3>3. Filled(s)
        BY <1>1, <1>2, <3>1, <3>2 DEF Filled
      <3>4. QED
        BY <1>1, <1>3, <2>3, <3>1, <3>3 DEF InOrder, Holds
    <2>4. CASE \A s \in Slots : s < K => Filled(s) /\ Before(minID[s], r)
      BY <1>2, <1>4, <2>4
    <2>5. QED
      BY <1>2, <1>3, <1>6, <2>1, <2>2, <2>3, <2>4
  <1>7. Holds(j, i)'
    BY <1>1 DEF Holds
  <1>8. QED
    BY <1>5, <1>6, <1>7
\* A comparison is strict: it moves the newest row up past farther rows only.
LEMMA CompareSwapStable ==
    ASSUME ParameterAssumption, IInv, Stable, CompareSwap
    PROVE  Stable'
  <1> SUFFICES ASSUME AllBelowMax'
               PROVE  /\ \A a, b \in Slots : a < b /\ b # j' => InOrder(a, b)'
                      /\ j' > 0 => Holds(j, i)' \/ \A a \in Slots : a < j' => InOrder(a, j)'
                      /\ \A r \in Rows : r < Seen' =>
                            \/ \E s \in Slots : Holds(s, r)'
                            \/ \A s \in Slots : s < K => Filled(s)' /\ Before(minID[s], r)'
    BY DEF Stable
  <1>1. /\ j > 0 /\ j' = j - 1 /\ distances' = distances /\ j \in Slots /\ j - 1 \in Slots
        /\ i' = IF j = 1 THEN i + 1 ELSE i
        /\ \A s \in Slots : s # j /\ s # j - 1 =>
              minDist'[s] = minDist[s] /\ minID'[s] = minID[s]
    BY CompareSwapEffect DEF IInv
  <1>2. /\ K \in Nat \ {0} /\ MaxValue \in Nat /\ i \in Nat /\ j \in Nat
        /\ Seen' = Seen /\ Seen = i + 1
        /\ \A s \in Slots : /\ minDist[s] \in Nat /\ minID[s] \in Nat /\ minID[s] \in Rows
                            /\ s \in Nat /\ s <= K
        /\ \A r \in Rows : r \in Nat /\ distances[r] \in Nat
    BY <1>1 DEF ParameterAssumption, IInv, TypeOK, Slots, Rows, Seen
  <1>3. /\ AllBelowMax
        /\ \A a, b \in Slots : a < b /\ b # j => InOrder(a, b)
        /\ Holds(j, i) \/ \A a \in Slots : a < j => InOrder(a, j)
        /\ \A r \in Rows : r < Seen =>
              \/ \E s \in Slots : Holds(s, r)
              \/ \A s \in Slots : s < K => Filled(s) /\ Before(minID[s], r)
    BY <1>1 DEF Stable, AllBelowMax
  <1>4. \A s \in Slots : Filled(s) =>
          minID[s] < Seen /\ minDist[s] = distances[minID[s]]
    BY DEF IInv, InsertionInvariant, Genuine, Holds
  <1>5. \A s, t \in Slots : s # t /\ Filled(s) /\ Filled(t) => minID[s] # minID[t]
    BY DEF IInv, InsertionInvariant, Genuine
  <1>6. \A q, r : Before(q, r)' = Before(q, r)
    BY <1>1 DEF Before
  <1>7. CASE minDist[j-1] <= minDist[j]
    <2>1. \A s \in Slots : minDist'[s] = minDist[s] /\ minID'[s] = minID[s]
      BY <1>1, <1>2, <1>7, CompareSwapEffect DEF IInv
    <2>2. \A s \in Slots : Filled(s)' = Filled(s) /\ \A r : Holds(s, r)' = Holds(s, r)
      BY <1>1, <2>1 DEF Filled, Holds
    <2>3. InOrder(j - 1, j)
      <3> SUFFICES ASSUME Filled(j - 1), Filled(j)
                   PROVE  Before(minID[j-1], minID[j])
        BY DEF InOrder
      <3>1. CASE Holds(j, i)
        <4>1. minID[j] = i /\ minID[j-1] # minID[j] /\ minID[j-1] < i + 1
          BY <1>1, <1>2, <1>4, <1>5, <3>1 DEF Holds
        <4>2. minID[j-1] < minID[j]
          BY <1>1, <1>2, <4>1
        <4>3. distances[minID[j-1]] <= distances[minID[j]]
          BY <1>1, <1>4, <1>7
        <4>4. QED
          BY <1>1, <1>2, <4>2, <4>3 DEF Before
      <3>2. CASE \A a \in Slots : a < j => InOrder(a, j)
        BY <1>1, <1>2, <3>2 DEF InOrder
      <3>3. QED
        BY <1>3, <3>1, <3>2
    <2>4. \A a \in Slots : a < j => InOrder(a, j)
      <3> SUFFICES ASSUME NEW a \in Slots, a < j - 1, Filled(a), Filled(j)
                   PROVE  Before(minID[a], minID[j])
        BY <1>1, <1>2, <2>3 DEF InOrder
      <3>1. Filled(j - 1)
        BY <1>1, <1>2, <1>7 DEF Filled
      <3>2. Before(minID[a], minID[j-1]) /\ Before(minID[j-1], minID[j])
        BY <1>1, <1>2, <1>3, <2>3, <3>1 DEF InOrder
      <3>3. QED
        BY <1>1, <1>2, <3>2 DEF Before
    <2>5. \A a, b \in Slots : a < b => InOrder(a, b)'
      <3> SUFFICES ASSUME NEW a \in Slots, NEW b \in Slots, a < b
                   PROVE  InOrder(a, b)'
        OBVIOUS
      <3>1. InOrder(a, b)
        BY <1>3, <2>4
      <3>2. QED
        BY <1>6, <2>1, <2>2, <3>1 DEF InOrder
    <2>6. \A a \in Slots : a < j' => InOrder(a, j)'
      BY <1>1, <1>2, <2>5
    <2>7. ASSUME NEW r \in Rows, r < Seen'
          PROVE  \/ \E s \in Slots : Holds(s, r)'
                 \/ \A s \in Slots : s < K => Filled(s)' /\ Before(minID[s], r)'
      <3>1. r < Seen
        BY <1>2, <2>7
      <3>2. CASE \E s \in Slots : Holds(s, r)
        BY <2>2, <3>2
      <3>3. CASE \A s \in Slots : s < K => Filled(s) /\ Before(minID[s], r)
        BY <1>6, <2>1, <2>2, <3>3 DEF Before
      <3>4. QED
        BY <1>3, <3>1, <3>2, <3>3
    <2>8. QED
      BY <2>5, <2>6, <2>7
  <1>8. CASE minDist[j-1] > minDist[j]
    <2>1. /\ minDist'[j] = minDist[j-1] /\ minDist'[j-1] = minDist[j]
          /\ minID'[j] = minID[j-1] /\ minID'[j-1] = minID[j]
      BY <1>1, <1>2, <1>8, CompareSwapEffect DEF IInv
    <2>2. Filled(j)
      BY <1>1, <1>2, <1>3 DEF IInv, InsertionInvariant, PushedOut, Reached
    <2>3. InOrder(j, j - 1)
      BY <1>1, <1>2, <1>4, <1>8 DEF InOrder, Before
    <2>4. PICK n : n = j
      OBVIOUS
    <2> DEFINE From(s) == IF s = n THEN n - 1 ELSE IF s = n - 1 THEN n ELSE s
    <2>5. \A s \in Slots : /\ From(s) \in Slots /\ From(From(s)) = s
                            /\ minDist'[s] = minDist[From(s)]
                            /\ minID'[s] = minID[From(s)]
      BY <1>1, <1>2, <2>1, <2>4
    <2>6. \A s \in Slots : /\ Filled(s)' = Filled(From(s))
                            /\ \A r : Holds(s, r)' = Holds(From(s), r)
      BY <1>1, <2>5 DEF Filled, Holds
    <2>7. \A a, b \in Slots : InOrder(From(a), From(b)) => InOrder(a, b)'
      <3> SUFFICES ASSUME NEW a \in Slots, NEW b \in Slots, InOrder(From(a), From(b))
                   PROVE  InOrder(a, b)'
        OBVIOUS
      <3>1. (Filled(a)' => Filled(From(a))) /\ (Filled(b)' => Filled(From(b)))
        BY <2>6
      <3>2. minID'[a] = minID[From(a)] /\ minID'[b] = minID[From(b)]
        BY <2>5
      <3> HIDE DEF From
      <3>3. QED
        BY <1>6, <3>1, <3>2 DEF InOrder
    <2>8. ASSUME NEW a \in Slots, NEW b \in Slots, a < b, b # j'
          PROVE  InOrder(a, b)'
      <3>1. b # n - 1 /\ n - 1 \in Slots /\ n \in Slots
        BY <1>1, <2>4, <2>8
      <3>2. CASE b = n
        <4>1. CASE a = n - 1
          BY <2>3, <2>4, <2>7, <3>2, <4>1
        <4>2. CASE a # n - 1
          <5>1. From(a) = a /\ From(b) = n - 1 /\ a < n - 1
            BY <1>2, <2>4, <2>8, <3>2, <4>2
          <5>2. InOrder(a, n - 1)
            BY <1>2, <1>3, <2>4, <3>1, <5>1
          <5> QED  BY <2>7, <5>1, <5>2
        <4>3. QED
          BY <4>1, <4>2
      <3>3. CASE b # n
        <4>1. From(b) = b /\ From(a) < b /\ From(a) \in Slots
          BY <1>2, <2>4, <2>8, <3>1, <3>3
        <4>2. InOrder(From(a), b)
          BY <1>3, <2>4, <3>3, <4>1
        <4>3. QED
          BY <2>7, <4>1, <4>2
      <3>4. QED
        BY <3>2, <3>3
    <2>9. ASSUME j' > 0
          PROVE  Holds(j, i)' \/ \A a \in Slots : a < j' => InOrder(a, j)'
      <3>1. j' = n - 1 /\ i' = i /\ From(n - 1) = n /\ n - 1 \in Slots /\ n \in Nat
        BY <1>1, <1>2, <2>4, <2>9
      <3>2. CASE Holds(j, i)
        <4>1. Holds(n - 1, i)'
          BY <2>4, <2>5, <3>1, <3>2, <1>1 DEF Holds
        <4>2. QED
          BY <3>1, <4>1 DEF Holds
      <3>3. CASE \A a \in Slots : a < j => InOrder(a, j)
        <4>1. ASSUME NEW a \in Slots, a < n - 1
              PROVE  InOrder(a, n - 1)'
          <5>1. From(a) = a /\ a < n
            BY <1>2, <3>1, <4>1
          <5>2. InOrder(From(a), From(n - 1))
            BY <2>4, <3>1, <3>3, <5>1
          <5>3. QED
            BY <2>7, <3>1, <5>2
        <4>2. QED
          BY <3>1, <4>1 DEF InOrder
      <3>4. QED
        BY <1>3, <3>2, <3>3
    <2>10. ASSUME NEW r \in Rows, r < Seen'
           PROVE  \/ \E s \in Slots : Holds(s, r)'
                  \/ \A s \in Slots : s < K => Filled(s)' /\ Before(minID[s], r)'
      <3>1. CASE \E s \in Slots : Holds(s, r)
        <4>1. PICK s \in Slots : Holds(s, r)
          BY <3>1
        <4>2. PICK t \in Slots : t = From(s)
          BY <2>5
        <4>3. From(t) = s
          BY <2>5, <4>2
        <4> HIDE DEF From
        <4>4. QED
          BY <2>6, <4>1, <4>3
      <3>2. CASE \A s \in Slots : s < K => Filled(s) /\ Before(minID[s], r)
        <4> SUFFICES ASSUME NEW s \in Slots, s < K
                     PROVE  Filled(From(s)) /\ Before(minID[From(s)], r)
          <5> HIDE DEF From
          <5> QED  BY <1>6, <2>5, <2>6 DEF Before
        <4>1. CASE From(s) < K
          BY <2>5, <3>2, <4>1
        <4>2. CASE ~(From(s) < K)
          <5>1. n = K /\ s = n - 1 /\ From(s) = n
            BY <1>1, <1>2, <2>4, <2>5, <4>2
          <5>2. Filled(n - 1) /\ Filled(n) /\ Before(minID[n-1], r) /\ n - 1 \in Slots /\ n \in Slots
            BY <1>1, <2>2, <2>4, <3>2, <5>1
          <5>3. Before(minID[n], minID[n-1])
            BY <2>3, <2>4, <5>2 DEF InOrder
          <5>4. /\ minID[n] \in Nat /\ minID[n-1] \in Nat /\ r \in Nat /\ distances[r] \in Nat
                /\ distances[minID[n]] \in Nat /\ distances[minID[n-1]] \in Nat
            BY <1>2, <5>2
          <5>5. Before(minID[n], r)
            BY <5>2, <5>3, <5>4 DEF Before
          <5>6. QED
            BY <5>1, <5>2, <5>5
        <4>3. QED
          BY <4>1, <4>2
      <3>3. QED
        BY <1>2, <1>3, <2>10, <3>1, <3>2
    <2>11. QED
      BY <2>8, <2>9, <2>10
  <1>9. QED
    BY <1>1, <1>2, <1>7, <1>8

LEMMA NextStable ==
    ASSUME ParameterAssumption, IInv, Stable, [Next]_vars
    PROVE  IInv' /\ Stable'
  <1>1. IInv'
    BY NextInvariant
  <1>2. CASE Load
    BY <1>1, <1>2, LoadStable
  <1>3. CASE CompareSwap
    BY <1>1, <1>3, CompareSwapStable
  <1>4. CASE UNCHANGED vars
    BY <1>1, <1>4 DEF Stable, AllBelowMax, InOrder, Filled, Before, Holds, Seen, vars
  <1>5. QED
    BY <1>2, <1>3, <1>4 DEF Next

\* The rows in the result slots, and those a row comes after.
Held == {minID[s] : s \in {t \in 0 .. K-1 : Filled(t)}}
Ahead(r, n) == {q \in 0 .. n-1 : Before(q, r)}

LEMMA NearestIs ==
    ASSUME NEW n
    PROVE  Search!Nearest(n) = {r \in 0 .. n-1 : Cardinality(Ahead(r, n)) < K}
  <1>1. \A S : Search!Cardinality(S) = Cardinality(S)
    BY DEF Search!Cardinality, Cardinality
  <1>2. QED
    BY <1>1 DEF Search!Nearest, Search!Precedes, Ahead, Before

\* A row that is not held comes after K rows that are.
LEMMA HeldAhead ==
    ASSUME ParameterAssumption, IInv, Stable, AllBelowMax, j # K
    PROVE  /\ Held \subseteq 0 .. Seen-1
           /\ IsFiniteSet(Held) /\ Cardinality(Held) <= K
           /\ \A r \in 0 .. Seen-1 : r \notin Held =>
                 Cardinality(Held) = K /\ \A q \in Held : Before(q, r)
  <1>1. /\ K \in Nat \ {0} /\ Seen \in Nat /\ Seen <= M /\ MaxValue \in Nat
        /\ \A s \in Slots : minDist[s] \in Nat /\ minID[s] \in Nat
        /\ \A r \in 0 .. Seen-1 : r \in Rows
        /\ K \in Slots /\ \A s \in 0 .. K-1 : s \in Slots /\ s < K
        /\ \A s \in Slots : s # K => s \in 0 .. K-1
    BY DEF ParameterAssumption, IInv, TypeOK, Slots, Rows, Seen
  <1>2. \A s \in Slots : Filled(s) => minID[s] < Seen
    BY DEF IInv, InsertionInvariant, Genuine
  <1>3. \A s, t \in Slots : s # t /\ Filled(s) /\ Filled(t) => minID[s] # minID[t]
    BY DEF IInv, InsertionInvariant, Genuine
  <1>4. Held \subseteq 0 .. Seen-1
    BY <1>1, <1>2 DEF Held
  <1> DEFINE Top == {t \in 0 .. K-1 : Filled(t)}
             f == [t \in Top |-> minID[t]]
  <1>5. IsFiniteSet(0 .. K-1) /\ Cardinality(0 .. K-1) = K
    BY <1>1, FS_Interval
  <1>6. IsFiniteSet(Top) /\ Cardinality(Top) \in Nat /\ Cardinality(Top) <= K
    BY <1>5, FS_Subset, FS_CardinalityType
  <1>7. f \in Surjection(Top, Held)
    BY DEF Held, Surjection
  <1>8. f \in Injection(Top, Held)
    <2>1. f \in [Top -> Held]
      BY <1>7 DEF Surjection
    <2>2. ASSUME NEW s \in Top, NEW t \in Top, f[s] = f[t]
          PROVE  s = t
      <3>1. s \in Slots /\ t \in Slots /\ Filled(s) /\ Filled(t) /\ minID[s] = minID[t]
        BY <1>1, <2>2
      <3>2. QED
        BY <1>3, <3>1
    <2> HIDE DEF f, Top
    <2>3. QED
      BY <2>1, <2>2 DEF Injection, IsInjective
  <1>9. IsFiniteSet(Held) /\ Cardinality(Held) = Cardinality(Top)
    BY <1>6, <1>7, <1>8, FS_Surjection
  <1>10. ASSUME NEW r \in 0 .. Seen-1, r \notin Held
         PROVE  \A s \in 0 .. K-1 : Filled(s) /\ Before(minID[s], r)
    <2>1. r \in Rows /\ r < Seen
      BY <1>1
    <2>2. CASE \E s \in Slots : Holds(s, r)
      <3>1. \A s \in Slots : Holds(s, r) => Filled(s)
        BY <2>1 DEF Holds, Filled, AllBelowMax
      <3>2. Holds(K, r) /\ Filled(K)
        BY <1>1, <1>10, <2>2, <3>1 DEF Held, Holds
      <3>3. ASSUME NEW s \in 0 .. K-1
            PROVE  Filled(s) /\ Before(minID[s], r)
        <4>1. s \in Slots /\ s < K
          BY <1>1
        <4>2. minDist[s] <= minDist[K]
          BY <1>1, <4>1 DEF IInv, InsertionInvariant, Sorted
        <4>3. Filled(s)
          BY <1>1, <3>2, <4>1, <4>2 DEF Filled
        <4>4. InOrder(s, K)
          BY <1>1, <4>1 DEF Stable
        <4>5. QED
          BY <3>2, <4>3, <4>4 DEF InOrder, Holds
      <3>4. QED
        BY <3>3
    <2>3. CASE \A s \in Slots : s < K => Filled(s) /\ Before(minID[s], r)
      BY <1>1, <2>3
    <2>4. QED
      BY <2>1, <2>2, <2>3 DEF Stable
  <1>11. ASSUME NEW r \in 0 .. Seen-1, r \notin Held
         PROVE  Cardinality(Held) = K /\ \A q \in Held : Before(q, r)
    <2>1. Top = 0 .. K-1
      BY <1>10, <1>11
    <2>2. \A q \in Held : Before(q, r)
      BY <1>10, <1>11 DEF Held
    <2>3. QED
      BY <1>5, <1>9, <2>1, <2>2
  <1>12. QED
    BY <1>4, <1>6, <1>9, <1>11

\* Between two insertions, and as soon as the inserted row has met the K-th
\* result, the result slots hold the K nearest of the rows seen.
LEMMA HeldNearest ==
    ASSUME ParameterAssumption, IInv, Stable, AllBelowMax, j # K
    PROVE  Held = Search!Nearest(Seen)
  <1>1. /\ Held \subseteq 0 .. Seen-1
        /\ IsFiniteSet(Held) /\ Cardinality(Held) <= K
        /\ \A r \in 0 .. Seen-1 : r \notin Held =>
              Cardinality(Held) = K /\ \A q \in Held : Before(q, r)
    BY HeldAhead
  <1>2. /\ K \in Nat /\ Seen \in Nat
        /\ \A r \in 0 .. Seen-1 : r \in Nat /\ distances[r] \in Nat
    <2>1. K \in Nat /\ Seen \in Nat /\ Seen <= M /\ M \in Nat
      BY DEF ParameterAssumption, IInv, TypeOK, Slots, Seen
    <2>2. \A r \in Rows : distances[r] \in Nat
      BY DEF IInv, TypeOK
    <2>3. QED
      BY <2>1, <2>2 DEF Rows
  <1>3. \A r \in 0 .. Seen-1 : IsFiniteSet(Ahead(r, Seen)) /\ Cardinality(Ahead(r, Seen)) \in Nat
    <2>1. IsFiniteSet(0 .. Seen-1)
      BY <1>2, FS_Interval
    <2>2. \A r : Ahead(r, Seen) \in SUBSET (0 .. Seen-1)
      BY DEF Ahead
    <2>3. QED
      BY <2>1, <2>2, FS_Subset, FS_CardinalityType
  <1>4. ASSUME NEW r \in 0 .. Seen-1, r \notin Held
        PROVE  ~(Cardinality(Ahead(r, Seen)) < K)
    <2>1. Held \in SUBSET Ahead(r, Seen)
      BY <1>1, <1>4 DEF Ahead
    <2>2. Cardinality(Held) <= Cardinality(Ahead(r, Seen))
      BY <1>3, <2>1, FS_Subset
    <2>3. QED
      BY <1>1, <1>2, <1>3, <1>4, <2>2
  <1>5. ASSUME NEW r \in Held
        PROVE  Cardinality(Ahead(r, Seen)) < K
    <2>1. r \in 0 .. Seen-1
      BY <1>1
    <2>2. ASSUME NEW q \in 0 .. Seen-1, Before(q, r)
          PROVE  q \in Held \ {r}
      <3>1. ~Before(r, q) /\ q # r
        BY <1>2, <2>1, <2>2 DEF Before
      <3>2. QED
        BY <1>1, <2>2, <3>1
    <2>3. Ahead(r, Seen) \in SUBSET (Held \ {r})
      BY <2>2 DEF Ahead
    <2>4. /\ IsFiniteSet(Held \ {r}) /\ Cardinality(Held) \in Nat
          /\ Cardinality(Held \ {r}) = Cardinality(Held) - 1
      BY <1>1, FS_RemoveElement, FS_CardinalityType
    <2>5. Cardinality(Ahead(r, Seen)) <= Cardinality(Held \ {r})
      BY <2>3, <2>4, FS_Subset
    <2>6. QED
      BY <1>1, <1>2, <1>3, <2>1, <2>4, <2>5
  <1>6. QED
    BY <1>1, <1>4, <1>5, NearestIs

LEMMA HeldIsNearest ==
    ParameterAssumption /\ IInv /\ Stable /\ AllBelowMax /\ j # K =>
        Held = Search!Nearest(Seen)
  BY HeldNearest

\* A swap of two result slots does not change which rows are held.
LEMMA SwapKeepsHeld ==
    ASSUME ParameterAssumption, IInv, CompareSwap, j # K
    PROVE  Held' = Held
  <1>1. /\ j > 0 /\ j \in Slots /\ j - 1 \in Slots
        /\ \A s \in Slots : s # j /\ s # j - 1 =>
              minDist'[s] = minDist[s] /\ minID'[s] = minID[s]
        /\ \/ /\ minDist[j-1] > minDist[j]
              /\ minDist'[j] = minDist[j-1] /\ minDist'[j-1] = minDist[j]
              /\ minID'[j] = minID[j-1] /\ minID'[j-1] = minID[j]
           \/ /\ minDist[j-1] <= minDist[j]
              /\ minDist'[j] = minDist[j] /\ minDist'[j-1] = minDist[j-1]
              /\ minID'[j] = minID[j] /\ minID'[j-1] = minID[j-1]
    BY CompareSwapEffect DEF IInv
  <1>2. /\ K \in Nat \ {0} /\ j \in 0 .. K-1 /\ j - 1 \in 0 .. K-1
        /\ \A s \in 0 .. K-1 : s \in Slots
    BY <1>1 DEF ParameterAssumption, Slots
  <1>3. PICK n : n = j
    OBVIOUS
  <1>4. ASSUME NEW s \in 0 .. K-1
        PROVE  \E t \in 0 .. K-1 :
                  Filled(t) = Filled(s)' /\ minID[t] = minID'[s]
    <2>1. CASE s = n
      BY <1>1, <1>2, <1>3, <2>1 DEF Filled
    <2>2. CASE s = n - 1
      BY <1>1, <1>2, <1>3, <2>2 DEF Filled
    <2>3. CASE s # n /\ s # n - 1
      BY <1>1, <1>2, <1>3, <2>3 DEF Filled
    <2>4. QED
      BY <2>1, <2>2, <2>3
  <1>5. ASSUME NEW s \in 0 .. K-1
        PROVE  \E t \in 0 .. K-1 :
                  Filled(t)' = Filled(s) /\ minID'[t] = minID[s]
    <2>1. CASE s = n
      BY <1>1, <1>2, <1>3, <2>1 DEF Filled
    <2>2. CASE s = n - 1
      BY <1>1, <1>2, <1>3, <2>2 DEF Filled
    <2>3. CASE s # n /\ s # n - 1
      BY <1>1, <1>2, <1>3, <2>3 DEF Filled
    <2>4. QED
      BY <2>1, <2>2, <2>3
  <1>6. QED
    BY <1>4, <1>5 DEF Held

\* The comparison with the K-th result is the abstract step; loading a row and
\* the comparisons among the results leave what the abstract search holds.
LEMMA NextImplements ==
    ASSUME ParameterAssumption, IInv, Stable, [Next]_vars
    PROVE  [AllBelowMax => Search!Look]_(Search!vars)
  <1> DEFINE Looked == IF j \in {0, K} THEN i ELSE i + 1
  <1>1. Search!vars = <<distances, Looked, Held>>
    BY DEF Search!vars, Held
  <1>2. (Search!vars)' = <<distances', Looked', Held'>>
    BY DEF Search!vars, Held
  <1>3. K \in Nat \ {0} /\ i \in Nat /\ j \in Nat /\ M \in Nat /\ K \in Slots
    BY DEF ParameterAssumption, IInv, TypeOK, Slots
  <1>4. CASE Load
    <2>1. /\ \A s \in Slots : s # K => minDist'[s] = minDist[s] /\ minID'[s] = minID[s]
          /\ j = 0 /\ j' = K /\ i' = i /\ distances' = distances
      BY <1>4, LoadEffect DEF IInv
    <2>2. \A s \in 0 .. K-1 : Filled(s)' = Filled(s) /\ minID'[s] = minID[s]
      BY <1>3, <2>1 DEF Filled, Slots
    <2>3. Held' = Held
      BY <2>2 DEF Held
    <2>4. Looked' = Looked
      BY <2>1
    <2>5. QED
      BY <1>1, <1>2, <2>1, <2>3, <2>4
  <1>5. CASE CompareSwap /\ j # K
    <2>1. /\ j > 0 /\ j' = j - 1 /\ distances' = distances /\ j \in Slots /\ j - 1 \in Slots
          /\ i' = IF j = 1 THEN i + 1 ELSE i
      BY <1>5, CompareSwapEffect DEF IInv
    <2>2. Looked' = Looked
      BY <1>3, <1>5, <2>1 DEF Slots
    <2>3. Held' = Held
      BY <1>5, SwapKeepsHeld
    <2>4. QED
      BY <1>1, <1>2, <2>1, <2>2, <2>3
  <1>6. CASE CompareSwap /\ j = K
    <2> SUFFICES ASSUME AllBelowMax PROVE Search!Look
      OBVIOUS
    <2>1. /\ j > 0 /\ j' = j - 1 /\ distances' = distances
          /\ i' = IF j = 1 THEN i + 1 ELSE i
      BY <1>6, CompareSwapEffect DEF IInv
    <2>2. i < M /\ j' # K /\ Looked = i /\ Looked' = i + 1 /\ Seen' = i + 1
      BY <1>3, <1>6, <2>1 DEF IInv, TypeOK, Seen
    <2>3. AllBelowMax'
      BY <2>1 DEF AllBelowMax
    <2>4. IInv' /\ Stable'
      BY NextStable
    <2>5. Held' = Search!Nearest(Seen)'
      <3>1. (ParameterAssumption /\ IInv /\ Stable /\ AllBelowMax /\ j # K =>
               Held = Search!Nearest(Seen))'
        BY HeldIsNearest, PTL
      <3>2. QED
        BY <2>2, <2>3, <2>4, <3>1
    <2>6. Search!Nearest(Seen)' = Search!Nearest(i + 1)
      BY <2>1, <2>2 DEF Search!Nearest, Search!Precedes
    <2>7. QED
      BY <2>1, <2>2, <2>5, <2>6 DEF Search!Look, Held
  <1>7. CASE UNCHANGED vars
    BY <1>1, <1>2, <1>7 DEF vars, Held, Filled
  <1>8. QED
    BY <1>4, <1>5, <1>6, <1>7 DEF Next

LEMMA InitImplements ==
    ASSUME ParameterAssumption, Init
    PROVE  Search!Init
  <1>1. Held = {}
    BY DEF ParameterAssumption, Init, Held, Filled, Slots
  <1>2. QED
    BY <1>1 DEF Init, Search!Init, Held

\* If all distances are below the placeholder, knnAlgo implements the abstract
\* search: after each row its result slots hold the K nearest of the rows seen,
\* the earlier one of two rows that are as near.
THEOREM KnnImplementsSearch == Spec => ImplementsSearch
  <1>1. Init => IInv /\ Stable /\ (AllBelowMax => Search!Init)
    BY ParameterAssumption, InitInvariant, InitStable, InitImplements
  <1>2. IInv /\ Stable /\ [Next]_vars => (IInv /\ Stable)'
    BY ParameterAssumption, NextStable
  <1>3. IInv /\ Stable /\ [Next]_vars => [AllBelowMax => Search!Look]_(Search!vars)
    BY ParameterAssumption, NextImplements
  <1>4. QED
    BY <1>1, <1>2, <1>3, PTL DEF Spec, ImplementsSearch
=============================================================================
