----------------------------- MODULE Arithmetic -----------------------------
(***************************************************************************)
(* Facts about numbers that the other proofs use: induction, recursion,    *)
(* sums over finite sets, division, powers of two.                         *)
(*                                                                         *)
(* Induction is stated with a set in place of a predicate: a proof defines *)
(* the set of numbers for which its claim holds.                           *)
(***************************************************************************)
EXTENDS Integers, FiniteSetTheorems, TLAPS

-----------------------------------------------------------------------------
(* Induction and recursion *)

LEMMA LessIsWellFounded == IsWellFoundedOn({ss \in Nat \X Nat : ss[1] < ss[2]}, Nat)
<1>1. IsWellFoundedOn(OpToRel(<, Nat), Nat)
  BY ONLY NatLessThanWellFounded
<1> QED  BY <1>1 DEF OpToRel

LEMMA Induction ==
    ASSUME NEW S, 0 \in S, \A n \in Nat : n \in S => n + 1 \in S
    PROVE  \A n \in Nat : n \in S
<1> SUFFICES ASSUME NEW m \in Nat, m \notin S PROVE FALSE
  OBVIOUS
<1>1. PICK T : T = Nat \ S
  OBVIOUS
<1>2. PICK R : R = {ss \in Nat \X Nat : ss[1] < ss[2]}
  OBVIOUS
<1>3. PICK x \in T : \A y \in T : ~ (<<y, x>> \in R)
  <2>1. T \subseteq Nat /\ T # {}
    BY <1>1
  <2>2. IsWellFoundedOn(R, Nat)
    BY <1>2, LessIsWellFounded
  <2> QED  BY ONLY <2>1, <2>2, WFMin
<1>4. x \in Nat /\ x \notin S /\ x # 0
  BY <1>1
<1>5. x - 1 \in Nat /\ x - 1 < x /\ (x - 1) + 1 = x
  BY <1>4
<1>6. <<x - 1, x>> \in R
  BY ONLY <1>2, <1>4, <1>5
<1>7. x - 1 \notin T
  BY <1>3, <1>6
<1>8. x - 1 \in S
  BY <1>1, <1>5, <1>7
<1> QED  BY <1>4, <1>5, <1>8

\* A claim about all subsets of a finite set, by adding one element at a time.
LEMMA FiniteInduction ==
    ASSUME NEW A, IsFiniteSet(A), NEW P, {} \in P,
           \A T \in SUBSET A, x \in A : T \in P /\ x \notin T => T \cup {x} \in P
    PROVE  \A T \in SUBSET A : T \in P
<1> DEFINE S == {n \in Nat : \A T \in SUBSET A : Cardinality(T) = n => T \in P}
<1>1. 0 \in S
  <2>1. ASSUME NEW T \in SUBSET A, Cardinality(T) = 0 PROVE T \in P
    <3>1. IsFiniteSet(T)
      BY FS_Subset
    <3>2. T = {}
      BY <2>1, <3>1, FS_EmptySet
    <3> QED  BY <3>2
  <2> QED  BY <2>1
<1>2. ASSUME NEW n \in Nat, n \in S PROVE n + 1 \in S
  <2>1. ASSUME NEW T \in SUBSET A, Cardinality(T) = n + 1 PROVE T \in P
    <3>1. IsFiniteSet(T)
      BY FS_Subset
    <3>2. T # {}
      BY <2>1, <3>1, FS_EmptySet
    <3>3. PICK x \in T : TRUE
      BY <3>2
    <3>4. Cardinality(T \ {x}) = n
      <4>1. Cardinality(T \ {x}) = Cardinality(T) - 1
        BY <3>1, FS_RemoveElement
      <4> QED  BY <2>1, <4>1
    <3>5. T \ {x} \in P /\ T \ {x} \in SUBSET A
      BY <1>2, <3>4
    <3>6. (T \ {x}) \cup {x} = T
      OBVIOUS
    <3> QED  BY <3>5, <3>6
  <2> QED  BY <2>1
<1>3. \A n \in Nat : n \in S
  <2> HIDE DEF S
  <2> QED  BY ONLY <1>1, <1>2, Induction
<1>4. \A T \in SUBSET A : Cardinality(T) \in Nat
  BY FS_Subset, FS_CardinalityType
<1> QED  BY <1>3, <1>4

\* Some function starts with b and follows step up to m.
Recursive(V, b, m, step) ==
    \E h \in [0 .. m -> V] : h[0] = b /\ \A n \in 1 .. m : h[n] = step[n][h[n-1]]

\* A function that is defined by recursion on a natural number exists.
LEMMA Recursion ==
    ASSUME NEW V, NEW b \in V, NEW m \in Nat, NEW step \in [1 .. m -> [V -> V]]
    PROVE  Recursive(V, b, m, step)
<1> DEFINE S == {k \in Nat : k <= m => \E h \in [0 .. k -> V] :
                    h[0] = b /\ \A n \in 1 .. k : h[n] = step[n][h[n-1]]}
<1>1. 0 \in S
  <2>1. PICK h : h = [k \in 0 .. 0 |-> b]
    OBVIOUS
  <2>2. h \in [0 .. 0 -> V] /\ h[0] = b /\ \A n \in 1 .. 0 : h[n] = step[n][h[n-1]]
    BY <2>1
  <2> QED  BY <2>2
<1>2. ASSUME NEW k \in Nat, k \in S PROVE k + 1 \in S
  <2> SUFFICES ASSUME k + 1 <= m
               PROVE \E h \in [0 .. k + 1 -> V] :
                        h[0] = b /\ \A n \in 1 .. k + 1 : h[n] = step[n][h[n-1]]
    OBVIOUS
  <2>1. PICK h \in [0 .. k -> V] : h[0] = b /\ \A n \in 1 .. k : h[n] = step[n][h[n-1]]
    BY <1>2
  <2>2. PICK z : z = step[k + 1][h[k]]
    OBVIOUS
  <2>3. z \in V
    BY <2>1, <2>2
  <2>4. PICK g : g = [n \in 0 .. k + 1 |-> IF n = k + 1 THEN z ELSE h[n]]
    OBVIOUS
  <2>5. g \in [0 .. k + 1 -> V] /\ g[0] = b /\ g[k + 1] = z /\ \A n \in 0 .. k : g[n] = h[n]
    BY <2>1, <2>3, <2>4
  <2>6. ASSUME NEW n \in 1 .. k + 1 PROVE g[n] = step[n][g[n-1]]
    <3>1. n - 1 \in 0 .. k /\ g[n - 1] = h[n - 1]
      BY <2>5
    <3>2. CASE n = k + 1
      BY <2>2, <2>5, <3>1, <3>2
    <3>3. CASE n # k + 1
      BY <2>1, <2>5, <3>1, <3>3
    <3> QED  BY <3>2, <3>3
  <2> QED  BY <2>5, <2>6
<1>3. \A k \in Nat : k \in S
  <2> HIDE DEF S
  <2> QED  BY ONLY <1>1, <1>2, Induction
<1> QED  BY <1>3 DEF Recursive

\* The first n steps of the iteration of F from b.
Iterates(h, V, b, F, n) ==
    h \in [0 .. n -> V] /\ h[0] = b /\ \A k \in 1 .. n : h[k] = F[h[k-1]]

\* Two such iterations agree as far as both go.
AgreeUpTo(g, h, m) == \A k \in 0 .. m : g[k] = h[k]

LEMMA IteratesAgree ==
    ASSUME NEW V, NEW b, NEW F, NEW m \in Nat, NEW n \in Nat, m <= n, NEW g, NEW h,
           Iterates(g, V, b, F, m), Iterates(h, V, b, F, n)
    PROVE  AgreeUpTo(g, h, m)
<1> DEFINE S == {k \in Nat : k <= m => g[k] = h[k]}
<1>1. 0 \in S
  BY DEF Iterates
<1>2. ASSUME NEW k \in Nat, k \in S PROVE k + 1 \in S
  <2> SUFFICES ASSUME k + 1 <= m PROVE g[k + 1] = h[k + 1]
    OBVIOUS
  <2>1. k + 1 \in 1 .. m /\ k + 1 \in 1 .. n /\ (k + 1) - 1 = k /\ g[k] = h[k]
    BY <1>2
  <2> QED  BY <2>1 DEF Iterates
<1> HIDE DEF S
<1>3. \A k \in Nat : k \in S
  BY ONLY <1>1, <1>2, Induction
<1> QED  BY <1>3 DEF S, AgreeUpTo

Iterable(V, b, F) == \E h \in [Nat -> V] : h[0] = b /\ \A n \in Nat : h[n + 1] = F[h[n]]

\* A function can be iterated for ever.
LEMMA Iteration ==
    ASSUME NEW V, NEW b \in V, NEW F \in [V -> V]
    PROVE  Iterable(V, b, F)
<1>1. ASSUME NEW m \in Nat PROVE \E h : Iterates(h, V, b, F, m)
  <2>1. PICK step : step = [n \in 1 .. m |-> F]
    OBVIOUS
  <2>2. step \in [1 .. m -> [V -> V]]
    BY <2>1
  <2>3. Recursive(V, b, m, step)
    BY ONLY <2>2, Recursion, m \in Nat, b \in V
  <2>4. PICK h \in [0 .. m -> V] : h[0] = b /\ \A n \in 1 .. m : h[n] = step[n][h[n-1]]
    BY ONLY <2>3 DEF Recursive
  <2>5. Iterates(h, V, b, F, m)
    BY <2>1, <2>4 DEF Iterates
  <2> QED  BY <2>5
<1>2. PICK T : T = [n \in Nat |-> CHOOSE h : Iterates(h, V, b, F, n)]
  OBVIOUS
<1>3. \A n \in Nat : Iterates(T[n], V, b, F, n)
  BY <1>1, <1>2
<1>4. PICK g : g = [n \in Nat |-> T[n][n]]
  OBVIOUS
<1>5. g \in [Nat -> V]
  <2>1. \A n \in Nat : T[n][n] \in V
    <3> SUFFICES ASSUME NEW n \in Nat PROVE T[n][n] \in V
      OBVIOUS
    <3>1. T[n] \in [0 .. n -> V]
      BY <1>3 DEF Iterates
    <3> QED  BY <3>1
  <2> QED  BY <1>4, <2>1
<1>6. g[0] = b
  BY <1>3, <1>4 DEF Iterates
<1>7. ASSUME NEW n \in Nat PROVE g[n + 1] = F[g[n]]
  <2>1. Iterates(T[n], V, b, F, n) /\ Iterates(T[n + 1], V, b, F, n + 1)
    BY <1>3
  <2>2. T[n][n] = T[n + 1][n]
    <3>1. PICK u, v, m : m \in Nat /\ u = T[n] /\ v = T[n + 1] /\ m = n + 1 /\ n <= m
      OBVIOUS
    <3>2. Iterates(u, V, b, F, n) /\ Iterates(v, V, b, F, m)
      BY <2>1, <3>1
    <3>3. AgreeUpTo(u, v, n)
      BY ONLY <3>1, <3>2, IteratesAgree, n \in Nat
    <3> QED  BY <3>1, <3>3 DEF AgreeUpTo
  <2>3. T[n + 1][n + 1] = F[T[n + 1][n]]
    <3>1. n + 1 \in 1 .. n + 1 /\ (n + 1) - 1 = n
      OBVIOUS
    <3> QED  BY <2>1, <3>1 DEF Iterates
  <2> QED  BY <1>4, <2>2, <2>3
<1> QED  BY <1>5, <1>6, <1>7 DEF Iterable

\* F gives a value at d from the values at smaller arguments only.
Looks(F, D, V, size) ==
    \A g, h \in [D -> V], d \in D :
        (\A e \in D : size[e] < size[d] => g[e] = h[e]) => F[g][d] = F[h][d]

HasFixpoint(F, D, V) == \E h \in [D -> V] : F[h] = h

\* A function that is defined by recursion on smaller arguments exists.
LEMMA MeasuredRecursion ==
    ASSUME NEW D, NEW V, NEW size \in [D -> Nat], NEW F \in [[D -> V] -> [D -> V]],
           Looks(F, D, V, size), NEW start \in [D -> V]
    PROVE  HasFixpoint(F, D, V)
<1>1. PICK f \in [Nat -> [D -> V]] : f[0] = start /\ \A n \in Nat : f[n + 1] = F[f[n]]
  <2>1. PICK W : W = [D -> V]
    OBVIOUS
  <2>2. start \in W /\ F \in [W -> W]
    BY <2>1
  <2>3. Iterable(W, start, F)
    BY ONLY <2>2, Iteration
  <2> QED  BY ONLY <2>1, <2>3 DEF Iterable
<1> DEFINE S == {n \in Nat : \A d \in D : size[d] < n => f[n][d] = f[n + 1][d]}
<1>2. 0 \in S
  OBVIOUS
<1>3. ASSUME NEW n \in Nat, n \in S PROVE n + 1 \in S
  <2> SUFFICES ASSUME NEW d \in D, size[d] < n + 1
               PROVE  f[n + 1][d] = f[(n + 1) + 1][d]
    OBVIOUS
  <2>1. PICK g \in [D -> V], h \in [D -> V] : g = f[n] /\ h = f[n + 1]
    BY <1>1
  <2>2. \A e \in D : size[e] < size[d] => g[e] = h[e]
    BY <1>3, <2>1
  <2>3. F[g][d] = F[h][d]
    BY <2>2 DEF Looks
  <2>4. f[n + 1] = F[g] /\ f[(n + 1) + 1] = F[h]
    <3>1. n + 1 \in Nat
      OBVIOUS
    <3> QED  BY ONLY <1>1, <2>1, <3>1, n \in Nat
  <2> QED  BY ONLY <2>3, <2>4
<1>4. \A n \in Nat : n \in S
  <2> HIDE DEF S
  <2> QED  BY ONLY <1>2, <1>3, Induction
<1>5. \A d \in D, n \in Nat : size[d] < n => f[n][d] = f[n + 1][d]
  BY <1>4
<1> HIDE DEF S
<1>6. PICK h : h = [d \in D |-> f[size[d] + 1][d]]
  OBVIOUS
<1>7. h \in [D -> V]
  <2>1. \A d \in D : f[size[d] + 1][d] \in V
    BY <1>1
  <2> QED  BY <1>6, <2>1
<1>8. ASSUME NEW d \in D, NEW n \in Nat, size[d] < n PROVE f[n][d] = h[d]
  <2> DEFINE T == {k \in Nat : f[size[d] + 1 + k][d] = h[d]}
  <2>0. PICK s \in Nat : s = size[d]
    OBVIOUS
  <2>1. 0 \in T
    BY <1>6, <2>0
  <2>2. ASSUME NEW k \in Nat, k \in T PROVE k + 1 \in T
    <3>1. f[s + 1 + k][d] = f[(s + 1 + k) + 1][d]
      BY <1>5, <2>0
    <3>2. (s + 1 + k) + 1 = s + 1 + (k + 1)
      OBVIOUS
    <3> QED  BY <2>0, <2>2, <3>1, <3>2
  <2> HIDE DEF T
  <2>3. \A k \in Nat : k \in T
    BY ONLY <2>1, <2>2, Induction
  <2>4. n - (s + 1) \in Nat /\ s + 1 + (n - (s + 1)) = n
    BY <1>8, <2>0
  <2> QED  BY <2>0, <2>3, <2>4 DEF T
<1>9. ASSUME NEW d \in D PROVE F[h][d] = h[d]
  <2>1. PICK s \in Nat, g \in [D -> V] : s = size[d] /\ g = f[s]
    BY <1>1
  <2>2. \A e \in D : size[e] < size[d] => g[e] = h[e]
    BY <1>8, <2>1
  <2>3. F[g][d] = F[h][d]
    BY <1>7, <2>2 DEF Looks
  <2>4. f[s + 1][d] = h[d]
    BY <1>6, <2>1
  <2> QED  BY <1>1, <2>1, <2>3, <2>4
<1>10. F[h] \in [D -> V]
  BY <1>7
<1> QED  BY <1>7, <1>9, <1>10 DEF HasFixpoint

-----------------------------------------------------------------------------
(* Sums *)

Some(T) == CHOOSE x \in T : TRUE

\* The table of the sums of f over all subsets of A, as the fold builds it.
IsTable(it, f, A) ==
    it = [T \in SUBSET A |-> IF T = {} THEN 0 ELSE f[Some(T)] + it[T \ {Some(T)}]]
SumTable(f, A) == CHOOSE it : IsTable(it, f, A)

LEMMA SumIsTable ==
    ASSUME NEW f, NEW A
    PROVE  SumFunctionOnSet(f, A) = SumTable(f, A)[A]
BY DEF SumFunctionOnSet, FoldFunctionOnSet, MapThenFoldSet, SumTable, IsTable, Some

LEMMA SomeElement == ASSUME NEW T, T # {} PROVE Some(T) \in T
BY DEF Some

LEMMA Without ==
    ASSUME NEW T, IsFiniteSet(T), NEW x \in T
    PROVE  /\ IsFiniteSet(T \ {x}) /\ Cardinality(T) \in Nat
           /\ Cardinality(T \ {x}) \in Nat /\ Cardinality(T) = Cardinality(T \ {x}) + 1
<1>1. IsFiniteSet(T \ {x}) /\ Cardinality(T \ {x}) = Cardinality(T) - 1
  BY FS_RemoveElement
<1>2. Cardinality(T) \in Nat /\ Cardinality(T \ {x}) \in Nat
  BY <1>1, FS_CardinalityType
<1> QED  BY <1>1, <1>2

LEMMA TableExists ==
    ASSUME NEW A, IsFiniteSet(A), NEW f, \A x \in A : f[x] \in Int
    PROVE  \E it \in [SUBSET A -> Int] : IsTable(it, f, A)
<1> DEFINE Good(g, T) == /\ g[T] \in Int
                         /\ g[T] = IF T = {} THEN 0 ELSE f[Some(T)] + g[T \ {Some(T)}]
           S == {n \in Nat : \E g : \A T \in SUBSET A : Cardinality(T) <= n => Good(g, T)}
<1>1. \A T \in SUBSET A : IsFiniteSet(T) /\ Cardinality(T) \in Nat
  BY FS_Subset, FS_CardinalityType
<1>2. 0 \in S
  <2>1. PICK g : g = [T \in SUBSET A |-> 0]
    OBVIOUS
  <2>2. ASSUME NEW T \in SUBSET A, Cardinality(T) <= 0 PROVE Good(g, T)
    <3>1. T = {}
      BY <1>1, <2>2, FS_EmptySet
    <3> QED  BY <2>1, <3>1
  <2> QED  BY <2>2
<1>3. ASSUME NEW n \in Nat, n \in S PROVE n + 1 \in S
  <2>1. PICK g : \A T \in SUBSET A : Cardinality(T) <= n => Good(g, T)
    BY <1>3
  <2>2. PICK h : h = [T \in SUBSET A |-> IF Cardinality(T) <= n THEN g[T]
                                         ELSE f[Some(T)] + g[T \ {Some(T)}]]
    OBVIOUS
  <2>3. \A T \in SUBSET A : Cardinality(T) <= n => h[T] = g[T]
    BY <2>2
  <2>4. ASSUME NEW T \in SUBSET A, Cardinality(T) <= n + 1 PROVE Good(h, T)
    <3>1. CASE T = {}
      <4>1. Cardinality(T) <= n
        BY <3>1, FS_EmptySet
      <4> QED  BY <2>1, <2>3, <3>1, <4>1
    <3>2. CASE T # {}
      <4>1. PICK x : x = Some(T)
        OBVIOUS
      <4>2. PICK U \in SUBSET A : U = T \ {x}
        OBVIOUS
      <4>3. x \in T /\ x \in A
        BY <3>2, <4>1, SomeElement
      <4>4. Cardinality(U) <= n
        BY <1>1, <2>4, <4>2, <4>3, Without
      <4>5. h[U] = g[U] /\ g[U] \in Int
        BY <2>1, <2>3, <4>4
      <4>6. h[T] = f[x] + g[U]
        <5>1. CASE Cardinality(T) <= n
          BY <2>1, <2>3, <3>2, <4>1, <4>2, <5>1
        <5>2. CASE ~(Cardinality(T) <= n)
          BY <2>2, <4>1, <4>2, <5>2
        <5> QED  BY <5>1, <5>2
      <4> QED  BY <3>2, <4>1, <4>2, <4>3, <4>5, <4>6
    <3> QED  BY <3>1, <3>2
  <2>5. \A T \in SUBSET A : Cardinality(T) <= n + 1 => Good(h, T)
    <3> HIDE DEF Good
    <3> QED  BY <2>4
  <2> HIDE DEF Good
  <2> QED  BY <2>5
<1>4. \A n \in Nat : n \in S
  <2> HIDE DEF S
  <2> QED  BY ONLY <1>2, <1>3, Induction
<1>5. PICK g : \A T \in SUBSET A : Cardinality(T) <= Cardinality(A) => Good(g, T)
  BY <1>1, <1>4
<1>6. \A T \in SUBSET A : Good(g, T)
  BY <1>1, <1>5, FS_Subset
<1>7. PICK it : it = [T \in SUBSET A |-> g[T]]
  OBVIOUS
<1>8. it \in [SUBSET A -> Int]
  BY <1>6, <1>7
<1>9. \A T \in SUBSET A : it[T] = IF T = {} THEN 0 ELSE f[Some(T)] + it[T \ {Some(T)}]
  BY <1>6, <1>7
<1>10. it = [T \in SUBSET A |-> it[T]]
  BY <1>8
<1> QED  BY <1>8, <1>9, <1>10 DEF IsTable

\* A sum does not depend on the table it is read from, ...
LEMMA TablesAgree ==
    ASSUME NEW f, NEW A, IsFiniteSet(A), NEW B \in SUBSET A, NEW g, NEW h,
           IsTable(g, f, A), IsTable(h, f, B)
    PROVE  \A T \in SUBSET B : g[T] = h[T]
<1> DEFINE S == {n \in Nat : \A T \in SUBSET B : Cardinality(T) = n => g[T] = h[T]}
<1>1. \A T \in SUBSET B : IsFiniteSet(T) /\ Cardinality(T) \in Nat /\ T \in SUBSET A
  BY FS_Subset, FS_CardinalityType
<1>2. 0 \in S
  <2>1. ASSUME NEW T \in SUBSET B, Cardinality(T) = 0 PROVE g[T] = h[T]
    <3>1. T = {}
      BY <1>1, <2>1, FS_EmptySet
    <3>2. {} \in SUBSET A /\ {} \in SUBSET B
      OBVIOUS
    <3> QED  BY <3>1, <3>2 DEF IsTable
  <2> QED  BY <2>1
<1>3. ASSUME NEW n \in Nat, n \in S PROVE n + 1 \in S
  <2>1. ASSUME NEW T \in SUBSET B, Cardinality(T) = n + 1 PROVE g[T] = h[T]
    <3>1. T # {}
      BY <1>1, <2>1, FS_EmptySet
    <3>2. PICK x : x = Some(T)
      OBVIOUS
    <3>3. x \in T
      BY <3>1, <3>2, SomeElement
    <3>4. PICK U \in SUBSET B : U = T \ {x}
      OBVIOUS
    <3>5. Cardinality(U) = n
      BY <1>1, <2>1, <3>3, <3>4, Without
    <3>6. g[U] = h[U]
      BY <1>3, <3>5
    <3>7. g[T] = f[x] + g[U] /\ h[T] = f[x] + h[U]
      BY <1>1, <3>1, <3>2, <3>4 DEF IsTable
    <3> QED  BY <3>6, <3>7
  <2> QED  BY <2>1
<1>4. \A n \in Nat : n \in S
  <2> HIDE DEF S
  <2> QED  BY ONLY <1>2, <1>3, Induction
<1> QED  BY <1>1, <1>4

LEMMA SumStep ==
    ASSUME NEW f, NEW A, IsFiniteSet(A), \A x \in A : f[x] \in Int
    PROVE  /\ SumFunctionOnSet(f, A) \in Int
           /\ SumFunctionOnSet(f, A) =
                 IF A = {} THEN 0 ELSE f[Some(A)] + SumFunctionOnSet(f, A \ {Some(A)})
<1>1. PICK B \in SUBSET A : B = A \ {Some(A)}
  OBVIOUS
<1>2. IsFiniteSet(B) /\ \A x \in B : f[x] \in Int
  BY FS_Subset
<1>3. PICK g : g = SumTable(f, A)
  OBVIOUS
<1>4. PICK h : h = SumTable(f, B)
  OBVIOUS
<1>5. IsTable(g, f, A) /\ g \in [SUBSET A -> Int]
  <2>1. PICK it \in [SUBSET A -> Int] : IsTable(it, f, A)
    BY TableExists
  <2>2. IsTable(g, f, A)
    BY <1>3, <2>1 DEF SumTable
  <2>3. \A T \in SUBSET A : g[T] = it[T]
    BY <2>1, <2>2, TablesAgree
  <2>4. g = [T \in SUBSET A |-> g[T]]
    BY <2>2 DEF IsTable
  <2> QED  BY <2>1, <2>2, <2>3, <2>4
<1>6. IsTable(h, f, B)
  <2>1. PICK it \in [SUBSET B -> Int] : IsTable(it, f, B)
    BY <1>2, TableExists
  <2> QED  BY <1>4, <2>1 DEF SumTable
<1>7. g[B] = h[B]
  BY <1>5, <1>6, TablesAgree
<1>8. g[A] = IF A = {} THEN 0 ELSE f[Some(A)] + g[B]
  BY <1>1, <1>5 DEF IsTable
<1>9. SumFunctionOnSet(f, A) = g[A] /\ SumFunctionOnSet(f, B) = h[B]
  BY <1>3, <1>4, SumIsTable
<1> QED  BY <1>1, <1>5, <1>7, <1>8, <1>9

LEMMA SumOfNone == ASSUME NEW f PROVE SumFunctionOnSet(f, {}) = 0
BY SumStep, FS_EmptySet

\* ... nor on the order in which the elements are added.
LEMMA SumRemove ==
    ASSUME NEW f, NEW A, IsFiniteSet(A), \A x \in A : f[x] \in Int, NEW x \in A
    PROVE  SumFunctionOnSet(f, A) = f[x] + SumFunctionOnSet(f, A \ {x})
<1> DEFINE Sum(T) == SumFunctionOnSet(f, T)
           S == {n \in Nat : \A T \in SUBSET A : Cardinality(T) = n =>
                    \A y \in T : Sum(T) = f[y] + Sum(T \ {y})}
<1>1. \A T \in SUBSET A : IsFiniteSet(T) /\ Cardinality(T) \in Nat /\ Sum(T) \in Int
  BY FS_Subset, FS_CardinalityType, SumStep
<1>2. 0 \in S
  <2>1. ASSUME NEW T \in SUBSET A, Cardinality(T) = 0 PROVE T = {}
    BY <1>1, <2>1, FS_EmptySet
  <2> QED  BY <2>1
<1>3. ASSUME NEW n \in Nat, n \in S PROVE n + 1 \in S
  <2>1. ASSUME NEW T \in SUBSET A, Cardinality(T) = n + 1, NEW y \in T
        PROVE  Sum(T) = f[y] + Sum(T \ {y})
    <3>1. PICK c : c = Some(T)
      OBVIOUS
    <3>2. c \in T /\ Sum(T) = f[c] + Sum(T \ {c})
      BY <1>1, <3>1, SumStep, SomeElement
    <3>3. CASE y = c
      BY <3>2, <3>3
    <3>4. CASE y # c
      <4>1. PICK U \in SUBSET A : U = T \ {c}
        OBVIOUS
      <4>2. PICK W \in SUBSET A : W = T \ {y}
        OBVIOUS
      <4>3. Cardinality(U) = n /\ Cardinality(W) = n
        <5>1. Cardinality(T) = Cardinality(U) + 1 /\ Cardinality(U) \in Nat
          BY <1>1, <3>2, <4>1, Without
        <5>2. Cardinality(T) = Cardinality(W) + 1 /\ Cardinality(W) \in Nat
          BY <1>1, <4>2, Without
        <5> QED  BY <2>1, <5>1, <5>2
      <4>4. y \in U /\ c \in W /\ U \ {y} = W \ {c}
        BY <3>2, <3>4, <4>1, <4>2
      <4>5. Sum(U) = f[y] + Sum(U \ {y}) /\ Sum(W) = f[c] + Sum(W \ {c})
        BY <1>3, <4>3, <4>4
      <4>6. PICK k \in Int, l \in Int, m \in Int : k = f[c] /\ l = f[y] /\ m = Sum(U \ {y})
        BY <1>1, <3>2
      <4>7. Sum(T) = k + (l + m)
        BY ONLY <3>2, <4>1, <4>5, <4>6
      <4>8. Sum(W) = k + m
        BY ONLY <4>4, <4>5, <4>6
      <4>9. Sum(T) = l + Sum(W)
        BY ONLY <4>6, <4>7, <4>8
      <4> QED  BY <4>2, <4>6, <4>9
    <3> QED  BY <3>3, <3>4
  <2> HIDE DEF Sum
  <2> QED  BY <2>1
<1>4. \A n \in Nat : n \in S
  <2> HIDE DEF S
  <2> QED  BY ONLY <1>2, <1>3, Induction
<1>5. A \in SUBSET A
  OBVIOUS
<1> QED  BY <1>1, <1>4, <1>5

LEMMA SumAdd ==
    ASSUME NEW f, NEW A, IsFiniteSet(A), NEW x, x \notin A, \A y \in A \cup {x} : f[y] \in Int
    PROVE  SumFunctionOnSet(f, A \cup {x}) = f[x] + SumFunctionOnSet(f, A)
<1>1. PICK B : B = A \cup {x}
  OBVIOUS
<1>2. IsFiniteSet(B) /\ x \in B /\ B \ {x} = A /\ \A y \in B : f[y] \in Int
  BY <1>1, FS_AddElement
<1> QED  BY <1>1, <1>2, SumRemove

\* Equal functions, ...
LEMMA SumEqual ==
    ASSUME NEW A, IsFiniteSet(A), NEW f, NEW g,
           \A x \in A : f[x] \in Int /\ f[x] = g[x]
    PROVE  SumFunctionOnSet(f, A) = SumFunctionOnSet(g, A)
<1> DEFINE P == {T \in SUBSET A : SumFunctionOnSet(f, T) = SumFunctionOnSet(g, T)}
<1>1. {} \in P
  BY SumOfNone
<1>2. ASSUME NEW T \in SUBSET A, NEW x \in A, T \in P, x \notin T PROVE T \cup {x} \in P
  <2>1. IsFiniteSet(T) /\ \A y \in T \cup {x} : f[y] \in Int /\ g[y] \in Int
    BY FS_Subset
  <2>2. SumFunctionOnSet(f, T \cup {x}) = f[x] + SumFunctionOnSet(f, T)
    BY <1>2, <2>1, SumAdd
  <2>3. SumFunctionOnSet(g, T \cup {x}) = g[x] + SumFunctionOnSet(g, T)
    BY <1>2, <2>1, SumAdd
  <2> QED  BY <1>2, <2>2, <2>3
<1>3. \A T \in SUBSET A : T \in P
  <2> HIDE DEF P
  <2> QED  BY <1>1, <1>2, FiniteInduction
<1> QED  BY <1>3

\* ... term by term additions, ...
LEMMA SumPlus ==
    ASSUME NEW A, IsFiniteSet(A), NEW f, NEW g, NEW h,
           \A x \in A : f[x] \in Int /\ g[x] \in Int /\ h[x] = f[x] + g[x]
    PROVE  SumFunctionOnSet(h, A) = SumFunctionOnSet(f, A) + SumFunctionOnSet(g, A)
<1> DEFINE P == {T \in SUBSET A : SumFunctionOnSet(h, T) =
                     SumFunctionOnSet(f, T) + SumFunctionOnSet(g, T)}
<1>1. {} \in P
  BY SumOfNone
<1>2. ASSUME NEW T \in SUBSET A, NEW x \in A, T \in P, x \notin T PROVE T \cup {x} \in P
  <2>1. /\ IsFiniteSet(T)
        /\ \A y \in T \cup {x} : f[y] \in Int /\ g[y] \in Int /\ h[y] \in Int
    BY FS_Subset
  <2>2. SumFunctionOnSet(f, T \cup {x}) = f[x] + SumFunctionOnSet(f, T)
    BY <1>2, <2>1, SumAdd
  <2>3. SumFunctionOnSet(g, T \cup {x}) = g[x] + SumFunctionOnSet(g, T)
    BY <1>2, <2>1, SumAdd
  <2>4. SumFunctionOnSet(h, T \cup {x}) = h[x] + SumFunctionOnSet(h, T)
    BY <1>2, <2>1, SumAdd
  <2>5. SumFunctionOnSet(f, T) \in Int /\ SumFunctionOnSet(g, T) \in Int
    BY <2>1, SumStep
  <2>6. PICK k \in Int, l \in Int, m \in Int, n \in Int :
           /\ k = f[x] /\ l = g[x] /\ m = SumFunctionOnSet(f, T)
           /\ n = SumFunctionOnSet(g, T)
    BY <2>1, <2>5
  <2>7. SumFunctionOnSet(h, T \cup {x}) = (k + l) + (m + n)
    BY <1>2, <2>4, <2>6
  <2>8. /\ SumFunctionOnSet(f, T \cup {x}) = k + m
        /\ SumFunctionOnSet(g, T \cup {x}) = l + n
    BY <2>2, <2>3, <2>6
  <2> QED  BY <2>7, <2>8
<1>3. \A T \in SUBSET A : T \in P
  <2> HIDE DEF P
  <2> QED  BY <1>1, <1>2, FiniteInduction
<1> QED  BY <1>3

\* ... and a common factor.
LEMMA SumTimes ==
    ASSUME NEW A, IsFiniteSet(A), NEW f, NEW h, NEW c \in Int,
           \A x \in A : f[x] \in Int /\ h[x] = c * f[x]
    PROVE  SumFunctionOnSet(h, A) = c * SumFunctionOnSet(f, A)
<1> DEFINE P == {T \in SUBSET A : SumFunctionOnSet(h, T) = c * SumFunctionOnSet(f, T)}
<1>1. {} \in P
  BY SumOfNone
<1>2. ASSUME NEW T \in SUBSET A, NEW x \in A, T \in P, x \notin T PROVE T \cup {x} \in P
  <2>1. IsFiniteSet(T) /\ \A y \in T \cup {x} : f[y] \in Int /\ h[y] \in Int
    BY FS_Subset
  <2>2. SumFunctionOnSet(f, T \cup {x}) = f[x] + SumFunctionOnSet(f, T)
    BY <1>2, <2>1, SumAdd
  <2>3. SumFunctionOnSet(h, T \cup {x}) = h[x] + SumFunctionOnSet(h, T)
    BY <1>2, <2>1, SumAdd
  <2>4. PICK k \in Int, m \in Int : k = f[x] /\ m = SumFunctionOnSet(f, T)
    BY <2>1, SumStep
  <2>5. SumFunctionOnSet(h, T \cup {x}) = c * k + c * m
    BY <1>2, <2>3, <2>4
  <2>6. c * k + c * m = c * (k + m)
    OBVIOUS
  <2> QED  BY <2>2, <2>4, <2>5, <2>6
<1>3. \A T \in SUBSET A : T \in P
  <2> HIDE DEF P
  <2> QED  BY <1>1, <1>2, FiniteInduction
<1> QED  BY <1>3

\* A sum of n numbers of at most c.
LEMMA SumBounds ==
    ASSUME NEW A, IsFiniteSet(A), NEW f, NEW c \in Nat,
           \A x \in A : f[x] \in Nat /\ f[x] <= c
    PROVE  /\ SumFunctionOnSet(f, A) \in Nat
           /\ SumFunctionOnSet(f, A) <= c * Cardinality(A)
<1> DEFINE P == {T \in SUBSET A : /\ SumFunctionOnSet(f, T) \in Nat
                                  /\ SumFunctionOnSet(f, T) <= c * Cardinality(T)}
<1>1. {} \in P
  <2>1. Cardinality({}) = 0
    BY FS_EmptySet
  <2> QED  BY <2>1, SumOfNone
<1>2. ASSUME NEW T \in SUBSET A, NEW x \in A, T \in P, x \notin T PROVE T \cup {x} \in P
  <2>1. IsFiniteSet(T) /\ \A y \in T \cup {x} : f[y] \in Int
    BY FS_Subset
  <2>2. SumFunctionOnSet(f, T \cup {x}) = f[x] + SumFunctionOnSet(f, T)
    BY <1>2, <2>1, SumAdd
  <2>3. Cardinality(T \cup {x}) = Cardinality(T) + 1 /\ Cardinality(T) \in Nat
    BY <1>2, <2>1, FS_AddElement, FS_CardinalityType
  <2>4. PICK k \in Nat, m \in Nat, n \in Nat :
           k = f[x] /\ m = SumFunctionOnSet(f, T) /\ n = Cardinality(T)
    BY <1>2, <2>3
  <2>5. k <= c /\ m <= c * n
    BY <1>2, <2>4
  <2>6. k + m \in Nat /\ k + m <= c * (n + 1)
    <3>1. c * (n + 1) = c * n + c /\ c * n \in Nat
      OBVIOUS
    <3> QED  BY ONLY <2>5, <3>1, k \in Nat, m \in Nat, c \in Nat
  <2> QED  BY <2>2, <2>3, <2>4, <2>6
<1>3. \A T \in SUBSET A : T \in P
  <2> HIDE DEF P
  <2> QED  BY <1>1, <1>2, FiniteInduction
<1> QED  BY <1>3

\* The sum over an interval, up to one number more.
LEMMA SumInterval ==
    ASSUME NEW m \in Int, NEW n \in Int, m <= n + 1, NEW f, \A k \in m .. n + 1 : f[k] \in Int
    PROVE  /\ SumFunctionOnSet(f, m .. n) \in Int
           /\ SumFunctionOnSet(f, m .. n + 1) = SumFunctionOnSet(f, m .. n) + f[n + 1]
<1>1. PICK A : A = m .. n
  OBVIOUS
<1>2. IsFiniteSet(A)
  BY <1>1, FS_Interval
<1>3. m .. n + 1 = A \cup {n + 1} /\ n + 1 \notin A
  BY <1>1
<1>4. \A k \in A \cup {n + 1} : f[k] \in Int
  BY <1>3
<1>5. SumFunctionOnSet(f, A \cup {n + 1}) = f[n + 1] + SumFunctionOnSet(f, A)
  BY <1>2, <1>3, <1>4, SumAdd
<1>6. SumFunctionOnSet(f, A) \in Int /\ f[n + 1] \in Int
  BY <1>2, <1>4, SumStep
<1>7. SumFunctionOnSet(f, A \cup {n + 1}) = SumFunctionOnSet(f, A) + f[n + 1]
  BY ONLY <1>5, <1>6
<1> QED  BY ONLY <1>1, <1>3, <1>6, <1>7

-----------------------------------------------------------------------------
(* Division *)

LEMMA Division ==
    ASSUME NEW x \in Int, NEW n \in Nat \ {0}
    PROVE  /\ x % n \in 0 .. n - 1 /\ x \div n \in Int
           /\ x = (x \div n) * n + (x % n)
<1>1. x % n \in 0 .. n - 1 /\ x \div n \in Int
  OBVIOUS
<1>2. PICK q \in Int : q = x \div n
  BY <1>1
<1>3. x % n = x - n * q
  BY <1>2
<1>4. x = q * n + (x - n * q)
  OBVIOUS
<1> QED  BY ONLY <1>1, <1>2, <1>3, <1>4

\* Quotient and remainder are the only numbers of this kind.
LEMMA DivisionUnique ==
    ASSUME NEW x \in Int, NEW n \in Nat \ {0}, NEW q \in Int, NEW r \in 0 .. n - 1,
           x = q * n + r
    PROVE  x % n = r /\ x \div n = q
OBVIOUS

LEMMA DivisionOfNat ==
    ASSUME NEW x \in Nat, NEW n \in Nat \ {0}
    PROVE  x \div n \in Nat
OBVIOUS

\* Two numbers that differ by a multiple have the same remainder.
Congruent(x, y, n) == \E k \in Int : x = y + k * n

LEMMA SameRemainder ==
    ASSUME NEW x \in Int, NEW y \in Int, NEW n \in Nat \ {0}, Congruent(x, y, n)
    PROVE  x % n = y % n
<1>1. PICK k \in Int : x = y + k * n
  BY DEF Congruent
<1>2. PICK q \in Int, r \in 0 .. n - 1 : q = y \div n /\ r = y % n /\ y = q * n + r
  BY Division
<1>3. x = (q + k) * n + r
  BY <1>1, <1>2
<1>4. x % n = r
  BY ONLY <1>3, DivisionUnique, x \in Int, n \in Nat \ {0}, q + k \in Int, r \in 0 .. n - 1
<1> QED  BY <1>2, <1>4

\* Remainders may be taken before adding ...
LEMMA RemainderPlus ==
    ASSUME NEW x \in Int, NEW y \in Int, NEW n \in Nat \ {0}
    PROVE  ((x % n) + y) % n = (x + y) % n
<1>1. PICK q \in Int, r \in 0 .. n - 1 : q = x \div n /\ r = x % n /\ x = q * n + r
  BY Division
<1>2. PICK u \in Int, v \in Int : u = x + y /\ v = r + y
  OBVIOUS
<1>3. u = v + q * n
  BY <1>1, <1>2
<1>4. Congruent(u, v, n)
  BY <1>3 DEF Congruent
<1>5. u % n = v % n
  BY <1>4, SameRemainder
<1> QED  BY <1>1, <1>2, <1>5

\* ... and before multiplying.
LEMMA RemainderTimes ==
    ASSUME NEW x \in Int, NEW y \in Int, NEW n \in Nat \ {0}
    PROVE  ((x % n) * y) % n = (x * y) % n
<1>1. PICK q \in Int, r \in 0 .. n - 1 : q = x \div n /\ r = x % n /\ x = q * n + r
  BY Division
<1>2. x * y = (r * y) + (q * y) * n
  BY <1>1
<1>3. PICK u \in Int, v \in Int, w \in Int : u = x * y /\ v = r * y /\ w = q * y
  OBVIOUS
<1>4. u = v + w * n
  BY ONLY <1>2, <1>3
<1>5. Congruent(u, v, n)
  BY <1>4 DEF Congruent
<1>6. u % n = v % n
  BY <1>5, SameRemainder
<1> QED  BY <1>1, <1>3, <1>6

-----------------------------------------------------------------------------
(* Powers of two *)

LEMMA PowerOfTwo ==
    ASSUME NEW n \in Nat
    PROVE  2^n \in Nat \ {0} /\ 2^(n + 1) = 2 * 2^n
<1>1. PICK A : A = 1 .. n
  OBVIOUS
<1>2. IsFiniteSet(A) /\ Cardinality(A) = n
  BY <1>1, FS_Interval
<1>3. PICK B : B = A \cup {n + 1}
  OBVIOUS
<1>4. n + 1 \notin A
  BY <1>1
<1>5. IsFiniteSet(B) /\ Cardinality(B) = n + 1
  BY <1>2, <1>3, <1>4, FS_AddElement
<1>6. /\ IsFiniteSet(SUBSET A) /\ Cardinality(SUBSET A) = 2^n
      /\ IsFiniteSet(SUBSET B) /\ Cardinality(SUBSET B) = 2^(n + 1)
  BY <1>2, <1>5, FS_SUBSET
<1>7. PICK C : C = {T \in SUBSET B : n + 1 \in T}
  OBVIOUS
<1>8. SUBSET B = (SUBSET A) \cup C /\ (SUBSET A) \cap C = {}
  BY <1>3, <1>4, <1>7
<1>9. IsFiniteSet(C) /\ Cardinality(C) = 2^n
  <2> DEFINE F == [T \in SUBSET A |-> T \cup {n + 1}]
  <2>1. F \in Bijection(SUBSET A, C)
    <3>1. F \in [SUBSET A -> C]
      BY <1>3, <1>7
    <3>2. \A T, U \in SUBSET A : F[T] = F[U] => T = U
      BY <1>4
    <3>3. \A T \in C : \E U \in SUBSET A : F[U] = T
      <4> SUFFICES ASSUME NEW T \in C PROVE \E U \in SUBSET A : F[U] = T
        OBVIOUS
      <4>1. T \ {n + 1} \in SUBSET A /\ F[T \ {n + 1}] = T
        BY <1>3, <1>7
      <4> QED  BY <4>1
    <3> QED  BY <3>1, <3>2, <3>3 DEF Bijection, Injection, Surjection, IsInjective
  <2> HIDE DEF F
  <2>2. ExistsBijection(SUBSET A, C)
    BY <2>1 DEF ExistsBijection
  <2> QED  BY <1>6, <2>2, FS_Bijection
<1>10. Cardinality(SUBSET B) = Cardinality(SUBSET A) + Cardinality(C)
  <2>1. Cardinality((SUBSET A) \cup C) =
            Cardinality(SUBSET A) + Cardinality(C) - Cardinality((SUBSET A) \cap C)
    BY <1>6, <1>9, FS_Union
  <2>2. Cardinality((SUBSET A) \cap C) = 0
    BY <1>8, FS_EmptySet
  <2>3. PICK c \in Nat, d \in Nat : c = Cardinality(SUBSET A) /\ d = Cardinality(C)
    BY <1>6, <1>9, FS_CardinalityType
  <2>4. Cardinality((SUBSET A) \cup C) = c + d
    BY ONLY <2>1, <2>2, <2>3, c \in Nat, d \in Nat
  <2> QED  BY ONLY <1>8, <2>3, <2>4
<1>11. 2^n \in Nat /\ 2^n # 0
  BY <1>6, FS_CardinalityType, FS_EmptySet
<1> QED  BY <1>6, <1>9, <1>10, <1>11

LEMMA PowerPlus ==
    ASSUME NEW m \in Nat, NEW n \in Nat
    PROVE  2^(m + n) = 2^m * 2^n
<1> DEFINE S == {k \in Nat : 2^(m + k) = 2^m * 2^k}
<1>1. 0 \in S
  <2>1. 2^m \in Nat /\ 2^0 = 1
    BY PowerOfTwo
  <2> QED  BY <2>1
<1>2. ASSUME NEW k \in Nat, k \in S PROVE k + 1 \in S
  <2>1. PICK a \in Nat, b \in Nat : a = 2^m /\ b = 2^k
    BY PowerOfTwo
  <2>2. 2^(k + 1) = 2 * b /\ 2^((m + k) + 1) = 2 * 2^(m + k)
    BY <2>1, PowerOfTwo
  <2>3. 2^(m + k) = a * b /\ (m + k) + 1 = m + (k + 1)
    BY <1>2, <2>1
  <2>4. 2 * (a * b) = a * (2 * b)
    OBVIOUS
  <2> QED  BY <2>1, <2>2, <2>3, <2>4
<1> HIDE DEF S
<1>3. n \in S
  BY <1>1, <1>2, Induction
<1> QED  BY <1>3 DEF S

LEMMA PowerMonotone ==
    ASSUME NEW m \in Nat, NEW n \in Nat, m <= n
    PROVE  2^m <= 2^n
<1>1. n - m \in Nat /\ m + (n - m) = n
  OBVIOUS
<1>2. PICK a \in Nat \ {0}, b \in Nat \ {0} : a = 2^m /\ b = 2^(n - m)
  BY <1>1, PowerOfTwo
<1>3. 2^n = a * b
  BY <1>1, <1>2, PowerPlus
<1>4. a <= a * b
  <2>1. b = 1 + (b - 1) /\ b - 1 \in Nat
    OBVIOUS
  <2>2. PICK c \in Nat : c = b - 1
    BY <2>1
  <2>3. a * (1 + c) = a + a * c /\ a * c \in Nat
    OBVIOUS
  <2> QED  BY <2>1, <2>2, <2>3
<1> QED  BY <1>2, <1>3, <1>4

-----------------------------------------------------------------------------
(* Binary numbers *)

BitOf(x, k) == (x \div 2^k) % 2

LEMMA BitType ==
    ASSUME NEW x \in Int, NEW k \in Nat
    PROVE  BitOf(x, k) \in {0, 1}
<1>1. 2^k \in Nat \ {0}
  BY PowerOfTwo
<1>2. x \div 2^k \in Int
  BY <1>1, Division
<1> QED  BY <1>2 DEF BitOf

\* The lowest n + 1 bits are the lowest n and one more.
LEMMA NextBit ==
    ASSUME NEW x \in Int, NEW n \in Nat
    PROVE  x % 2^(n + 1) = (x % 2^n) + BitOf(x, n) * 2^n
<1>1. PICK p \in Nat \ {0} : p = 2^n
  BY PowerOfTwo
<1>2. 2^(n + 1) = 2 * p /\ 2 * p \in Nat \ {0}
  BY <1>1, PowerOfTwo
<1>3. PICK q \in Int, r \in 0 .. p - 1 : q = x \div p /\ r = x % p /\ x = q * p + r
  BY Division
<1>4. PICK h \in Int, b \in 0 .. 1 : b = q % 2 /\ q = h * 2 + b
  <2>1. q % 2 \in 0 .. 2 - 1 /\ q \div 2 \in Int /\ q = (q \div 2) * 2 + (q % 2)
    BY Division
  <2> QED  BY <2>1
<1>5. x = h * (2 * p) + (b * p + r)
  <2>1. (h * 2 + b) * p = h * (2 * p) + b * p
    OBVIOUS
  <2>2. PICK u \in Int, v \in Int : u = b * p /\ v = h * (2 * p)
    OBVIOUS
  <2>3. x = (v + u) + r
    BY ONLY <1>3, <1>4, <2>1, <2>2
  <2>4. (v + u) + r = v + (u + r)
    BY ONLY u \in Int, v \in Int, r \in 0 .. p - 1, p \in Nat
  <2> QED  BY ONLY <2>2, <2>3, <2>4
<1>6. b * p + r \in 0 .. 2 * p - 1
  <2>1. b = 0 \/ b = 1
    OBVIOUS
  <2> QED  BY <2>1
<1>7. x % (2 * p) = b * p + r
  BY ONLY <1>2, <1>5, <1>6, DivisionUnique, x \in Int, h \in Int
<1>8. BitOf(x, n) = b
  BY <1>1, <1>3, <1>4 DEF BitOf
<1>9. b * p + r = r + b * p
  OBVIOUS
<1> QED  BY ONLY <1>1, <1>2, <1>3, <1>7, <1>8, <1>9

\* What is divisible by 2^n does not touch the bits below.
LEMMA LowBitUntouched ==
    ASSUME NEW x \in Int, NEW m \in Int, NEW n \in Nat, NEW k \in Nat, k < n
    PROVE  BitOf(x + m * 2^n, k) = BitOf(x, k)
<1>1. n - (k + 1) \in Nat /\ (k + 1) + (n - (k + 1)) = n
  OBVIOUS
<1>2. PICK p \in Nat \ {0}, d \in Nat : p = 2^k /\ d = 2^(n - (k + 1)) /\ 2^(k + 1) = 2 * p
  BY <1>1, PowerOfTwo
<1>3. 2^n = (2 * p) * d
  <2>1. PICK i \in Nat, j \in Nat : i = k + 1 /\ j = n - (k + 1) /\ i + j = n
    BY <1>1
  <2>2. 2^(i + j) = 2^i * 2^j
    BY ONLY PowerPlus, i \in Nat, j \in Nat
  <2> QED  BY ONLY <1>2, <2>1, <2>2
<1>4. PICK q \in Int, r \in 0 .. p - 1 : q = x \div p /\ x = q * p + r
  BY Division
<1>5. x + m * 2^n = (q + 2 * (m * d)) * p + r
  <2>1. m * ((2 * p) * d) = (2 * (m * d)) * p
    OBVIOUS
  <2>2. PICK e \in Int : e = 2 * (m * d)
    OBVIOUS
  <2>3. q * p + r + e * p = (q + e) * p + r
    OBVIOUS
  <2> QED  BY ONLY <1>3, <1>4, <2>1, <2>2, <2>3, q * p \in Int, e * p \in Int, r \in Int
<1>6. (x + m * 2^n) \div p = q + 2 * (m * d)
  <2>1. q + 2 * (m * d) \in Int /\ (q + 2 * (m * d)) * p \in Int
    OBVIOUS
  <2>2. x + m * 2^n \in Int
    BY ONLY <1>5, <2>1, r \in 0 .. p - 1, p \in Nat
  <2> QED  BY ONLY <1>5, <2>1, <2>2, DivisionUnique, p \in Nat \ {0}, r \in 0 .. p - 1
<1>7. (q + 2 * (m * d)) % 2 = q % 2
  <2>1. PICK e \in Int : e = q + 2 * (m * d)
    OBVIOUS
  <2>2. m * d \in Int /\ e = q + (m * d) * 2
    BY <2>1
  <2>3. Congruent(e, q, 2)
    BY <2>2 DEF Congruent
  <2>4. e % 2 = q % 2
    BY <2>3, SameRemainder
  <2> QED  BY <2>1, <2>4
<1> QED  BY <1>2, <1>4, <1>6, <1>7 DEF BitOf

\* A number is the sum of its bits.
LEMMA SumOfBits ==
    ASSUME NEW n \in Nat, NEW x \in 0 .. 2^n - 1
    PROVE  x = SumFunctionOnSet([k \in 0 .. n - 1 |-> BitOf(x, k) * 2^k], 0 .. n - 1)
<1>1. PICK f : f = [k \in 0 .. n - 1 |-> BitOf(x, k) * 2^k]
  OBVIOUS
<1> DEFINE S == {m \in Nat : m <= n => x % 2^m = SumFunctionOnSet(f, 0 .. m - 1)}
<1>2. x \in Int /\ 2^n \in Nat \ {0}
  BY PowerOfTwo
<1>3. \A k \in 0 .. n - 1 : f[k] \in Int
  <2>1. \A k \in 0 .. n - 1 : BitOf(x, k) \in Int /\ 2^k \in Int
    BY <1>2, BitType, PowerOfTwo
  <2> QED  BY <1>1, <2>1
<1>4. 0 \in S
  <2>1. x % 1 = 0 /\ 2^0 = 1 /\ 0 .. 0 - 1 = {}
    BY <1>2
  <2> QED  BY <2>1, SumOfNone
<1>5. ASSUME NEW m \in Nat, m \in S PROVE m + 1 \in S
  <2> SUFFICES ASSUME m + 1 <= n PROVE m + 1 \in S
    OBVIOUS
  <2>1. x % 2^m = SumFunctionOnSet(f, 0 .. m - 1)
    BY <1>5
  <2>2. PICK j \in Int : j = m - 1 /\ j + 1 = m /\ 0 <= j + 1
    OBVIOUS
  <2>3. \A k \in 0 .. j + 1 : f[k] \in Int
    BY <1>3, <2>2
  <2>4. /\ SumFunctionOnSet(f, 0 .. j) \in Int
        /\ SumFunctionOnSet(f, 0 .. j + 1) = SumFunctionOnSet(f, 0 .. j) + f[j + 1]
    BY ONLY <2>2, <2>3, SumInterval, 0 \in Int
  <2>5. f[m] = BitOf(x, m) * 2^m
    BY <1>1
  <2>6. x % 2^(m + 1) = (x % 2^m) + BitOf(x, m) * 2^m
    BY <1>2, NextBit
  <2>7. x % 2^(m + 1) = SumFunctionOnSet(f, 0 .. m)
    BY ONLY <2>1, <2>2, <2>4, <2>5, <2>6
  <2> QED  BY <2>7
<1>6. n \in S
  <2> HIDE DEF S
  <2> QED  BY <1>4, <1>5, Induction
<1>7. x % 2^n = x
  BY <1>2
<1> QED  BY <1>1, <1>6, <1>7

\* And the bits of a sum of powers of two are what it is made of.
Weighted(f, g, n) == \A k \in 0 .. n - 1 : f[k] \in {0, 1} /\ g[k] = f[k] * 2^k

LEMMA BitsOfSum ==
    ASSUME NEW n \in Nat, NEW f, NEW g, Weighted(f, g, n)
    PROVE  /\ SumFunctionOnSet(g, 0 .. n - 1) \in 0 .. 2^n - 1
           /\ \A k \in 0 .. n - 1 : BitOf(SumFunctionOnSet(g, 0 .. n - 1), k) = f[k]
<1> DEFINE S == {m \in Nat : m <= n =>
                    /\ SumFunctionOnSet(g, 0 .. m - 1) \in 0 .. 2^m - 1
                    /\ \A k \in 0 .. m - 1 : BitOf(SumFunctionOnSet(g, 0 .. m - 1), k) = f[k]}
<1> USE DEF Weighted
<1>1. \A k \in 0 .. n - 1 : g[k] \in Int
  <2>1. \A k \in 0 .. n - 1 : f[k] \in Int /\ 2^k \in Int
    BY PowerOfTwo
  <2> QED  BY <2>1
<1>2. 0 \in S
  <2>1. 2^0 = 1 /\ 0 .. 0 - 1 = {}
    OBVIOUS
  <2> QED  BY <2>1, SumOfNone
<1>3. ASSUME NEW m \in Nat, m \in S PROVE m + 1 \in S
  <2> SUFFICES ASSUME m + 1 <= n PROVE m + 1 \in S
    OBVIOUS
  <2>1. PICK p \in Nat \ {0} : p = 2^m /\ 2^(m + 1) = 2 * p
    BY PowerOfTwo
  <2>2. PICK s \in 0 .. p - 1 : s = SumFunctionOnSet(g, 0 .. m - 1)
    BY <1>3, <2>1
  <2>3. PICK b \in {0, 1} : b = f[m]
    OBVIOUS
  <2>4. PICK j \in Int : j = m - 1 /\ j + 1 = m /\ 0 <= j + 1
    OBVIOUS
  <2>5. \A k \in 0 .. j + 1 : g[k] \in Int
    BY <1>1, <2>4
  <2>6. SumFunctionOnSet(g, 0 .. j + 1) = SumFunctionOnSet(g, 0 .. j) + g[j + 1]
    BY ONLY <2>4, <2>5, SumInterval, 0 \in Int
  <2>7. g[m] = b * p
    BY <2>1, <2>3
  <2>8. SumFunctionOnSet(g, 0 .. m) = s + b * p
    BY ONLY <2>2, <2>4, <2>6, <2>7
  <2>9. s + b * p \in 0 .. 2 * p - 1
    OBVIOUS
  <2>10. BitOf(s + b * p, m) = b
    <3>1. s + b * p = b * p + s /\ s + b * p \in Int /\ b \in Int
      OBVIOUS
    <3>2. (s + b * p) \div p = b
      BY ONLY <3>1, DivisionUnique, p \in Nat \ {0}, s \in 0 .. p - 1
    <3> QED  BY <2>1, <3>2 DEF BitOf
  <2>11. ASSUME NEW k \in 0 .. m - 1 PROVE BitOf(s + b * p, k) = f[k]
    <3>1. BitOf(s + b * 2^m, k) = BitOf(s, k)
      BY LowBitUntouched
    <3> QED  BY <1>3, <2>1, <2>2, <3>1
  <2>12. \A k \in 0 .. m : BitOf(s + b * p, k) = f[k]
    <3>1. \A k \in 0 .. m : k = m \/ k \in 0 .. m - 1
      OBVIOUS
    <3> QED  BY ONLY <2>3, <2>10, <2>11, <3>1
  <2>13. (m + 1) - 1 = m
    OBVIOUS
  <2> QED  BY <2>1, <2>8, <2>9, <2>12, <2>13
<1>4. n \in S
  <2> HIDE DEF S
  <2> QED  BY <1>2, <1>3, Induction
<1> QED  BY <1>4

-----------------------------------------------------------------------------
(* Exclusive or of two numbers of n bits *)

XorTerms(x, y, n) == [k \in 0 .. n - 1 |-> ((BitOf(x, k) + BitOf(y, k)) % 2) * 2^k]
BitwiseXor(x, y, n) == SumFunctionOnSet(XorTerms(x, y, n), 0 .. n - 1)

LEMMA BitsOfXor ==
    ASSUME NEW n \in Nat, NEW x \in Int, NEW y \in Int
    PROVE  /\ BitwiseXor(x, y, n) \in 0 .. 2^n - 1
           /\ \A k \in 0 .. n - 1 :
                 BitOf(BitwiseXor(x, y, n), k) = (BitOf(x, k) + BitOf(y, k)) % 2
<1>1. PICK f : f = [k \in 0 .. n - 1 |-> (BitOf(x, k) + BitOf(y, k)) % 2]
  OBVIOUS
<1>2. PICK g : g = XorTerms(x, y, n)
  OBVIOUS
<1>3. \A k \in 0 .. n - 1 : f[k] \in {0, 1}
  <2> SUFFICES ASSUME NEW k \in 0 .. n - 1 PROVE f[k] \in {0, 1}
    OBVIOUS
  <2>1. BitOf(x, k) \in {0, 1} /\ BitOf(y, k) \in {0, 1}
    BY BitType
  <2> QED  BY <1>1, <2>1
<1>4. \A k \in 0 .. n - 1 : g[k] = f[k] * 2^k
  BY <1>1, <1>2 DEF XorTerms
<1>5. Weighted(f, g, n)
  BY <1>3, <1>4 DEF Weighted
<1>6. /\ SumFunctionOnSet(g, 0 .. n - 1) \in 0 .. 2^n - 1
      /\ \A k \in 0 .. n - 1 : BitOf(SumFunctionOnSet(g, 0 .. n - 1), k) = f[k]
  BY ONLY <1>5, BitsOfSum, n \in Nat
<1> QED  BY <1>1, <1>2, <1>6 DEF BitwiseXor

\* Numbers with the same bits are the same.
LEMMA SameBits ==
    ASSUME NEW n \in Nat, NEW x \in 0 .. 2^n - 1, NEW y \in 0 .. 2^n - 1,
           \A k \in 0 .. n - 1 : BitOf(x, k) = BitOf(y, k)
    PROVE  x = y
<1>1. [k \in 0 .. n - 1 |-> BitOf(x, k) * 2^k] = [k \in 0 .. n - 1 |-> BitOf(y, k) * 2^k]
  OBVIOUS
<1>2. /\ x = SumFunctionOnSet([k \in 0 .. n - 1 |-> BitOf(x, k) * 2^k], 0 .. n - 1)
      /\ y = SumFunctionOnSet([k \in 0 .. n - 1 |-> BitOf(y, k) * 2^k], 0 .. n - 1)
  BY SumOfBits
<1> QED  BY ONLY <1>1, <1>2

\* What is hidden with a key is found with the same key.
LEMMA XorUndone ==
    ASSUME NEW n \in Nat, NEW x \in 0 .. 2^n - 1, NEW y \in 0 .. 2^n - 1
    PROVE  BitwiseXor(x, BitwiseXor(x, y, n), n) = y
<1>0. x \in Int /\ y \in Int
  BY PowerOfTwo
<1>1. PICK z \in 0 .. 2^n - 1 : z = BitwiseXor(x, y, n) /\ z \in Int
  <2>1. BitwiseXor(x, y, n) \in 0 .. 2^n - 1
    BY <1>0, BitsOfXor
  <2>2. 2^n \in Nat
    BY PowerOfTwo
  <2> QED  BY ONLY <2>1, <2>2
<1>2. PICK w \in 0 .. 2^n - 1 : w = BitwiseXor(x, z, n)
  BY <1>0, <1>1, BitsOfXor
<1>3. \A k \in 0 .. n - 1 : BitOf(w, k) = BitOf(y, k)
  <2> SUFFICES ASSUME NEW k \in 0 .. n - 1 PROVE BitOf(w, k) = BitOf(y, k)
    OBVIOUS
  <2>1. PICK b \in {0, 1}, c \in {0, 1} : b = BitOf(x, k) /\ c = BitOf(y, k)
    BY <1>0, BitType
  <2>2. BitOf(z, k) = (b + c) % 2
    BY <1>0, <1>1, <2>1, BitsOfXor
  <2>3. BitOf(w, k) = (b + BitOf(z, k)) % 2
    BY <1>0, <1>1, <1>2, <2>1, BitsOfXor
  <2> QED  BY <2>1, <2>2, <2>3
<1> QED  BY <1>1, <1>2, <1>3, SameBits
=============================================================================
