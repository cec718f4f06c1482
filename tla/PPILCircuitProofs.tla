------------------------- MODULE PPILCircuitProofs -------------------------
(***************************************************************************)
(* The gates of PPILCircuit compute ordinary numbers, for vectors of every *)
(* length, and the circuit built from them searches as Knn does, for every *)
(* number of rows, neighbours, access points and bits.                     *)
(*                                                                         *)
(* Numbers.  Low(v, k) is the number in the low k bits of a vector; one    *)
(* bit more adds 2^k or nothing.  Each gate with a chain of carries keeps  *)
(* an equation between the low k bits of its inputs and of its outputs,    *)
(* and the equation at full length is what the gate promises.              *)
(*                                                                         *)
(* Recursive gates.  hammingweightRec and Bits are functions that call     *)
(* themselves on shorter vectors and smaller numbers, so they exist, and   *)
(* what they return follows by induction on the length.                    *)
(*                                                                         *)
(* The circuit.  IInv: the widths of the wires in the slots, and that a    *)
(* distance computed so far stands for the distance of its row.  Then a    *)
(* comparison decides and a swap exchanges as on numbers, which makes each *)
(* step of the search one of Knn.                                          *)
(***************************************************************************)
EXTENDS PPILCircuit, Arithmetic, SequenceTheorems

-----------------------------------------------------------------------------
(* Numbers *)

Bit(b) == IF b THEN 1 ELSE 0
Weight(b, k) == IF b THEN 2^k ELSE 0
Weights(v) == [k \in DOMAIN v |-> IF v[k] THEN 2^(k-1) ELSE 0]

\* The number in the low k bits.
Low(v, k) == SumFunctionOnSet(Weights(v), 1 .. k)

LEMMA VectorIs ==
    ASSUME NEW v \in BitVectors
    PROVE  /\ Len(v) \in Nat /\ DOMAIN v = 1 .. Len(v)
           /\ \A k \in 1 .. Len(v) : v[k] \in BOOLEAN
BY DEF BitVectors

\* A function on an initial interval is a vector.
LEMMA IsVector ==
    ASSUME NEW n \in Nat, NEW v \in [1 .. n -> BOOLEAN]
    PROVE  v \in BitVectors /\ Len(v) = n
BY DEF BitVectors

LEMMA WeightsAre ==
    ASSUME NEW v \in BitVectors
    PROVE  \A k \in 1 .. Len(v) : /\ Weights(v)[k] \in Nat
                                  /\ Weights(v)[k] = Weight(v[k], k - 1)
<1> SUFFICES ASSUME NEW k \in 1 .. Len(v)
             PROVE  Weights(v)[k] \in Nat /\ Weights(v)[k] = Weight(v[k], k - 1)
  OBVIOUS
<1>1. k \in DOMAIN v /\ k - 1 \in Nat
  BY VectorIs
<1>2. 2^(k-1) \in Nat
  BY <1>1, PowerOfTwo
<1> QED  BY <1>1, <1>2 DEF Weights, Weight

\* One bit more.
LEMMA LowStep ==
    ASSUME NEW v \in BitVectors, NEW k \in Nat, k < Len(v)
    PROVE  Low(v, k) \in Int /\ Low(v, k + 1) = Low(v, k) + Weight(v[k + 1], k)
<1>1. PICK f : f = Weights(v)
  OBVIOUS
<1>2. \A n \in 1 .. k + 1 : f[n] \in Int
  BY <1>1, VectorIs, WeightsAre
<1>3. f[k + 1] = Weight(v[k + 1], k)
  <2>1. k + 1 \in 1 .. Len(v) /\ (k + 1) - 1 = k
    BY VectorIs
  <2> QED  BY <1>1, <2>1, WeightsAre
<1>4. /\ SumFunctionOnSet(f, 1 .. k) \in Int
      /\ SumFunctionOnSet(f, 1 .. k + 1) = SumFunctionOnSet(f, 1 .. k) + f[k + 1]
  BY ONLY <1>2, SumInterval, 1 \in Int, k \in Int, k \in Nat, 1 <= k + 1
<1> QED  BY ONLY <1>1, <1>3, <1>4 DEF Low

LEMMA LowOfNone == ASSUME NEW v PROVE Low(v, 0) = 0
<1>1. 1 .. 0 = {}
  OBVIOUS
<1> QED  BY <1>1, SumOfNone DEF Low

LEMMA NumberIsLow ==
    ASSUME NEW v \in BitVectors
    PROVE  Number(v) = Low(v, Len(v))
<1>1. DOMAIN Weights(v) = 1 .. Len(v) /\ DOMAIN v = 1 .. Len(v)
  BY VectorIs DEF Weights
<1>2. Number(v) = SumFunction(Weights(v))
  BY DEF Number, Weights
<1> QED  BY <1>1, <1>2 DEF SumFunction, SumFunctionOnSet, FoldFunction, Low

\* k bits reach up to 2^k.
LEMMA LowBound ==
    ASSUME NEW v \in BitVectors, NEW k \in Nat, k <= Len(v)
    PROVE  Low(v, k) \in Nat /\ Low(v, k) < 2^k
<1> DEFINE S == {n \in Nat : n <= Len(v) => Low(v, n) \in Nat /\ Low(v, n) < 2^n}
<1>1. 0 \in S
  <2>1. 2^0 \in Nat \ {0}
    BY PowerOfTwo
  <2> QED  BY <2>1, LowOfNone
<1>2. ASSUME NEW n \in Nat, n \in S PROVE n + 1 \in S
  <2> SUFFICES ASSUME n + 1 <= Len(v)
               PROVE  Low(v, n + 1) \in Nat /\ Low(v, n + 1) < 2^(n + 1)
    OBVIOUS
  <2>1. n < Len(v) /\ n <= Len(v)
    BY VectorIs
  <2>2. PICK a \in Nat, p \in Nat : a = Low(v, n) /\ p = 2^n /\ 2^(n + 1) = 2 * p /\ a < p
    BY <1>2, <2>1, PowerOfTwo
  <2>3. Low(v, n + 1) = a + Weight(v[n + 1], n)
    BY <2>1, <2>2, LowStep
  <2>4. Weight(v[n + 1], n) = p \/ Weight(v[n + 1], n) = 0
    BY <2>2 DEF Weight
  <2> QED  BY <2>2, <2>3, <2>4
<1> HIDE DEF S
<1>3. \A n \in Nat : n \in S
  BY ONLY <1>1, <1>2, Induction
<1> QED  BY <1>3 DEF S

LEMMA NumberBound ==
    ASSUME NEW v \in BitVectors
    PROVE  Number(v) \in Nat /\ Number(v) < 2^Len(v)
BY VectorIs, LowBound, NumberIsLow

\* The low bits determine their number.
LEMMA LowSame ==
    ASSUME NEW u \in BitVectors, NEW v \in BitVectors, NEW k \in Nat, k <= Len(u), k <= Len(v),
           \A n \in 1 .. k : u[n] = v[n]
    PROVE  Low(u, k) = Low(v, k)
<1> DEFINE S == {n \in Nat : n <= k => Low(u, n) = Low(v, n)}
<1>1. 0 \in S
  BY LowOfNone
<1>2. ASSUME NEW n \in Nat, n \in S PROVE n + 1 \in S
  <2> SUFFICES ASSUME n + 1 <= k PROVE Low(u, n + 1) = Low(v, n + 1)
    OBVIOUS
  <2>1. n < Len(u) /\ n < Len(v) /\ n + 1 \in 1 .. k
    BY VectorIs
  <2>2. Low(u, n + 1) = Low(u, n) + Weight(u[n + 1], n)
    BY <2>1, LowStep
  <2>3. Low(v, n + 1) = Low(v, n) + Weight(v[n + 1], n)
    BY <2>1, LowStep
  <2>4. u[n + 1] = v[n + 1] /\ Low(u, n) = Low(v, n)
    BY <1>2, <2>1
  <2> QED  BY ONLY <2>2, <2>3, <2>4
<1> HIDE DEF S
<1>3. \A n \in Nat : n \in S
  BY ONLY <1>1, <1>2, Induction
<1> QED  BY <1>3 DEF S

-----------------------------------------------------------------------------
(* Padding *)

\* equalizeSize makes a vector longer and leaves its number alone.
LEMMA PaddedIs ==
    ASSUME NEW a \in BitVectors, NEW n \in Nat, Len(a) <= n
    PROVE  /\ Padded(a, n) \in BitVectors /\ Len(Padded(a, n)) = n
           /\ \A k \in 1 .. Len(a) : Padded(a, n)[k] = a[k]
           /\ \A k \in Len(a) + 1 .. n : Padded(a, n)[k] = FALSE
<1>1. PICK m \in Nat : m = n - Len(a) /\ Len(a) \in Nat
  BY VectorIs
<1>2. PICK z : z = Zeros(m)
  OBVIOUS
<1>3. z \in Seq(BOOLEAN) /\ Len(z) = m /\ \A k \in 1 .. m : z[k] = FALSE
  BY <1>2 DEF Zeros
<1>4. Padded(a, n) = a \o z
  BY <1>1, <1>2 DEF Padded
<1>5. /\ a \o z \in Seq(BOOLEAN) /\ Len(a \o z) = Len(a) + Len(z)
      /\ \A k \in 1 .. Len(a) + Len(z) : (a \o z)[k] = IF k <= Len(a) THEN a[k] ELSE z[k - Len(a)]
  BY <1>3, ConcatProperties DEF BitVectors
<1>6. ASSUME NEW k \in 1 .. Len(a) PROVE (a \o z)[k] = a[k]
  BY <1>1, <1>3, <1>5
<1>7. ASSUME NEW k \in Len(a) + 1 .. n PROVE (a \o z)[k] = FALSE
  <2>1. k - Len(a) \in 1 .. m /\ k \in 1 .. Len(a) + Len(z) /\ ~(k <= Len(a))
    BY <1>1, <1>3
  <2> QED  BY <1>3, <1>5, <2>1
<1>8. Len(a \o z) = n
  BY <1>1, <1>3, <1>5
<1> QED  BY <1>4, <1>5, <1>6, <1>7, <1>8 DEF BitVectors

LEMMA PaddedNumber ==
    ASSUME NEW a \in BitVectors, NEW n \in Nat, Len(a) <= n
    PROVE  Number(Padded(a, n)) = Number(a)
<1>1. PICK p, l : l \in Nat /\ p = Padded(a, n) /\ l = Len(a)
  BY VectorIs
<1>2. /\ p \in BitVectors /\ Len(p) = n /\ \A k \in 1 .. l : p[k] = a[k]
      /\ \A k \in l + 1 .. n : p[k] = FALSE
  BY <1>1, PaddedIs
<1>3. Low(p, l) = Low(a, l)
  BY <1>1, <1>2, LowSame
<1> DEFINE S == {d \in Nat : l + d <= n => Low(p, l + d) = Low(a, l)}
<1>4. 0 \in S
  BY <1>1, <1>3
<1>5. ASSUME NEW d \in Nat, d \in S PROVE d + 1 \in S
  <2> SUFFICES ASSUME l + (d + 1) <= n PROVE Low(p, l + (d + 1)) = Low(a, l)
    OBVIOUS
  <2>1. PICK k \in Nat : k = l + d /\ k < n /\ k + 1 = l + (d + 1)
    BY <1>1
  <2>2. k + 1 \in l + 1 .. n
    BY <1>1, <2>1
  <2>3. Low(p, k) \in Int /\ Low(p, k + 1) = Low(p, k) + Weight(p[k + 1], k)
    BY <1>2, <2>1, LowStep
  <2>4. Weight(p[k + 1], k) = 0
    BY <1>2, <2>2 DEF Weight
  <2>5. Low(p, k + 1) = Low(p, k)
    BY ONLY <2>3, <2>4
  <2>6. Low(p, l + d) = Low(a, l)
    BY <1>5, <1>1, <2>1
  <2> QED  BY ONLY <2>1, <2>5, <2>6
<1> HIDE DEF S
<1>6. \A d \in Nat : d \in S
  BY ONLY <1>4, <1>5, Induction
<1>7. Low(p, n) = Low(a, l)
  <2>1. n - l \in Nat /\ l + (n - l) = n
    BY <1>1
  <2> QED  BY <1>6, <2>1 DEF S
<1>8. Number(p) = Low(p, n) /\ Number(a) = Low(a, l)
  BY <1>1, <1>2, NumberIsLow
<1> QED  BY ONLY <1>1, <1>7, <1>8

\* Both vectors fit into the widest.
LEMMA WidestIs ==
    ASSUME NEW a \in BitVectors, NEW b \in BitVectors
    PROVE  Widest(a, b) \in Nat /\ Len(a) <= Widest(a, b) /\ Len(b) <= Widest(a, b)
BY VectorIs DEF Widest

-----------------------------------------------------------------------------
(* Addition and subtraction *)

\* The full adder with its single AND adds three bits.
LEMMA FullAdder ==
    ASSUME NEW a \in BOOLEAN, NEW b \in BOOLEAN, NEW c \in BOOLEAN
    PROVE  /\ SumBit(a, b, c) \in BOOLEAN /\ CarryBit(a, b, c) \in BOOLEAN
           /\ Bit(SumBit(a, b, c)) + 2 * Bit(CarryBit(a, b, c)) = Bit(a) + Bit(b) + Bit(c)
<1>1. SumBit(a, b, c) \in BOOLEAN /\ CarryBit(a, b, c) \in BOOLEAN
  BY DEF SumBit, CarryBit, XOR
<1>2. SumBit(a, b, c) <=> (a <=> (b <=> c))
  BY Zenon DEF SumBit, XOR
<1>3. CarryBit(a, b, c) <=> ((a /\ b) \/ (a /\ c) \/ (b /\ c))
  BY Zenon DEF CarryBit, XOR
<1>4. PICK s \in BOOLEAN, d \in BOOLEAN : s = SumBit(a, b, c) /\ d = CarryBit(a, b, c)
  BY <1>1
<1>5. Bit(s) + 2 * Bit(d) = Bit(a) + Bit(b) + Bit(c)
  <2>1. (s <=> (a <=> (b <=> c))) /\ (d <=> ((a /\ b) \/ (a /\ c) \/ (b /\ c)))
    BY ONLY <1>2, <1>3, <1>4, Zenon
  <2> QED  BY ONLY <2>1 DEF Bit
<1> QED  BY ONLY <1>1, <1>4, <1>5

\* The same at position k.
LEMMA AdderAt ==
    ASSUME NEW a \in BOOLEAN, NEW b \in BOOLEAN, NEW c \in BOOLEAN, NEW k \in Nat
    PROVE  Weight(SumBit(a, b, c), k) + Weight(CarryBit(a, b, c), k + 1) =
              Weight(a, k) + Weight(b, k) + Weight(c, k)
<1>1. PICK p \in Nat : p = 2^k /\ 2^(k + 1) = 2 * p
  BY PowerOfTwo
<1>2. PICK s \in BOOLEAN, d \in BOOLEAN : s = SumBit(a, b, c) /\ d = CarryBit(a, b, c)
  BY FullAdder
<1>3. Bit(s) + 2 * Bit(d) = Bit(a) + Bit(b) + Bit(c)
  BY <1>2, FullAdder
<1>4. \A e \in BOOLEAN : Weight(e, k) = IF e THEN p ELSE 0
  BY <1>1 DEF Weight
<1>5. Weight(d, k + 1) = IF d THEN 2 * p ELSE 0
  BY <1>1 DEF Weight
<1>6. Weight(s, k) + Weight(d, k + 1) = Weight(a, k) + Weight(b, k) + Weight(c, k)
  BY ONLY <1>3, <1>4, <1>5, s \in BOOLEAN, d \in BOOLEAN, a \in BOOLEAN, b \in BOOLEAN,
          c \in BOOLEAN, p \in Nat DEF Bit
<1> QED  BY ONLY <1>2, <1>6

\* The chain of carries, as a function.
IsCarries(c, x, y, in) ==
    /\ c \in [0 .. Len(x) -> BOOLEAN]
    /\ \A k \in 0 .. Len(x) : c[k] = IF k = 0 THEN in ELSE CarryBit(x[k], y[k], c[k-1])

LEMMA CarriesAre ==
    ASSUME NEW x \in BitVectors, NEW y \in BitVectors, Len(x) = Len(y), NEW in \in BOOLEAN
    PROVE  IsCarries(Carries(x, y, in), x, y, in)
<1>1. PICK m \in Nat : m = Len(x)
  BY VectorIs
<1>2. \A k \in 1 .. m : x[k] \in BOOLEAN /\ y[k] \in BOOLEAN
  BY <1>1, VectorIs
<1>3. PICK step : step = [k \in 1 .. m |-> [c \in BOOLEAN |-> CarryBit(x[k], y[k], c)]]
  OBVIOUS
<1>4. \A k \in 1 .. m, c \in BOOLEAN : CarryBit(x[k], y[k], c) \in BOOLEAN
  BY <1>2, FullAdder
<1>5. step \in [1 .. m -> [BOOLEAN -> BOOLEAN]]
  BY <1>3, <1>4
<1>6. Recursive(BOOLEAN, in, m, step)
  BY ONLY <1>5, Recursion, in \in BOOLEAN, m \in Nat
<1>7. PICK h \in [0 .. m -> BOOLEAN] : h[0] = in /\ \A n \in 1 .. m : h[n] = step[n][h[n-1]]
  BY ONLY <1>6 DEF Recursive
<1>8. \A n \in 1 .. m : h[n] = CarryBit(x[n], y[n], h[n-1])
  <2> SUFFICES ASSUME NEW n \in 1 .. m PROVE h[n] = CarryBit(x[n], y[n], h[n-1])
    OBVIOUS
  <2>1. n - 1 \in 0 .. m /\ h[n-1] \in BOOLEAN
    OBVIOUS
  <2> QED  BY <1>3, <1>7, <2>1
<1> DEFINE Is(c) == c = [k \in 0 .. Len(x) |-> IF k = 0 THEN in ELSE CarryBit(x[k], y[k], c[k-1])]
<1>9. Is(h)
  <2>1. \A n \in 0 .. m : h[n] = IF n = 0 THEN in ELSE CarryBit(x[n], y[n], h[n-1])
    BY <1>7, <1>8
  <2>2. h = [n \in 0 .. m |-> h[n]]
    OBVIOUS
  <2> QED  BY <1>1, <2>1, <2>2
<1>10. PICK g : g = CHOOSE c : Is(c)
  OBVIOUS
<1>11. Is(g)
  BY <1>9, <1>10
<1>12. Carries(x, y, in) = g
  BY <1>10 DEF Carries
<1>13. \A k \in 0 .. m : g[k] = IF k = 0 THEN in ELSE CarryBit(x[k], y[k], g[k-1])
  BY <1>1, <1>11
<1> DEFINE S == {k \in Nat : k <= m => g[k] \in BOOLEAN}
<1>14. 0 \in S
  BY <1>13
<1>15. ASSUME NEW k \in Nat, k \in S PROVE k + 1 \in S
  <2> SUFFICES ASSUME k + 1 <= m PROVE g[k + 1] \in BOOLEAN
    OBVIOUS
  <2>1. k + 1 \in 1 .. m /\ k + 1 \in 0 .. m /\ (k + 1) - 1 = k /\ g[k] \in BOOLEAN
    BY <1>15
  <2> QED  BY <1>4, <1>13, <2>1
<1> HIDE DEF S
<1>16. \A k \in Nat : k \in S
  BY ONLY <1>14, <1>15, Induction
<1>17. \A k \in 0 .. m : g[k] \in BOOLEAN
  BY <1>16 DEF S
<1>18. g \in [0 .. m -> BOOLEAN]
  BY <1>1, <1>11, <1>17
<1> QED  BY <1>1, <1>12, <1>13, <1>18 DEF IsCarries

\* The sum so far and the carry are the numbers so far.
Adds(s, x, y, c, k) ==
    Low(s, k) + Weight(c[k], k) = Low(x, k) + Low(y, k) + Bit(c[0])

LEMMA RippleIs ==
    ASSUME NEW x \in BitVectors, NEW y \in BitVectors, Len(x) = Len(y), NEW in \in BOOLEAN,
           NEW c, IsCarries(c, x, y, in), NEW s, s = RippleSum(x, y, c)
    PROVE  /\ s \in BitVectors /\ Len(s) = Len(x)
           /\ \A k \in 1 .. Len(x) : s[k] = SumBit(x[k], y[k], c[k-1])
<1>1. PICK m \in Nat : m = Len(x)
  BY VectorIs
<1>2. ASSUME NEW k \in 1 .. m PROVE SumBit(x[k], y[k], c[k-1]) \in BOOLEAN
  <2>1. x[k] \in BOOLEAN /\ y[k] \in BOOLEAN /\ k - 1 \in 0 .. m
    BY <1>1, VectorIs
  <2>2. c[k-1] \in BOOLEAN
    BY <1>1, <2>1 DEF IsCarries
  <2> QED  BY <2>1, <2>2, FullAdder
<1>3. s \in [1 .. m -> BOOLEAN]
  BY <1>1, <1>2 DEF RippleSum
<1>4. s \in BitVectors /\ Len(s) = m
  BY <1>3, IsVector
<1> QED  BY <1>1, <1>4 DEF RippleSum

LEMMA RippleAdds ==
    ASSUME NEW x \in BitVectors, NEW y \in BitVectors, Len(x) = Len(y), NEW in \in BOOLEAN,
           NEW c, IsCarries(c, x, y, in), NEW s, s = RippleSum(x, y, c)
    PROVE  \A k \in 0 .. Len(x) : Adds(s, x, y, c, k)
<1>1. PICK m \in Nat : m = Len(x)
  BY VectorIs
<1>2. /\ s \in BitVectors /\ Len(s) = m /\ \A k \in 1 .. m : s[k] = SumBit(x[k], y[k], c[k-1])
  BY ONLY <1>1, RippleIs, x \in BitVectors, y \in BitVectors, Len(x) = Len(y), in \in BOOLEAN,
          IsCarries(c, x, y, in), s = RippleSum(x, y, c)
<1>3. /\ c \in [0 .. m -> BOOLEAN]
      /\ \A k \in 0 .. m : c[k] = IF k = 0 THEN in ELSE CarryBit(x[k], y[k], c[k-1])
  BY <1>1 DEF IsCarries
<1> DEFINE S == {k \in Nat : k <= m => Adds(s, x, y, c, k)}
<1>4. 0 \in S
  <2>1. Low(s, 0) = 0 /\ Low(x, 0) = 0 /\ Low(y, 0) = 0
    BY LowOfNone
  <2>2. Weight(c[0], 0) = Bit(c[0]) /\ Bit(c[0]) \in Int
    BY PowerOfTwo DEF Weight, Bit
  <2> QED  BY ONLY <2>1, <2>2 DEF Adds
<1>5. ASSUME NEW k \in Nat, k \in S PROVE k + 1 \in S
  <2> SUFFICES ASSUME k + 1 <= m PROVE Adds(s, x, y, c, k + 1)
    OBVIOUS
  <2>1. k < m /\ k \in 0 .. m /\ k + 1 \in 1 .. m /\ k + 1 \in 0 .. m /\ (k + 1) - 1 = k
    OBVIOUS
  <2>2. PICK a \in BOOLEAN, b \in BOOLEAN, d \in BOOLEAN : a = x[k + 1] /\ b = y[k + 1] /\ d = c[k]
    BY <1>1, <1>3, <2>1, VectorIs
  <2>3. s[k + 1] = SumBit(a, b, d) /\ c[k + 1] = CarryBit(a, b, d)
    BY <1>2, <1>3, <2>1, <2>2
  <2>4. /\ Low(s, k) \in Int /\ Low(s, k + 1) = Low(s, k) + Weight(SumBit(a, b, d), k)
        /\ Low(x, k) \in Int /\ Low(x, k + 1) = Low(x, k) + Weight(a, k)
        /\ Low(y, k) \in Int /\ Low(y, k + 1) = Low(y, k) + Weight(b, k)
    BY <1>1, <1>2, <2>1, <2>2, <2>3, LowStep
  <2>5. PICK e \in Int, f \in Int, g \in Int, h \in Int, o \in Int :
           /\ e = Weight(SumBit(a, b, d), k) /\ f = Weight(a, k) /\ g = Weight(b, k)
           /\ h = Weight(d, k) /\ o = Bit(c[0])
    BY PowerOfTwo DEF Weight, Bit
  <2>6. PICK w \in Int : w = Weight(CarryBit(a, b, d), k + 1)
    <3>1. k + 1 \in Nat
      OBVIOUS
    <3> QED  BY <3>1, PowerOfTwo DEF Weight
  <2>7. e + w = f + g + h
    <3>1. Weight(SumBit(a, b, d), k) + Weight(CarryBit(a, b, d), k + 1) =
             Weight(a, k) + Weight(b, k) + Weight(d, k)
      BY ONLY AdderAt, a \in BOOLEAN, b \in BOOLEAN, d \in BOOLEAN, k \in Nat
    <3> QED  BY ONLY <2>5, <2>6, <3>1
  <2>8. Low(s, k) + h = Low(x, k) + Low(y, k) + o
    BY <1>5, <2>1, <2>2, <2>5 DEF Adds
  <2>9. Low(s, k + 1) + w = Low(x, k + 1) + Low(y, k + 1) + o
    BY ONLY <2>4, <2>5, <2>7, <2>8, e \in Int, f \in Int, g \in Int, h \in Int, o \in Int,
            w \in Int
  <2> QED  BY ONLY <2>3, <2>5, <2>6, <2>9 DEF Adds
<1> HIDE DEF S
<1>6. \A k \in Nat : k \in S
  BY ONLY <1>4, <1>5, Induction
<1> QED  BY <1>1, <1>6 DEF S

\* additionGT: with its last carry the result is the sum of the two numbers and
\* the carry in, whatever the lengths of the two vectors.
AdditionExactFor(a, b, in) ==
    /\ additionGT(a, b, in) \in BitVectors
    /\ Len(additionGT(a, b, in)) = Widest(a, b) + 1
    /\ Number(additionGT(a, b, in)) = Number(a) + Number(b) + Bit(in)

THEOREM AdditionExact ==
    ASSUME NEW a \in BitVectors, NEW b \in BitVectors, NEW in \in BOOLEAN
    PROVE  AdditionExactFor(a, b, in)
<1>1. PICK n \in Nat : n = Widest(a, b) /\ Len(a) <= n /\ Len(b) <= n
  BY WidestIs
<1>2. PICK x, y : x = Padded(a, n) /\ y = Padded(b, n)
  OBVIOUS
<1>3. /\ x \in BitVectors /\ Len(x) = n /\ y \in BitVectors /\ Len(y) = n
      /\ Number(x) = Number(a) /\ Number(y) = Number(b)
  BY <1>1, <1>2, PaddedIs, PaddedNumber
<1>4. PICK c : c = Carries(x, y, in) /\ IsCarries(c, x, y, in)
  BY <1>3, CarriesAre
<1>5. PICK s : s = RippleSum(x, y, c)
  OBVIOUS
<1>6. s \in BitVectors /\ Len(s) = n
  BY <1>3, <1>4, <1>5, RippleIs
<1>7. Adds(s, x, y, c, n)
  <2>1. \A k \in 0 .. Len(x) : Adds(s, x, y, c, k)
    BY ONLY <1>3, <1>4, <1>5, RippleAdds, in \in BOOLEAN
  <2> QED  BY ONLY <1>3, <2>1, n \in Nat
<1>8. PICK u : u = Append(s, c[n])
  OBVIOUS
<1>9. additionGT(a, b, in) = u
  BY ONLY <1>1, <1>2, <1>4, <1>5, <1>8 DEF additionGT
<1>10. c[n] \in BOOLEAN /\ c[0] = in
  BY <1>3, <1>4 DEF IsCarries
<1>11. /\ u \in BitVectors /\ Len(u) = n + 1 /\ u[n + 1] = c[n]
       /\ \A k \in 1 .. n : u[k] = s[k]
  BY <1>6, <1>8, <1>10, AppendProperties DEF BitVectors
<1>12. Low(u, n) = Low(s, n)
  BY <1>6, <1>11, LowSame
<1>13. Low(s, n) \in Int /\ Low(u, n + 1) = Low(u, n) + Weight(c[n], n)
  <2>1. n < Len(u) /\ n <= Len(s)
    BY <1>6, <1>11
  <2> QED  BY <1>6, <1>11, <2>1, LowStep, LowBound
<1>14. /\ Number(u) = Low(u, n + 1) /\ Number(x) = Low(x, n) /\ Number(y) = Low(y, n)
  BY <1>3, <1>11, NumberIsLow
<1>15. Number(u) = Number(a) + Number(b) + Bit(in)
  BY ONLY <1>3, <1>7, <1>10, <1>12, <1>13, <1>14 DEF Adds
<1> QED  BY ONLY <1>1, <1>9, <1>11, <1>15 DEF AdditionExactFor

\* The complement of a vector.
Complement(b) == [k \in DOMAIN b |-> ~b[k]]

LEMMA ComplementIs ==
    ASSUME NEW b \in BitVectors, NEW y, y = Complement(b)
    PROVE  /\ y \in BitVectors /\ Len(y) = Len(b)
           /\ \A k \in 0 .. Len(b) : Low(y, k) + Low(b, k) + 1 = 2^k
<1>1. PICK m \in Nat : m = Len(b) /\ DOMAIN b = 1 .. m
  BY VectorIs
<1>2. y = [k \in 1 .. m |-> ~b[k]]
  BY <1>1 DEF Complement
<1>3. y \in [1 .. m -> BOOLEAN] /\ \A k \in 1 .. m : y[k] = ~b[k]
  BY <1>2
<1>4. y \in BitVectors /\ Len(y) = m
  BY <1>3, IsVector
<1> DEFINE S == {k \in Nat : k <= m => Low(y, k) + Low(b, k) + 1 = 2^k}
<1>5. 0 \in S
  <2>1. Low(y, 0) = 0 /\ Low(b, 0) = 0 /\ 2^0 = 1
    BY LowOfNone
  <2> QED  BY <2>1
<1>6. ASSUME NEW k \in Nat, k \in S PROVE k + 1 \in S
  <2> SUFFICES ASSUME k + 1 <= m PROVE Low(y, k + 1) + Low(b, k + 1) + 1 = 2^(k + 1)
    OBVIOUS
  <2>1. k < Len(y) /\ k < Len(b) /\ k + 1 \in 1 .. m
    BY <1>1, <1>4
  <2>2. PICK p \in Nat : p = 2^k /\ 2^(k + 1) = 2 * p
    BY PowerOfTwo
  <2>3. Low(y, k) \in Int /\ Low(y, k + 1) = Low(y, k) + Weight(y[k + 1], k)
    BY <1>4, <2>1, LowStep
  <2>4. Low(b, k) \in Int /\ Low(b, k + 1) = Low(b, k) + Weight(b[k + 1], k)
    BY <2>1, LowStep
  <2>5. Weight(y[k + 1], k) + Weight(b[k + 1], k) = p
    <3>1. PICK e \in BOOLEAN : e = b[k + 1]
      BY <1>1, <2>1, VectorIs
    <3>2. y[k + 1] = ~e
      BY <1>3, <2>1, <3>1
    <3>3. CASE e
      <4>1. Weight(y[k + 1], k) = 0 /\ Weight(b[k + 1], k) = p
        BY <2>2, <3>1, <3>2, <3>3 DEF Weight
      <4> QED  BY ONLY <4>1, p \in Nat
    <3>4. CASE ~e
      <4>1. Weight(y[k + 1], k) = p /\ Weight(b[k + 1], k) = 0
        BY <2>2, <3>1, <3>2, <3>4 DEF Weight
      <4> QED  BY ONLY <4>1, p \in Nat
    <3> QED  BY <3>3, <3>4
  <2>6. PICK e \in Int, f \in Int : e = Weight(y[k + 1], k) /\ f = Weight(b[k + 1], k)
    BY PowerOfTwo DEF Weight
  <2>7. Low(y, k) + Low(b, k) + 1 = p
    BY <1>6, <2>2
  <2> QED  BY ONLY <2>2, <2>3, <2>4, <2>5, <2>6, <2>7, p \in Nat, e \in Int, f \in Int
<1> HIDE DEF S
<1>7. \A k \in Nat : k \in S
  BY ONLY <1>5, <1>6, Induction
<1> QED  BY <1>1, <1>4, <1>7 DEF S

\* subGT: the difference of two shares of l bits, in the ring of l bits.
SubtractionExactFor(a, b, l) ==
    /\ subGT(a, b) \in BitVectors /\ Len(subGT(a, b)) = l
    /\ Number(subGT(a, b)) = (Number(a) - Number(b)) % 2^l

THEOREM SubtractionExact ==
    ASSUME NEW l \in Nat, NEW a \in BitVectors, NEW b \in BitVectors, Len(a) = l, Len(b) = l
    PROVE  SubtractionExactFor(a, b, l)
<1>1. PICK y : y = Complement(b)
  OBVIOUS
<1>2. y \in BitVectors /\ Len(y) = l /\ Low(y, l) + Low(b, l) + 1 = 2^l
  BY <1>1, ComplementIs
<1>0. PICK in \in BOOLEAN : in = TRUE
  OBVIOUS
<1>3. PICK c : c = Carries(a, y, in) /\ IsCarries(c, a, y, in)
  BY <1>2, CarriesAre
<1>4. PICK s : s = RippleSum(a, y, c)
  OBVIOUS
<1>5. subGT(a, b) = s
  BY ONLY <1>0, <1>1, <1>3, <1>4 DEF subGT, Complement
<1>6. s \in BitVectors /\ Len(s) = l
  BY ONLY <1>2, <1>3, <1>4, RippleIs, a \in BitVectors, Len(a) = l, in \in BOOLEAN
<1>7. Low(s, l) + Weight(c[l], l) = Low(a, l) + Low(y, l) + 1
  <2>1. \A k \in 0 .. Len(a) : Adds(s, a, y, c, k)
    BY ONLY <1>2, <1>3, <1>4, RippleAdds, in \in BOOLEAN, a \in BitVectors, Len(a) = l
  <2>2. Bit(c[0]) = 1
    <3>1. c[0] = in
      BY <1>3 DEF IsCarries
    <3> QED  BY <1>0, <3>1 DEF Bit
  <2> QED  BY ONLY <2>1, <2>2, Len(a) = l, l \in Nat DEF Adds
<1>8. PICK m \in Nat \ {0} : m = 2^l
  BY PowerOfTwo
<1>9. PICK t \in Nat, u \in Nat, v \in Nat, w \in Nat :
         t = Low(s, l) /\ u = Low(a, l) /\ v = Low(b, l) /\ w = Low(y, l) /\ t < m
  BY <1>2, <1>6, <1>8, LowBound
<1>10. PICK q \in Int : u - v = q * m + t
  <2>1. Weight(c[l], l) = m \/ Weight(c[l], l) = 0
    BY <1>8 DEF Weight
  <2>4. t + Weight(c[l], l) = u + w + 1 /\ w + v + 1 = m
    BY ONLY <1>2, <1>7, <1>8, <1>9
  <2>2. CASE Weight(c[l], l) = m
    <3>1. u - v = 0 * m + t
      BY ONLY <2>4, <2>2, m \in Nat, t \in Nat, u \in Nat, v \in Nat, w \in Nat
    <3> QED  BY <3>1
  <2>3. CASE Weight(c[l], l) = 0
    <3>1. u - v = (-1) * m + t
      BY ONLY <2>4, <2>3, m \in Nat, t \in Nat, u \in Nat, v \in Nat, w \in Nat
    <3> QED  BY <3>1
  <2> QED  BY <2>1, <2>2, <2>3
<1>11. (u - v) % m = t
  <2>1. u - v \in Int /\ t \in 0 .. m - 1
    BY <1>9
  <2> QED  BY ONLY <1>10, <2>1, DivisionUnique, m \in Nat \ {0}, q \in Int
<1>12. Number(s) = t /\ Number(a) = u /\ Number(b) = v
  BY <1>6, <1>9, NumberIsLow
<1> QED  BY ONLY <1>5, <1>6, <1>8, <1>11, <1>12 DEF SubtractionExactFor

-----------------------------------------------------------------------------
(* Comparison *)

\* One round of the comparison: the borrow of a bit position.
BorrowBit(a, b, c) == XOR(XOR(a, c) /\ XOR(b, c), a)

LEMMA BorrowIs ==
    ASSUME NEW a \in BOOLEAN, NEW b \in BOOLEAN, NEW c \in BOOLEAN
    PROVE  /\ BorrowBit(a, b, c) \in BOOLEAN
           /\ BorrowBit(a, b, c) <=> ((a /\ ~b) \/ ((a <=> b) /\ c))
<1>1. BorrowBit(a, b, c) \in BOOLEAN
  BY DEF BorrowBit, XOR
<1>2. BorrowBit(a, b, c) <=> ((a /\ ~b) \/ ((a <=> b) /\ c))
  BY Zenon DEF BorrowBit, XOR
<1> QED  BY <1>1, <1>2

IsBorrows(c, x, y) ==
    /\ c \in [0 .. Len(x) -> BOOLEAN]
    /\ \A k \in 0 .. Len(x) : c[k] = IF k = 0 THEN FALSE ELSE BorrowBit(x[k], y[k], c[k-1])

LEMMA BorrowsAre ==
    ASSUME NEW x \in BitVectors, NEW y \in BitVectors, Len(x) = Len(y)
    PROVE  IsBorrows(Borrows(x, y), x, y)
<1>1. PICK m \in Nat : m = Len(x)
  BY VectorIs
<1>2. \A k \in 1 .. m : x[k] \in BOOLEAN /\ y[k] \in BOOLEAN
  BY <1>1, VectorIs
<1>3. PICK step : step = [k \in 1 .. m |-> [c \in BOOLEAN |-> BorrowBit(x[k], y[k], c)]]
  OBVIOUS
<1>4. \A k \in 1 .. m, c \in BOOLEAN : BorrowBit(x[k], y[k], c) \in BOOLEAN
  BY <1>2, BorrowIs
<1>5. step \in [1 .. m -> [BOOLEAN -> BOOLEAN]]
  BY <1>3, <1>4
<1>6. PICK in \in BOOLEAN : in = FALSE
  OBVIOUS
<1>7. Recursive(BOOLEAN, in, m, step)
  BY ONLY <1>5, Recursion, in \in BOOLEAN, m \in Nat
<1>8. PICK h \in [0 .. m -> BOOLEAN] : h[0] = in /\ \A n \in 1 .. m : h[n] = step[n][h[n-1]]
  BY ONLY <1>7 DEF Recursive
<1>9. \A n \in 1 .. m : h[n] = BorrowBit(x[n], y[n], h[n-1])
  <2> SUFFICES ASSUME NEW n \in 1 .. m PROVE h[n] = BorrowBit(x[n], y[n], h[n-1])
    OBVIOUS
  <2>1. n - 1 \in 0 .. m /\ h[n-1] \in BOOLEAN
    OBVIOUS
  <2> QED  BY <1>3, <1>8, <2>1
<1> DEFINE Is(c) == c = [k \in 0 .. Len(x) |-> IF k = 0 THEN FALSE ELSE BorrowBit(x[k], y[k], c[k-1])]
<1>10. Is(h)
  <2>1. \A n \in 0 .. m : h[n] = IF n = 0 THEN FALSE ELSE BorrowBit(x[n], y[n], h[n-1])
    <3> SUFFICES ASSUME NEW n \in 0 .. m
                 PROVE  h[n] = IF n = 0 THEN FALSE ELSE BorrowBit(x[n], y[n], h[n-1])
      OBVIOUS
    <3>1. CASE n = 0
      BY <1>6, <1>8, <3>1
    <3>2. CASE n # 0
      BY <1>9, <3>2
    <3> QED  BY <3>1, <3>2
  <2>2. h = [n \in 0 .. m |-> h[n]]
    OBVIOUS
  <2> QED  BY <1>1, <2>1, <2>2
<1>11. PICK g : g = CHOOSE c : Is(c)
  OBVIOUS
<1>12. Is(g)
  BY <1>10, <1>11
<1>13. Borrows(x, y) = g
  BY <1>11 DEF Borrows, BorrowBit
<1>14. \A k \in 0 .. m : g[k] = IF k = 0 THEN FALSE ELSE BorrowBit(x[k], y[k], g[k-1])
  BY <1>1, <1>12
<1> DEFINE S == {k \in Nat : k <= m => g[k] \in BOOLEAN}
<1>15. 0 \in S
  BY <1>14
<1>16. ASSUME NEW k \in Nat, k \in S PROVE k + 1 \in S
  <2> SUFFICES ASSUME k + 1 <= m PROVE g[k + 1] \in BOOLEAN
    OBVIOUS
  <2>1. k + 1 \in 1 .. m /\ k + 1 \in 0 .. m /\ (k + 1) - 1 = k /\ g[k] \in BOOLEAN
    BY <1>16
  <2>2. g[k + 1] = BorrowBit(x[k + 1], y[k + 1], g[k])
    BY <1>14, <2>1
  <2> QED  BY <1>4, <2>1, <2>2
<1> HIDE DEF S
<1>17. \A k \in Nat : k \in S
  BY ONLY <1>15, <1>16, Induction
<1>18. \A k \in 0 .. m : g[k] \in BOOLEAN
  BY <1>17 DEF S
<1>19. g \in [0 .. m -> BOOLEAN]
  BY <1>1, <1>12, <1>18
<1> QED  BY <1>1, <1>13, <1>14, <1>19 DEF IsBorrows

\* The borrow so far tells whether the low bits of x are the larger number.
LEMMA BorrowCompares ==
    ASSUME NEW x \in BitVectors, NEW y \in BitVectors, Len(x) = Len(y),
           NEW c, IsBorrows(c, x, y)
    PROVE  \A k \in 0 .. Len(x) : c[k] <=> Low(x, k) > Low(y, k)
<1>1. PICK m \in Nat : m = Len(x)
  BY VectorIs
<1>2. /\ c \in [0 .. m -> BOOLEAN]
      /\ \A k \in 0 .. m : c[k] = IF k = 0 THEN FALSE ELSE BorrowBit(x[k], y[k], c[k-1])
  BY <1>1 DEF IsBorrows
<1> DEFINE S == {k \in Nat : k <= m => (c[k] <=> Low(x, k) > Low(y, k))}
<1>3. 0 \in S
  <2>1. Low(x, 0) = 0 /\ Low(y, 0) = 0
    BY LowOfNone
  <2>2. c[0] = FALSE
    BY <1>2
  <2> QED  BY <2>1, <2>2
<1>4. ASSUME NEW k \in Nat, k \in S PROVE k + 1 \in S
  <2> SUFFICES ASSUME k + 1 <= m PROVE c[k + 1] <=> Low(x, k + 1) > Low(y, k + 1)
    OBVIOUS
  <2>1. k < m /\ k <= m /\ k \in 0 .. m /\ k + 1 \in 1 .. m /\ k + 1 \in 0 .. m /\ (k + 1) - 1 = k
    OBVIOUS
  <2>2. PICK a \in BOOLEAN, b \in BOOLEAN, d \in BOOLEAN : a = x[k + 1] /\ b = y[k + 1] /\ d = c[k]
    BY <1>1, <1>2, <2>1, VectorIs
  <2>3. c[k + 1] = BorrowBit(a, b, d)
    BY <1>2, <2>1, <2>2
  <2>4. c[k + 1] <=> ((a /\ ~b) \/ ((a <=> b) /\ d))
    BY ONLY <2>3, BorrowIs, a \in BOOLEAN, b \in BOOLEAN, d \in BOOLEAN
  <2>5. PICK p \in Nat, u \in Nat, v \in Nat :
           p = 2^k /\ u = Low(x, k) /\ v = Low(y, k) /\ u < p /\ v < p
    BY <1>1, <2>1, LowBound, PowerOfTwo
  <2>6. d <=> u > v
    BY <1>4, <2>1, <2>2, <2>5
  <2>7. Low(x, k + 1) = u + (IF a THEN p ELSE 0) /\ Low(y, k + 1) = v + (IF b THEN p ELSE 0)
    BY <1>1, <2>1, <2>2, <2>5, LowStep DEF Weight
  <2>8. (u + (IF a THEN p ELSE 0)) > (v + (IF b THEN p ELSE 0))
           <=> ((a /\ ~b) \/ ((a <=> b) /\ d))
    <3>1. CASE a /\ ~b
      BY ONLY <2>5, <3>1, p \in Nat, u \in Nat, v \in Nat
    <3>2. CASE ~a /\ b
      BY ONLY <2>5, <3>2, p \in Nat, u \in Nat, v \in Nat
    <3>3. CASE a /\ b
      BY ONLY <2>6, <3>3, p \in Nat, u \in Nat, v \in Nat
    <3>4. CASE ~a /\ ~b
      BY ONLY <2>6, <3>4, p \in Nat, u \in Nat, v \in Nat
    <3> QED  BY <3>1, <3>2, <3>3, <3>4
  <2> QED  BY ONLY <2>4, <2>7, <2>8
<1> HIDE DEF S
<1>5. \A k \in Nat : k \in S
  BY ONLY <1>3, <1>4, Induction
<1> QED  BY <1>1, <1>5 DEF S

\* GreaterThanGT: the last borrow compares the two numbers, whatever the lengths.
THEOREM ComparisonExact ==
    ASSUME NEW a \in BitVectors, NEW b \in BitVectors
    PROVE  /\ GreaterThanGT(a, b) \in BOOLEAN
           /\ GreaterThanGT(a, b) <=> Number(a) > Number(b)
<1>1. PICK n \in Nat : n = Widest(a, b) /\ Len(a) <= n /\ Len(b) <= n
  BY WidestIs
<1>2. PICK x, y : x = Padded(a, n) /\ y = Padded(b, n)
  OBVIOUS
<1>3. /\ x \in BitVectors /\ Len(x) = n /\ y \in BitVectors /\ Len(y) = n
      /\ Number(x) = Number(a) /\ Number(y) = Number(b)
  BY <1>1, <1>2, PaddedIs, PaddedNumber
<1>4. PICK c : c = Borrows(x, y) /\ IsBorrows(c, x, y)
  BY <1>3, BorrowsAre
<1>5. c[n] <=> Low(x, n) > Low(y, n)
  <2>1. \A k \in 0 .. Len(x) : c[k] <=> Low(x, k) > Low(y, k)
    BY ONLY <1>3, <1>4, BorrowCompares
  <2> QED  BY ONLY <1>3, <2>1, n \in Nat
<1>6. c[n] \in BOOLEAN
  BY <1>3, <1>4 DEF IsBorrows
<1>7. GreaterThanGT(a, b) = c[n]
  BY ONLY <1>1, <1>2, <1>4 DEF GreaterThanGT
<1>8. Number(a) = Low(x, n) /\ Number(b) = Low(y, n)
  BY <1>3, NumberIsLow
<1> QED  BY ONLY <1>5, <1>6, <1>7, <1>8

-----------------------------------------------------------------------------
(* The conditional swap *)

\* conditionalSwap: both vectors come out padded to one length, exchanged or not.
THEOREM SwapExact ==
    ASSUME NEW a \in BitVectors, NEW b \in BitVectors, NEW select \in BOOLEAN
    PROVE  conditionalSwap(a, b, select) =
              IF select THEN <<Padded(b, Widest(a, b)), Padded(a, Widest(a, b))>>
                        ELSE <<Padded(a, Widest(a, b)), Padded(b, Widest(a, b))>>
<1>1. PICK n \in Nat : n = Widest(a, b) /\ Len(a) <= n /\ Len(b) <= n
  BY WidestIs
<1>2. PICK x, y : x = Padded(a, n) /\ y = Padded(b, n)
  OBVIOUS
<1>3. x \in BitVectors /\ Len(x) = n /\ y \in BitVectors /\ Len(y) = n
  BY <1>1, <1>2, PaddedIs
<1>4. PICK z : z = [k \in 1 .. n |-> XOR(x[k], y[k]) /\ select]
  OBVIOUS
<1>5. conditionalSwap(a, b, select) = <<[k \in 1 .. n |-> XOR(x[k], z[k])],
                                        [k \in 1 .. n |-> XOR(y[k], z[k])]>>
  BY ONLY <1>1, <1>2, <1>4 DEF conditionalSwap
<1>6. x = [k \in 1 .. n |-> x[k]] /\ y = [k \in 1 .. n |-> y[k]]
  BY <1>3 DEF BitVectors
<1>7. \A k \in 1 .. n : x[k] \in BOOLEAN /\ y[k] \in BOOLEAN
  BY <1>3, VectorIs
<1>8. CASE select
  <2>1. \A k \in 1 .. n : XOR(x[k], z[k]) = y[k] /\ XOR(y[k], z[k]) = x[k]
    BY <1>4, <1>7, <1>8 DEF XOR
  <2>2. [k \in 1 .. n |-> XOR(x[k], z[k])] = y /\ [k \in 1 .. n |-> XOR(y[k], z[k])] = x
    BY ONLY <1>6, <2>1
  <2> QED  BY ONLY <1>1, <1>2, <1>5, <1>8, <2>2
<1>9. CASE ~select
  <2>1. \A k \in 1 .. n : XOR(x[k], z[k]) = x[k] /\ XOR(y[k], z[k]) = y[k]
    BY <1>4, <1>7, <1>9 DEF XOR
  <2>2. [k \in 1 .. n |-> XOR(x[k], z[k])] = x /\ [k \in 1 .. n |-> XOR(y[k], z[k])] = y
    BY ONLY <1>6, <2>1
  <2> QED  BY ONLY <1>1, <1>2, <1>5, <1>9, <2>2
<1> QED  BY <1>8, <1>9

-----------------------------------------------------------------------------
(* Constants *)

\* A bit put in front doubles the number.
LEMMA Prepend ==
    ASSUME NEW b \in BOOLEAN, NEW v \in BitVectors, NEW w, w = <<b>> \o v
    PROVE  w \in BitVectors /\ Len(w) = Len(v) + 1 /\ Number(w) = Bit(b) + 2 * Number(v)
<1>1. PICK m \in Nat : m = Len(v)
  BY VectorIs
<1>2. PICK u : u = <<b>>
  OBVIOUS
<1>3. u \in Seq(BOOLEAN) /\ Len(u) = 1 /\ u[1] = b /\ v \in Seq(BOOLEAN)
  BY <1>2 DEF BitVectors
<1>4. /\ w \in Seq(BOOLEAN) /\ Len(w) = 1 + m
      /\ \A k \in 1 .. 1 + m : w[k] = IF k <= 1 THEN u[k] ELSE v[k - 1]
  BY <1>1, <1>2, <1>3, ConcatProperties
<1>5. w \in BitVectors /\ Len(w) = m + 1 /\ w[1] = b /\ \A k \in 1 .. m : w[k + 1] = v[k]
  BY <1>3, <1>4 DEF BitVectors
<1> DEFINE S == {k \in Nat : k <= m => Low(w, k + 1) = Bit(b) + 2 * Low(v, k)}
<1>6. 0 \in S
  <2>1. Low(v, 0) = 0 /\ Low(w, 0) = 0
    BY LowOfNone
  <2>2. Low(w, 0 + 1) = Low(w, 0) + Weight(w[0 + 1], 0)
    <3>1. PICK z \in Nat : z = 0 /\ z < Len(w)
      BY <1>5
    <3>2. Low(w, z + 1) = Low(w, z) + Weight(w[z + 1], z)
      BY ONLY <1>5, <3>1, LowStep
    <3> QED  BY <3>1, <3>2
  <2>3. Weight(b, 0) = Bit(b) /\ Bit(b) \in Int
    BY PowerOfTwo DEF Weight, Bit
  <2>4. w[0 + 1] = b
    BY <1>5
  <2> QED  BY ONLY <2>1, <2>2, <2>3, <2>4
<1>7. ASSUME NEW k \in Nat, k \in S PROVE k + 1 \in S
  <2> SUFFICES ASSUME k + 1 <= m PROVE Low(w, (k + 1) + 1) = Bit(b) + 2 * Low(v, k + 1)
    OBVIOUS
  <2>1. PICK n \in Nat : n = k + 1 /\ n < Len(w) /\ k < Len(v) /\ k + 1 \in 1 .. m
    BY <1>1, <1>5
  <2>2. Low(v, k) \in Int /\ Low(v, k + 1) = Low(v, k) + Weight(v[k + 1], k)
    BY <2>1, LowStep
  <2>3. Low(w, n) \in Int /\ Low(w, n + 1) = Low(w, n) + Weight(w[n + 1], n)
    BY <1>5, <2>1, LowStep
  <2>4. w[n + 1] = v[k + 1]
    BY <1>5, <2>1
  <2>5. PICK p \in Nat : p = 2^k /\ 2^(k + 1) = 2 * p
    BY PowerOfTwo
  <2>6. PICK e \in Int : e = Weight(v[k + 1], k) /\ Weight(v[k + 1], n) = 2 * e
    BY <2>1, <2>5 DEF Weight
  <2>7. Low(w, n) = Bit(b) + 2 * Low(v, k)
    BY <1>7, <2>1
  <2>8. Bit(b) \in Int
    BY DEF Bit
  <2> QED  BY ONLY <2>1, <2>2, <2>3, <2>4, <2>6, <2>7, <2>8, e \in Int
<1> HIDE DEF S
<1>8. \A k \in Nat : k \in S
  BY ONLY <1>6, <1>7, Induction
<1>9. Low(w, m + 1) = Bit(b) + 2 * Low(v, m)
  <2>1. m \in S
    BY <1>8
  <2> QED  BY <2>1 DEF S
<1>10. Number(w) = Low(w, m + 1) /\ Number(v) = Low(v, m)
  BY <1>1, <1>5, NumberIsLow
<1> QED  BY ONLY <1>1, <1>5, <1>9, <1>10

\* A number is twice its half and its last bit.
LEMMA Halved ==
    ASSUME NEW n \in Nat, n # 0
    PROVE  /\ n \div 2 \in Nat /\ n \div 2 < n
           /\ n = Bit(n % 2 = 1) + 2 * (n \div 2)
<1>1. PICK q \in Int, r \in 0 .. 1 : q = n \div 2 /\ r = n % 2 /\ n = q * 2 + r
  BY Division, 2 \in Nat \ {0}
<1>2. Bit(n % 2 = 1) = r
  BY <1>1 DEF Bit
<1> QED  BY ONLY <1>1, <1>2, n \in Nat, n # 0

BitsOf(f, n) == IF n = 0 THEN <<>> ELSE <<n % 2 = 1>> \o f[n \div 2]

LEMMA BitsExist == \A n \in Nat : Bits[n] = BitsOf(Bits, n)
<1> DEFINE D == Nat
           V == BitVectors
           F == [g \in [D -> V] |-> [n \in D |-> BitsOf(g, n)]]
           size == [n \in D |-> n]
           start == [n \in D |-> <<>>]
<1>1. ASSUME NEW g \in [D -> V], NEW n \in D PROVE BitsOf(g, n) \in V
  <2>1. CASE n = 0
    BY <2>1 DEF BitsOf, BitVectors
  <2>2. CASE n # 0
    <3>1. g[n \div 2] \in BitVectors /\ (n % 2 = 1) \in BOOLEAN
      BY <2>2, Halved
    <3> QED  BY <2>2, <3>1, Prepend DEF BitsOf
  <2> QED  BY <2>1, <2>2
<1>2. F \in [[D -> V] -> [D -> V]]
  BY <1>1
<1>3. Looks(F, D, V, size)
  <2> SUFFICES ASSUME NEW g \in [D -> V], NEW h \in [D -> V], NEW d \in D,
                      \A e \in D : size[e] < size[d] => g[e] = h[e]
               PROVE  F[g][d] = F[h][d]
    BY DEF Looks
  <2>1. F[g][d] = BitsOf(g, d) /\ F[h][d] = BitsOf(h, d)
    OBVIOUS
  <2>2. CASE d = 0
    BY <2>1, <2>2 DEF BitsOf
  <2>3. CASE d # 0
    <3>1. g[d \div 2] = h[d \div 2]
      BY <2>3, Halved
    <3> QED  BY <2>1, <2>3, <3>1 DEF BitsOf
  <2> QED  BY <2>2, <2>3
<1>4. start \in [D -> V] /\ size \in [D -> Nat]
  BY DEF BitVectors
<1>5. \A g \in [D -> V] : F[g] = [n \in D |-> BitsOf(g, n)]
  OBVIOUS
<1> HIDE DEF F, D, V, size, start
<1>6. PICK h \in [D -> V] : F[h] = h
  <2>1. HasFixpoint(F, D, V)
    BY ONLY <1>2, <1>3, <1>4, MeasuredRecursion
  <2> QED  BY <2>1 DEF HasFixpoint
<1> DEFINE Is(f) == f = [n \in Nat |-> IF n = 0 THEN <<>> ELSE <<n % 2 = 1>> \o f[n \div 2]]
<1>7. Is(h)
  BY <1>5, <1>6 DEF BitsOf, D
<1>8. PICK g : g = CHOOSE f : Is(f)
  OBVIOUS
<1>9. Is(g)
  BY <1>7, <1>8
<1>10. Bits = g
  BY <1>8 DEF Bits
<1> QED  BY <1>9, <1>10 DEF BitsOf

\* Bits: the binary digits of a number, no more of them than it needs.
LEMMA BitsAre ==
    ASSUME NEW l \in Nat, NEW n \in Nat, n < 2^l
    PROVE  Bits[n] \in BitVectors /\ Len(Bits[n]) <= l /\ Number(Bits[n]) = n
<1> DEFINE Good(m, k) == Bits[m] \in BitVectors /\ Len(Bits[m]) <= k /\ Number(Bits[m]) = m
           S == {k \in Nat : \A m \in Nat : m < 2^k => Good(m, k)}
<1>1. ASSUME NEW k \in Nat PROVE Good(0, k)
  <2>1. Bits[0] = <<>>
    BY BitsExist DEF BitsOf
  <2>2. <<>> \in BitVectors /\ Len(<<>>) = 0
    BY DEF BitVectors
  <2>3. Number(<<>>) = 0
    BY <2>2, NumberIsLow, LowOfNone
  <2> QED  BY <2>1, <2>2, <2>3
<1>2. 0 \in S
  <2>1. \A m \in Nat : m < 2^0 => m = 0
    OBVIOUS
  <2> QED  BY <1>1, <2>1
<1>3. ASSUME NEW k \in Nat, k \in S PROVE k + 1 \in S
  <2> SUFFICES ASSUME NEW m \in Nat, m < 2^(k + 1), m # 0 PROVE Good(m, k + 1)
    BY <1>1
  <2>1. PICK h \in Nat, b \in BOOLEAN : h = m \div 2 /\ b = (m % 2 = 1) /\ m = Bit(b) + 2 * h
    BY Halved
  <2>2. h < 2^k
    <3>1. PICK p \in Nat : p = 2^k /\ 2^(k + 1) = 2 * p
      BY PowerOfTwo
    <3> QED  BY <2>1, <3>1 DEF Bit
  <2>3. Good(h, k)
    BY <1>3, <2>2
  <2>4. Bits[m] = <<b>> \o Bits[h]
    BY <2>1, BitsExist DEF BitsOf
  <2>5. /\ Bits[m] \in BitVectors /\ Len(Bits[m]) = Len(Bits[h]) + 1
        /\ Number(Bits[m]) = Bit(b) + 2 * Number(Bits[h])
    BY <2>3, <2>4, Prepend
  <2>6. Len(Bits[h]) \in Nat
    BY <2>3, VectorIs
  <2>7. Number(Bits[m]) = m
    BY ONLY <2>1, <2>3, <2>5
  <2>8. Len(Bits[m]) <= k + 1
    BY ONLY <2>3, <2>5, <2>6, k \in Nat
  <2> QED  BY <2>5, <2>7, <2>8
<1>4. \A k \in Nat : k \in S
  <2> HIDE DEF S
  <2> QED  BY ONLY <1>2, <1>3, Induction
<1> QED  BY <1>4

\* ConsGT: a constant with as many bits as its place has.
ConstantExactFor(value, length) ==
    /\ ConsGT(value, length) \in BitVectors /\ Len(ConsGT(value, length)) = length
    /\ Number(ConsGT(value, length)) = value

THEOREM ConstantExact ==
    ASSUME NEW length \in Nat, NEW value \in Nat, value < 2^length
    PROVE  ConstantExactFor(value, length)
<1>1. PICK id : id = Bits[value]
  OBVIOUS
<1>2. id \in BitVectors /\ Len(id) <= length /\ Number(id) = value /\ Len(id) \in Nat
  BY <1>1, BitsAre, VectorIs
<1>3. ConsGT(value, length) = IF Len(id) < length THEN Padded(id, length) ELSE id
  BY <1>1 DEF ConsGT
<1>4. CASE Len(id) < length
  BY <1>2, <1>3, <1>4, PaddedIs, PaddedNumber DEF ConstantExactFor
<1>5. CASE ~(Len(id) < length)
  BY <1>2, <1>3, <1>5 DEF ConstantExactFor
<1> QED  BY <1>4, <1>5

-----------------------------------------------------------------------------
(* Hamming weights *)

\* The ones among the first k bits.
Ones(v, k) == Cardinality({n \in 1 .. k : v[n]})

LEMMA OnesStep ==
    ASSUME NEW v, NEW k \in Nat
    PROVE  Ones(v, k) \in Nat /\ Ones(v, k + 1) = Ones(v, k) + Bit(v[k + 1])
<1>1. PICK A, B : A = {n \in 1 .. k : v[n]} /\ B = {n \in 1 .. k + 1 : v[n]}
  OBVIOUS
<1>2. IsFiniteSet(1 .. k)
  BY FS_Interval
<1>3. IsFiniteSet(A) /\ Cardinality(A) \in Nat
  <2>1. A \subseteq 1 .. k
    BY <1>1
  <2> QED  BY <1>2, <2>1, FS_Subset, FS_CardinalityType
<1>4. CASE v[k + 1]
  <2>1. B = A \cup {k + 1} /\ ~(k + 1 \in A)
    BY <1>1, <1>4
  <2>2. Cardinality(B) = Cardinality(A) + 1
    BY ONLY <1>3, <2>1, FS_AddElement
  <2> QED  BY <1>1, <1>3, <1>4, <2>2 DEF Ones, Bit
<1>5. CASE ~v[k + 1]
  <2>1. B = A
    BY <1>1, <1>5
  <2>2. Ones(v, k) = Cardinality(A) /\ Ones(v, k + 1) = Cardinality(A)
    BY ONLY <1>1, <2>1 DEF Ones
  <2>3. Bit(v[k + 1]) = 0
    BY ONLY <1>5 DEF Bit
  <2> QED  BY ONLY <1>3, <2>2, <2>3
<1> QED  BY <1>4, <1>5

LEMMA OnesOfNone == ASSUME NEW v PROVE Ones(v, 0) = 0
<1>1. {n \in 1 .. 0 : v[n]} = {}
  OBVIOUS
<1> QED  BY <1>1, FS_EmptySet DEF Ones

\* The ones of a vector are those before an offset and those of the rest.
LEMMA OnesSplit ==
    ASSUME NEW w, NEW s, NEW o \in Nat, NEW m \in Nat, \A k \in 1 .. m : s[k] = w[o + k]
    PROVE  Ones(w, o + m) = Ones(w, o) + Ones(s, m)
<1> DEFINE S == {k \in Nat : k <= m => Ones(w, o + k) = Ones(w, o) + Ones(s, k)}
<1>1. 0 \in S
  BY OnesOfNone, OnesStep
<1>2. ASSUME NEW k \in Nat, k \in S PROVE k + 1 \in S
  <2> SUFFICES ASSUME k + 1 <= m PROVE Ones(w, o + (k + 1)) = Ones(w, o) + Ones(s, k + 1)
    OBVIOUS
  <2>1. PICK n \in Nat : n = o + k /\ n + 1 = o + (k + 1)
    OBVIOUS
  <2>2. Ones(w, n) \in Nat /\ Ones(w, n + 1) = Ones(w, n) + Bit(w[n + 1])
    BY OnesStep
  <2>3. Ones(s, k) \in Nat /\ Ones(s, k + 1) = Ones(s, k) + Bit(s[k + 1])
    BY OnesStep
  <2>4. s[k + 1] = w[n + 1] /\ Ones(w, n) = Ones(w, o) + Ones(s, k)
    BY <1>2, <2>1
  <2>5. Ones(w, o) \in Nat /\ Bit(w[n + 1]) \in Nat
    BY OnesStep DEF Bit
  <2> QED  BY ONLY <2>1, <2>2, <2>3, <2>4, <2>5
<1> HIDE DEF S
<1>3. \A k \in Nat : k \in S
  BY ONLY <1>1, <1>2, Induction
<1> QED  BY <1>3 DEF S

\* Log2Floor
LEMMA Log2FloorIs ==
    ASSUME NEW n \in Nat \ {0}
    PROVE  Log2Floor(n) \in Nat /\ 2^Log2Floor(n) <= n /\ n < 2^(Log2Floor(n) + 1)
<1> DEFINE Is(x, k) == 2^x <= k /\ k < 2^(x+1)
           S == {k \in Nat : \E x \in 0 .. k + 1 : Is(x, k + 1)}
<1>1. 0 \in S
  <2>1. 2^0 = 1 /\ 2^1 = 2
    OBVIOUS
  <2>2. Is(0, 0 + 1) /\ 0 \in 0 .. 0 + 1
    BY <2>1
  <2> HIDE DEF Is
  <2>3. \E x \in 0 .. 0 + 1 : Is(x, 0 + 1)
    BY <2>2
  <2> QED  BY <2>3
<1>2. ASSUME NEW k \in Nat, k \in S PROVE k + 1 \in S
  <2>1. PICK x \in 0 .. k + 1 : Is(x, k + 1)
    BY <1>2
  <2>2. PICK p \in Nat \ {0} : p = 2^x /\ 2^(x + 1) = 2 * p /\ 2^((x + 1) + 1) = 2 * (2 * p)
    BY PowerOfTwo
  <2>3. CASE (k + 1) + 1 < 2 * p
    <3>1. Is(x, (k + 1) + 1)
      BY <2>1, <2>2, <2>3
    <3> QED  BY <3>1
  <2>4. CASE ~((k + 1) + 1 < 2 * p)
    <3>1. Is(x + 1, (k + 1) + 1)
      BY <2>1, <2>2, <2>4
    <3> QED  BY <3>1
  <2> QED  BY <2>3, <2>4
<1>3. \A k \in Nat : k \in S
  <2> HIDE DEF S
  <2> QED  BY ONLY <1>1, <1>2, Induction
<1>4. PICK x \in 0 .. n : Is(x, n)
  <2>1. PICK k \in Nat : k + 1 = n
    <3>1. n - 1 \in Nat /\ (n - 1) + 1 = n
      OBVIOUS
    <3> QED  BY <3>1
  <2>2. k \in S
    BY <1>3
  <2>3. \E x \in 0 .. k + 1 : Is(x, k + 1)
    BY ONLY <2>2
  <2> QED  BY ONLY <2>1, <2>3
<1>5. Log2Floor(n) \in 0 .. n /\ Is(Log2Floor(n), n)
  BY <1>4 DEF Log2Floor
<1> QED  BY <1>5

\* The two halves and the carry in take every bit once, and both are shorter.
HalvesOf(w, u, v, c) ==
    /\ HammingHalves(w) = <<u, v, c>>
    /\ u \in BitVectors /\ v \in BitVectors /\ c \in BOOLEAN
    /\ Len(u) < Len(w) /\ Len(v) < Len(w)
    /\ Ones(w, Len(w)) = Ones(u, Len(u)) + Ones(v, Len(v)) + Bit(c)

LEMMA HalvesExist ==
    ASSUME NEW w \in BitVectors, Len(w) > 0
    PROVE  \E u, v, c : HalvesOf(w, u, v, c)
<1>1. PICK n \in Nat \ {0} : n = Len(w)
  BY VectorIs
<1>2. PICK p \in Nat \ {0} : p = 2^Log2Floor(n) /\ p <= n
  BY Log2FloorIs, PowerOfTwo
<1>3. PICK m \in Nat : m = n - p /\ m = n - FirstHalf(n) - 1
  BY <1>2 DEF FirstHalf
<1>4. PICK u, v, c : u = SubSeq(w, m + 2, n) /\ v = SubSeq(w, 2, m + 1) /\ c = w[1]
  OBVIOUS
<1>5. HammingHalves(w) = <<u, v, c>>
  BY <1>1, <1>3, <1>4 DEF HammingHalves
<1>6. \A k \in 1 .. n : w[k] \in BOOLEAN
  BY <1>1, VectorIs
<1>7. m + 1 <= n
  BY <1>2, <1>3
<1>8. PICK q \in Nat : q = n - m - 1
  BY <1>7
<1>9. u \in BitVectors /\ Len(u) = q /\ \A k \in 1 .. q : u[k] = w[(m + 1) + k]
  <2>1. \A k \in m + 2 .. n : w[k] \in BOOLEAN
    BY <1>6
  <2>2. /\ SubSeq(w, m + 2, n) \in Seq(BOOLEAN)
        /\ Len(SubSeq(w, m + 2, n)) = IF m + 2 <= n THEN n - (m + 2) + 1 ELSE 0
        /\ \A k \in 1 .. n - (m + 2) + 1 : SubSeq(w, m + 2, n)[k] = w[(m + 2) + k - 1]
    BY ONLY <2>1, m + 2 \in Int, n \in Int, SubSeqProperties
  <2>3. n - (m + 2) + 1 = q /\ (m + 2 <= n \/ q = 0)
    BY <1>7, <1>8
  <2>4. \A k \in 1 .. q : (m + 2) + k - 1 = (m + 1) + k
    OBVIOUS
  <2> QED  BY <1>4, <2>2, <2>3, <2>4 DEF BitVectors
<1>10. v \in BitVectors /\ Len(v) = m /\ \A k \in 1 .. m : v[k] = w[1 + k]
  <2>1. \A k \in 2 .. m + 1 : w[k] \in BOOLEAN
    BY <1>6, <1>7
  <2>2. /\ SubSeq(w, 2, m + 1) \in Seq(BOOLEAN)
        /\ Len(SubSeq(w, 2, m + 1)) = IF 2 <= m + 1 THEN (m + 1) - 2 + 1 ELSE 0
        /\ \A k \in 1 .. (m + 1) - 2 + 1 : SubSeq(w, 2, m + 1)[k] = w[2 + k - 1]
    BY ONLY <2>1, 2 \in Int, m + 1 \in Int, SubSeqProperties
  <2>3. (m + 1) - 2 + 1 = m /\ (2 <= m + 1 \/ m = 0) /\ \A k \in 1 .. m : 2 + k - 1 = 1 + k
    OBVIOUS
  <2> QED  BY <1>4, <2>2, <2>3 DEF BitVectors
<1>11. Ones(w, n) = Ones(w, m + 1) + Ones(u, q)
  <2>1. PICK o \in Nat : o = m + 1 /\ o + q = n
    BY <1>8
  <2>2. \A k \in 1 .. q : u[k] = w[o + k]
    BY <1>9, <2>1
  <2>3. Ones(w, o + q) = Ones(w, o) + Ones(u, q)
    BY ONLY <2>2, o \in Nat, q \in Nat, OnesSplit
  <2> QED  BY ONLY <2>1, <2>3
<1>12. Ones(w, 1 + m) = Ones(w, 1) + Ones(v, m)
  <2>1. PICK o \in Nat : o = 1
    OBVIOUS
  <2>2. \A k \in 1 .. m : v[k] = w[o + k]
    BY <1>10, <2>1
  <2>3. Ones(w, o + m) = Ones(w, o) + Ones(v, m)
    BY ONLY <2>2, OnesSplit, o \in Nat, m \in Nat
  <2> QED  BY ONLY <2>1, <2>3
<1>13. Ones(w, 1) = Bit(c) /\ Bit(c) \in Nat /\ c \in BOOLEAN
  <2>1. PICK z \in Nat : z = 0
    OBVIOUS
  <2>2. Ones(w, z + 1) = Ones(w, z) + Bit(w[z + 1]) /\ Ones(w, z) = 0
    BY ONLY <2>1, OnesStep, OnesOfNone, z \in Nat
  <2> QED  BY <1>4, <1>6, <2>1, <2>2 DEF Bit
<1>14. Ones(u, q) \in Nat /\ Ones(v, m) \in Nat
  BY OnesStep
<1>15. 1 + m = m + 1 /\ q < n /\ m < n
  BY <1>7, <1>8
<1>16. Ones(w, n) = Ones(u, q) + Ones(v, m) + Bit(c)
  BY ONLY <1>11, <1>12, <1>13, <1>14, <1>15
<1>17. HalvesOf(w, u, v, c)
  BY ONLY <1>1, <1>5, <1>9, <1>10, <1>13, <1>15, <1>16 DEF HalvesOf
<1> QED  BY <1>17

\* One call of hammingweightRec, with the calls it makes answered by f.
HammingOf(f, wl) ==
    CASE Len(wl) = 0 -> <<FALSE>>
      [] Len(wl) = 1 -> wl
      [] Len(wl) = 2 -> onebitAdditionGT(wl[2], wl[1], FALSE)
      [] Len(wl) = 3 -> onebitAdditionGT(wl[3], wl[2], wl[1])
      [] OTHER -> additionGT(f[HammingHalves(wl)[1]], f[HammingHalves(wl)[2]],
                             HammingHalves(wl)[3])

\* Vectors of one and of two bits.
LEMMA OneBit ==
    ASSUME NEW v \in BitVectors, Len(v) = 1
    PROVE  Number(v) = Bit(v[1])
<1>1. PICK z \in Nat : z = 0 /\ z < Len(v)
  OBVIOUS
<1>2. Low(v, z + 1) = Low(v, z) + Weight(v[z + 1], z)
  BY ONLY <1>1, LowStep, v \in BitVectors
<1>3. Low(v, z) = 0 /\ Number(v) = Low(v, z + 1)
  <2>1. Number(v) = Low(v, 1) /\ Low(v, 0) = 0
    BY LowOfNone, NumberIsLow
  <2>2. z + 1 = 1
    BY <1>1
  <2> QED  BY ONLY <1>1, <2>1, <2>2
<1>4. Weight(v[1], 0) = Bit(v[1])
  BY PowerOfTwo DEF Weight, Bit
<1> QED  BY <1>1, <1>2, <1>3, <1>4 DEF Bit

\* A full adder gives a vector of two bits.
LEMMA AdderVector ==
    ASSUME NEW a \in BOOLEAN, NEW b \in BOOLEAN, NEW c \in BOOLEAN,
           NEW v, v = onebitAdditionGT(a, b, c)
    PROVE  v \in BitVectors /\ Number(v) = Bit(a) + Bit(b) + Bit(c)
<1>1. PICK s \in BOOLEAN, t \in BOOLEAN : /\ s = SumBit(a, b, c) /\ t = CarryBit(a, b, c)
                                          /\ Bit(s) + 2 * Bit(t) = Bit(a) + Bit(b) + Bit(c)
  BY FullAdder
<1>2. v = <<s, t>>
  BY <1>1 DEF onebitAdditionGT
<1>3. v \in BitVectors /\ Len(v) = 2 /\ v[1] = s /\ v[2] = t
  BY <1>2 DEF BitVectors
<1>4. PICK y \in Nat, z \in Nat : y = 0 /\ z = 1 /\ y < Len(v) /\ z < Len(v)
  BY <1>3
<1>5. Low(v, y + 1) = Low(v, y) + Weight(v[y + 1], y)
  BY ONLY <1>3, <1>4, LowStep
<1>6. Low(v, z + 1) = Low(v, z) + Weight(v[z + 1], z)
  BY ONLY <1>3, <1>4, LowStep
<1>7. Low(v, 0) = 0 /\ Number(v) = Low(v, 2)
  BY <1>3, LowOfNone, NumberIsLow
<1>8. 2^0 = 1 /\ 2^1 = 2
  OBVIOUS
<1>9. Weight(s, 0) = Bit(s) /\ Weight(t, 1) = 2 * Bit(t) /\ Bit(s) \in Nat /\ Bit(t) \in Nat
  BY <1>8 DEF Weight, Bit
<1>10. Number(v) = Bit(s) + 2 * Bit(t)
  BY ONLY <1>3, <1>4, <1>5, <1>6, <1>7, <1>9
<1> QED  BY ONLY <1>1, <1>3, <1>10

\* A call returns a vector when the calls it makes do, and the number of ones
\* when they do.
HammingRight(f, wl) == f[wl] \in BitVectors /\ Number(f[wl]) = Ones(wl, Len(wl))

LEMMA HammingShort ==
    ASSUME NEW wl \in BitVectors, Len(wl) < 4, NEW f, NEW v, v = HammingOf(f, wl)
    PROVE  v \in BitVectors /\ Number(v) = Ones(wl, Len(wl))
<1>1. PICK n \in 0 .. 3 : n = Len(wl)
  <2>1. PICK m \in Nat : m = Len(wl)
    BY VectorIs
  <2>2. m < 4
    BY <2>1
  <2>3. m \in 0 .. 3
    BY ONLY <2>2, m \in Nat
  <2> QED  BY ONLY <2>1, <2>3
<1>2. \A k \in 1 .. n : wl[k] \in BOOLEAN
  BY <1>1, VectorIs
<1>3. /\ Ones(wl, 0) = 0
      /\ Ones(wl, 1) = Ones(wl, 0) + Bit(wl[1])
      /\ Ones(wl, 2) = Ones(wl, 1) + Bit(wl[2])
      /\ Ones(wl, 3) = Ones(wl, 2) + Bit(wl[3])
  <2>1. \A k \in Nat : Ones(wl, k + 1) = Ones(wl, k) + Bit(wl[k + 1])
    BY OnesStep
  <2>2. 0 + 1 = 1 /\ 1 + 1 = 2 /\ 2 + 1 = 3
    OBVIOUS
  <2>3. Ones(wl, 0 + 1) = Ones(wl, 0) + Bit(wl[0 + 1])
    BY ONLY <2>1, 0 \in Nat
  <2>4. Ones(wl, 1 + 1) = Ones(wl, 1) + Bit(wl[1 + 1])
    BY ONLY <2>1, 1 \in Nat
  <2>5. Ones(wl, 2 + 1) = Ones(wl, 2) + Bit(wl[2 + 1])
    BY ONLY <2>1, 2 \in Nat
  <2> QED  BY ONLY <2>2, <2>3, <2>4, <2>5, OnesOfNone
<1>4. Bit(wl[1]) \in Nat /\ Bit(wl[2]) \in Nat /\ Bit(wl[3]) \in Nat /\ Bit(FALSE) = 0
  BY DEF Bit
<1>5. CASE n = 0
  <2>1. v = <<FALSE>>
    <3>1. v = HammingOf(f, wl) /\ Len(wl) = 0 /\ 0 # 1 /\ 0 # 2 /\ 0 # 3
      BY <1>1, <1>5
    <3>2. HammingOf(f, wl) = <<FALSE>>
      BY ONLY <3>1, Zenon DEF HammingOf
    <3> QED  BY ONLY <3>1, <3>2, Zenon
  <2>2. v \in BitVectors /\ Len(v) = 1 /\ v[1] = FALSE
    BY <2>1 DEF BitVectors
  <2>3. Number(v) = Bit(v[1])
    BY ONLY <2>2, OneBit
  <2> QED  BY <1>1, <1>3, <1>4, <1>5, <2>2, <2>3
<1>6. CASE n = 1
  <2>1. v = wl
    BY <1>1, <1>6 DEF HammingOf
  <2>2. Number(wl) = Bit(wl[1])
    BY <1>1, <1>6, OneBit
  <2> QED  BY <1>1, <1>3, <1>4, <1>6, <2>1, <2>2
<1>7. CASE n = 2
  <2>1. PICK a \in BOOLEAN, b \in BOOLEAN : a = wl[2] /\ b = wl[1]
    <3>1. wl[1] \in BOOLEAN /\ wl[2] \in BOOLEAN
      BY <1>2, <1>7
    <3> QED  BY ONLY <3>1
  <2>2. v = onebitAdditionGT(a, b, FALSE)
    <3>1. v = HammingOf(f, wl) /\ Len(wl) = 2 /\ 2 # 0 /\ 2 # 1
      BY <1>1, <1>7
    <3>2. HammingOf(f, wl) = onebitAdditionGT(wl[2], wl[1], FALSE)
      BY ONLY <3>1 DEF HammingOf
    <3> QED  BY ONLY <2>1, <3>1, <3>2, Zenon
  <2>3. v \in BitVectors /\ Number(v) = Bit(a) + Bit(b) + Bit(FALSE)
    <3>1. PICK c \in BOOLEAN : c = FALSE
      OBVIOUS
    <3>2. v = onebitAdditionGT(a, b, c)
      BY ONLY <2>2, <3>1, Zenon
    <3>3. v \in BitVectors /\ Number(v) = Bit(a) + Bit(b) + Bit(c)
      BY ONLY <3>2, AdderVector, a \in BOOLEAN, b \in BOOLEAN, c \in BOOLEAN
    <3> QED  BY ONLY <3>1, <3>3, Zenon
  <2>4. Ones(wl, 2) = Bit(b) + Bit(a) /\ Bit(a) \in Nat /\ Bit(b) \in Nat
    BY <1>3, <1>4, <2>1
  <2>6. Bit(FALSE) = 0
    BY ONLY <1>4, Zenon
  <2>7. PICK x \in Nat, y \in Nat : x = Bit(a) /\ y = Bit(b)
    BY ONLY <2>4, <2>6, Zenon
  <2>8. Number(v) = x + y + 0 /\ Ones(wl, 2) = y + x
    BY ONLY <2>3, <2>4, <2>6, <2>7, Zenon
  <2>5. Number(v) = Ones(wl, 2)
    BY ONLY <2>7, <2>8
  <2> QED  BY ONLY <1>1, <1>7, <2>3, <2>5
<1>8. CASE n = 3
  <2>1. PICK a \in BOOLEAN, b \in BOOLEAN, c \in BOOLEAN : a = wl[3] /\ b = wl[2] /\ c = wl[1]
    BY <1>2, <1>8
  <2>2. v = onebitAdditionGT(a, b, c)
    BY <1>1, <1>8, <2>1 DEF HammingOf
  <2>3. v \in BitVectors /\ Number(v) = Bit(a) + Bit(b) + Bit(c)
    BY ONLY <2>2, AdderVector, a \in BOOLEAN, b \in BOOLEAN, c \in BOOLEAN
  <2> QED  BY ONLY <1>1, <1>3, <1>4, <1>8, <2>1, <2>3
<1> QED  BY ONLY <1>5, <1>6, <1>7, <1>8, n \in 0 .. 3

LongSplit(wl, u, v, c) == ~(Len(wl) < 4) /\ HalvesOf(wl, u, v, c)

LEMMA HammingLong ==
    ASSUME NEW wl \in BitVectors, NEW f, NEW u, NEW v, NEW c, LongSplit(wl, u, v, c)
    PROVE  HammingOf(f, wl) = additionGT(f[u], f[v], c)
<1>0. ~(Len(wl) < 4) /\ HalvesOf(wl, u, v, c)
  BY DEF LongSplit
<1>1. PICK n \in Nat : n = Len(wl)
  BY VectorIs
<1>2. Len(wl) # 0 /\ Len(wl) # 1 /\ Len(wl) # 2 /\ Len(wl) # 3
  <2>1. ~(n < 4)
    BY <1>0, <1>1
  <2>2. n # 0 /\ n # 1 /\ n # 2 /\ n # 3
    BY ONLY <2>1, n \in Nat
  <2> QED  BY ONLY <1>1, <2>2
<1>3. HammingHalves(wl)[1] = u /\ HammingHalves(wl)[2] = v /\ HammingHalves(wl)[3] = c
  BY <1>0 DEF HalvesOf
<1> QED  BY <1>2, <1>3 DEF HammingOf

\* Short vectors make no calls.
LEMMA HammingSame ==
    ASSUME NEW wl, Len(wl) = 0 \/ Len(wl) = 1 \/ Len(wl) = 2 \/ Len(wl) = 3, NEW f, NEW g
    PROVE  HammingOf(f, wl) = HammingOf(g, wl)
<1>1. 1 # 0 /\ 2 # 0 /\ 2 # 1 /\ 3 # 0 /\ 3 # 1 /\ 3 # 2
  OBVIOUS
<1> QED  BY <1>1, Zenon DEF HammingOf

\* Only the calls on shorter vectors matter.
AgreeBelow(g, h, d) == \A e \in BitVectors : Len(e) < Len(d) => g[e] = h[e]

LEMMA HammingLooks ==
    ASSUME NEW d \in BitVectors, NEW g, NEW h, AgreeBelow(g, h, d)
    PROVE  HammingOf(g, d) = HammingOf(h, d)
<1>1. CASE Len(d) < 4
  <2>1. PICK n \in Nat : n = Len(d) /\ n < 4
    BY <1>1, VectorIs
  <2>2. Len(d) = 0 \/ Len(d) = 1 \/ Len(d) = 2 \/ Len(d) = 3
    <3>1. n = 0 \/ n = 1 \/ n = 2 \/ n = 3
      BY ONLY <2>1, n \in Nat
    <3> QED  BY ONLY <2>1, <3>1
  <2> QED  BY ONLY <2>2, HammingSame
<1>2. CASE ~(Len(d) < 4)
  <2>1. Len(d) > 0
    BY <1>2, VectorIs
  <2>2. PICK u, v, c : HalvesOf(d, u, v, c)
    BY <2>1, HalvesExist
  <2>3. LongSplit(d, u, v, c)
    BY <1>2, <2>2 DEF LongSplit
  <2>4. HammingOf(g, d) = additionGT(g[u], g[v], c)
    BY ONLY <2>3, HammingLong, d \in BitVectors
  <2>5. HammingOf(h, d) = additionGT(h[u], h[v], c)
    BY ONLY <2>3, HammingLong, d \in BitVectors
  <2>6. g[u] = h[u] /\ g[v] = h[v]
    BY <2>2 DEF HalvesOf, AgreeBelow
  <2> QED  BY ONLY <2>4, <2>5, <2>6
<1> QED  BY <1>1, <1>2

LEMMA HammingExists == \A wl \in BitVectors : hammingweightRec[wl] = HammingOf(hammingweightRec, wl)
<1> DEFINE D == BitVectors
           V == BitVectors
           F == [g \in [D -> V] |-> [wl \in D |-> HammingOf(g, wl)]]
           size == [wl \in D |-> Len(wl)]
           start == [wl \in D |-> <<>>]
<1>1. ASSUME NEW g \in [D -> V], NEW wl \in D PROVE HammingOf(g, wl) \in V
  <2>1. CASE Len(wl) < 4
    BY <2>1, HammingShort
  <2>2. CASE ~(Len(wl) < 4)
    <3>1. Len(wl) > 0
      BY <2>2, VectorIs
    <3>2. PICK u, v, c : HalvesOf(wl, u, v, c)
      BY <3>1, HalvesExist
    <3>6. wl \in BitVectors /\ LongSplit(wl, u, v, c)
      BY <2>2, <3>2 DEF LongSplit
    <3>3. HammingOf(g, wl) = additionGT(g[u], g[v], c)
      BY ONLY <3>6, HammingLong
    <3>4. g[u] \in BitVectors /\ g[v] \in BitVectors /\ c \in BOOLEAN
      BY <3>2 DEF HalvesOf
    <3>5. AdditionExactFor(g[u], g[v], c)
      BY ONLY <3>4, AdditionExact
    <3> QED  BY <3>3, <3>5 DEF AdditionExactFor
  <2> QED  BY <2>1, <2>2
<1>2. F \in [[D -> V] -> [D -> V]]
  BY <1>1
<1>3. Looks(F, D, V, size)
  <2> SUFFICES ASSUME NEW g \in [D -> V], NEW h \in [D -> V], NEW d \in D,
                      \A e \in D : size[e] < size[d] => g[e] = h[e]
               PROVE  F[g][d] = F[h][d]
    BY DEF Looks
  <2>1. F[g][d] = HammingOf(g, d) /\ F[h][d] = HammingOf(h, d)
    OBVIOUS
  <2>2. AgreeBelow(g, h, d)
    BY DEF AgreeBelow
  <2> QED  BY <2>1, <2>2, HammingLooks
<1>4. start \in [D -> V] /\ size \in [D -> Nat]
  BY VectorIs DEF BitVectors
<1>5. \A g \in [D -> V] : F[g] = [wl \in D |-> HammingOf(g, wl)]
  OBVIOUS
<1> HIDE DEF F, D, V, size, start
<1>6. PICK h \in [D -> V] : F[h] = h
  <2>1. HasFixpoint(F, D, V)
    BY ONLY <1>2, <1>3, <1>4, MeasuredRecursion
  <2> QED  BY <2>1 DEF HasFixpoint
<1> DEFINE Is(f) == f = [wl \in BitVectors |-> HammingOf(f, wl)]
<1>7. Is(h)
  BY <1>5, <1>6 DEF D
<1>8. PICK g : g = CHOOSE f : Is(f)
  OBVIOUS
<1>9. Is(g)
  BY <1>7, <1>8
<1>10. hammingweightRec = g
  BY <1>8 DEF hammingweightRec, HammingOf
<1> QED  BY <1>9, <1>10

\* hammingweight counts the ones of a vector of any length: the recursion over
\* unequal halves, with a bit of the vector as carry in, loses and doubles none.
THEOREM HammingExact ==
    ASSUME NEW wl \in BitVectors
    PROVE  hammingweight(wl) \in BitVectors /\ Number(hammingweight(wl)) = Ones(wl, Len(wl))
<1> DEFINE S == {n \in Nat : \A w \in BitVectors : Len(w) < n => HammingRight(hammingweightRec, w)}
<1>1. 0 \in S
  BY VectorIs
<1>2. ASSUME NEW n \in Nat, n \in S PROVE n + 1 \in S
  <2> SUFFICES ASSUME NEW w \in BitVectors, Len(w) < n + 1 PROVE HammingRight(hammingweightRec, w)
    OBVIOUS
  <2>1. PICK f : f = hammingweightRec
    OBVIOUS
  <2>2. PICK r : r = f[w] /\ r = HammingOf(f, w)
    BY <2>1, HammingExists
  <2>3. CASE Len(w) < 4
    <3>1. r \in BitVectors /\ Number(r) = Ones(w, Len(w))
      BY ONLY <2>2, <2>3, HammingShort, w \in BitVectors
    <3> QED  BY <2>1, <2>2, <3>1 DEF HammingRight
  <2>4. CASE ~(Len(w) < 4)
    <3>1. Len(w) > 0 /\ Len(w) \in Nat
      BY <2>4, VectorIs
    <3>2. PICK u, v, c : HalvesOf(w, u, v, c)
      BY <3>1, HalvesExist
    <3>3. r = additionGT(f[u], f[v], c)
      <4>1. LongSplit(w, u, v, c)
        BY <2>4, <3>2 DEF LongSplit
      <4> QED  BY ONLY <2>2, <4>1, HammingLong, w \in BitVectors
    <3>4. /\ u \in BitVectors /\ v \in BitVectors /\ c \in BOOLEAN
          /\ Len(u) < Len(w) /\ Len(v) < Len(w) /\ Len(u) \in Nat /\ Len(v) \in Nat
          /\ Ones(w, Len(w)) = Ones(u, Len(u)) + Ones(v, Len(v)) + Bit(c)
      BY <3>2, VectorIs DEF HalvesOf
    <3>5. HammingRight(f, u) /\ HammingRight(f, v)
      BY <1>2, <2>1, <3>1, <3>4
    <3>6. PICK x \in BitVectors, y \in BitVectors : x = f[u] /\ y = f[v]
      BY <3>5 DEF HammingRight
    <3>7. AdditionExactFor(x, y, c)
      BY ONLY <3>4, AdditionExact, x \in BitVectors, y \in BitVectors
    <3> QED  BY <2>1, <2>2, <3>3, <3>4, <3>5, <3>6, <3>7 DEF AdditionExactFor, HammingRight
  <2> QED  BY <2>3, <2>4
<1>3. \A n \in Nat : n \in S
  <2> HIDE DEF S
  <2> QED  BY ONLY <1>1, <1>2, Induction
<1>4. HammingRight(hammingweightRec, wl)
  <2>1. Len(wl) + 1 \in S /\ Len(wl) < Len(wl) + 1
    BY <1>3, VectorIs
  <2> QED  BY <2>1
<1> QED  BY <1>4 DEF HammingRight, hammingweight

-----------------------------------------------------------------------------
(* Slots *)

\* The numbers in the slots.
NumbersOf(f) == [s \in Slots |-> Number(f[s])]
SlotVectors(f, n) == f \in [Slots -> BitVectors] /\ \A s \in Slots : Len(f[s]) = n

Put(x, k, a) == [x EXCEPT ![k] = a]

LEMMA PutNumbers ==
    ASSUME NEW f \in [Slots -> BitVectors], NEW k \in Slots, NEW v \in BitVectors,
           NEW g, g = Put(f, k, v)
    PROVE  g \in [Slots -> BitVectors] /\ NumbersOf(g) = Put(NumbersOf(f), k, Number(v))
<1>1. g \in [Slots -> BitVectors]
  BY DEF Put
<1>2. \A s \in Slots : Number(g[s]) = IF s = k THEN Number(v) ELSE Number(f[s])
  BY DEF Put
<1>3. NumbersOf(g) = Put(NumbersOf(f), k, Number(v))
  BY ONLY <1>2, k \in Slots DEF NumbersOf, Put
<1> QED  BY <1>1, <1>3

\* One conditional swap between two slots, as the numbers in the slots see it.
SwapAt(f, k, gt) ==
    [f EXCEPT ![k] = conditionalSwap(f[k], f[k-1], gt)[1],
              ![k-1] = conditionalSwap(f[k], f[k-1], gt)[2]]
NumbersSwapped(x, k, gt) ==
    IF gt THEN [x EXCEPT ![k-1] = x[k], ![k] = x[k-1]] ELSE x

LEMMA SwapNumbers ==
    ASSUME NEW f \in [Slots -> BitVectors], NEW k \in Nat, k \in Slots, k - 1 \in Slots,
           NEW gt \in BOOLEAN, NEW g, g = SwapAt(f, k, gt)
    PROVE  /\ g \in [Slots -> BitVectors]
           /\ NumbersOf(g) = NumbersSwapped(NumbersOf(f), k, gt)
           /\ \A n \in Nat : SlotVectors(f, n) => SlotVectors(g, n)
<1>1. PICK a \in BitVectors, b \in BitVectors : a = f[k] /\ b = f[k-1]
  OBVIOUS
<1>2. PICK w \in Nat : w = Widest(a, b) /\ Len(a) <= w /\ Len(b) <= w
  BY WidestIs
<1>3. PICK x \in BitVectors, y \in BitVectors :
         /\ x = Padded(a, w) /\ Len(x) = w /\ Number(x) = Number(a)
         /\ y = Padded(b, w) /\ Len(y) = w /\ Number(y) = Number(b)
  BY <1>2, PaddedIs, PaddedNumber
<1>4. PICK u \in BitVectors, v \in BitVectors :
         /\ conditionalSwap(a, b, gt)[1] = u /\ conditionalSwap(a, b, gt)[2] = v
         /\ Len(u) = w /\ Len(v) = w
         /\ Number(u) = IF gt THEN Number(b) ELSE Number(a)
         /\ Number(v) = IF gt THEN Number(a) ELSE Number(b)
  <2>1. conditionalSwap(a, b, gt) = IF gt THEN <<y, x>> ELSE <<x, y>>
    BY <1>2, <1>3, SwapExact
  <2>2. CASE gt
    <3>1. conditionalSwap(a, b, gt)[1] = y /\ conditionalSwap(a, b, gt)[2] = x
      BY ONLY <2>1, <2>2
    <3> QED  BY <1>3, <2>2, <3>1
  <2>3. CASE ~gt
    <3>1. conditionalSwap(a, b, gt)[1] = x /\ conditionalSwap(a, b, gt)[2] = y
      BY ONLY <2>1, <2>3
    <3> QED  BY <1>3, <2>3, <3>1
  <2> QED  BY <2>2, <2>3
<1>5. g = [f EXCEPT ![k] = u, ![k-1] = v]
  BY <1>1, <1>4 DEF SwapAt
<1>6. g \in [Slots -> BitVectors]
  BY <1>5
<1>7. k # k - 1
  OBVIOUS
<1>8. \A s \in Slots : g[s] = IF s = k THEN u ELSE IF s = k - 1 THEN v ELSE f[s]
  BY <1>5, <1>7
<1>9. NumbersOf(g) = NumbersSwapped(NumbersOf(f), k, gt)
  <2>1. CASE gt
    <3>1. \A s \in Slots : Number(g[s]) = IF s = k THEN Number(b)
                                          ELSE IF s = k - 1 THEN Number(a) ELSE Number(f[s])
      BY <1>4, <1>8, <2>1
    <3>2. NumbersOf(f)[k] = Number(a) /\ NumbersOf(f)[k-1] = Number(b)
      BY <1>1 DEF NumbersOf
    <3>3. NumbersOf(g) = [NumbersOf(f) EXCEPT ![k-1] = Number(a), ![k] = Number(b)]
      BY ONLY <1>7, <3>1, k \in Slots, k - 1 \in Slots DEF NumbersOf
    <3> QED  BY ONLY <2>1, <3>2, <3>3 DEF NumbersSwapped
  <2>2. CASE ~gt
    <3>1. \A s \in Slots : Number(g[s]) = Number(f[s])
      BY <1>1, <1>4, <1>8, <2>2
    <3>2. NumbersOf(g) = NumbersOf(f)
      BY ONLY <3>1 DEF NumbersOf
    <3> QED  BY ONLY <2>2, <3>2 DEF NumbersSwapped
  <2> QED  BY <2>1, <2>2
<1>10. ASSUME NEW n \in Nat, SlotVectors(f, n) PROVE SlotVectors(g, n)
  <2>1. Len(a) = n /\ Len(b) = n
    BY <1>1, <1>10 DEF SlotVectors
  <2>2. w = n
    BY <1>2, <2>1 DEF Widest
  <2> QED  BY <1>4, <1>6, <1>8, <1>10, <2>2 DEF SlotVectors
<1> QED  BY <1>6, <1>9, <1>10

LEMMA CeilLog2Is ==
    ASSUME NEW n \in Nat \ {0}
    PROVE  CeilLog2(n) \in Nat /\ n <= 2^CeilLog2(n)
<1> DEFINE Is(x, k) == 2^x >= k /\ (x > 0 => 2^(x-1) < k)
           S == {k \in Nat : \E x \in 0 .. k + 1 : Is(x, k + 1)}
<1>1. 0 \in S
  <2>1. 2^0 = 1
    OBVIOUS
  <2>2. Is(0, 0 + 1) /\ 0 \in 0 .. 0 + 1
    BY <2>1
  <2> HIDE DEF Is
  <2>3. \E x \in 0 .. 0 + 1 : Is(x, 0 + 1)
    BY <2>2
  <2> QED  BY <2>3
<1>2. ASSUME NEW k \in Nat, k \in S PROVE k + 1 \in S
  <2>1. PICK x \in 0 .. k + 1 : Is(x, k + 1)
    BY <1>2
  <2>2. PICK p \in Nat \ {0} : p = 2^x /\ 2^(x + 1) = 2 * p
    BY PowerOfTwo
  <2>3. CASE p >= (k + 1) + 1
    <3>1. Is(x, (k + 1) + 1)
      <4>1. x > 0 => 2^(x-1) \in Nat
        BY PowerOfTwo
      <4> QED  BY <2>1, <2>2, <2>3, <4>1
    <3> QED  BY <3>1
  <2>4. CASE ~(p >= (k + 1) + 1)
    <3>1. Is(x + 1, (k + 1) + 1)
      <4>1. (x + 1) - 1 = x
        OBVIOUS
      <4> QED  BY <2>1, <2>2, <2>4, <4>1
    <3> QED  BY <3>1
  <2> QED  BY <2>3, <2>4
<1>3. \A k \in Nat : k \in S
  <2> HIDE DEF S
  <2> QED  BY ONLY <1>1, <1>2, Induction
<1>4. PICK x \in 0 .. n : Is(x, n)
  <2>1. PICK k \in Nat : k + 1 = n
    <3>1. n - 1 \in Nat /\ (n - 1) + 1 = n
      OBVIOUS
    <3> QED  BY <3>1
  <2>2. k \in S
    BY <1>3
  <2>3. \E x \in 0 .. k + 1 : Is(x, k + 1)
    BY ONLY <2>2
  <2> QED  BY ONLY <2>1, <2>3
<1>5. CeilLog2(n) \in 0 .. n /\ Is(CeilLog2(n), n)
  BY <1>4 DEF CeilLog2
<1>6. 2^CeilLog2(n) \in Nat
  BY <1>5, PowerOfTwo
<1> QED  BY <1>5, <1>6

\* The id of a row fits the wires it is given.
LEMMA RowIDExact ==
    ASSUME ParameterAssumption, NEW r \in Rows
    PROVE  RowID(r) \in BitVectors /\ Len(RowID(r)) = IdBits /\ Number(RowID(r)) = r
<1>1. M \in Nat \ {0} /\ r \in Nat /\ r < M
  BY DEF ParameterAssumption, Rows
<1>2. IdBits \in Nat /\ M <= 2^IdBits /\ 2^IdBits \in Nat
  BY <1>1, CeilLog2Is, PowerOfTwo DEF IdBits
<1>3. r < 2^IdBits
  BY <1>1, <1>2
<1>4. ConstantExactFor(r, IdBits)
  BY ONLY <1>1, <1>2, <1>3, ConstantExact
<1> QED  BY <1>4 DEF ConstantExactFor, RowID

\* The placeholder has a one on every wire.
LEMMA PlaceholderExact ==
    ASSUME NEW d \in Nat
    PROVE  /\ ConsGT(2^d - 1, d) \in BitVectors
           /\ Number(ConsGT(2^d - 1, d)) = 2^d - 1
<1>1. PICK v \in Nat : v = 2^d - 1 /\ v < 2^d
  BY PowerOfTwo
<1>2. ConstantExactFor(v, d)
  BY ONLY <1>1, ConstantExact, d \in Nat, v \in Nat
<1> QED  BY <1>1, <1>2 DEF ConstantExactFor

-----------------------------------------------------------------------------
(* The circuit *)

\* The distances computed so far are those of their rows.
DistancesExact ==
    /\ distances \in Seq(BitVectors) /\ Len(distances) <= M
    /\ \A r \in 1 .. Len(distances) : Number(distances[r]) = PlainDistance(r - 1)

\* Before the search nothing has been set that it uses; in it every slot holds
\* a distance and an id of IdBits wires.
SlotsReady ==
    /\ ~Searching => i = 0 /\ j = 0 /\ DISTANCE_BIT_SIZE = L
    /\ Searching => /\ Len(distances) = M
                    /\ minDist \in [Slots -> BitVectors] /\ SlotVectors(minID, IdBits)

IInv ==
    /\ input \in Inputs
    /\ DistancesExact /\ SlotsReady
    /\ i \in 0 .. M /\ j \in Slots /\ (j > 0 => i < M)

LEMMA InvariantTypeOK == ASSUME ParameterAssumption, IInv PROVE TypeOK
<1>1. \A r \in 1 .. Len(distances) : distances[r] \in BitVectors
  BY DEF IInv, DistancesExact
<1> QED  BY <1>1 DEF IInv, DistancesExact, SlotsReady, SlotVectors, TypeOK

LEMMA SlotsExist == ASSUME ParameterAssumption PROVE 0 \in Slots /\ K \in Slots
BY DEF ParameterAssumption, Slots

LEMMA InitInvariant == ASSUME ParameterAssumption, Init PROVE IInv
<1>1. ~Searching
  BY DEF Init, Searching
<1>2. distances \in Seq(BitVectors) /\ Len(distances) = 0
  BY DEF Init
<1>3. M \in Nat
  BY DEF ParameterAssumption
<1> QED  BY <1>1, <1>2, <1>3, SlotsExist DEF Init, IInv, DistancesExact, SlotsReady

\* Inputs have the widths that computeFunction asserts.
LEMMA HammingInput ==
    ASSUME ParameterAssumption, NEW in \in Inputs, in.protNum = 0, NEW r \in Rows
    PROVE  in.server[r] \in Vectors(N) /\ in.client \in Vectors(N)
BY DEF ParameterAssumption, InputType

LEMMA ShareInput ==
    ASSUME ParameterAssumption, NEW in \in Inputs, in.protNum = 1, NEW r \in Rows
    PROVE  in.server[r] \in Vectors(L) /\ in.client[r] \in Vectors(L)
BY DEF ParameterAssumption, InputType

\* The two ways to compute a distance.
HammingWires(in, r) ==
    hammingweight([k \in DOMAIN in.server[r] |-> XOR(in.client[k], in.server[r][k])])
ShareWires(in, r) == subGT(in.server[r], in.client[r])

\* A vector carries the distance it should.
CarriesHamming(v, in, r) ==
    Number(v) = Cardinality({k \in 1 .. N : in.server[r][k] # in.client[k]})

LEMMA HammingDistanceExact ==
    ASSUME ParameterAssumption, NEW in \in Inputs, in.protNum = 0, NEW r \in Rows
    PROVE  /\ HammingWires(in, r) \in BitVectors
           /\ CarriesHamming(HammingWires(in, r), in, r)
<1>1. PICK row, client : row = in.server[r] /\ client = in.client
  OBVIOUS
<1>2. row \in [1 .. N -> BOOLEAN] /\ client \in [1 .. N -> BOOLEAN] /\ N \in Nat
  BY <1>1, HammingInput DEF Vectors, ParameterAssumption
<1>3. PICK x : x = [k \in DOMAIN row |-> XOR(client[k], row[k])]
  OBVIOUS
<1>4. x \in [1 .. N -> BOOLEAN] /\ \A k \in 1 .. N : x[k] = XOR(client[k], row[k])
  BY <1>2, <1>3 DEF XOR
<1>5. x \in BitVectors /\ Len(x) = N
  BY ONLY <1>2, <1>4, IsVector
<1>6. {k \in 1 .. N : x[k]} = {k \in 1 .. N : row[k] # client[k]}
  <2>1. \A k \in 1 .. N : x[k] <=> row[k] # client[k]
    BY <1>2, <1>4, Zenon DEF XOR
  <2> QED  BY ONLY <2>1
<1>7. hammingweight(x) \in BitVectors /\ Number(hammingweight(x)) = Ones(x, N)
  BY ONLY <1>5, HammingExact
<1> QED  BY ONLY <1>1, <1>3, <1>6, <1>7 DEF Ones, HammingWires, CarriesHamming

LEMMA ShareDistanceExact ==
    ASSUME ParameterAssumption, NEW in \in Inputs, in.protNum = 1, NEW r \in Rows
    PROVE  /\ ShareWires(in, r) \in BitVectors
           /\ Number(ShareWires(in, r)) = (Number(in.server[r]) - Number(in.client[r])) % 2^L
<1>1. PICK a, b : a = in.server[r] /\ b = in.client[r]
  OBVIOUS
<1>2. a \in [1 .. L -> BOOLEAN] /\ b \in [1 .. L -> BOOLEAN] /\ L \in Nat
  BY <1>1, ShareInput DEF Vectors, ParameterAssumption
<1>3. a \in BitVectors /\ Len(a) = L /\ b \in BitVectors /\ Len(b) = L
  BY ONLY <1>2, IsVector
<1>4. SubtractionExactFor(a, b, L)
  BY ONLY <1>2, <1>3, SubtractionExact
<1> QED  BY ONLY <1>1, <1>4 DEF SubtractionExactFor, ShareWires

\* One more distance.
LEMMA OneMoreDistance ==
    ASSUME ParameterAssumption, DistancesExact, input' = input, Len(distances) < M,
           NEW v \in BitVectors, Number(v) = PlainDistance(Len(distances)),
           distances' = Append(distances, v)
    PROVE  DistancesExact'
<1>0. PICK e : e = distances'
  OBVIOUS
<1>1. PICK d \in Seq(BitVectors), n \in Nat : d = distances /\ n = Len(d)
  BY DEF DistancesExact
<1>2. /\ e \in Seq(BitVectors) /\ Len(e) = n + 1 /\ e[n + 1] = v
      /\ \A k \in 1 .. n : e[k] = d[k]
  BY <1>0, <1>1, AppendProperties
<1>3. \A r \in Nat : PlainDistance(r)' = PlainDistance(r)
  BY DEF PlainDistance
<1>4. ASSUME NEW r \in 1 .. n + 1 PROVE Number(e[r]) = PlainDistance(r - 1)
  <2>1. CASE r = n + 1
    <3>1. r - 1 = n
      BY <2>1
    <3> QED  BY ONLY <1>1, <1>2, <2>1, <3>1, Number(v) = PlainDistance(Len(distances))
  <2>2. CASE r # n + 1
    <3>1. r \in 1 .. n
      BY ONLY <2>2, r \in 1 .. n + 1, n \in Nat
    <3>2. Number(d[r]) = PlainDistance(r - 1)
      BY <1>1, <3>1 DEF DistancesExact
    <3> QED  BY ONLY <1>2, <3>1, <3>2
  <2> QED  BY <2>1, <2>2
<1>5. \A r \in 1 .. n + 1 : r - 1 \in Nat
  OBVIOUS
<1>6. n + 1 <= M
  BY <1>1 DEF ParameterAssumption
<1> QED  BY <1>0, <1>1, <1>2, <1>3, <1>4, <1>5, <1>6 DEF DistancesExact

LEMMA DistancesKept ==
    ASSUME DistancesExact, UNCHANGED <<input, distances>>
    PROVE  DistancesExact'
<1>1. \A r \in Int : PlainDistance(r)' = PlainDistance(r)
  BY DEF PlainDistance
<1>2. \A r \in 1 .. Len(distances) : r - 1 \in Int
  BY DEF DistancesExact
<1> QED  BY <1>1, <1>2 DEF DistancesExact

LEMMA HammingDistanceInvariant ==
    ASSUME ParameterAssumption, IInv, HammingDistance
    PROVE  IInv'
<1>1. PICK in \in Inputs, r \in Rows : in = input /\ r = Len(distances) /\ in.protNum = 0
  BY DEF ParameterAssumption, IInv, DistancesExact, HammingDistance, Rows
<1>2. PICK v \in BitVectors : v = HammingWires(in, r) /\ CarriesHamming(v, in, r)
  BY <1>1, HammingDistanceExact
<1>3. Number(v) = PlainDistance(Len(distances))
  BY <1>1, <1>2 DEF PlainDistance, CarriesHamming
<1>4. distances' = Append(distances, v)
  BY <1>1, <1>2 DEF HammingDistance, HammingWires
<1>5. DistancesExact' /\ input' \in Inputs
  BY <1>3, <1>4, OneMoreDistance DEF IInv, HammingDistance
<1>6. ~Searching
  BY DEF IInv, SlotsReady, HammingDistance, ParameterAssumption
<1>7. SlotsReady'
  BY <1>6 DEF IInv, SlotsReady, HammingDistance, Searching
<1> QED  BY <1>5, <1>7 DEF IInv, HammingDistance

LEMMA SharedDistanceInvariant ==
    ASSUME ParameterAssumption, IInv, SharedDistance
    PROVE  IInv'
<1>1. PICK in \in Inputs, r \in Rows : in = input /\ r = Len(distances) /\ in.protNum = 1
  BY DEF ParameterAssumption, IInv, DistancesExact, SharedDistance, Rows
<1>2. PICK v \in BitVectors :
        v = ShareWires(in, r)
        /\ Number(v) = (Number(in.server[r]) - Number(in.client[r])) % 2^L
  BY <1>1, ShareDistanceExact
<1>3. Number(v) = PlainDistance(Len(distances))
  BY <1>1, <1>2 DEF PlainDistance
<1>4. distances' = Append(distances, v)
  BY <1>1, <1>2 DEF SharedDistance, ShareWires
<1>5. DistancesExact' /\ input' \in Inputs
  BY <1>3, <1>4, OneMoreDistance DEF IInv, SharedDistance
<1>6. ~Searching
  BY DEF IInv, SlotsReady, SharedDistance, ParameterAssumption
<1>7. SlotsReady'
  BY <1>6 DEF IInv, SlotsReady, SharedDistance, Searching
<1> QED  BY <1>5, <1>7 DEF IInv, SharedDistance

\* The width of the placeholders: StartSearch gives the Hamming distances theirs.
SearchBits(in) == IF in.protNum = 0 THEN CeilLog2(N) ELSE L

LEMMA StartSearchEffect ==
    ASSUME ParameterAssumption, IInv, StartSearch
    PROVE  /\ Searching' /\ ~Searching
           /\ minDist' \in [Slots -> BitVectors] /\ SlotVectors(minID, IdBits)'
           /\ NumbersOf(minDist)' = [s \in Slots |-> 2^SearchBits(input) - 1]
           /\ NumbersOf(minID)' = [s \in Slots |-> 0]
<1>1. PICK d \in Nat : d = SearchBits(input) /\ d = DISTANCE_BIT_SIZE'
  BY CeilLog2Is DEF StartSearch, SearchBits, ParameterAssumption, IInv, SlotsReady
<1>2. PICK v \in BitVectors : v = ConsGT(2^d - 1, d) /\ Number(v) = 2^d - 1
  BY PlaceholderExact
<1>3. PICK z \in BitVectors : z = RowID(0) /\ z = ConsGT(0, IdBits) /\ Len(z) = IdBits /\ Number(z) = 0
  <2>1. 0 \in Rows
    BY DEF ParameterAssumption, Rows
  <2>2. RowID(0) = ConsGT(0, IdBits)
    BY DEF RowID
  <2> QED  BY <2>1, <2>2, RowIDExact
<1>4. PICK f, g : f = minDist' /\ g = minID' /\ f = [s \in Slots |-> v] /\ g = [s \in Slots |-> z]
  BY <1>1, <1>2, <1>3 DEF StartSearch
<1>5. f \in [Slots -> BitVectors] /\ SlotVectors(g, IdBits)
  BY <1>3, <1>4 DEF SlotVectors
<1>6. NumbersOf(f) = [s \in Slots |-> 2^d - 1] /\ NumbersOf(g) = [s \in Slots |-> 0]
  BY <1>2, <1>3, <1>4 DEF NumbersOf
<1>7. f # <<>>
  <2>1. DOMAIN f = Slots /\ DOMAIN <<>> = {}
    BY <1>4
  <2> QED  BY <2>1, SlotsExist
<1>8. NumbersOf(minDist)' = NumbersOf(f) /\ NumbersOf(minID)' = NumbersOf(g)
      /\ (SlotVectors(minID, IdBits)' <=> SlotVectors(g, IdBits))
  BY <1>4 DEF NumbersOf, SlotVectors
<1> QED  BY <1>1, <1>4, <1>5, <1>6, <1>7, <1>8 DEF Searching, StartSearch

LEMMA StartSearchInvariant ==
    ASSUME ParameterAssumption, IInv, StartSearch
    PROVE  IInv'
<1>1. DistancesExact'
  BY DistancesKept DEF IInv, StartSearch
<1>2. SlotsReady'
  BY <1>1, StartSearchEffect DEF IInv, SlotsReady, StartSearch
<1> QED  BY <1>1, <1>2 DEF IInv, StartSearch

\* What a load does to the numbers in the slots.
LEMMA LoadEffect ==
    ASSUME ParameterAssumption, IInv, Load
    PROVE  /\ Searching /\ Searching'
           /\ minDist' \in [Slots -> BitVectors] /\ SlotVectors(minID, IdBits)'
           /\ NumbersOf(minDist)' = [NumbersOf(minDist) EXCEPT ![K] = PlainDistance(i)]
           /\ NumbersOf(minID)' = [NumbersOf(minID) EXCEPT ![K] = i]
<1>1. PICK f \in [Slots -> BitVectors], g \in [Slots -> BitVectors] :
         f = minDist /\ g = minID /\ SlotVectors(g, IdBits)
  BY DEF IInv, SlotsReady, SlotVectors, Load
<1>2. PICK r \in Rows : r = i /\ r \in 0 .. M /\ r < M
  BY DEF IInv, Load, Rows, ParameterAssumption
<1>3. PICK v \in BitVectors : v = distances[i+1] /\ Number(v) = PlainDistance(i)
  <2>1. i + 1 \in 1 .. Len(distances) /\ (i + 1) - 1 = i
    BY <1>2 DEF IInv, SlotsReady, Load, ParameterAssumption
  <2>2. distances[i+1] \in BitVectors
    BY <2>1 DEF IInv, DistancesExact
  <2>3. Number(distances[i+1]) = PlainDistance((i + 1) - 1)
    BY <2>1 DEF IInv, DistancesExact
  <2> QED  BY <2>1, <2>2, <2>3
<1>4. PICK w \in BitVectors : w = RowID(r) /\ Len(w) = IdBits /\ Number(w) = r
  BY RowIDExact
<1>5. PICK x, y : x = [f EXCEPT ![K] = v] /\ y = [g EXCEPT ![K] = w]
  OBVIOUS
<1>6. x = minDist' /\ y = minID'
  BY <1>1, <1>2, <1>3, <1>4, <1>5 DEF Load
<1>7. x \in [Slots -> BitVectors] /\ NumbersOf(x) = Put(NumbersOf(f), K, Number(v))
  <2>1. K \in Slots /\ x = Put(f, K, v)
    BY <1>5, SlotsExist DEF Put
  <2> QED  BY ONLY <2>1, PutNumbers, f \in [Slots -> BitVectors], v \in BitVectors
<1>8. y \in [Slots -> BitVectors] /\ NumbersOf(y) = Put(NumbersOf(g), K, Number(w))
  <2>1. K \in Slots /\ y = Put(g, K, w)
    BY <1>5, SlotsExist DEF Put
  <2> QED  BY ONLY <2>1, PutNumbers, g \in [Slots -> BitVectors], w \in BitVectors
<1>9. SlotVectors(y, IdBits)
  BY <1>1, <1>4, <1>5, <1>8 DEF SlotVectors
<1>10. x # <<>>
  <2>1. DOMAIN x = Slots /\ DOMAIN <<>> = {}
    BY <1>7
  <2> QED  BY <2>1, SlotsExist
<1>11. NumbersOf(minDist)' = NumbersOf(x) /\ NumbersOf(minID)' = NumbersOf(y)
       /\ (SlotVectors(minID, IdBits)' <=> SlotVectors(y, IdBits))
  BY <1>6 DEF NumbersOf, SlotVectors
<1>12. NumbersOf(minDist)' = [NumbersOf(minDist) EXCEPT ![K] = PlainDistance(i)]
  BY ONLY <1>1, <1>3, <1>7, <1>11 DEF Put
<1>13. NumbersOf(minID)' = [NumbersOf(minID) EXCEPT ![K] = i]
  BY ONLY <1>1, <1>2, <1>4, <1>8, <1>11 DEF Put
<1> QED  BY <1>6, <1>7, <1>9, <1>10, <1>11, <1>12, <1>13 DEF Searching, Load

LEMMA LoadInvariant ==
    ASSUME ParameterAssumption, IInv, Load
    PROVE  IInv'
<1>1. DistancesExact'
  BY DistancesKept DEF IInv, Load
<1>2. SlotsReady'
  BY LoadEffect DEF IInv, SlotsReady, Load
<1>3. j' \in Slots
  BY SlotsExist DEF Load
<1> QED  BY <1>1, <1>2, <1>3 DEF IInv, Load

\* What a comparison with its two swaps does to the numbers in the slots.
LEMMA CompareSwapEffect ==
    ASSUME ParameterAssumption, IInv, CompareSwap
    PROVE  /\ Searching /\ Searching'
           /\ j \in 1 .. K /\ j - 1 \in Slots
           /\ minDist' \in [Slots -> BitVectors] /\ SlotVectors(minID, IdBits)'
           /\ \E gt \in BOOLEAN :
                /\ gt <=> NumbersOf(minDist)[j-1] > NumbersOf(minDist)[j]
                /\ NumbersOf(minDist)' = NumbersSwapped(NumbersOf(minDist), j, gt)
                /\ NumbersOf(minID)' = NumbersSwapped(NumbersOf(minID), j, gt)
<1>1. j \in 1 .. K /\ j - 1 \in Slots /\ K \in Nat /\ Searching
  BY DEF IInv, SlotsReady, CompareSwap, ParameterAssumption, Slots
<1>2. PICK k \in Nat : k = j /\ k \in Slots /\ k - 1 \in Slots
  BY <1>1 DEF IInv
<1>3. PICK f \in [Slots -> BitVectors], g \in [Slots -> BitVectors] :
         f = minDist /\ g = minID /\ SlotVectors(g, IdBits)
  BY <1>1 DEF IInv, SlotsReady, SlotVectors
<1>4. f[k] \in BitVectors /\ f[k-1] \in BitVectors
  BY <1>2
<1>5. PICK gt \in BOOLEAN : gt = GreaterThanGT(f[k-1], f[k]) /\ (gt <=> Number(f[k-1]) > Number(f[k]))
  BY <1>4, ComparisonExact
<1>6. PICK x, y : x = SwapAt(f, k, gt) /\ y = SwapAt(g, k, gt)
  OBVIOUS
<1>7. minDist' = x /\ minID' = y
  BY <1>2, <1>3, <1>5, <1>6 DEF CompareSwap, SwapSlots, SwapAt
<1>8. x \in [Slots -> BitVectors] /\ NumbersOf(x) = NumbersSwapped(NumbersOf(f), k, gt)
  BY <1>2, <1>6, SwapNumbers
<1>9. y \in [Slots -> BitVectors] /\ NumbersOf(y) = NumbersSwapped(NumbersOf(g), k, gt)
  BY <1>2, <1>6, SwapNumbers
<1>10. SlotVectors(y, IdBits)
  <2>1. IdBits \in Nat
    BY CeilLog2Is DEF IdBits, ParameterAssumption
  <2> QED  BY <1>2, <1>3, <1>6, <2>1, SwapNumbers
<1>11. x # <<>>
  <2>1. DOMAIN x = Slots /\ DOMAIN <<>> = {}
    BY <1>8
  <2> QED  BY <2>1, SlotsExist
<1>12. NumbersOf(minDist)' = NumbersOf(x) /\ NumbersOf(minID)' = NumbersOf(y)
       /\ (SlotVectors(minID, IdBits)' <=> SlotVectors(y, IdBits))
  BY <1>7 DEF NumbersOf, SlotVectors
<1>13. NumbersOf(f)[k-1] = Number(f[k-1]) /\ NumbersOf(f)[k] = Number(f[k])
  BY <1>2 DEF NumbersOf
<1>14. /\ gt <=> NumbersOf(minDist)[j-1] > NumbersOf(minDist)[j]
       /\ NumbersOf(minDist)' = NumbersSwapped(NumbersOf(minDist), j, gt)
       /\ NumbersOf(minID)' = NumbersSwapped(NumbersOf(minID), j, gt)
  BY ONLY <1>2, <1>3, <1>5, <1>8, <1>9, <1>12, <1>13
<1> QED  BY <1>1, <1>7, <1>8, <1>10, <1>11, <1>12, <1>14 DEF Searching

LEMMA CompareSwapInvariant ==
    ASSUME ParameterAssumption, IInv, CompareSwap
    PROVE  IInv'
<1>1. DistancesExact'
  BY DistancesKept DEF IInv, CompareSwap
<1>2. SlotsReady'
  BY CompareSwapEffect DEF IInv, SlotsReady, CompareSwap
<1>3. j \in 1 .. K /\ j - 1 \in Slots /\ i \in 0 .. M /\ i < M /\ M \in Nat /\ K \in Nat
  BY CompareSwapEffect DEF IInv, ParameterAssumption, CompareSwap
<1>4. i' \in 0 .. M /\ (j' > 0 => i' < M)
  BY <1>3 DEF CompareSwap
<1> QED  BY <1>1, <1>2, <1>3, <1>4 DEF IInv, CompareSwap

LEMMA NextInvariant == ASSUME ParameterAssumption, IInv, [Next]_vars PROVE IInv'
<1>1. CASE UNCHANGED vars
  <2>1. DistancesExact'
    BY <1>1, DistancesKept DEF IInv, vars
  <2>2. SlotsReady'
    BY <1>1 DEF IInv, SlotsReady, SlotVectors, Searching, vars
  <2> QED  BY <1>1, <2>1, <2>2 DEF IInv, vars
<1> QED  BY <1>1, HammingDistanceInvariant, SharedDistanceInvariant, StartSearchInvariant,
            LoadInvariant, CompareSwapInvariant DEF Next

\* In every reachable state each wire vector has the width its place needs.
THEOREM TypeCorrect == Spec => []TypeOK
<1>1. Init => IInv
  BY ParameterAssumption, InitInvariant
<1>2. IInv /\ [Next]_vars => IInv'
  BY ParameterAssumption, NextInvariant
<1>3. IInv => TypeOK
  BY ParameterAssumption, InvariantTypeOK
<1> QED  BY <1>1, <1>2, <1>3, PTL DEF Spec

-----------------------------------------------------------------------------
(* Searching *)

\* What both instances of Knn see of a step: the slots as numbers.
LEMMA SlotNumbersAre ==
    ASSUME NEW none
    PROVE  /\ Searching => SlotNumbers(minDist, none) = NumbersOf(minDist)
           /\ Searching => SlotNumbers(minID, none) = NumbersOf(minID)
           /\ ~Searching => SlotNumbers(minDist, none) = [s \in Slots |-> none]
           /\ ~Searching => SlotNumbers(minID, none) = [s \in Slots |-> none]
BY DEF SlotNumbers, NumbersOf

LEMMA SlotNumbersNext ==
    ASSUME NEW none
    PROVE  /\ Searching' => SlotNumbers(minDist, none)' = NumbersOf(minDist)'
           /\ Searching' => SlotNumbers(minID, none)' = NumbersOf(minID)'
           /\ ~Searching' => SlotNumbers(minDist, none)' = [s \in Slots |-> none]
           /\ ~Searching' => SlotNumbers(minID, none)' = [s \in Slots |-> none]
BY DEF SlotNumbers, NumbersOf

RowDistances == [r \in Rows |-> PlainDistance(r)]

LEMMA RowDistancesKept == ASSUME input' = input PROVE RowDistances' = RowDistances
<1>1. \A r \in Rows : PlainDistance(r)' = PlainDistance(r)
  BY DEF PlainDistance
<1> QED  BY <1>1 DEF RowDistances

\* The distances of the rows are natural numbers.
LEMMA PlainDistanceType ==
    ASSUME ParameterAssumption, input \in Inputs, NEW r \in Rows
    PROVE  PlainDistance(r) \in Nat
<1>1. PICK in \in Inputs : in = input /\ (in.protNum = 0 \/ in.protNum = 1)
  BY DEF ParameterAssumption, InputType
<1>2. CASE in.protNum = 0
  <2>1. PICK A : A = {k \in 1 .. N : in.server[r][k] # in.client[k]}
    OBVIOUS
  <2>2. IsFiniteSet(1 .. N) /\ A \subseteq 1 .. N
    BY <2>1, FS_Interval DEF ParameterAssumption
  <2>3. Cardinality(A) \in Nat
    BY ONLY <2>2, FS_Subset, FS_CardinalityType
  <2> QED  BY <1>1, <1>2, <2>1, <2>3 DEF PlainDistance
<1>3. CASE in.protNum = 1
  <2>1. PICK a, b : a = in.server[r] /\ b = in.client[r]
    OBVIOUS
  <2>2. a \in [1 .. L -> BOOLEAN] /\ b \in [1 .. L -> BOOLEAN] /\ L \in Nat
    BY <1>3, <2>1, ShareInput DEF Vectors, ParameterAssumption
  <2>3. Number(a) \in Nat /\ Number(b) \in Nat
    BY ONLY <2>2, IsVector, NumberBound
  <2>4. PICK x \in Int, m \in Nat \ {0} : x = Number(a) - Number(b) /\ m = 2^L
    BY <2>2, <2>3, PowerOfTwo
  <2>5. x % m \in Nat
    BY ONLY x \in Int, m \in Nat \ {0}
  <2> QED  BY <1>1, <1>3, <2>1, <2>4, <2>5 DEF PlainDistance
<1> QED  BY <1>1, <1>2, <1>3


\* A step of the search on numbers d (distances) and e (ids) in the slots.
NumbersLoaded(d, e, dNext, eNext) ==
    /\ j = 0 /\ i < M
    /\ dNext = Put(d, K, PlainDistance(i)) /\ eNext = Put(e, K, i)
    /\ j' = K /\ i' = i
NumbersCompared(d, e, dNext, eNext) ==
    /\ j > 0
    /\ dNext = NumbersSwapped(d, j, d[j-1] > d[j])
    /\ eNext = NumbersSwapped(e, j, d[j-1] > d[j])
    /\ j' = j - 1 /\ i' = IF j = 1 THEN i + 1 ELSE i
NumbersKept(d, e, dNext, eNext) == dNext = d /\ eNext = e /\ UNCHANGED <<i, j>>

SearchStep(d, e, dNext, eNext) ==
    \/ NumbersKept(d, e, dNext, eNext)
    \/ NumbersLoaded(d, e, dNext, eNext) \/ NumbersCompared(d, e, dNext, eNext)

\* Every step of the circuit is one of the search or none, whatever the protocol.
LEMMA NextSearches ==
    ASSUME ParameterAssumption, IInv, [Next]_vars, NEW none, none = 2^SearchBits(input) - 1
    PROVE  /\ input' = input
           /\ SearchStep(SlotNumbers(minDist, none), SlotNumbers(minID, 0),
                         SlotNumbers(minDist, none)', SlotNumbers(minID, 0)')
<1>1. PICK d, e : d = SlotNumbers(minDist, none) /\ e = SlotNumbers(minID, 0)
  OBVIOUS
<1>2. PICK dNext, eNext : dNext = SlotNumbers(minDist, none)' /\ eNext = SlotNumbers(minID, 0)'
  OBVIOUS
<1>3. input' = input
  BY DEF Next, vars, HammingDistance, SharedDistance, StartSearch, Load, CompareSwap
<1>4. CASE HammingDistance \/ SharedDistance \/ UNCHANGED vars
  <2>1. UNCHANGED <<minDist, minID, i, j>>
    BY <1>4 DEF HammingDistance, SharedDistance, vars
  <2>2. dNext = d /\ eNext = e
    BY <1>1, <1>2, <2>1 DEF SlotNumbers, Searching
  <2>3. NumbersKept(d, e, dNext, eNext)
    BY <2>1, <2>2 DEF NumbersKept
  <2> QED  BY ONLY <1>1, <1>2, <1>3, <2>3 DEF SearchStep
<1>5. CASE StartSearch
  <2>1. /\ ~Searching /\ Searching'
        /\ NumbersOf(minDist)' = [s \in Slots |-> 2^SearchBits(input) - 1]
        /\ NumbersOf(minID)' = [s \in Slots |-> 0]
    BY <1>5, StartSearchEffect
  <2>2. d = [s \in Slots |-> none] /\ e = [s \in Slots |-> 0]
    BY <1>1, <2>1 DEF SlotNumbers
  <2>3. dNext = NumbersOf(minDist)' /\ eNext = NumbersOf(minID)'
    BY <1>2, <2>1 DEF SlotNumbers, NumbersOf
  <2>4. UNCHANGED <<i, j>>
    BY <1>5 DEF StartSearch
  <2>5. dNext = d /\ eNext = e
    BY ONLY <2>1, <2>2, <2>3, none = 2^SearchBits(input) - 1
  <2>6. NumbersKept(d, e, dNext, eNext)
    BY <2>4, <2>5 DEF NumbersKept
  <2> QED  BY ONLY <1>1, <1>2, <1>3, <2>6 DEF SearchStep
<1>6. CASE Load
  <2>1. /\ Searching /\ Searching'
        /\ NumbersOf(minDist)' = Put(NumbersOf(minDist), K, PlainDistance(i))
        /\ NumbersOf(minID)' = Put(NumbersOf(minID), K, i)
    BY <1>6, LoadEffect DEF Put
  <2>2. d = NumbersOf(minDist) /\ e = NumbersOf(minID)
    BY <1>1, <2>1 DEF SlotNumbers, NumbersOf
  <2>3. dNext = NumbersOf(minDist)' /\ eNext = NumbersOf(minID)'
    BY <1>2, <2>1 DEF SlotNumbers, NumbersOf
  <2>4. j = 0 /\ i < M /\ j' = K /\ i' = i
    BY <1>6 DEF Load
  <2>5. NumbersLoaded(d, e, dNext, eNext)
    BY ONLY <2>1, <2>2, <2>3, <2>4 DEF NumbersLoaded
  <2> QED  BY ONLY <1>1, <1>2, <1>3, <2>5 DEF SearchStep
<1>7. CASE CompareSwap
  <2>1. Searching /\ Searching'
    BY <1>7, CompareSwapEffect
  <2>2. d = NumbersOf(minDist) /\ e = NumbersOf(minID)
    BY <1>1, <2>1 DEF SlotNumbers, NumbersOf
  <2>3. dNext = NumbersOf(minDist)' /\ eNext = NumbersOf(minID)'
    BY <1>2, <2>1 DEF SlotNumbers, NumbersOf
  <2>4. PICK gt \in BOOLEAN :
          /\ gt <=> NumbersOf(minDist)[j-1] > NumbersOf(minDist)[j]
          /\ NumbersOf(minDist)' = NumbersSwapped(NumbersOf(minDist), j, gt)
          /\ NumbersOf(minID)' = NumbersSwapped(NumbersOf(minID), j, gt)
    BY <1>7, CompareSwapEffect
  <2>5. gt <=> d[j-1] > d[j]
    BY ONLY <2>2, <2>4
  <2>6. /\ dNext = NumbersSwapped(d, j, d[j-1] > d[j])
        /\ eNext = NumbersSwapped(e, j, d[j-1] > d[j])
    BY ONLY <2>2, <2>3, <2>4, <2>5 DEF NumbersSwapped
  <2>7. j > 0 /\ j' = j - 1 /\ i' = IF j = 1 THEN i + 1 ELSE i
    BY <1>7 DEF CompareSwap
  <2>8. NumbersCompared(d, e, dNext, eNext)
    BY ONLY <2>6, <2>7 DEF NumbersCompared
  <2> QED  BY ONLY <1>1, <1>2, <1>3, <2>8 DEF SearchStep
<1> QED  BY <1>4, <1>5, <1>6, <1>7 DEF Next

\* Before the search every slot counts as a placeholder with id 0.
LEMMA InitSearches ==
    ASSUME ParameterAssumption, Init, NEW none
    PROVE  /\ RowDistances \in [Rows -> Nat]
           /\ SlotNumbers(minDist, none) = [s \in Slots |-> none]
           /\ SlotNumbers(minID, 0) = [s \in Slots |-> 0]
           /\ i = 0 /\ j = 0
<1>1. RowDistances \in [Rows -> Nat]
  BY PlainDistanceType DEF RowDistances, Init
<1>2. ~Searching
  BY DEF Init, Searching
<1> QED  BY <1>1, <1>2 DEF Init, SlotNumbers

\* Hamming distances.
LEMMA HammingInit ==
    ASSUME ParameterAssumption, Init
    PROVE  HammingSearch!Init
BY InitSearches DEF HammingSearch!Init, HammingSearch!MaxValue, HammingSearch!Slots, Slots,
                    RowDistances

LEMMA HammingNext ==
    ASSUME ParameterAssumption, IInv, [Next]_vars
    PROVE  [input.protNum = 0 => HammingSearch!Next]_(HammingSearch!vars)
<1> SUFFICES ASSUME input.protNum = 0 PROVE [HammingSearch!Next]_(HammingSearch!vars)
  OBVIOUS
<1>1. PICK none : none = 2^CeilLog2(N) - 1 /\ none = 2^SearchBits(input) - 1
  BY DEF SearchBits
<1>2. PICK d, e, dNext, eNext :
         /\ d = SlotNumbers(minDist, none) /\ dNext = SlotNumbers(minDist, none)'
         /\ e = SlotNumbers(minID, 0) /\ eNext = SlotNumbers(minID, 0)'
  OBVIOUS
<1>3. input' = input /\ SearchStep(d, e, dNext, eNext)
  BY ONLY <1>1, <1>2, NextSearches, ParameterAssumption, IInv, [Next]_vars
<1>4. PICK x : x = RowDistances /\ x = RowDistances'
  BY <1>3, RowDistancesKept
<1>5. HammingSearch!vars = <<x, d, e, i, j>>
  BY <1>1, <1>2, <1>4 DEF HammingSearch!vars, RowDistances
<1>6. (HammingSearch!vars)' = <<x, dNext, eNext, i', j'>>
  BY <1>1, <1>2, <1>4 DEF HammingSearch!vars, RowDistances, SlotNumbers
<1>7. CASE NumbersKept(d, e, dNext, eNext)
  BY <1>5, <1>6, <1>7 DEF NumbersKept
<1>8. CASE NumbersLoaded(d, e, dNext, eNext)
  <2>1. i \in Rows
    BY <1>8 DEF NumbersLoaded, IInv, Rows, ParameterAssumption
  <2>2. RowDistances[i] = PlainDistance(i)
    BY <2>1 DEF RowDistances
  <2>3. HammingSearch!Load
    BY <1>1, <1>2, <1>4, <1>8, <2>2
       DEF NumbersLoaded, Put, HammingSearch!Load, HammingSearch!RowID, RowDistances, SlotNumbers
  <2> QED  BY <2>3 DEF HammingSearch!Next
<1>9. CASE NumbersCompared(d, e, dNext, eNext)
  <2>1. /\ SlotNumbers(minDist, 2^CeilLog2(N) - 1) = d
        /\ SlotNumbers(minDist, 2^CeilLog2(N) - 1)' = dNext
    BY <1>1, <1>2 DEF SlotNumbers
  <2>2. UNCHANGED [r \in Rows |-> PlainDistance(r)]
    BY <1>4 DEF RowDistances
  <2>3. /\ dNext = HammingSearch!SwapIf(d[j-1] > d[j], d, j - 1, j)
        /\ eNext = HammingSearch!SwapIf(d[j-1] > d[j], e, j - 1, j)
    BY ONLY <1>9 DEF NumbersCompared, NumbersSwapped, HammingSearch!SwapIf
  <2>4. j > 0 /\ j' = j - 1 /\ i' = IF j = 1 THEN i + 1 ELSE i
    BY ONLY <1>9 DEF NumbersCompared
  <2>5. HammingSearch!CompareSwap
    BY ONLY <1>2, <2>1, <2>2, <2>3, <2>4
       DEF HammingSearch!CompareSwap, HammingSearch!GreaterThan
  <2> QED  BY <2>5 DEF HammingSearch!Next
<1> QED  BY <1>3, <1>7, <1>8, <1>9 DEF SearchStep

\* Distances of shares.
LEMMA SharesInit ==
    ASSUME ParameterAssumption, Init
    PROVE  ShareSearch!Init
BY InitSearches DEF ShareSearch!Init, ShareSearch!MaxValue, ShareSearch!Slots, Slots,
                    RowDistances

LEMMA SharesNext ==
    ASSUME ParameterAssumption, IInv, [Next]_vars
    PROVE  [input.protNum = 1 => ShareSearch!Next]_(ShareSearch!vars)
<1> SUFFICES ASSUME input.protNum = 1 PROVE [ShareSearch!Next]_(ShareSearch!vars)
  OBVIOUS
<1>1. PICK none : none = 2^L - 1 /\ none = 2^SearchBits(input) - 1
  BY DEF SearchBits
<1>2. PICK d, e, dNext, eNext :
         /\ d = SlotNumbers(minDist, none) /\ dNext = SlotNumbers(minDist, none)'
         /\ e = SlotNumbers(minID, 0) /\ eNext = SlotNumbers(minID, 0)'
  OBVIOUS
<1>3. input' = input /\ SearchStep(d, e, dNext, eNext)
  BY ONLY <1>1, <1>2, NextSearches, ParameterAssumption, IInv, [Next]_vars
<1>4. PICK x : x = RowDistances /\ x = RowDistances'
  BY <1>3, RowDistancesKept
<1>5. ShareSearch!vars = <<x, d, e, i, j>>
  BY <1>1, <1>2, <1>4 DEF ShareSearch!vars, RowDistances
<1>6. (ShareSearch!vars)' = <<x, dNext, eNext, i', j'>>
  BY <1>1, <1>2, <1>4 DEF ShareSearch!vars, RowDistances, SlotNumbers
<1>7. CASE NumbersKept(d, e, dNext, eNext)
  BY <1>5, <1>6, <1>7 DEF NumbersKept
<1>8. CASE NumbersLoaded(d, e, dNext, eNext)
  <2>1. i \in Rows
    BY <1>8 DEF NumbersLoaded, IInv, Rows, ParameterAssumption
  <2>2. RowDistances[i] = PlainDistance(i)
    BY <2>1 DEF RowDistances
  <2>3. ShareSearch!Load
    BY <1>1, <1>2, <1>4, <1>8, <2>2
       DEF NumbersLoaded, Put, ShareSearch!Load, ShareSearch!RowID, RowDistances, SlotNumbers
  <2> QED  BY <2>3 DEF ShareSearch!Next
<1>9. CASE NumbersCompared(d, e, dNext, eNext)
  <2>1. /\ SlotNumbers(minDist, 2^L - 1) = d
        /\ SlotNumbers(minDist, 2^L - 1)' = dNext
    BY <1>1, <1>2 DEF SlotNumbers
  <2>2. UNCHANGED [r \in Rows |-> PlainDistance(r)]
    BY <1>4 DEF RowDistances
  <2>3. /\ dNext = ShareSearch!SwapIf(d[j-1] > d[j], d, j - 1, j)
        /\ eNext = ShareSearch!SwapIf(d[j-1] > d[j], e, j - 1, j)
    BY ONLY <1>9 DEF NumbersCompared, NumbersSwapped, ShareSearch!SwapIf
  <2>4. j > 0 /\ j' = j - 1 /\ i' = IF j = 1 THEN i + 1 ELSE i
    BY ONLY <1>9 DEF NumbersCompared
  <2>5. ShareSearch!CompareSwap
    BY ONLY <1>2, <2>1, <2>2, <2>3, <2>4
       DEF ShareSearch!CompareSwap, ShareSearch!GreaterThan
  <2> QED  BY <2>5 DEF ShareSearch!Next
<1> QED  BY <1>3, <1>7, <1>8, <1>9 DEF SearchStep

\* For every database and fingerprint of one-bit strengths the circuit of gates
\* searches as Knn does on ordinary Hamming distances.
THEOREM HammingImplementsKnn == Spec => SearchesHamming
<1>1. Init => IInv /\ (input.protNum = 0 => HammingSearch!Init)
  BY ParameterAssumption, InitInvariant, HammingInit
<1>2. IInv /\ [Next]_vars => IInv'
  BY ParameterAssumption, NextInvariant
<1>3. IInv /\ [Next]_vars => [input.protNum = 0 => HammingSearch!Next]_(HammingSearch!vars)
  BY ParameterAssumption, HammingNext
<1> QED  BY <1>1, <1>2, <1>3, PTL DEF Spec, SearchesHamming

\* For every pair of shares of L bits the circuit of gates searches as Knn does
\* on the distances the shares stand for.
THEOREM SharesImplementKnn == Spec => SearchesShares
<1>1. Init => IInv /\ (input.protNum = 1 => ShareSearch!Init)
  BY ParameterAssumption, InitInvariant, SharesInit
<1>2. IInv /\ [Next]_vars => IInv'
  BY ParameterAssumption, NextInvariant
<1>3. IInv /\ [Next]_vars => [input.protNum = 1 => ShareSearch!Next]_(ShareSearch!vars)
  BY ParameterAssumption, SharesNext
<1> QED  BY <1>1, <1>2, <1>3, PTL DEF Spec, SearchesShares

=============================================================================
