----------------------------- MODULE PPILGates -----------------------------
(***************************************************************************)
(* The building blocks of PPILCircuit as functions on bit vectors.  A wire *)
(* is its plain bit (HalfGates shows that the garbled wires carry it), a   *)
(* vector of wires a sequence of bits, least significant first: wl[i] of   *)
(* the code is wl[i+1] here.                                               *)
(***************************************************************************)
EXTENDS Integers, Sequences, Functions

BitVectors == Seq(BOOLEAN)
Zeros(n) == [k \in 1 .. n |-> FALSE]

\* The unsigned number a vector stands for.
Number(wl) == SumFunction([k \in DOMAIN wl |-> IF wl[k] THEN 2^(k-1) ELSE 0])

\* env.XOR
XOR(a, b) == a # b

\* equalizeSize: the shorter vector is padded with zero labels.
Widest(a, b) == IF Len(a) > Len(b) THEN Len(a) ELSE Len(b)
Padded(wl, size) == wl \o Zeros(size - Len(wl))

\* One full adder with a single AND gate.
SumBit(a, b, c) == XOR(XOR(a, b), c)
CarryBit(a, b, c) == XOR(XOR(a, b) /\ XOR(a, c), a)
onebitAdditionGT(a, b, c) == <<SumBit(a, b, c), CarryBit(a, b, c)>>

\* carries[k]: the carry into position k+1 when x and y are added.
Carries(x, y, in) ==
    LET carry[k \in 0 .. Len(x)] ==
            IF k = 0 THEN in ELSE CarryBit(x[k], y[k], carry[k-1])
    IN  carry
RippleSum(x, y, carry) == [k \in 1 .. Len(x) |-> SumBit(x[k], y[k], carry[k-1])]

additionGT(a, b, in) ==
    LET size == Widest(a, b)
        x == Padded(a, size)  y == Padded(b, size)
        carry == Carries(x, y, in)
    IN  Append(RippleSum(x, y, carry), carry[size])

\* a plus the complement of b plus one, without the last carry.
subGT_NoCarryIn(a, b) ==
    LET y == [k \in DOMAIN b |-> ~b[k]]
    IN  RippleSum(a, y, Carries(a, y, FALSE))
subGT(a, b) ==
    LET y == [k \in DOMAIN b |-> ~b[k]]
    IN  RippleSum(a, y, Carries(a, y, TRUE))

\* Sizes of the halves hammingweightRec adds, with wl[0] as the carry in: the
\* first is the largest 2^x - 1 that leaves room for the carry.
Log2Floor(n) == CHOOSE x \in 0 .. n : 2^x <= n /\ n < 2^(x+1)
FirstHalf(len) == 2^Log2Floor(len) - 1

HammingHalves(wl) ==
    LET v_len == Len(wl) - FirstHalf(Len(wl)) - 1
    IN  <<SubSeq(wl, v_len + 2, Len(wl)), SubSeq(wl, 2, v_len + 1), wl[1]>>

hammingweightRec[wl \in BitVectors] ==
    CASE Len(wl) = 0 -> <<FALSE>>
      [] Len(wl) = 1 -> wl
      [] Len(wl) = 2 -> onebitAdditionGT(wl[2], wl[1], FALSE)
      [] Len(wl) = 3 -> onebitAdditionGT(wl[3], wl[2], wl[1])
      [] OTHER -> LET halves == HammingHalves(wl)
                  IN  additionGT(hammingweightRec[halves[1]],
                                 hammingweightRec[halves[2]], halves[3])
hammingweight(wl) == hammingweightRec[wl]

\* GreaterThanGT: the borrow chain ((a^c) & (b^c)) ^ a ends in a > b.
GreaterThanGT_NoPadding(a, b) ==
    LET size == IF Len(a) < Len(b) THEN Len(a) ELSE Len(b)
        c[k \in 0 .. size] ==
            IF k = 0 THEN FALSE
            ELSE XOR(XOR(a[k], c[k-1]) /\ XOR(b[k], c[k-1]), a[k])
    IN  c[size]
Borrows(x, y) ==
    LET c[k \in 0 .. Len(x)] ==
            IF k = 0 THEN FALSE
            ELSE XOR(XOR(x[k], c[k-1]) /\ XOR(y[k], c[k-1]), x[k])
    IN  c
GreaterThanGT(a, b) ==
    LET size == Widest(a, b)
    IN  Borrows(Padded(a, size), Padded(b, size))[size]

\* conditionalSwap leaves both vectors padded to one size.
conditionalSwap(a, b, select) ==
    LET size == Widest(a, b)
        x == Padded(a, size)  y == Padded(b, size)
        z == [k \in 1 .. size |-> XOR(x[k], y[k]) /\ select]
    IN  <<[k \in 1 .. size |-> XOR(x[k], z[k])],
          [k \in 1 .. size |-> XOR(y[k], z[k])]>>

\* ConsGT: the bits of a constant, padded to a length.
Bits[n \in Nat] == IF n = 0 THEN <<>> ELSE <<n % 2 = 1>> \o Bits[n \div 2]
ConsGT(value, length) ==
    LET id == Bits[value]
    IN  IF Len(id) < length THEN Padded(id, length) ELSE id
=============================================================================
