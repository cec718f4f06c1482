-------------------------- MODULE HalfGatesProofs --------------------------
(***************************************************************************)
(* For every circuit, hash and label width: garbler and evaluator read     *)
(* every message for what it was written for, the evaluator's labels       *)
(* encode the plain values, and the outputs it decodes are right.          *)
(*                                                                         *)
(* The argument follows the connection.  A stage, with the wires, tables   *)
(* and outputs done in it, determines how many messages were written by    *)
(* the side that writes and read by the side that reads (Position, Back);  *)
(* what stands at every position is a function of the garbler's labels.    *)
(***************************************************************************)
EXTENDS HalfGates, FiniteSetTheorems, SequenceTheorems, TLAPS

-----------------------------------------------------------------------------
(* Gates, for labels of any width, any hash and any offset with its select bit set *)

\* The label of a wire with 0-label zero and plain value bit.
LabelOf(zero, bit, delta) == Xor(zero, When(bit, delta))

\* XOR adds membership of every bit modulo two.
LEMMA XorMember ==
    ASSUME NEW a, NEW b, NEW x
    PROVE  x \in Xor(a, b) <=> ~(x \in a <=> x \in b)
BY DEF Xor

LEMMA XorZero ==
    ASSUME NEW a
    PROVE  Xor(a, Zero) = a
BY DEF Xor, Zero

\* WireLabel::operator^ on two labels of wires: the offsets of two ones cancel,
\* which makes XOR gates free.
THEOREM XorCorrect ==
    ASSUME NEW a0, NEW b0, NEW delta, NEW va \in BOOLEAN, NEW vb \in BOOLEAN
    PROVE  Xor(LabelOf(a0, va, delta), LabelOf(b0, vb, delta)) = LabelOf(Xor(a0, b0), va # vb, delta)
<1>1. CASE va /\ vb
  BY <1>1 DEF LabelOf, When, Xor, Zero
<1>2. CASE va /\ ~vb
  BY <1>2 DEF LabelOf, When, Xor, Zero
<1>3. CASE ~va /\ vb
  BY <1>3 DEF LabelOf, When, Xor, Zero
<1>4. CASE ~va /\ ~vb
  BY <1>4 DEF LabelOf, When, Xor, Zero
<1> QED  BY <1>1, <1>2, <1>3, <1>4

\* The evaluator's NOT leaves the label, the garbler's adds the offset.
THEOREM NotCorrect ==
    ASSUME NEW a0, NEW delta, NEW va \in BOOLEAN
    PROVE  LabelOf(a0, va, delta) = LabelOf(Xor(a0, delta), ~va, delta)
<1>1. CASE va
  BY <1>1 DEF LabelOf, When, Xor, Zero
<1>2. CASE ~va
  BY <1>2 DEF LabelOf, When, Xor, Zero
<1> QED  BY <1>1, <1>2

\* The first half gate, of the garbler's permute bit: its table row is right
\* whichever label the evaluator has.
LEMMA GarblerHalf ==
    ASSUME NEW a0, NEW delta, NEW id, NEW va \in BOOLEAN, NEW pb \in BOOLEAN, LSB(delta),
           NEW tg, tg = Xor(Xor(Hash(a0, id), Hash(Xor(a0, delta), id)), When(pb, delta))
    PROVE  LET a == LabelOf(a0, va, delta)
           IN  Xor(Hash(a, id), When(LSB(a), tg))
                 = Xor(Xor(Hash(a0, id), When(LSB(a0), tg)), When(va /\ pb, delta))
<1> DEFINE h0 == Hash(a0, id)
           h1 == Hash(Xor(a0, delta), id)
<1>1. CASE ~va
  <2>1. LabelOf(a0, va, delta) = a0
    BY <1>1, XorZero DEF LabelOf, When
  <2>2. Xor(Xor(Hash(a0, id), When(LSB(a0), tg)), When(va /\ pb, delta))
          = Xor(Hash(a0, id), When(LSB(a0), tg))
    BY <1>1, XorZero DEF When
  <2> QED  BY <2>1, <2>2
<1>2. CASE va
  <2>1. LabelOf(a0, va, delta) = Xor(a0, delta)
    BY <1>2 DEF LabelOf, When
  <2>2. LSB(Xor(a0, delta)) <=> ~LSB(a0)
    BY XorMember DEF LSB
  <2>3. tg = Xor(Xor(h0, h1), When(pb, delta))
    OBVIOUS
  <2>4. CASE LSB(a0)
    <3>1. Xor(h1, Zero) = Xor(Xor(h0, Xor(Xor(h0, h1), When(pb, delta))), When(pb, delta))
      <4> HIDE DEF h0, h1
      <4> QED  BY DEF Xor, Zero
    <3> QED  BY <1>2, <2>1, <2>2, <2>3, <2>4, <3>1 DEF When
  <2>5. CASE ~LSB(a0)
    <3>1. Xor(h1, Xor(Xor(h0, h1), When(pb, delta))) = Xor(Xor(h0, Zero), When(pb, delta))
      <4> HIDE DEF h0, h1
      <4> QED  BY DEF Xor, Zero
    <3> QED  BY <1>2, <2>1, <2>2, <2>3, <2>5, <3>1 DEF When
  <2> QED  BY <2>4, <2>5
<1> QED  BY <1>1, <1>2

\* The second half gate, of the evaluator's select bit.
LEMMA EvaluatorHalf ==
    ASSUME NEW a0, NEW b0, NEW delta, NEW id, NEW va \in BOOLEAN, NEW vb \in BOOLEAN, LSB(delta),
           NEW te, te = TableE(delta, a0, b0, id)
    PROVE  LET a == LabelOf(a0, va, delta)
               b == LabelOf(b0, vb, delta)
           IN  Xor(Hash(b, id), When(LSB(b), Xor(te, a)))
                 = Xor(Xor(Hash(b0, id), When(LSB(b0), Xor(te, a0))),
                       When(va /\ (vb # LSB(b0)), delta))
<1> DEFINE a == LabelOf(a0, va, delta)
           h0 == Hash(b0, id)
           h1 == Hash(Xor(b0, delta), id)
<1>1. te = Xor(Xor(h0, h1), a0)
  BY DEF TableE
<1>2. a = Xor(a0, When(va, delta))
  BY DEF LabelOf
<1>3. LSB(b0) \in BOOLEAN
  BY DEF LSB
<1>4. CASE ~vb
  <2>1. LabelOf(b0, vb, delta) = b0
    BY <1>4, XorZero DEF LabelOf, When
  <2>2. CASE LSB(b0)
    <3>1. Xor(h0, Xor(te, a)) = Xor(Xor(h0, Xor(te, a0)), When(va, delta))
      <4> HIDE DEF h0, h1, a
      <4> QED  BY <1>2 DEF Xor
    <3> QED  BY <1>4, <2>1, <2>2, <3>1 DEF When
  <2>3. CASE ~LSB(b0)
    <3>1. When(va /\ (vb # LSB(b0)), delta) = Zero
      BY <1>3, <1>4, <2>3 DEF When
    <3>2. Xor(h0, Zero) = Xor(Xor(h0, Zero), Zero)
      BY XorZero
    <3> QED  BY <2>1, <2>3, <3>1, <3>2 DEF When
  <2> QED  BY <2>2, <2>3
<1>5. CASE vb
  <2>1. LabelOf(b0, vb, delta) = Xor(b0, delta)
    BY <1>5 DEF LabelOf, When
  <2>2. LSB(Xor(b0, delta)) <=> ~LSB(b0)
    BY XorMember DEF LSB
  <2>3. CASE LSB(b0)
    <3>1. Xor(h1, Zero) = Xor(Xor(h0, Xor(te, a0)), Zero)
      <4> HIDE DEF h0, h1, a
      <4> QED  BY <1>1 DEF Xor, Zero
    <3> QED  BY <1>5, <2>1, <2>2, <2>3, <3>1 DEF When
  <2>4. CASE ~LSB(b0)
    <3>1. Xor(h1, Xor(te, a)) = Xor(Xor(h0, Zero), When(va, delta))
      <4> HIDE DEF h0, h1, a
      <4> QED  BY <1>1, <1>2 DEF Xor, Zero
    <3> QED  BY <1>5, <2>1, <2>2, <2>4, <3>1 DEF When
  <2> QED  BY <2>3, <2>4
<1> QED  BY <1>4, <1>5

\* Garbler::AND and Evaluator::AND: from labels of va and vb and the garbler's
\* two table rows the evaluator gets the label of va /\ vb.
THEOREM AndCorrect ==
    ASSUME NEW a0, NEW b0, NEW delta, NEW id, NEW va \in BOOLEAN, NEW vb \in BOOLEAN, LSB(delta)
    PROVE  EvaluatedAnd(LabelOf(a0, va, delta), LabelOf(b0, vb, delta), id,
                        TableG(delta, a0, b0, id), TableE(delta, a0, b0, id))
             = LabelOf(GarbledAnd(delta, a0, b0, id), va /\ vb, delta)
<1> DEFINE a == LabelOf(a0, va, delta)
           b == LabelOf(b0, vb, delta)
           tg == TableG(delta, a0, b0, id)
           te == TableE(delta, a0, b0, id)
           wg == Xor(Hash(a0, id), When(LSB(a0), tg))
           we == Xor(Hash(b0, id), When(LSB(b0), Xor(te, a0)))
           dg == When(va /\ LSB(b0), delta)
           de == When(va /\ (vb # LSB(b0)), delta)
<1>1. LSB(b0) \in BOOLEAN
  BY DEF LSB
<1>2. Xor(Hash(a, id), When(LSB(a), tg)) = Xor(wg, dg)
  <2>1. tg = Xor(Xor(Hash(a0, id), Hash(Xor(a0, delta), id)), When(LSB(b0), delta))
    BY DEF TableG
  <2> HIDE DEF tg
  <2> QED  BY <1>1, <2>1, GarblerHalf
<1>3. Xor(Hash(b, id), When(LSB(b), Xor(te, a))) = Xor(we, de)
  BY EvaluatorHalf
<1>4. EvaluatedAnd(a, b, id, tg, te) = Xor(Xor(wg, dg), Xor(we, de))
  BY <1>2, <1>3 DEF EvaluatedAnd
<1>5. GarbledAnd(delta, a0, b0, id) = Xor(wg, we)
  BY DEF GarbledAnd
<1>6. Xor(dg, de) = When(va /\ vb, delta)
  <2>1. CASE LSB(b0)
    BY <1>1, <2>1 DEF When, Xor, Zero
  <2>2. CASE ~LSB(b0)
    BY <1>1, <2>2 DEF When, Xor, Zero
  <2> QED  BY <1>1, <2>1, <2>2
<1>7. Xor(Xor(wg, dg), Xor(we, de)) = Xor(Xor(wg, we), Xor(dg, de))
  <2> HIDE DEF wg, we, dg, de
  <2> QED  BY DEF Xor
<1> QED  BY <1>4, <1>5, <1>6, <1>7 DEF LabelOf

-----------------------------------------------------------------------------
(* Counts of messages *)

\* AND gates among the first n gates: the id of gate n, if it is one.
AndGates(n) == {g \in 0 .. n-1 : Gates[g].op = "AND"}
Ands(n) == Cardinality(AndGates(n))
NumAnds == Ands(NumGates)

\* Messages towards the evaluator written before, or read before, a point of
\* the two functions; messages towards the garbler, in the same way.
Position(stage, wire, id, out) ==
    CASE stage \in {"baseKeys", "basePoints"} -> 0
      [] stage \in {"challenge", "answer"} -> 1
      [] stage = "opening" -> 2
      [] stage = "alice" -> 2 + wire
      [] stage \in {"commit", "u", "seed"} -> 2 + NumAlice
      [] stage \in {"theirSeed", "offset"} -> 3 + NumAlice
      [] stage \in {"check", "gates"} -> 4 + NumAlice + 2 * id
      [] stage = "outputs" -> 4 + NumAlice + 2 * NumAnds + out
Back(stage) ==
    CASE stage = "baseKeys" -> 0
      [] stage \in {"basePoints", "challenge"} -> 1
      [] stage \in {"answer", "opening"} -> 2
      [] stage \in {"alice", "commit"} -> 3
      [] stage = "u" -> 4
      [] stage \in {"seed", "theirSeed"} -> 5
      [] stage \in {"offset", "check"} -> 6
      [] stage \in {"gates", "outputs"} -> 7

\* Where the tables of gate g and output vector o stand.
TableAt(g) == 5 + NumAlice + 2 * Ands(g)
OutputAt(o) == 5 + NumAlice + 2 * NumAnds + o

-----------------------------------------------------------------------------
(* The inductive invariant *)

OutputBits == UNION {[DOMAIN Outputs[o] -> BOOLEAN] : o \in 0 .. NumOutputs-1}
EvalKinds == {"basePoints", "answer", "alice", "seed", "offset", "TG", "TE", "output"}
EvalMessage == [kind : EvalKinds, body : Labels] \cup [kind : EvalKinds, body : OutputBits]
Columns == [row : [BobWires -> Labels], choice : [BobWires -> BOOLEAN]]
GarbKinds == {"baseKeys", "challenge", "opening", "commit", "u", "theirSeed", "check"}
GarbMessage == [kind : GarbKinds, body : {Zero}] \cup [kind : GarbKinds, body : Columns]

Types ==
    /\ value \in [Wires -> BOOLEAN] /\ Computes(value)
    /\ R \in Labels /\ LSB(R) /\ curDelta \in Labels
    /\ label0 \in [Wires -> Labels] /\ active \in [Wires -> Labels]
    /\ gStage \in Stages /\ eStage \in Stages
    /\ gOut \in 0 .. NumOutputs
    /\ result \in Seq(OutputBits) /\ Len(result) <= NumOutputs
    /\ toEval \in Seq(EvalMessage) /\ toGarb \in Seq(GarbMessage)
    /\ eRead \in Nat /\ gRead \in Nat /\ eRead <= Len(toEval) /\ gRead <= Len(toGarb)

\* How far a side is: the garbler has the evaluator's input wires after it has
\* read the columns, the evaluator after it has read the offset.
Before == {"baseKeys", "basePoints", "challenge", "answer", "opening"}
Transfer == {"seed", "theirSeed", "offset"}
AtGates == {"gates", "outputs"}
Progress(stage, wire, id, transferred) ==
    /\ wire \in 0 .. NumWires /\ id \in Nat
    /\ stage \in Before => wire = 0
    /\ stage = "alice" => wire <= NumAlice
    /\ stage \in {"commit", "u"} => wire = NumAlice
    /\ stage \in Transfer => wire = transferred
    /\ stage = "check" => wire = NumInputs
    /\ stage = "gates" => wire >= NumInputs
    /\ stage = "outputs" => wire = NumWires
    /\ id = IF stage \in AtGates THEN Ands(wire - NumInputs) ELSE 0

GarbPlace ==
    /\ Progress(gStage, gWire, gId, NumInputs)
    /\ gStage # "outputs" => gOut = 0
    /\ Len(toEval) = Position(gStage, gWire, gId, gOut)
    /\ gRead = Back(gStage)
EvalPlace ==
    /\ Progress(eStage, eWire, eId, NumAlice)
    /\ eStage # "outputs" => Len(result) = 0
    /\ eRead = Position(eStage, eWire, eId, Len(result))
    /\ Len(toGarb) = Back(eStage)

\* What the garbler has written before the gates.
Inputs ==
    /\ Len(toEval) >= 1 => toEval[1].kind = "basePoints"
    /\ Len(toEval) >= 2 => toEval[2].kind = "answer"
    /\ \A w \in AliceWires : w + 3 <= Len(toEval) =>
          toEval[w + 3] = Message("alice", LabelOf(label0[w], value[w], R))
    /\ Len(toEval) >= 3 + NumAlice => toEval[3 + NumAlice].kind = "seed"
    /\ Len(toEval) >= 4 + NumAlice => toEval[4 + NumAlice] = Message("offset", Offset)

TG(g) == TableG(R, label0[Gates[g].a], label0[Gates[g].b], Ands(g))
TE(g) == TableE(R, label0[Gates[g].a], label0[Gates[g].b], Ands(g))
Tables ==
    \A g \in DOMAIN Gates :
        Gates[g].op = "AND" /\ NumInputs + g < gWire =>
            /\ TableAt(g) + 1 <= Len(toEval)
            /\ toEval[TableAt(g)] = Message("TG", TG(g))
            /\ toEval[TableAt(g) + 1] = Message("TE", TE(g))

Decoding ==
    \A o \in 0 .. gOut - 1 :
        toEval[OutputAt(o)] = Message("output", SelectBits(label0, Outputs[o]))

\* What the evaluator has written; its columns hold its rows and its inputs.
Answers ==
    /\ Len(toGarb) >= 1 => toGarb[1].kind = "baseKeys"
    /\ Len(toGarb) >= 2 => toGarb[2].kind = "challenge"
    /\ Len(toGarb) >= 3 => toGarb[3].kind = "opening"
    /\ Len(toGarb) >= 4 => toGarb[4].kind = "commit"
    /\ Len(toGarb) >= 5 =>
          toGarb[5].kind = "u" /\ toGarb[5].body \in Columns
          /\ \A w \in BobWires : toGarb[5].body.choice[w] = value[w]
    /\ Len(toGarb) >= 6 => toGarb[6].kind = "theirSeed"
    /\ Len(toGarb) >= 7 => toGarb[7].kind = "check"
    /\ eStage \in Transfer => \A w \in BobWires : toGarb[5].body.row[w] = active[w]

\* Between the columns and the offset the two labels differ by curDelta.
Transferred ==
    gStage \in Transfer \cup {"check"} \cup AtGates /\ eStage \in Transfer =>
        \A w \in BobWires : label0[w] = Xor(active[w], When(value[w], curDelta))

\* Both sides' labels of a gate follow from those of the wires it reads.  The
\* evaluator may be ahead of the garbler in gates that need no table.
Garbled ==
    \A g \in DOMAIN Gates : NumInputs + g < gWire =>
        LET l == label0[NumInputs + g]
            a == label0[Gates[g].a]
            b == label0[Gates[g].b]
        IN  /\ Gates[g].op = "ZERO" => l = Zero
            /\ Gates[g].op = "NOT" => l = Xor(a, R)
            /\ Gates[g].op = "XOR" => l = Xor(a, b)
            /\ Gates[g].op = "AND" => l = GarbledAnd(R, a, b, Ands(g))
Evaluated ==
    \A g \in DOMAIN Gates : NumInputs + g < eWire =>
        LET l == active[NumInputs + g]
            a == active[Gates[g].a]
            b == active[Gates[g].b]
        IN  /\ Gates[g].op = "ZERO" => l = Zero
            /\ Gates[g].op = "NOT" => l = a
            /\ Gates[g].op = "XOR" => l = Xor(a, b)
            /\ Gates[g].op = "AND" => NumInputs + g < gWire

IInv == /\ Types /\ GarbPlace /\ EvalPlace /\ Inputs /\ Tables /\ Decoding /\ Answers
        /\ Transferred /\ Garbled /\ Evaluated /\ LabelsEncode /\ OutputsCorrect

-----------------------------------------------------------------------------
(* Sizes, counts and stages *)

LEMMA Sizes ==
    /\ NumAlice \in Nat /\ NumBob \in Nat /\ NumGates \in Nat /\ NumOutputs \in Nat
    /\ NumInputs = NumAlice + NumBob /\ NumWires = NumAlice + NumBob + NumGates
    /\ DOMAIN Gates = 0 .. NumGates - 1
    /\ \A g \in DOMAIN Gates :
          /\ g \in Nat /\ g < NumGates /\ NumInputs + g \in Wires
          /\ Gates[g].a \in Wires /\ Gates[g].a < NumInputs + g
          /\ Gates[g].b \in Wires /\ Gates[g].b < NumInputs + g
          /\ Gates[g].op \in {"ZERO", "NOT", "XOR", "AND"}
    /\ \A o \in 0 .. NumOutputs-1 : Outputs[o] \in Seq(Wires)
    /\ AliceWires \subseteq Wires /\ BobWires \subseteq Wires
<1> HIDE DEF NumGates, NumOutputs
<1>1. DOMAIN Gates = 0 .. NumGates - 1 /\ Gates \in [0 .. NumGates-1 -> Gate]
  BY ParameterAssumption
<1> QED  BY <1>1, ParameterAssumption, CircuitAssumption
         DEF NumInputs, NumWires, Wires, Gate, AliceWires, BobWires

LEMMA AndGatesFinite ==
    ASSUME NEW n \in Nat
    PROVE  IsFiniteSet(AndGates(n)) /\ Ands(n) \in Nat
<1>1. IsFiniteSet(0 .. n-1)
  BY FS_Interval
<1>2. AndGates(n) \subseteq 0 .. n-1
  BY DEF AndGates
<1> QED  BY <1>1, <1>2, FS_Subset, FS_CardinalityType DEF Ands

\* A gate's id is the number of ANDs before it.
LEMMA AndsCount ==
    /\ Ands(0) = 0
    /\ \A n \in Nat : Ands(n) \in Nat
    /\ \A n \in Nat : Ands(n + 1) = IF Gates[n].op = "AND" THEN Ands(n) + 1 ELSE Ands(n)
    /\ \A m, n \in Nat : m <= n => Ands(m) <= Ands(n)
<1>1. Ands(0) = 0
  <2>1. AndGates(0) = {}
    BY DEF AndGates
  <2> QED  BY <2>1, FS_EmptySet DEF Ands
<1>2. ASSUME NEW n \in Nat
      PROVE  Ands(n + 1) = IF Gates[n].op = "AND" THEN Ands(n) + 1 ELSE Ands(n)
  <2>1. AndGates(n + 1) = IF Gates[n].op = "AND" THEN AndGates(n) \cup {n} ELSE AndGates(n)
    BY DEF AndGates
  <2>2. n \notin AndGates(n)
    BY DEF AndGates
  <2> QED  BY <2>1, <2>2, AndGatesFinite, FS_AddElement DEF Ands
<1>3. ASSUME NEW m \in Nat, NEW n \in Nat, m <= n
      PROVE  Ands(m) <= Ands(n)
  <2>1. AndGates(m) \subseteq AndGates(n)
    BY <1>3 DEF AndGates
  <2> QED  BY <2>1, AndGatesFinite, FS_Subset DEF Ands
<1> QED  BY <1>1, <1>2, <1>3, AndGatesFinite

\* The tables of an AND gate stand between the offset and the outputs.
LEMMA AndsBound ==
    ASSUME NEW g \in DOMAIN Gates
    PROVE  /\ Ands(g) \in Nat /\ NumAnds \in Nat /\ Ands(g) <= NumAnds
           /\ Gates[g].op = "AND" => Ands(g) + 1 <= NumAnds
           /\ NumAnds <= NumGates
<1>1. g \in Nat /\ g + 1 \in Nat /\ g + 1 <= NumGates /\ NumGates \in Nat
  BY Sizes
<1>2. NumAnds <= NumGates
  <2>1. AndGates(NumGates) \subseteq 0 .. NumGates - 1
    BY DEF AndGates
  <2>2. IsFiniteSet(0 .. NumGates-1) /\ Cardinality(0 .. NumGates-1) = NumGates
    <3>1. 0 \in Int /\ NumGates - 1 \in Int /\ 0 <= NumGates - 1
      BY <1>1
    <3>2. /\ IsFiniteSet(0 .. NumGates-1)
          /\ Cardinality(0 .. NumGates-1)
               = IF 0 > NumGates - 1 THEN 0 ELSE (NumGates - 1) - 0 + 1
      BY <3>1, FS_Interval
    <3> QED  BY <1>1, <3>1, <3>2
  <2> QED  BY <2>1, <2>2, FS_Subset DEF NumAnds, Ands
<1> QED  BY <1>1, <1>2, AndsCount DEF NumAnds

LEMMA StageNames ==
    Stages = {"baseKeys", "basePoints", "challenge", "answer", "opening", "alice", "commit",
              "u", "seed", "theirSeed", "offset", "check", "gates", "outputs"}
BY DEF Stages, GarbleAfter

\* Both functions run through the same stages up to the gates.
LEMMA After ==
    /\ EvaluateAfter = GarbleAfter
    /\ GarbleAfter["baseKeys"] = "basePoints" /\ GarbleAfter["basePoints"] = "challenge"
    /\ GarbleAfter["challenge"] = "answer" /\ GarbleAfter["answer"] = "opening"
    /\ GarbleAfter["opening"] = "alice"
    /\ GarbleAfter["alice"] = "commit" /\ GarbleAfter["commit"] = "u"
    /\ GarbleAfter["u"] = "seed" /\ GarbleAfter["seed"] = "theirSeed"
    /\ GarbleAfter["theirSeed"] = "offset" /\ GarbleAfter["offset"] = "check"
    /\ GarbleAfter["check"] = "gates"
BY DEF GarbleAfter, EvaluateAfter

\* The counts and bounds in which positions are computed.
LEMMA Numbers ==
    /\ NumAlice \in Nat /\ NumBob \in Nat /\ NumGates \in Nat /\ NumOutputs \in Nat
    /\ NumInputs = NumAlice + NumBob /\ NumWires = NumAlice + NumBob + NumGates
    /\ NumInputs \in Nat /\ NumWires \in Nat /\ NumAnds \in Nat
    /\ NumWires - NumInputs = NumGates /\ NumInputs - NumInputs = 0
    /\ Ands(0) = 0 /\ NumAnds = Ands(NumGates)
<1>1. NumAlice \in Nat /\ NumBob \in Nat /\ NumGates \in Nat /\ NumOutputs \in Nat
  BY Sizes
<1>2. NumInputs = NumAlice + NumBob /\ NumWires = NumAlice + NumBob + NumGates
  BY Sizes
<1>3. NumAnds \in Nat /\ Ands(0) = 0
  BY <1>1, AndsCount DEF NumAnds
<1>4. /\ NumInputs \in Nat /\ NumWires \in Nat
      /\ NumWires - NumInputs = NumGates /\ NumInputs - NumInputs = 0
  BY <1>1, <1>2
<1> QED  BY <1>1, <1>2, <1>3, <1>4 DEF NumAnds

LEMMA PositionOf ==
    ASSUME NEW wire, NEW id, NEW out
    PROVE  /\ \A stage \in {"baseKeys", "basePoints"} : Position(stage, wire, id, out) = 0
           /\ \A stage \in {"challenge", "answer"} : Position(stage, wire, id, out) = 1
           /\ Position("opening", wire, id, out) = 2
           /\ Position("alice", wire, id, out) = 2 + wire
           /\ \A stage \in {"commit", "u", "seed"} :
                 Position(stage, wire, id, out) = 2 + NumAlice
           /\ \A stage \in {"theirSeed", "offset"} :
                 Position(stage, wire, id, out) = 3 + NumAlice
           /\ \A stage \in {"check", "gates"} :
                 Position(stage, wire, id, out) = 4 + NumAlice + 2 * id
           /\ Position("outputs", wire, id, out) = 4 + NumAlice + 2 * NumAnds + out
BY DEF Position

\* From a position to the stages in which a side can be.
LEMMA Reached ==
    ASSUME NEW stage \in Stages, NEW wire, NEW id \in Nat, NEW out \in Nat, NEW at,
           at = Position(stage, wire, id, out)
    PROVE  /\ stage \notin Before \cup {"alice"} => at \in Nat /\ at >= 2 + NumAlice
           /\ stage \notin Before \cup {"alice", "commit", "u", "seed"} =>
                 at \in Nat /\ at >= 3 + NumAlice
           /\ stage \notin Before \cup {"alice", "commit", "u", "seed", "theirSeed", "offset"} =>
                 at \in Nat /\ at >= 4 + NumAlice
<1>1. stage \in {"commit", "u", "seed"} => at = 2 + NumAlice
  BY PositionOf
<1>2. stage \in {"theirSeed", "offset"} => at = 3 + NumAlice
  BY PositionOf
<1>3. stage \in {"check", "gates"} => at = 4 + NumAlice + 2 * id
  BY PositionOf
<1>4. stage = "outputs" => at = 4 + NumAlice + 2 * NumAnds + out
  BY PositionOf
<1>5. stage \in Before \cup {"alice", "commit", "u", "seed", "theirSeed", "offset",
                           "check", "gates", "outputs"}
  BY StageNames DEF Before
<1>6. CASE stage \in Before \cup {"alice"}
  BY <1>6
<1>7. CASE stage \in {"commit", "u", "seed"}
  BY <1>1, <1>7, Numbers
<1>8. CASE stage \in {"theirSeed", "offset"}
  BY <1>2, <1>8, Numbers
<1>9. CASE stage \in {"check", "gates"}
  BY <1>3, <1>9, Numbers
<1>10. CASE stage = "outputs"
  BY <1>4, <1>10, Numbers
<1> QED  BY <1>5, <1>6, <1>7, <1>8, <1>9, <1>10

LEMMA BackOf ==
    /\ Back("baseKeys") = 0 /\ Back("basePoints") = 1 /\ Back("challenge") = 1
    /\ Back("answer") = 2 /\ Back("opening") = 2 /\ Back("alice") = 3
    /\ Back("commit") = 3 /\ Back("u") = 4 /\ Back("seed") = 5 /\ Back("theirSeed") = 5
    /\ Back("offset") = 6 /\ Back("check") = 6 /\ Back("gates") = 7 /\ Back("outputs") = 7
BY DEF Back

-----------------------------------------------------------------------------
(* Steps of the garbler that make no label *)

\* The connection keeps what was written to it.
Grows ==
    /\ Len(toEval') >= Len(toEval)
    /\ \A k \in 1 .. Len(toEval) : toEval'[k] = toEval[k]
Quiet == UNCHANGED <<value, R, curDelta, label0, gWire, gId, evaluator, toGarb>>

LEMMA Sent ==
    ASSUME Types, NEW ms \in Seq(EvalMessage), SendToEval(ms)
    PROVE  /\ toEval' \in Seq(EvalMessage) /\ Grows
           /\ Len(toEval') = Len(toEval) + Len(ms)
           /\ \A k \in 1 .. Len(ms) : toEval'[Len(toEval) + k] = ms[k]
BY DEF Types, SendToEval, Grows

LEMMA QuietKeeps ==
    ASSUME IInv, Quiet, Grows
    PROVE  Tables' /\ Answers' /\ Garbled' /\ Evaluated' /\ LabelsEncode' /\ OutputsCorrect'
<1> USE DEF IInv, Quiet, evaluator
<1>1. Tables'
  <2> SUFFICES ASSUME NEW g \in DOMAIN Gates, Gates[g].op = "AND", NumInputs + g < gWire
               PROVE  /\ TableAt(g) + 1 <= Len(toEval')
                      /\ toEval'[TableAt(g)] = Message("TG", TG(g))
                      /\ toEval'[TableAt(g) + 1] = Message("TE", TE(g))
    BY DEF Tables, TG, TE
  <2>1. TableAt(g) \in Nat /\ TableAt(g) >= 1
    BY AndsBound, Sizes DEF TableAt
  <2>2. /\ TableAt(g) + 1 <= Len(toEval)
        /\ toEval[TableAt(g)] = Message("TG", TG(g))
        /\ toEval[TableAt(g) + 1] = Message("TE", TE(g))
    BY DEF Tables
  <2>3. Len(toEval) \in Nat /\ Len(toEval') >= Len(toEval)
    BY DEF Types, Grows
  <2>4. Len(toEval') >= TableAt(g) + 1
    BY <2>1, <2>2, <2>3 DEF Grows, Types
  <2> QED  BY <2>1, <2>2, <2>3, <2>4 DEF Grows
<1>2. Answers'
  BY DEF Answers
<1>3. Garbled' /\ Evaluated'
  BY DEF Garbled, Evaluated
<1>4. LabelsEncode' /\ OutputsCorrect'
  BY DEF LabelsEncode, OutputsCorrect
<1> QED  BY <1>1, <1>2, <1>3, <1>4

LEMMA InputsKept ==
    ASSUME IInv, Quiet, toEval' = toEval
    PROVE  Inputs'
BY DEF IInv, Inputs, Quiet, Offset

\* The evaluator is never ahead of what the garbler has written.
LEMMA EvalReached ==
    ASSUME Types, EvalPlace
    PROVE  /\ eStage \notin Before \cup {"alice"} => Len(toEval) >= 2 + NumAlice
           /\ eStage \notin Before \cup {"alice", "commit", "u", "seed"} =>
                 Len(toEval) >= 3 + NumAlice
           /\ eStage \notin Before \cup {"alice", "commit", "u", "seed", "theirSeed", "offset"} =>
                 Len(toEval) >= 4 + NumAlice
<1>1. /\ eStage \in Stages /\ eId \in Nat /\ Len(result) \in Nat
      /\ eRead \in Nat /\ Len(toEval) \in Nat /\ eRead <= Len(toEval)
      /\ eRead = Position(eStage, eWire, eId, Len(result))
  BY DEF Types, EvalPlace, Progress
<1>2. /\ eStage \notin Before \cup {"alice"} => eRead >= 2 + NumAlice
      /\ eStage \notin Before \cup {"alice", "commit", "u", "seed"} => eRead >= 3 + NumAlice
      /\ eStage \notin Before \cup {"alice", "commit", "u", "seed", "theirSeed", "offset"} =>
            eRead >= 4 + NumAlice
  BY <1>1, Reached
<1> QED  BY <1>1, <1>2, Numbers

LEMMA EvalPlaceKept ==
    ASSUME EvalPlace, UNCHANGED <<evaluator, toGarb>>
    PROVE  EvalPlace'
BY DEF EvalPlace, evaluator, Progress

LEMMA GarbReadKeeps == ASSUME IInv, GarbRead PROVE IInv'
<1> USE DEF IInv, GarbRead, evaluator
<1>1. Quiet /\ Grows /\ toEval' = toEval
  BY DEF Quiet, Grows, Types
<1>2. /\ \/ gStage = "baseKeys" /\ gStage' = "basePoints"
         \/ gStage = "challenge" /\ gStage' = "answer"
         \/ gStage = "opening" /\ gStage' = "alice"
         \/ gStage = "commit" /\ gStage' = "u"
         \/ gStage = "theirSeed" /\ gStage' = "offset"
         \/ gStage = "check" /\ gStage' = "gates"
      /\ gRead' = gRead + 1 /\ gRead < Len(toGarb) /\ gOut' = gOut
  BY After DEF GarbAdvance, GarbHas
<1>3. Types'
  BY <1>2, StageNames DEF Types
<1>4. GarbPlace'
  <2> USE <1>1, <1>2, Numbers, PositionOf, BackOf
      DEF GarbPlace, Progress, Before, Transfer, AtGates, Quiet
  <2>1. CASE gStage = "baseKeys"
    BY <2>1
  <2>2. CASE gStage = "commit"
    BY <2>2
  <2>3. CASE gStage = "theirSeed"
    BY <2>3
  <2>4. CASE gStage = "check"
    BY <2>4
  <2>5. CASE gStage = "challenge"
    BY <2>5
  <2>6. CASE gStage = "opening"
    BY <2>6
  <2> QED  BY <2>1, <2>2, <2>3, <2>4, <2>5, <2>6
<1>5. Decoding'
  BY <1>1 DEF Decoding, Quiet
<1>6. Transferred'
  BY <1>2 DEF Transferred, Transfer, AtGates
<1> QED  BY <1>1, <1>3, <1>4, <1>5, <1>6, QuietKeeps, InputsKept, EvalPlaceKept DEF Quiet

\* Labels and messages of labels.
LEMMA LabelTypes ==
    /\ Zero \in Labels
    /\ \A a, b \in Labels : Xor(a, b) \in Labels
    /\ \A a \in Labels, bit \in BOOLEAN : When(bit, a) \in Labels
    /\ \A kind \in EvalKinds, a \in Labels : Message(kind, a) \in EvalMessage
    /\ \A kind \in EvalKinds, bits \in OutputBits : Message(kind, bits) \in EvalMessage
    /\ \A kind, body : Message(kind, body).kind = kind /\ Message(kind, body).body = body
<1>1. Zero \in Labels /\ \A a, b \in Labels : Xor(a, b) \in Labels
  BY DEF Labels, Zero, Xor
<1>2. \A a \in Labels, bit \in BOOLEAN : When(bit, a) \in Labels
  BY <1>1 DEF When
<1>3. \A kind, body : Message(kind, body).kind = kind /\ Message(kind, body).body = body
  BY DEF Message
<1>4. \A kind \in EvalKinds, a \in Labels : Message(kind, a) \in EvalMessage
  BY DEF Message, EvalMessage
<1>5. \A kind \in EvalKinds, bits \in OutputBits : Message(kind, bits) \in EvalMessage
  BY DEF Message, EvalMessage
<1> QED  BY <1>1, <1>2, <1>3, <1>4, <1>5

LEMMA WhenSelected ==
    ASSUME NEW a \in Labels, NEW b \in Labels
    PROVE  When(LSB(b), a) \in Labels
<1>1. CASE LSB(b)
  BY <1>1 DEF When
<1>2. CASE ~LSB(b)
  BY <1>2, LabelTypes DEF When
<1> QED  BY <1>1, <1>2

LEMMA SentOne ==
    ASSUME Types, NEW m \in EvalMessage, SendToEval(<<m>>)
    PROVE  /\ toEval' \in Seq(EvalMessage) /\ Grows
           /\ Len(toEval') = Len(toEval) + 1 /\ toEval'[Len(toEval) + 1] = m
<1> DEFINE ms == <<m>>
<1>1. ms \in Seq(EvalMessage) /\ Len(ms) = 1 /\ ms[1] = m
  OBVIOUS
<1>2. SendToEval(ms)
  OBVIOUS
<1> HIDE DEF ms
<1>3. /\ toEval' \in Seq(EvalMessage) /\ Grows
      /\ Len(toEval') = Len(toEval) + Len(ms)
      /\ \A k \in 1 .. Len(ms) : toEval'[Len(toEval) + k] = ms[k]
  BY <1>1, <1>2, Sent
<1> QED  BY <1>1, <1>3

\* One more message, which is at the place the invariant gives it.
LEMMA InputsAfterOne ==
    ASSUME IInv, Quiet, Grows, Len(toEval') = Len(toEval) + 1, NEW m,
           toEval'[Len(toEval) + 1] = m,
           Len(toEval) = 0 => m.kind = "basePoints",
           Len(toEval) = 1 => m.kind = "answer",
           Len(toEval) < 2 \/ Len(toEval) > 1 + NumAlice,
           Len(toEval) = 2 + NumAlice => m.kind = "seed",
           Len(toEval) = 3 + NumAlice => m = Message("offset", Offset)
    PROVE  Inputs'
<1> DEFINE n == Len(toEval)
<1>0. n \in Nat /\ Len(toEval') = n + 1 /\ toEval'[n + 1] = m /\ NumAlice \in Nat /\ Inputs
  BY Numbers DEF IInv, Types
<1>1. \A k \in 1 .. n : toEval'[k] = toEval[k]
  BY DEF Grows
<1> HIDE DEF n
<1>2. Len(toEval') >= 1 => toEval'[1].kind = "basePoints"
  <2>1. CASE n = 0
    BY <1>0, <2>1 DEF n
  <2>2. CASE n >= 1
    BY <1>0, <1>1, <2>2 DEF Inputs, n
  <2> QED  BY <1>0, <2>1, <2>2
<1>6. Len(toEval') >= 2 => toEval'[2].kind = "answer"
  <2>1. CASE n = 1
    BY <1>0, <2>1 DEF n
  <2>2. CASE n >= 2
    BY <1>0, <1>1, <2>2 DEF Inputs, n
  <2>3. CASE n = 0
    BY <1>0, <2>3
  <2> QED  BY <1>0, <2>1, <2>2, <2>3
<1>3. ASSUME NEW w \in AliceWires, w + 3 <= Len(toEval')
      PROVE  toEval'[w + 3] = Message("alice", LabelOf(label0[w], value[w], R))
  <2>1. n < 2 \/ n > 1 + NumAlice
    BY DEF n
  <2>2. w \in Int /\ 0 <= w /\ w <= NumAlice - 1 /\ w + 3 <= n + 1
    BY <1>0, <1>3 DEF AliceWires
  <2>3. w + 3 \in 1 .. n /\ w + 3 <= n
    BY <1>0, <2>1, <2>2
  <2> QED  BY <1>0, <1>1, <2>3 DEF Inputs, n
<1>4. Len(toEval') >= 3 + NumAlice => toEval'[3 + NumAlice].kind = "seed"
  <2>1. CASE n = 2 + NumAlice
    BY <1>0, <2>1 DEF n
  <2>2. CASE n >= 3 + NumAlice
    BY <1>0, <1>1, <2>2 DEF Inputs, n
  <2> QED  BY <1>0, <2>1, <2>2
<1>5. Len(toEval') >= 4 + NumAlice => toEval'[4 + NumAlice] = Message("offset", Offset)
  <2>1. CASE n = 3 + NumAlice
    BY <1>0, <2>1 DEF n
  <2>2. CASE n >= 4 + NumAlice
    BY <1>0, <1>1, <2>2 DEF Inputs, n
  <2> QED  BY <1>0, <2>1, <2>2
<1> QED  BY <1>2, <1>3, <1>4, <1>5, <1>6 DEF Inputs, Quiet, Offset

LEMMA GarbSendKeeps == ASSUME IInv, GarbSend PROVE IInv'
<1> USE DEF IInv, GarbSend, evaluator
<1> DEFINE m == Signal(gStage)
<1>1. \/ gStage = "basePoints" /\ gStage' = "challenge"
      \/ gStage = "answer" /\ gStage' = "opening"
      \/ gStage = "seed" /\ gStage' = "theirSeed"
  BY After DEF GarbAdvance
<1>2. m \in EvalMessage /\ m.kind = gStage
  <2>1. gStage \in EvalKinds
    BY <1>1 DEF EvalKinds
  <2> QED  BY <2>1, LabelTypes DEF Signal
<1>3. Quiet /\ gRead' = gRead /\ gOut' = gOut /\ gOut = 0
  BY <1>1 DEF Quiet, GarbPlace
<1>4. /\ toEval' \in Seq(EvalMessage) /\ Grows
      /\ Len(toEval') = Len(toEval) + 1 /\ toEval'[Len(toEval) + 1] = m
  BY <1>2, SentOne
<1> HIDE DEF m
<1>5. /\ gStage = "basePoints" => Len(toEval) = 0
      /\ gStage = "answer" => Len(toEval) = 1
      /\ gStage = "seed" => Len(toEval) = 2 + NumAlice
  BY <1>1, PositionOf, Numbers DEF GarbPlace
<1>6. Types'
  BY <1>1, <1>3, <1>4, StageNames DEF Types, Quiet, Grows
<1>7. GarbPlace'
  <2> USE <1>3, <1>4, <1>5, Numbers, PositionOf, BackOf
      DEF GarbPlace, Progress, Before, Transfer, AtGates, Quiet
  <2>1. CASE gStage = "basePoints"
    BY <1>1, <2>1
  <2>2. CASE gStage = "seed"
    BY <1>1, <2>2
  <2>3. CASE gStage = "answer"
    BY <1>1, <2>3
  <2> QED  BY <1>1, <2>1, <2>2, <2>3
<1>8. Inputs'
  <2>1. CASE gStage = "basePoints"
    <3>1. Len(toEval) = 0 /\ m.kind = "basePoints" /\ NumAlice \in Nat
      BY <1>2, <1>5, <2>1, Numbers
    <3>2. Len(toEval) # 1 /\ Len(toEval) # 2 + NumAlice /\ Len(toEval) # 3 + NumAlice
      BY <3>1
    <3>3. Len(toEval) < 2
      BY <3>1
    <3> QED  BY <1>3, <1>4, <3>1, <3>2, <3>3, InputsAfterOne
  <2>3. CASE gStage = "answer"
    <3>1. Len(toEval) = 1 /\ m.kind = "answer" /\ NumAlice \in Nat
      BY <1>2, <1>5, <2>3, Numbers
    <3>2. Len(toEval) # 0 /\ Len(toEval) # 2 + NumAlice /\ Len(toEval) # 3 + NumAlice
      BY <3>1
    <3>3. Len(toEval) < 2
      BY <3>1
    <3> QED  BY <1>3, <1>4, <3>1, <3>2, <3>3, InputsAfterOne
  <2>2. CASE gStage = "seed"
    <3>1. Len(toEval) = 2 + NumAlice /\ m.kind = "seed" /\ NumAlice \in Nat
      BY <1>2, <1>5, <2>2, Numbers
    <3>2. /\ Len(toEval) # 0 /\ Len(toEval) # 1 /\ Len(toEval) > 1 + NumAlice
          /\ Len(toEval) # 3 + NumAlice
      BY <3>1
    <3> QED  BY <1>3, <1>4, <3>1, <3>2, InputsAfterOne
  <2> QED  BY <1>1, <2>1, <2>2, <2>3
<1>9. Decoding'
  BY <1>3 DEF Decoding, Quiet
<1>10. Transferred'
  BY <1>1, <1>3 DEF Transferred, Transfer, AtGates, Quiet
<1> QED  BY <1>3, <1>4, <1>6, <1>7, <1>8, <1>9, <1>10, QuietKeeps, EvalPlaceKept DEF Quiet

LEMMA GarbAliceDoneKeeps == ASSUME IInv, GarbAliceDone PROVE IInv'
<1> USE DEF IInv, GarbAliceDone, evaluator
<1>1. gStage = "alice" /\ gStage' = "commit" /\ gWire = NumAlice
  BY After DEF GarbAdvance
<1>2. Quiet /\ Grows /\ toEval' = toEval
  BY DEF Quiet, Grows, Types
<1>3. Types'
  BY <1>1, StageNames DEF Types
<1>4. GarbPlace'
  BY <1>1, <1>2, Numbers, PositionOf, BackOf
     DEF GarbPlace, Progress, Before, Transfer, AtGates, Quiet
<1>5. Decoding'
  BY <1>2 DEF Decoding, Quiet
<1>6. Transferred'
  BY <1>1 DEF Transferred, Transfer, AtGates
<1> QED  BY <1>2, <1>3, <1>4, <1>5, <1>6, QuietKeeps, InputsKept, EvalPlaceKept DEF Quiet

LEMMA GarbOffsetKeeps == ASSUME IInv, GarbOffset PROVE IInv'
<1> USE DEF IInv, GarbOffset, evaluator
<1> DEFINE m == Message("offset", Offset)
<1>1. gStage = "offset" /\ gStage' = "check"
  BY After DEF GarbAdvance
<1>2. m \in EvalMessage
  <2>1. Offset \in Labels
    BY LabelTypes DEF Types, Offset
  <2> QED  BY <2>1, LabelTypes DEF EvalKinds
<1>3. Quiet /\ gRead' = gRead /\ gOut' = gOut /\ gOut = 0
  BY <1>1 DEF Quiet, GarbPlace
<1>4. /\ toEval' \in Seq(EvalMessage) /\ Grows
      /\ Len(toEval') = Len(toEval) + 1 /\ toEval'[Len(toEval) + 1] = m
  BY <1>2, SentOne
<1> HIDE DEF m
<1>5. Len(toEval) = 3 + NumAlice
  BY <1>1, PositionOf, Numbers DEF GarbPlace
<1>6. Types'
  BY <1>1, <1>3, <1>4, StageNames DEF Types, Quiet, Grows
<1>7. GarbPlace'
  BY <1>1, <1>3, <1>4, <1>5, Numbers, PositionOf, BackOf
     DEF GarbPlace, Progress, Before, Transfer, AtGates, Quiet
<1>8. Inputs'
  <2>1. /\ Len(toEval) # 0 /\ Len(toEval) # 1 /\ Len(toEval) > 1 + NumAlice
        /\ Len(toEval) # 2 + NumAlice
    BY <1>5, Numbers
  <2>2. m = Message("offset", Offset)
    BY DEF m
  <2> QED  BY <1>3, <1>4, <2>1, <2>2, InputsAfterOne
<1>9. Decoding'
  BY <1>3 DEF Decoding, Quiet
<1>10. Transferred'
  BY <1>1, <1>3 DEF Transferred, Transfer, AtGates, Quiet
<1> QED  BY <1>3, <1>4, <1>6, <1>7, <1>8, <1>9, <1>10, QuietKeeps, EvalPlaceKept DEF Quiet

LEMMA GarbGatesDoneKeeps == ASSUME IInv, GarbGatesDone PROVE IInv'
<1> USE DEF IInv, GarbGatesDone, evaluator
<1>1. gStage = "gates" /\ gStage' = "outputs" /\ gWire = NumWires
  OBVIOUS
<1>2. Quiet /\ Grows /\ toEval' = toEval
  BY DEF Quiet, Grows, Types
<1>3. Types'
  BY <1>1, StageNames DEF Types
<1>4. GarbPlace'
  BY <1>1, <1>2, Numbers, PositionOf, BackOf
     DEF GarbPlace, Progress, Before, Transfer, AtGates, Quiet
<1>5. Decoding'
  BY <1>2 DEF Decoding, Quiet
<1>6. Transferred'
  BY <1>1 DEF Transferred, Transfer, AtGates
<1> QED  BY <1>2, <1>3, <1>4, <1>5, <1>6, QuietKeeps, InputsKept, EvalPlaceKept DEF Quiet

\* The decoding bits of an output vector, one Boolean for every wire.
LEMMA SelectBitsType ==
    ASSUME NEW labels, NEW o \in 0 .. NumOutputs - 1
    PROVE  SelectBits(labels, Outputs[o]) \in OutputBits
<1>1. SelectBits(labels, Outputs[o]) \in [DOMAIN Outputs[o] -> BOOLEAN]
  BY DEF SelectBits, LSB
<1> QED  BY <1>1 DEF OutputBits

LEMMA GarbOutputKeeps == ASSUME IInv, GarbOutput PROVE IInv'
<1> USE DEF IInv, GarbOutput, evaluator
<1> DEFINE m == Message("output", SelectBits(label0, Outputs[gOut]))
<1>1. /\ gStage = "outputs" /\ gStage' = "outputs" /\ gOut' = gOut + 1
      /\ gOut \in Nat /\ gOut < NumOutputs /\ gOut \in 0 .. NumOutputs - 1
  BY Numbers DEF VectorsToSend, Types
<1>2. m \in EvalMessage
  BY <1>1, SelectBitsType, LabelTypes DEF EvalKinds
<1>3. Quiet /\ gRead' = gRead
  BY <1>1 DEF Quiet
<1>4. /\ toEval' \in Seq(EvalMessage) /\ Grows
      /\ Len(toEval') = Len(toEval) + 1 /\ toEval'[Len(toEval) + 1] = m
  BY <1>2, SentOne
<1> HIDE DEF m
<1>5. Len(toEval) = 4 + NumAlice + 2 * NumAnds + gOut
  BY <1>1, PositionOf, Numbers DEF GarbPlace
<1>6. Types'
  BY <1>1, <1>3, <1>4, StageNames, Numbers DEF Types, Quiet, Grows
<1>7. GarbPlace'
  <2>1. Progress(gStage, gWire, gId, NumInputs)'
    BY <1>1, <1>3 DEF GarbPlace, Progress, Quiet
  <2>2. Len(toEval') = 4 + NumAlice + 2 * NumAnds + gOut'
    BY <1>1, <1>4, <1>5, Numbers
  <2> QED  BY <1>1, <1>3, <2>1, <2>2, PositionOf DEF GarbPlace
<1>8. Inputs'
  <2>1. Len(toEval) # 0 /\ Len(toEval) # 1 /\ Len(toEval) > 3 + NumAlice
    BY <1>1, <1>5, Numbers
  <2> QED  BY <1>3, <1>4, <2>1, Numbers, InputsAfterOne
<1>9. Decoding'
  <2> SUFFICES ASSUME NEW o \in 0 .. gOut
               PROVE  toEval'[OutputAt(o)] = Message("output", SelectBits(label0, Outputs[o]))
    BY <1>1, <1>3 DEF Decoding, Quiet
  <2>1. CASE o = gOut
    <3>1. OutputAt(o) = Len(toEval) + 1
      BY <1>1, <1>5, <2>1, Numbers DEF OutputAt
    <3> QED  BY <1>4, <2>1, <3>1 DEF m
  <2>2. CASE o # gOut
    <3>1. o \in 0 .. gOut - 1 /\ OutputAt(o) \in 1 .. Len(toEval)
      BY <1>1, <1>5, <2>2, Numbers DEF OutputAt
    <3> QED  BY <1>4, <3>1 DEF Decoding, Grows
  <2> QED  BY <2>1, <2>2
<1>10. Transferred'
  BY <1>1, <1>3 DEF Transferred, Transfer, AtGates, Quiet
<1> QED  BY <1>3, <1>4, <1>6, <1>7, <1>8, <1>9, <1>10, QuietKeeps, EvalPlaceKept DEF Quiet

-----------------------------------------------------------------------------
(* Steps of the garbler that make labels *)

LEMMA GarbAliceKeeps == ASSUME IInv, GarbAlice PROVE IInv'
<1> USE DEF IInv, evaluator
<1>1. /\ gStage = "alice" /\ gStage' = "alice" /\ gWire < NumAlice /\ gWire' = gWire + 1
      /\ gWire \in Nat /\ gWire \in AliceWires /\ gWire \in Wires /\ gOut' = gOut /\ gOut = 0
  BY Numbers DEF GarbAlice, GarbPlace, Progress, AliceWires, Wires
<1>2. UNCHANGED <<value, R, curDelta, gId, gStage, gOut, gRead, evaluator, toGarb>>
  BY DEF GarbAlice
<1>3. PICK fresh \in Labels :
        /\ label0' = [label0 EXCEPT ![gWire] = fresh]
        /\ SendToEval(<<Message("alice", LabelOf(fresh, value[gWire], R))>>)
  BY DEF GarbAlice, LabelOf
<1> DEFINE m == Message("alice", LabelOf(fresh, value[gWire], R))
<1>4. m \in EvalMessage
  BY <1>1, LabelTypes DEF Types, LabelOf, EvalKinds
<1>5. /\ toEval' \in Seq(EvalMessage) /\ Grows
      /\ Len(toEval') = Len(toEval) + 1 /\ toEval'[Len(toEval) + 1] = m
  BY <1>3, <1>4, SentOne
<1>6. Len(toEval) = 2 + gWire
  BY <1>1, PositionOf DEF GarbPlace
<1>7. /\ label0' \in [Wires -> Labels] /\ label0'[gWire] = fresh
      /\ \A w \in Wires : w # gWire => label0'[w] = label0[w]
  BY <1>1, <1>3 DEF Types
<1>8. Types'
  BY <1>1, <1>2, <1>5, <1>7 DEF Types, Grows
<1>9. GarbPlace'
  <2>1. Progress(gStage, gWire, gId, NumInputs)'
    BY <1>1, <1>2, Numbers DEF GarbPlace, Progress, Before, Transfer, AtGates
  <2>2. Len(toEval') = 2 + gWire'
    BY <1>1, <1>5, <1>6
  <2> QED  BY <1>1, <1>2, <2>1, <2>2, PositionOf, BackOf DEF GarbPlace
<1>10. Inputs'
  <2>1. toEval'[1].kind = "basePoints" /\ toEval'[2].kind = "answer"
    BY <1>1, <1>5, <1>6 DEF Inputs, Grows
  <2>2. ASSUME NEW w \in AliceWires, w + 3 <= Len(toEval')
        PROVE  toEval'[w + 3] = Message("alice", LabelOf(label0'[w], value[w], R))
    <3>1. CASE w = gWire
      <4>1. w + 3 = Len(toEval) + 1
        BY <1>1, <1>6, <3>1
      <4> QED  BY <1>5, <1>7, <3>1, <4>1
    <3>2. CASE w # gWire
      <4>1. w \in Wires /\ w + 3 \in 1 .. Len(toEval) /\ w + 3 <= Len(toEval)
        BY <1>1, <1>5, <1>6, <2>2, <3>2, Sizes DEF AliceWires
      <4>2. toEval'[w + 3] = toEval[w + 3]
        BY <1>5, <4>1 DEF Grows
      <4> QED  BY <1>7, <3>2, <4>1, <4>2 DEF Inputs
    <3> QED  BY <3>1, <3>2
  <2>3. Len(toEval') < 3 + NumAlice /\ Len(toEval') < 4 + NumAlice
    BY <1>1, <1>5, <1>6, Numbers
  <2>4. ~(Len(toEval') >= 3 + NumAlice) /\ ~(Len(toEval') >= 4 + NumAlice)
    BY <1>1, <1>5, <1>6, <2>3, Numbers
  <2> QED  BY <1>2, <2>1, <2>2, <2>4 DEF Inputs
<1>11. \A g \in DOMAIN Gates : ~(NumInputs + g < gWire')
  BY <1>1, Numbers, Sizes
<1>12. Tables' /\ Garbled'
  BY <1>11 DEF Tables, Garbled
<1>13. Decoding'
  BY <1>1 DEF Decoding
<1>14. Answers' /\ OutputsCorrect'
  BY <1>2 DEF Answers, OutputsCorrect
<1>15. Transferred'
  BY <1>1 DEF Transferred, Transfer, AtGates
<1>16. eWire \in Nat /\ eWire <= gWire
  <2>1. eRead <= 2 + gWire
    BY <1>6 DEF Types
  <2>2. eStage \in Before \cup {"alice"}
    BY <1>1, <1>6, EvalReached, Numbers
  <2>3. CASE eStage \in Before
    BY <1>1, <2>3 DEF EvalPlace, Progress
  <2>4. CASE eStage = "alice"
    BY <1>1, <2>1, <2>4, PositionOf DEF EvalPlace, Progress
  <2> QED  BY <2>2, <2>3, <2>4
<1>17. Evaluated'
  BY <1>1, <1>2, <1>16, Numbers, Sizes DEF Evaluated
<1>18. LabelsEncode'
  <2> SUFFICES ASSUME NEW w \in Wires, w < eWire
               PROVE  active[w] = Xor(label0'[w], When(value[w], R))
    BY <1>2 DEF LabelsEncode
  <2>1. w \in Nat /\ w < gWire /\ w # gWire
    BY <1>1, <1>16 DEF Wires
  <2> QED  BY <1>7, <2>1 DEF LabelsEncode
<1> QED  BY <1>2, <1>8, <1>9, <1>10, <1>12, <1>13, <1>14, <1>15, <1>17, <1>18, EvalPlaceKept

LEMMA GarbUKeeps == ASSUME IInv, GarbU PROVE IInv'
<1> USE DEF IInv, evaluator
<1>1. /\ gStage = "u" /\ gStage' = "seed" /\ gWire = NumAlice /\ gWire' = NumInputs
      /\ gRead = 4 /\ gRead' = 5 /\ Len(toGarb) >= 5 /\ gOut = 0 /\ gId = 0
  BY After, BackOf DEF GarbU, GarbAdvance, GarbHas, GarbPlace, Progress, AtGates, Types
<1>2. /\ UNCHANGED <<value, R, gId, gOut, evaluator, toEval, toGarb>>
      /\ curDelta' \in Labels
  BY DEF GarbU
<1>3. Len(toEval) = 2 + NumAlice
  BY <1>1, PositionOf DEF GarbPlace
<1>4. eStage = "seed" /\ eWire = NumAlice
  <2>1. eStage \in Before \cup {"alice", "commit", "u", "seed"}
    BY <1>3, EvalReached, Numbers
  <2>2. eStage \notin Before \cup {"alice", "commit", "u"}
    BY <1>1, BackOf DEF EvalPlace, Before
  <2>3. eStage = "seed"
    BY <2>1, <2>2
  <2> QED  BY <2>3 DEF EvalPlace, Progress, Transfer
<1>5. \A w \in BobWires :
        /\ label0'[w] = Xor(active[w], When(value[w], curDelta'))
        /\ label0'[w] \in Labels
  <2> SUFFICES ASSUME NEW w \in BobWires
               PROVE  /\ label0'[w] = Xor(active[w], When(value[w], curDelta'))
                      /\ label0'[w] \in Labels
    OBVIOUS
  <2>1. w \in Wires /\ active[w] \in Labels /\ value[w] \in BOOLEAN
    BY Sizes DEF Types
  <2>2. label0'[w] = Xor(toGarb[5].body.row[w], When(toGarb[5].body.choice[w], curDelta'))
    BY <1>1, <2>1 DEF GarbU, GarbNext
  <2>3. toGarb[5].body.row[w] = active[w] /\ toGarb[5].body.choice[w] = value[w]
    BY <1>1, <1>4 DEF Answers, Transfer
  <2> QED  BY <1>2, <2>1, <2>2, <2>3, LabelTypes
<1>6. \A w \in Wires \ BobWires : label0'[w] = label0[w]
  BY DEF GarbU
<1>7. label0' \in [Wires -> Labels]
  <2>1. \A w \in Wires : label0'[w] \in Labels
    BY <1>5, <1>6 DEF Types
  <2>2. label0' = [w \in Wires |-> label0'[w]]
    BY DEF GarbU
  <2> QED  BY <2>1, <2>2
<1>8. Types'
  BY <1>1, <1>2, <1>7, StageNames DEF Types
<1>9. GarbPlace'
  BY <1>1, <1>2, <1>3, Numbers, PositionOf, BackOf
     DEF GarbPlace, Progress, Before, Transfer, AtGates
<1>10. AliceWires \cap BobWires = {} /\ AliceWires \subseteq Wires
  <2>1. \A w \in AliceWires : w \notin BobWires
    BY Numbers DEF AliceWires, BobWires
  <2> QED  BY <2>1, Sizes
<1>11. Inputs'
  <2>1. ~(Len(toEval) >= 4 + NumAlice)
    BY <1>3, Numbers
  <2> QED  BY <1>2, <1>6, <1>10, <2>1 DEF Inputs
<1>12. \A g \in DOMAIN Gates : ~(NumInputs + g < gWire') /\ ~(NumInputs + g < eWire)
  BY <1>1, <1>4, Numbers, Sizes
<1>13. Tables' /\ Garbled' /\ Evaluated'
  BY <1>2, <1>12 DEF Tables, Garbled, Evaluated
<1>14. Decoding'
  BY <1>1, <1>2 DEF Decoding
<1>15. Answers' /\ OutputsCorrect'
  BY <1>2 DEF Answers, OutputsCorrect
<1>16. Transferred'
  BY <1>2, <1>5 DEF Transferred
<1>17. LabelsEncode'
  <2> SUFFICES ASSUME NEW w \in Wires, w < eWire
               PROVE  active[w] = Xor(label0'[w], When(value[w], R))
    BY <1>2 DEF LabelsEncode
  <2>1. w < gWire /\ w \notin BobWires
    BY <1>1, <1>4, Numbers DEF Wires, BobWires
  <2> QED  BY <1>6, <2>1 DEF LabelsEncode
<1> QED  BY <1>2, <1>8, <1>9, <1>11, <1>13, <1>14, <1>15, <1>16, <1>17, EvalPlaceKept

\* A gate that needs no table: the evaluator's label encodes the gate's value.
LEMMA FreeGateEncodes ==
    ASSUME Types, NEW g \in DOMAIN Gates, NEW l0, NEW l, Gates[g].op # "AND",
           active[Gates[g].a] = LabelOf(label0[Gates[g].a], value[Gates[g].a], R),
           active[Gates[g].b] = LabelOf(label0[Gates[g].b], value[Gates[g].b], R),
           Gates[g].op = "ZERO" => l0 = Zero /\ l = Zero,
           Gates[g].op = "NOT" =>
               l0 = Xor(label0[Gates[g].a], R) /\ l = active[Gates[g].a],
           Gates[g].op = "XOR" =>
               /\ l0 = Xor(label0[Gates[g].a], label0[Gates[g].b])
               /\ l = Xor(active[Gates[g].a], active[Gates[g].b])
    PROVE  l = LabelOf(l0, value[NumInputs + g], R)
<1>1. value[Gates[g].a] \in BOOLEAN /\ value[Gates[g].b] \in BOOLEAN
  BY Sizes DEF Types
<1>2. value[NumInputs + g] = Operation(Gates[g], value)
  BY DEF Types, Computes
<1>3. CASE Gates[g].op = "ZERO"
  <2>1. value[NumInputs + g] = FALSE
    BY <1>2, <1>3 DEF Operation
  <2>2. LabelOf(Zero, FALSE, R) = Zero
    BY DEF LabelOf, When, Xor, Zero
  <2> QED  BY <1>3, <2>1, <2>2
<1>4. CASE Gates[g].op = "NOT"
  <2>1. value[NumInputs + g] = ~value[Gates[g].a]
    BY <1>2, <1>4 DEF Operation
  <2> QED  BY <1>1, <1>4, <2>1, NotCorrect
<1>5. CASE Gates[g].op = "XOR"
  <2>1. value[NumInputs + g] = (value[Gates[g].a] # value[Gates[g].b])
    BY <1>2, <1>5 DEF Operation
  <2> QED  BY <1>1, <1>5, <2>1, XorCorrect
<1> QED  BY <1>3, <1>4, <1>5, Sizes

\* What a garbled gate needs: g is the gate, label its output's 0-label.
GarbMakes(g, label) ==
    /\ gStage = "gates" /\ gWire < NumWires /\ g = gWire - NumInputs /\ label \in Labels
    /\ label0' = [label0 EXCEPT ![gWire] = label] /\ gWire' = gWire + 1
    /\ UNCHANGED <<value, R, curDelta, gStage, gOut, gRead, evaluator, toGarb>>
    /\ LET a == label0[Gates[g].a]
           b == label0[Gates[g].b]
       IN  /\ Gates[g].op = "ZERO" => label = Zero
           /\ Gates[g].op = "NOT" => label = Xor(a, R)
           /\ Gates[g].op = "XOR" => label = Xor(a, b)
           /\ Gates[g].op = "AND" => label = GarbledAnd(R, a, b, Ands(g))

LEMMA GarbMakesLabels ==
    ASSUME IInv, NEW g, NEW label, GarbMakes(g, label)
    PROVE  /\ g \in DOMAIN Gates /\ gWire = NumInputs + g /\ gWire \in Nat
           /\ label0' \in [Wires -> Labels] /\ label0'[gWire] = label
           /\ \A w \in Wires : w < gWire => label0'[w] = label0[w]
           /\ gId = Ands(g) /\ gOut = 0 /\ Len(toEval) = 4 + NumAlice + 2 * gId
<1> USE DEF IInv, GarbMakes
<1>1. /\ gWire \in Nat /\ gWire >= NumInputs /\ gWire < NumInputs + NumGates
      /\ gId = Ands(gWire - NumInputs) /\ gOut = 0
  BY Numbers DEF GarbPlace, Progress, AtGates
<1>2. g \in 0 .. NumGates - 1 /\ gWire = NumInputs + g
  BY <1>1, Numbers
<1>3. gWire \in Wires
  BY <1>2, Sizes
<1>4. Len(toEval) = 4 + NumAlice + 2 * gId
  BY PositionOf DEF GarbPlace
<1>5. \A w \in Wires : w < gWire => w # gWire
  BY <1>1 DEF Wires
<1> QED  BY <1>1, <1>2, <1>3, <1>4, <1>5, Sizes DEF Types

LEMMA GarbMakesKeeps ==
    ASSUME IInv, NEW g, NEW label, GarbMakes(g, label), Grows, toEval' \in Seq(EvalMessage)
    PROVE  /\ EvalPlace' /\ Inputs' /\ Decoding' /\ Answers' /\ Transferred' /\ Garbled'
           /\ Evaluated' /\ LabelsEncode' /\ OutputsCorrect'
           /\ \A h \in DOMAIN Gates :
                 Gates[h].op = "AND" /\ NumInputs + h < gWire =>
                     /\ TableAt(h) + 1 <= Len(toEval')
                     /\ toEval'[TableAt(h)] = Message("TG", TG(h)')
                     /\ toEval'[TableAt(h) + 1] = Message("TE", TE(h)')
<1> USE DEF IInv
<1>1. /\ g \in DOMAIN Gates /\ gWire = NumInputs + g /\ gWire \in Nat
      /\ label0' \in [Wires -> Labels] /\ label0'[gWire] = label
      /\ \A w \in Wires : w < gWire => label0'[w] = label0[w]
      /\ gId = Ands(g) /\ gOut = 0 /\ Len(toEval) = 4 + NumAlice + 2 * gId
  BY GarbMakesLabels
<1>2. /\ UNCHANGED <<value, R, curDelta, gStage, gOut, gRead, evaluator, toGarb>>
      /\ gStage = "gates" /\ gWire' = gWire + 1
      /\ Gates[g].op = "ZERO" => label = Zero
      /\ Gates[g].op = "NOT" => label = Xor(label0[Gates[g].a], R)
      /\ Gates[g].op = "XOR" => label = Xor(label0[Gates[g].a], label0[Gates[g].b])
      /\ Gates[g].op = "AND" =>
            label = GarbledAnd(R, label0[Gates[g].a], label0[Gates[g].b], Ands(g))
  BY DEF GarbMakes
<1>3. EvalPlace' /\ Answers' /\ OutputsCorrect'
  BY <1>2, EvalPlaceKept DEF Answers, OutputsCorrect, evaluator
<1>4. \A w \in AliceWires \cup BobWires : w \in Wires /\ w < gWire
  <2>1. gWire >= NumInputs
    <3>1. g \in Nat
      BY <1>1, Sizes
    <3> QED  BY <1>1, <3>1, Numbers
  <2>2. ASSUME NEW w \in AliceWires \cup BobWires
        PROVE  w \in Wires /\ w < gWire
    <3>1. w \in Nat /\ w < NumInputs
      BY Numbers DEF AliceWires, BobWires
    <3> QED  BY <1>1, <2>1, <3>1, Numbers, Sizes
  <2> QED  BY <2>2
<1>5. gId \in Nat /\ Len(toEval) \in Nat /\ Len(toEval) >= 4 + NumAlice
  <2>1. gId \in Nat
    BY <1>1, AndsBound
  <2>2. NumAlice \in Nat /\ Len(toEval) = 4 + NumAlice + 2 * gId
    BY <1>1, Numbers
  <2> QED  BY ONLY <2>1, <2>2
<1>6. Inputs'
  <2>1. \A k \in 1 .. 4 + NumAlice : toEval'[k] = toEval[k]
    <3>1. \A k \in 1 .. 4 + NumAlice : k \in 1 .. Len(toEval)
      BY <1>5, Numbers
    <3> QED  BY <3>1 DEF Grows
  <2>2. toEval'[1].kind = "basePoints" /\ toEval'[2].kind = "answer"
    <3>1. {1, 2} \subseteq 1 .. 4 + NumAlice /\ Len(toEval) >= 2
      BY <1>5, Numbers
    <3> QED  BY <2>1, <3>1 DEF Inputs
  <2>3. ASSUME NEW w \in AliceWires
        PROVE  toEval'[w + 3] = Message("alice", LabelOf(label0'[w], value'[w], R'))
    <3>1. w + 3 \in 1 .. 4 + NumAlice /\ w + 3 <= Len(toEval)
      BY <1>5, Numbers DEF AliceWires
    <3>2. toEval[w + 3] = Message("alice", LabelOf(label0[w], value[w], R))
      BY <3>1 DEF Inputs
    <3> QED  BY <1>1, <1>2, <1>4, <2>1, <3>1, <3>2
  <2>4. 3 + NumAlice \in 1 .. 4 + NumAlice /\ 4 + NumAlice \in 1 .. 4 + NumAlice
    BY Numbers
  <2>5. toEval'[3 + NumAlice].kind = "seed"
    <3>1. Len(toEval) >= 3 + NumAlice
      BY <1>5, Numbers
    <3> QED  BY <2>1, <2>4, <3>1 DEF Inputs
  <2>6. toEval'[4 + NumAlice] = Message("offset", Offset')
    BY <1>2, <1>5, <2>1, <2>4 DEF Inputs, Offset
  <2> QED  BY <2>2, <2>3, <2>5, <2>6 DEF Inputs
<1>7. Decoding'
  BY <1>1, <1>2 DEF Decoding
<1>8. Transferred'
  <2>1. gStage \in Transfer \cup {"check"} \cup AtGates
    BY <1>2 DEF AtGates
  <2> QED  BY <1>1, <1>2, <1>4, <2>1 DEF Transferred, evaluator
<1>9. \A h \in DOMAIN Gates : NumInputs + h < gWire' =>
        /\ h = g \/ NumInputs + h < gWire
        /\ label0'[Gates[h].a] = label0[Gates[h].a] /\ label0'[Gates[h].b] = label0[Gates[h].b]
  <2> SUFFICES ASSUME NEW h \in DOMAIN Gates, NumInputs + h < gWire'
               PROVE  /\ h = g \/ NumInputs + h < gWire
                      /\ label0'[Gates[h].a] = label0[Gates[h].a]
                      /\ label0'[Gates[h].b] = label0[Gates[h].b]
    OBVIOUS
  <2>1. h \in Nat /\ g \in Nat /\ (h = g \/ NumInputs + h < gWire)
    BY <1>1, <1>2, Numbers, Sizes
  <2>2. /\ Gates[h].a \in Wires /\ Gates[h].a < NumInputs + h
        /\ Gates[h].b \in Wires /\ Gates[h].b < NumInputs + h
    BY Sizes
  <2>3. Gates[h].a < gWire /\ Gates[h].b < gWire
    <3>1. gWire = NumInputs + g /\ NumInputs \in Nat /\ NumInputs + h <= gWire
      BY <1>1, <2>1, Numbers
    <3>2. Gates[h].a \in Nat /\ Gates[h].b \in Nat
      BY <2>2 DEF Wires
    <3> QED  BY <2>1, <2>2, <3>1, <3>2
  <2> QED  BY <1>1, <2>1, <2>2, <2>3
<1>10. Garbled'
  <2> SUFFICES ASSUME NEW h \in DOMAIN Gates, NumInputs + h < gWire'
               PROVE  LET l == label0'[NumInputs + h]
                          a == label0[Gates[h].a]
                          b == label0[Gates[h].b]
                      IN  /\ Gates[h].op = "ZERO" => l = Zero
                          /\ Gates[h].op = "NOT" => l = Xor(a, R)
                          /\ Gates[h].op = "XOR" => l = Xor(a, b)
                          /\ Gates[h].op = "AND" => l = GarbledAnd(R, a, b, Ands(h))
    BY <1>2, <1>9 DEF Garbled
  <2>1. CASE h = g
    BY <1>1, <1>2, <2>1
  <2>2. CASE NumInputs + h < gWire
    <3>1. label0'[NumInputs + h] = label0[NumInputs + h]
      BY <1>1, <2>2, Sizes
    <3> QED  BY <2>2, <3>1 DEF Garbled
  <2> QED  BY <1>9, <2>1, <2>2
<1>11. Evaluated'
  <2>1. \A h \in DOMAIN Gates : NumInputs + h < gWire => NumInputs + h < gWire'
    BY <1>1, <1>2, Numbers, Sizes
  <2> QED  BY <1>2, <2>1 DEF Evaluated, evaluator
<1>12. LabelsEncode'
  <2> SUFFICES ASSUME NEW w \in Wires, w < eWire, w < gWire'
               PROVE  active[w] = LabelOf(label0'[w], value[w], R)
    BY <1>2 DEF LabelsEncode, LabelOf, evaluator
  <2>1. CASE w < gWire
    BY <1>1, <2>1 DEF LabelsEncode, LabelOf
  <2>2. CASE w = gWire
    <3>1. Gates[g].op # "AND"
      BY <1>1, <2>2 DEF Evaluated
    <3>2. /\ Gates[g].a \in Wires /\ Gates[g].a < gWire
          /\ Gates[g].b \in Wires /\ Gates[g].b < gWire
      BY <1>1, Sizes
    <3>3. Gates[g].a < eWire /\ Gates[g].b < eWire
      <4>1. eWire \in Nat
        BY DEF EvalPlace, Progress
      <4> QED  BY <1>1, <2>2, <3>2, <4>1, Numbers DEF Wires
    <3>4. /\ active[Gates[g].a] = LabelOf(label0[Gates[g].a], value[Gates[g].a], R)
          /\ active[Gates[g].b] = LabelOf(label0[Gates[g].b], value[Gates[g].b], R)
      BY <3>2, <3>3 DEF LabelsEncode, LabelOf
    <3>5. /\ Gates[g].op = "ZERO" => active[w] = Zero
          /\ Gates[g].op = "NOT" => active[w] = active[Gates[g].a]
          /\ Gates[g].op = "XOR" => active[w] = Xor(active[Gates[g].a], active[Gates[g].b])
      BY <1>1, <2>2 DEF Evaluated
    <3>6. active[w] = LabelOf(label, value[NumInputs + g], R)
      <4>1. /\ Gates[g].op = "ZERO" => label = Zero /\ active[w] = Zero
            /\ Gates[g].op = "NOT" =>
                  label = Xor(label0[Gates[g].a], R) /\ active[w] = active[Gates[g].a]
            /\ Gates[g].op = "XOR" =>
                  /\ label = Xor(label0[Gates[g].a], label0[Gates[g].b])
                  /\ active[w] = Xor(active[Gates[g].a], active[Gates[g].b])
        BY <1>2, <3>5
      <4>2. g \in DOMAIN Gates /\ Types
        BY <1>1
      <4> QED  BY ONLY <3>1, <3>4, <4>1, <4>2, FreeGateEncodes
    <3> QED  BY <1>1, <2>2, <3>6
  <2>3. w < gWire \/ w = gWire
    BY <1>1, <1>2, Numbers DEF Wires
  <2> QED  BY <2>1, <2>2, <2>3
<1>13. ASSUME NEW h \in DOMAIN Gates, Gates[h].op = "AND", NumInputs + h < gWire
       PROVE  /\ TableAt(h) + 1 <= Len(toEval')
              /\ toEval'[TableAt(h)] = Message("TG", TG(h)')
              /\ toEval'[TableAt(h) + 1] = Message("TE", TE(h)')
  <2>1. /\ TableAt(h) + 1 <= Len(toEval)
        /\ toEval[TableAt(h)] = Message("TG", TG(h))
        /\ toEval[TableAt(h) + 1] = Message("TE", TE(h))
    BY <1>13 DEF Tables
  <2>2. TableAt(h) \in Nat /\ TableAt(h) >= 1
    BY AndsBound, Numbers DEF TableAt
  <2>3. TableAt(h) \in 1 .. Len(toEval) /\ TableAt(h) + 1 \in 1 .. Len(toEval)
    BY <1>5, <2>1, <2>2
  <2>4. TG(h)' = TG(h) /\ TE(h)' = TE(h)
    <3>1. NumInputs + h < gWire'
      BY <1>1, <1>2, <1>13, Numbers, Sizes
    <3> QED  BY <1>2, <1>9, <3>1 DEF TG, TE
  <2>5. Len(toEval') \in Nat /\ Len(toEval') >= Len(toEval)
    BY DEF Grows
  <2> QED  BY <1>5, <2>1, <2>2, <2>3, <2>4, <2>5 DEF Grows
<1> QED  BY <1>3, <1>6, <1>7, <1>8, <1>10, <1>11, <1>12, <1>13

LEMMA GarbMakesPlace ==
    ASSUME IInv, NEW g, NEW label, GarbMakes(g, label), gId' = Ands(g + 1),
           Len(toEval') = 4 + NumAlice + 2 * gId', toEval' \in Seq(EvalMessage)
    PROVE  Types' /\ GarbPlace'
<1> USE DEF IInv
<1>1. /\ g \in DOMAIN Gates /\ gWire = NumInputs + g /\ gWire \in Nat
      /\ label0' \in [Wires -> Labels] /\ gOut = 0 /\ Len(toEval) = 4 + NumAlice + 2 * gId
      /\ gId = Ands(g)
  BY GarbMakesLabels
<1>2. /\ UNCHANGED <<value, R, curDelta, gStage, gOut, gRead, evaluator, toGarb>>
      /\ gStage = "gates" /\ gWire' = gWire + 1
  BY DEF GarbMakes
<1>3. g \in Nat /\ g + 1 \in Nat /\ g + 1 <= NumGates
  BY <1>1, Sizes
<1>4. gId \in Nat /\ gId' \in Nat /\ gId <= gId'
  <2>1. g <= g + 1
    BY <1>3
  <2> QED  BY <1>1, <1>3, <2>1, AndsCount
<1>5. Types'
  <2>1. Len(toEval) <= Len(toEval')
    BY <1>1, <1>4, Numbers
  <2>2. eRead <= Len(toEval') /\ Len(toEval') \in Nat
    BY <2>1 DEF Types
  <2> QED  BY <1>1, <1>2, <2>2 DEF Types, evaluator
<1>6. gWire' \in 0 .. NumWires /\ gWire' >= NumInputs /\ gWire' - NumInputs = g + 1
  <2>1. gWire' = NumInputs + g + 1 /\ NumWires = NumInputs + NumGates
    BY <1>1, <1>2, <1>3, Numbers
  <2> QED  BY <1>3, <2>1, Numbers
<1>7. Progress(gStage, gWire, gId, NumInputs)'
  BY <1>2, <1>4, <1>6 DEF Progress, Before, Transfer, AtGates
<1>8. Len(toEval') = Position("gates", gWire', gId', gOut')
  BY PositionOf
<1> QED  BY <1>1, <1>2, <1>5, <1>7, <1>8, BackOf DEF GarbPlace

LEMMA GarbFreeKeeps == ASSUME IInv, GarbFree PROVE IInv'
<1>0. PICK g : g = gWire - NumInputs
  OBVIOUS
<1>1. Gates[g].op # "AND" /\ UNCHANGED <<gId, toEval>>
  BY <1>0 DEF GarbFree, GarbGate
<1>2. \E label \in Labels : GarbMakes(g, label)
  <2>1. /\ gStage = "gates" /\ gWire < NumWires /\ g = gWire - NumInputs
        /\ label0[Gates[g].a] \in Labels /\ label0[Gates[g].b] \in Labels
    <3>1. gStage = "gates" /\ gWire < NumWires
      BY DEF GarbFree, Garbling
    <3>2. g \in DOMAIN Gates
      BY <1>0, <3>1, Numbers, Sizes DEF IInv, GarbPlace, Progress, AtGates
    <3> QED  BY <1>0, <3>1, <3>2, Sizes DEF IInv, Types
  <2>2. CASE Gates[g].op = "ZERO" /\ GarbMake(Zero)
    <3>1. GarbMakes(g, Zero)
      BY <2>1, <2>2, LabelTypes DEF GarbMake, GarbMakes
    <3> QED  BY <3>1, LabelTypes
  <2>3. CASE Gates[g].op = "NOT" /\ GarbMake(Xor(label0[Gates[g].a], R))
    <3>1. Xor(label0[Gates[g].a], R) \in Labels
      BY <2>1, LabelTypes DEF IInv, Types
    <3>2. GarbMakes(g, Xor(label0[Gates[g].a], R))
      BY <2>1, <2>3, <3>1 DEF GarbMake, GarbMakes
    <3> QED  BY <3>1, <3>2
  <2>4. CASE Gates[g].op = "XOR" /\ GarbMake(Xor(label0[Gates[g].a], label0[Gates[g].b]))
    <3>1. Xor(label0[Gates[g].a], label0[Gates[g].b]) \in Labels
      BY <2>1, LabelTypes
    <3>2. GarbMakes(g, Xor(label0[Gates[g].a], label0[Gates[g].b]))
      BY <2>1, <2>4, <3>1 DEF GarbMake, GarbMakes
    <3> QED  BY <3>1, <3>2
  <2> QED  BY <1>0, <2>2, <2>3, <2>4 DEF GarbFree, GarbGate, GarbA, GarbB
<1>3. PICK label \in Labels : GarbMakes(g, label)
  BY <1>2
<1>4. Grows /\ toEval' \in Seq(EvalMessage)
  BY <1>1 DEF IInv, Types, Grows
<1>5. /\ g \in DOMAIN Gates /\ gWire = NumInputs + g /\ gWire' = gWire + 1
      /\ gId = Ands(g) /\ Len(toEval) = 4 + NumAlice + 2 * gId
  BY <1>3, GarbMakesLabels DEF GarbMakes
<1>6. gId' = Ands(g + 1)
  BY <1>1, <1>5, Sizes, AndsCount
<1>7. Types' /\ GarbPlace'
  BY <1>1, <1>3, <1>4, <1>5, <1>6, GarbMakesPlace
<1>8. /\ EvalPlace' /\ Inputs' /\ Decoding' /\ Answers' /\ Transferred' /\ Garbled'
      /\ Evaluated' /\ LabelsEncode' /\ OutputsCorrect'
      /\ \A h \in DOMAIN Gates :
            Gates[h].op = "AND" /\ NumInputs + h < gWire =>
                /\ TableAt(h) + 1 <= Len(toEval')
                /\ toEval'[TableAt(h)] = Message("TG", TG(h)')
                /\ toEval'[TableAt(h) + 1] = Message("TE", TE(h)')
  BY <1>3, <1>4, GarbMakesKeeps
<1>9. Tables'
  <2>1. \A h \in DOMAIN Gates :
          Gates[h].op = "AND" /\ NumInputs + h < gWire' => NumInputs + h < gWire
    BY <1>1, <1>5, Numbers, Sizes
  <2> QED  BY <1>8, <2>1 DEF Tables
<1> QED  BY <1>7, <1>8, <1>9 DEF IInv

LEMMA GarbAndKeeps == ASSUME IInv, GarbAnd PROVE IInv'
<1>0. PICK g : g = gWire - NumInputs
  OBVIOUS
<1> DEFINE a == label0[Gates[g].a]
           b == label0[Gates[g].b]
           label == GarbledAnd(R, a, b, Ands(g))
           ms == <<Message("TG", TG(g)), Message("TE", TE(g))>>
<1> HIDE DEF label, ms
<1>1. /\ gStage = "gates" /\ gWire < NumWires /\ g = gWire - NumInputs
      /\ Gates[g].op = "AND" /\ gId' = gId + 1
  BY <1>0 DEF GarbAnd, Garbling, GarbGate
<1>2. g \in DOMAIN Gates /\ gWire = NumInputs + g /\ gWire \in Nat /\ gId = Ands(g)
  BY <1>1, Numbers, Sizes DEF IInv, GarbPlace, Progress, AtGates
<1>3. a \in Labels /\ b \in Labels /\ R \in Labels
  BY <1>2, Sizes DEF IInv, Types
<1>4. \A l \in Labels : Hash(l, Ands(g)) \in Labels
  <2>1. Ands(g) \in 0 .. NumGates
    BY <1>2, AndsBound, Numbers
  <2> QED  BY <2>1, HashAssumption
<1>5. TG(g) \in Labels /\ TE(g) \in Labels
  <2>1. When(LSB(b), R) \in Labels
    BY <1>3, WhenSelected
  <2>2. Xor(a, R) \in Labels /\ Xor(b, R) \in Labels
    BY <1>3, LabelTypes
  <2>3. TG(g) = Xor(Xor(Hash(a, Ands(g)), Hash(Xor(a, R), Ands(g))), When(LSB(b), R))
    BY DEF TG, TableG
  <2>4. TE(g) = Xor(Xor(Hash(b, Ands(g)), Hash(Xor(b, R), Ands(g))), a)
    BY DEF TE, TableE
  <2>5. /\ Xor(Hash(a, Ands(g)), Hash(Xor(a, R), Ands(g))) \in Labels
        /\ Xor(Hash(b, Ands(g)), Hash(Xor(b, R), Ands(g))) \in Labels
    BY <1>3, <1>4, <2>2, LabelTypes
  <2> QED  BY <1>3, <2>1, <2>3, <2>4, <2>5, LabelTypes
<1>6. label \in Labels
  <2>1. /\ When(LSB(a), TG(g)) \in Labels /\ Xor(TE(g), a) \in Labels
        /\ Hash(a, Ands(g)) \in Labels /\ Hash(b, Ands(g)) \in Labels
    BY <1>3, <1>4, <1>5, WhenSelected, LabelTypes
  <2>2. When(LSB(b), Xor(TE(g), a)) \in Labels
    BY <1>3, <2>1, WhenSelected
  <2>3. label = Xor(Xor(Hash(a, Ands(g)), When(LSB(a), TG(g))),
                    Xor(Hash(b, Ands(g)), When(LSB(b), Xor(TE(g), a))))
    BY DEF label, GarbledAnd, TG, TE
  <2> QED  BY <2>1, <2>2, <2>3, LabelTypes
<1>7. GarbMakes(g, label)
  <2>1. GarbMake(label)
    BY <1>1, <1>2 DEF GarbAnd, GarbA, GarbB, GarbGate, label
  <2> QED  BY <1>1, <1>6, <2>1 DEF GarbMake, GarbMakes, label
<1>8. ms \in Seq(EvalMessage) /\ Len(ms) = 2
      /\ ms[1] = Message("TG", TG(g)) /\ ms[2] = Message("TE", TE(g))
  <2>1. Message("TG", TG(g)) \in EvalMessage /\ Message("TE", TE(g)) \in EvalMessage
    BY <1>5, LabelTypes DEF EvalKinds
  <2> QED  BY <2>1 DEF ms
<1>9. SendToEval(ms)
  BY <1>1, <1>2 DEF GarbAnd, GarbA, GarbB, GarbGate, TG, TE, ms
<1>10. /\ toEval' \in Seq(EvalMessage) /\ Grows
       /\ Len(toEval') = Len(toEval) + Len(ms)
       /\ \A k \in 1 .. Len(ms) : toEval'[Len(toEval) + k] = ms[k]
  BY <1>8, <1>9, Sent DEF IInv
<1>11. Len(toEval) = 4 + NumAlice + 2 * gId
  BY <1>7, GarbMakesLabels
<1>12. gId' = Ands(g + 1) /\ gId \in Nat
  BY <1>1, <1>2, Sizes, AndsCount
<1>13. Types' /\ GarbPlace'
  <2>1. Len(toEval') = 4 + NumAlice + 2 * gId'
    BY <1>1, <1>8, <1>10, <1>11, <1>12, Numbers
  <2> QED  BY <1>7, <1>10, <1>12, <2>1, GarbMakesPlace
<1>14. /\ EvalPlace' /\ Inputs' /\ Decoding' /\ Answers' /\ Transferred' /\ Garbled'
       /\ Evaluated' /\ LabelsEncode' /\ OutputsCorrect'
       /\ \A h \in DOMAIN Gates :
             Gates[h].op = "AND" /\ NumInputs + h < gWire =>
                 /\ TableAt(h) + 1 <= Len(toEval')
                 /\ toEval'[TableAt(h)] = Message("TG", TG(h)')
                 /\ toEval'[TableAt(h) + 1] = Message("TE", TE(h)')
  BY <1>7, <1>10, GarbMakesKeeps
<1>15. TG(g)' = TG(g) /\ TE(g)' = TE(g)
  <2>1. R' = R /\ \A w \in Wires : w < gWire => label0'[w] = label0[w]
    BY <1>7, GarbMakesLabels DEF GarbMakes
  <2>2. /\ Gates[g].a \in Wires /\ Gates[g].a < gWire
        /\ Gates[g].b \in Wires /\ Gates[g].b < gWire
    BY <1>2, Sizes
  <2>3. label0'[Gates[g].a] = a /\ label0'[Gates[g].b] = b
    BY <2>1, <2>2
  <2> QED  BY <2>1, <2>3 DEF TG, TE
<1>16. Tables'
  <2> SUFFICES ASSUME NEW h \in DOMAIN Gates, Gates[h].op = "AND", NumInputs + h < gWire'
               PROVE  /\ TableAt(h) + 1 <= Len(toEval')
                      /\ toEval'[TableAt(h)] = Message("TG", TG(h)')
                      /\ toEval'[TableAt(h) + 1] = Message("TE", TE(h)')
    BY DEF Tables
  <2>1. h = g \/ NumInputs + h < gWire
    <3>1. h \in Nat /\ g \in Nat
      BY <1>2, Sizes
    <3>2. gWire' = NumInputs + g + 1
      BY <1>2, <1>7 DEF GarbMakes
    <3> QED  BY <1>2, <3>1, <3>2, Numbers
  <2>2. CASE h = g
    <3>1. TableAt(h) = Len(toEval) + 1 /\ TableAt(h) + 1 = Len(toEval) + 2
      BY <1>2, <1>11, <1>12, <2>2, Numbers DEF TableAt
    <3>2. 1 \in 1 .. Len(ms) /\ 2 \in 1 .. Len(ms)
      BY <1>8
    <3>3. TableAt(h) + 1 <= Len(toEval')
      BY <1>8, <1>10, <1>11, <1>12, <3>1, Numbers
    <3>4. /\ toEval'[TableAt(h)] = Message("TG", TG(h))
          /\ toEval'[TableAt(h) + 1] = Message("TE", TE(h))
      BY <1>8, <1>10, <2>2, <3>1, <3>2
    <3> QED  BY <1>15, <2>2, <3>3, <3>4
  <2> QED  BY <1>14, <2>1, <2>2
<1> QED  BY <1>13, <1>14, <1>16 DEF IInv

-----------------------------------------------------------------------------
(* Steps of the evaluator before the gates *)

\* The evaluator changes nothing the garbler's half of the invariant is about.
LEMMA EvalStepKeeps ==
    ASSUME IInv, UNCHANGED <<value, garbler, toEval>>
    PROVE  GarbPlace' /\ Inputs' /\ Tables' /\ Decoding' /\ Garbled'
<1> USE DEF IInv, garbler
<1>1. GarbPlace'
  BY DEF GarbPlace, Progress
<1>2. Inputs' /\ Decoding'
  BY DEF Inputs, Offset, Decoding
<1>3. Tables' /\ Garbled'
  BY DEF Tables, TG, TE, Garbled
<1> QED  BY <1>1, <1>2, <1>3

\* A step that makes no label and decodes nothing.
LEMMA LabelsKept ==
    ASSUME IInv, UNCHANGED <<value, garbler, toEval, active, eWire, result>>
    PROVE  Evaluated' /\ LabelsEncode' /\ OutputsCorrect'
BY DEF IInv, garbler, Evaluated, LabelsEncode, OutputsCorrect

\* One more answer, after those already there.
LEMMA Answered ==
    ASSUME Types, NEW m \in GarbMessage, SendToGarb(m)
    PROVE  /\ toGarb' \in Seq(GarbMessage) /\ Len(toGarb') = Len(toGarb) + 1
           /\ \A k \in 1 .. Len(toGarb) : toGarb'[k] = toGarb[k]
           /\ toGarb'[Len(toGarb) + 1] = m
BY DEF Types, SendToGarb

LEMMA EvalSendKeeps == ASSUME IInv, EvalSend PROVE IInv'
<1> USE DEF IInv, EvalSend
<1> DEFINE m == Signal(eStage)
<1>1. \/ eStage = "baseKeys" /\ eStage' = "basePoints"
      \/ eStage = "challenge" /\ eStage' = "answer"
      \/ eStage = "opening" /\ eStage' = "alice"
      \/ eStage = "commit" /\ eStage' = "u"
      \/ eStage = "theirSeed" /\ eStage' = "offset"
      \/ eStage = "check" /\ eStage' = "gates"
  BY After DEF EvalAdvance
<1>2. m \in GarbMessage /\ m.kind = eStage
  BY <1>1 DEF Signal, Message, GarbMessage, GarbKinds
<1>3. /\ toGarb' \in Seq(GarbMessage) /\ Len(toGarb') = Len(toGarb) + 1
      /\ \A k \in 1 .. Len(toGarb) : toGarb'[k] = toGarb[k]
      /\ toGarb'[Len(toGarb) + 1] = m
  BY <1>2, Answered
<1> HIDE DEF m
<1>4. UNCHANGED <<value, garbler, active, eWire, eId, result, eRead, toEval>>
  OBVIOUS
<1>5. Len(toGarb) = Back(eStage) /\ Len(result) = 0 /\ Len(toGarb) \in Nat
  BY <1>1 DEF EvalPlace, Types
<1>6. Types'
  <2>1. gRead <= Len(toGarb')
    BY <1>3, <1>5 DEF Types
  <2> QED  BY <1>1, <1>3, <1>4, <2>1, StageNames DEF Types, garbler
<1>7. EvalPlace'
  <2> USE <1>3, <1>4, <1>5, Numbers, PositionOf, BackOf
      DEF EvalPlace, Progress, Before, Transfer, AtGates
  <2>1. CASE eStage = "baseKeys"
    BY <1>1, <2>1
  <2>2. CASE eStage = "commit"
    BY <1>1, <2>2
  <2>3. CASE eStage = "theirSeed"
    BY <1>1, <2>3
  <2>4. CASE eStage = "check"
    BY <1>1, <2>4
  <2>5. CASE eStage = "challenge"
    BY <1>1, <2>5
  <2>6. CASE eStage = "opening"
    BY <1>1, <2>6
  <2> QED  BY <1>1, <2>1, <2>2, <2>3, <2>4, <2>5, <2>6
<1>8. Answers'
  <2>1. CASE eStage = "baseKeys"
    BY <1>1, <1>2, <1>3, <1>5, <2>1, BackOf DEF Answers, Transfer
  <2>2. CASE eStage = "commit"
    BY <1>1, <1>2, <1>3, <1>5, <2>2, BackOf DEF Answers, Transfer
  <2>3. CASE eStage = "theirSeed"
    BY <1>1, <1>2, <1>3, <1>4, <1>5, <2>3, BackOf DEF Answers, Transfer
  <2>4. CASE eStage = "check"
    BY <1>1, <1>2, <1>3, <1>4, <1>5, <2>4, BackOf DEF Answers, Transfer
  <2>5. CASE eStage = "challenge"
    BY <1>1, <1>2, <1>3, <1>5, <2>5, BackOf DEF Answers, Transfer
  <2>6. CASE eStage = "opening"
    BY <1>1, <1>2, <1>3, <1>5, <2>6, BackOf DEF Answers, Transfer
  <2> QED  BY <1>1, <2>1, <2>2, <2>3, <2>4, <2>5, <2>6
<1>9. Transferred'
  BY <1>1, <1>4 DEF Transferred, Transfer, garbler
<1> QED  BY <1>4, <1>6, <1>7, <1>8, <1>9, EvalStepKeeps, LabelsKept

LEMMA EvalReadKeeps == ASSUME IInv, EvalRead PROVE IInv'
<1> USE DEF IInv, EvalRead
<1>1. \/ eStage = "basePoints" /\ eStage' = "challenge"
      \/ eStage = "answer" /\ eStage' = "opening"
      \/ eStage = "seed" /\ eStage' = "theirSeed"
  BY After DEF EvalAdvance
<1>2. /\ UNCHANGED <<value, garbler, active, eWire, eId, result, toEval, toGarb>>
      /\ eRead' = eRead + 1 /\ eRead + 1 <= Len(toEval)
  BY DEF EvalReads, EvalHas
<1>3. Types'
  BY <1>1, <1>2, StageNames DEF Types, garbler
<1>4. EvalPlace'
  <2> USE <1>2, Numbers, PositionOf, BackOf
      DEF EvalPlace, Progress, Before, Transfer, AtGates
  <2>1. CASE eStage = "basePoints"
    BY <1>1, <2>1
  <2>2. CASE eStage = "seed"
    BY <1>1, <2>2
  <2>3. CASE eStage = "answer"
    BY <1>1, <2>3
  <2> QED  BY <1>1, <2>1, <2>2, <2>3
<1>5. Answers' /\ Transferred'
  BY <1>1, <1>2 DEF Answers, Transferred, Transfer, garbler
<1> QED  BY <1>2, <1>3, <1>4, <1>5, EvalStepKeeps, LabelsKept

LEMMA EvalAliceDoneKeeps == ASSUME IInv, EvalAliceDone PROVE IInv'
<1> USE DEF IInv, EvalAliceDone
<1>1. /\ eStage = "alice" /\ eStage' = "commit" /\ eWire = NumAlice
      /\ UNCHANGED <<value, garbler, active, eWire, eId, result, eRead, toEval, toGarb>>
  BY After DEF EvalAdvance
<1>2. Types'
  BY <1>1, StageNames DEF Types, garbler
<1>3. EvalPlace'
  BY <1>1, Numbers, PositionOf, BackOf DEF EvalPlace, Progress, Before, Transfer, AtGates
<1>4. Answers' /\ Transferred'
  BY <1>1 DEF Answers, Transferred, Transfer, garbler
<1> QED  BY <1>1, <1>2, <1>3, <1>4, EvalStepKeeps, LabelsKept

LEMMA EvalAliceKeeps == ASSUME IInv, EvalAlice PROVE IInv'
<1> USE DEF IInv, EvalAlice
<1>1. /\ eStage = "alice" /\ eWire < NumAlice /\ eWire' = eWire + 1
      /\ eRead' = eRead + 1 /\ eRead + 1 <= Len(toEval)
      /\ UNCHANGED <<value, garbler, eId, eStage, result, toEval, toGarb>>
      /\ active' = [active EXCEPT ![eWire] = toEval[eRead + 1].body]
  BY DEF EvalReads, EvalHas, EvalNext
<1>2. /\ eWire \in AliceWires /\ eWire \in Wires /\ eWire \in Nat /\ eRead = 2 + eWire
      /\ Len(result) = 0 /\ eId = 0
  BY <1>1, Numbers, PositionOf DEF EvalPlace, Progress, AliceWires, Wires, AtGates
<1>3. /\ toEval[eRead + 1].body = LabelOf(label0[eWire], value[eWire], R)
      /\ LabelOf(label0[eWire], value[eWire], R) \in Labels
  <2>1. eRead + 1 = eWire + 3 /\ eWire + 3 <= Len(toEval)
    BY <1>1, <1>2
  <2>2. toEval[eWire + 3] = Message("alice", LabelOf(label0[eWire], value[eWire], R))
    BY <1>2, <2>1 DEF Inputs
  <2> QED  BY <1>2, <2>1, <2>2, LabelTypes DEF Types, LabelOf
<1>4. /\ active' \in [Wires -> Labels]
      /\ active'[eWire] = LabelOf(label0[eWire], value[eWire], R)
      /\ \A w \in Wires : w # eWire => active'[w] = active[w]
  BY <1>1, <1>2, <1>3 DEF Types
<1>5. Types'
  BY <1>1, <1>4 DEF Types, garbler
<1>6. EvalPlace'
  BY <1>1, <1>2, Numbers, PositionOf DEF EvalPlace, Progress, Before, Transfer, AtGates
<1>7. Answers' /\ Transferred' /\ OutputsCorrect'
  BY <1>1 DEF Answers, Transferred, Transfer, garbler, OutputsCorrect
<1>8. Evaluated'
  <2>1. \A g \in DOMAIN Gates : ~(NumInputs + g < eWire')
    BY <1>1, <1>2, Numbers, Sizes
  <2> QED  BY <2>1 DEF Evaluated
<1>9. LabelsEncode'
  <2> SUFFICES ASSUME NEW w \in Wires, w < eWire + 1, w < gWire
               PROVE  active'[w] = LabelOf(label0[w], value[w], R)
    BY <1>1 DEF LabelsEncode, LabelOf, garbler
  <2>1. w = eWire \/ w < eWire
    BY <1>2 DEF Wires
  <2>2. w < eWire => w # eWire
    BY <1>2 DEF Wires
  <2> QED  BY <1>4, <2>1, <2>2 DEF LabelsEncode, LabelOf
<1> QED  BY <1>1, <1>5, <1>6, <1>7, <1>8, <1>9, EvalStepKeeps

\* From what is written to the stages in which the garbler is.
LEMMA GarbReached ==
    ASSUME Types, GarbPlace
    PROVE  /\ Len(toEval) >= 4 + NumAlice => gStage \in {"check"} \cup AtGates
           /\ gRead <= 4 => gStage \in Before \cup {"alice", "commit", "u"}
<1>1. /\ gStage \in Before \cup {"alice", "commit", "u", "seed", "theirSeed", "offset",
                                "check", "gates", "outputs"}
      /\ Len(toEval) = Position(gStage, gWire, gId, gOut) /\ gRead = Back(gStage)
  BY StageNames DEF Types, GarbPlace, Before
<1>2. CASE gStage \in Before
  <2>1. Position(gStage, gWire, gId, gOut) \in {0, 1, 2}
    BY ONLY <1>2 DEF Position, Before
  <2>2. Len(toEval) \in {0, 1, 2}
    BY ONLY <1>1, <2>1
  <2>3. \A n \in {0, 1, 2} : ~(n >= 4 + NumAlice)
    BY Numbers
  <2> QED  BY ONLY <1>2, <2>2, <2>3
<1>3. CASE gStage = "alice"
  <2>1. Len(toEval) = 2 + gWire
    BY <1>1, <1>3, PositionOf
  <2>2. gWire \in Nat /\ gWire <= NumAlice
    BY <1>3 DEF GarbPlace, Progress
  <2> QED  BY <1>3, <2>1, <2>2, Numbers
<1>4. CASE gStage \in {"commit", "u", "seed"}
  BY <1>1, <1>4, PositionOf, BackOf, Numbers
<1>5. CASE gStage \in {"theirSeed", "offset"}
  BY <1>1, <1>5, PositionOf, BackOf, Numbers
<1>6. CASE gStage \in {"check", "gates", "outputs"}
  BY <1>1, <1>6, BackOf DEF AtGates
<1> QED  BY <1>1, <1>2, <1>3, <1>4, <1>5, <1>6

LEMMA EvalUKeeps == ASSUME IInv, EvalU PROVE IInv'
<1> USE DEF IInv
<1>1. /\ eStage = "u" /\ eStage' = "seed"
      /\ UNCHANGED <<value, garbler, eWire, eId, result, eRead, toEval>>
  BY After DEF EvalU, EvalAdvance
<1>2. PICK row \in [BobWires -> Labels] :
        /\ active' = [w \in Wires |-> IF w \in BobWires THEN row[w] ELSE active[w]]
        /\ SendToGarb(Message("u", [row |-> row,
                                    choice |-> [w \in BobWires |-> value[w]]]))
  BY DEF EvalU
<1> DEFINE columns == [row |-> row, choice |-> [w \in BobWires |-> value[w]]]
           m == Message("u", columns)
<1>3. /\ columns \in Columns /\ m \in GarbMessage /\ m.kind = "u" /\ m.body = columns
      /\ columns.row = row /\ \A w \in BobWires : columns.choice[w] = value[w]
  <2>1. [w \in BobWires |-> value[w]] \in [BobWires -> BOOLEAN]
    BY Sizes DEF Types
  <2>2. columns \in Columns
    BY <2>1 DEF Columns
  <2> QED  BY <2>2 DEF Message, GarbMessage, GarbKinds
<1>4. SendToGarb(m)
  BY <1>2
<1> HIDE DEF columns, m
<1>5. /\ toGarb' \in Seq(GarbMessage) /\ Len(toGarb') = Len(toGarb) + 1
      /\ \A k \in 1 .. Len(toGarb) : toGarb'[k] = toGarb[k]
      /\ toGarb'[Len(toGarb) + 1] = m
  BY <1>3, <1>4, Answered
<1>6. /\ eWire = NumAlice /\ eId = 0 /\ Len(result) = 0 /\ Len(toGarb) = 4
      /\ eRead = 2 + NumAlice /\ gRead <= 4
  BY <1>1, PositionOf, BackOf DEF EvalPlace, Progress, AtGates, Types
<1>7. /\ active' \in [Wires -> Labels]
      /\ \A w \in BobWires : active'[w] = row[w]
      /\ \A w \in Wires \ BobWires : active'[w] = active[w]
  BY <1>2, Sizes DEF Types
<1>8. Types'
  <2>1. gRead <= Len(toGarb')
    BY <1>5, <1>6 DEF Types
  <2> QED  BY <1>1, <1>5, <1>7, <2>1, StageNames DEF Types, garbler
<1>9. EvalPlace'
  BY <1>1, <1>5, <1>6, Numbers, PositionOf, BackOf
     DEF EvalPlace, Progress, Before, Transfer, AtGates
<1>10. Answers'
  BY <1>1, <1>3, <1>5, <1>6, <1>7 DEF Answers
<1>11. Transferred'
  BY <1>1, <1>6, GarbReached DEF Transferred, Transfer, AtGates, Before, garbler
<1>12. Evaluated'
  <2>1. \A g \in DOMAIN Gates : ~(NumInputs + g < eWire')
    BY <1>1, <1>6, Numbers, Sizes
  <2> QED  BY <2>1 DEF Evaluated
<1>13. LabelsEncode'
  <2>1. \A w \in Wires : w < eWire => w \notin BobWires
    BY <1>6, Numbers DEF BobWires, Wires
  <2> QED  BY <1>1, <1>7, <2>1 DEF LabelsEncode, garbler
<1>14. OutputsCorrect'
  BY <1>1 DEF OutputsCorrect
<1> QED  BY <1>1, <1>8, <1>9, <1>10, <1>11, <1>12, <1>13, <1>14, EvalStepKeeps

\* The offset turns the difference curDelta of a transferred row into R.
LEMMA OffsetCorrect ==
    ASSUME NEW a, NEW l0, NEW bit \in BOOLEAN, l0 = Xor(a, When(bit, curDelta))
    PROVE  Xor(a, When(bit, Offset)) = LabelOf(l0, bit, R)
<1>1. CASE bit
  <2>1. \A x : x \in Xor(a, Xor(curDelta, R)) <=> x \in Xor(Xor(a, curDelta), R)
    BY XorMember
  <2>2. Xor(a, Xor(curDelta, R)) = Xor(Xor(a, curDelta), R)
    BY <2>1 DEF Xor
  <2> QED  BY <1>1, <2>2 DEF When, Offset, LabelOf
<1>2. CASE ~bit
  BY <1>2, XorZero DEF When, LabelOf
<1> QED  BY <1>1, <1>2

LEMMA EvalOffsetKeeps == ASSUME IInv, EvalOffset PROVE IInv'
<1> USE DEF IInv
<1>1. /\ eStage = "offset" /\ eStage' = "check" /\ eWire' = NumInputs
      /\ eRead' = eRead + 1 /\ eRead + 1 <= Len(toEval)
      /\ UNCHANGED <<value, garbler, eId, result, toEval, toGarb>>
  BY After DEF EvalOffset, EvalAdvance, EvalReads, EvalHas
<1>2. /\ eWire = NumAlice /\ eId = 0 /\ Len(result) = 0 /\ eRead = 3 + NumAlice
      /\ Len(toEval) >= 4 + NumAlice
  BY <1>1, Numbers, PositionOf DEF EvalPlace, Progress, AtGates, Transfer
<1>3. toEval[eRead + 1].body = Offset /\ Offset \in Labels
  <2>1. eRead + 1 = 4 + NumAlice
    BY <1>2, Numbers
  <2>2. toEval[4 + NumAlice] = Message("offset", Offset)
    BY <1>2 DEF Inputs
  <2> QED  BY <2>1, <2>2, LabelTypes DEF Offset, Types
<1>4. gStage \in {"check"} \cup AtGates /\ gWire \in Nat /\ gWire >= NumInputs
  <2>1. gStage \in {"check"} \cup AtGates
    BY <1>2, GarbReached
  <2>2. gWire = NumInputs \/ gWire >= NumInputs \/ gWire = NumWires
    BY <2>1 DEF GarbPlace, Progress, AtGates
  <2> QED  BY <2>1, <2>2, Numbers DEF GarbPlace, Progress
<1>5. \A w \in BobWires :
        active'[w] = LabelOf(label0[w], value[w], R) /\ active'[w] \in Labels
  <2> SUFFICES ASSUME NEW w \in BobWires
               PROVE  active'[w] = LabelOf(label0[w], value[w], R) /\ active'[w] \in Labels
    OBVIOUS
  <2>1. w \in Wires /\ active[w] \in Labels /\ value[w] \in BOOLEAN
    BY Sizes DEF Types
  <2>2. active'[w] = Xor(active[w], When(value[w], Offset))
    BY <1>3, <2>1 DEF EvalOffset, EvalNext
  <2>3. label0[w] = Xor(active[w], When(value[w], curDelta))
    BY <1>1, <1>4 DEF Transferred, Transfer
  <2>4. active'[w] = LabelOf(label0[w], value[w], R)
    BY <2>1, <2>2, <2>3, OffsetCorrect
  <2>5. When(value[w], Offset) \in Labels
    BY <1>3, <2>1, LabelTypes
  <2> QED  BY <2>1, <2>2, <2>4, <2>5, LabelTypes
<1>6. \A w \in Wires \ BobWires : active'[w] = active[w]
  BY DEF EvalOffset
<1>7. active' \in [Wires -> Labels]
  <2>1. \A w \in Wires : active'[w] \in Labels
    BY <1>5, <1>6 DEF Types
  <2>2. active' = [w \in Wires |-> active'[w]]
    BY DEF EvalOffset
  <2> QED  BY <2>1, <2>2
<1>8. Types'
  BY <1>1, <1>7, StageNames DEF Types, garbler
<1>9. EvalPlace'
  BY <1>1, <1>2, Numbers, PositionOf, BackOf
     DEF EvalPlace, Progress, Before, Transfer, AtGates
<1>10. Answers' /\ Transferred' /\ OutputsCorrect'
  BY <1>1 DEF Answers, Transferred, Transfer, OutputsCorrect
<1>11. Evaluated'
  <2>1. \A g \in DOMAIN Gates : ~(NumInputs + g < eWire')
    BY <1>1, Numbers, Sizes
  <2> QED  BY <2>1 DEF Evaluated
<1>12. LabelsEncode'
  <2> SUFFICES ASSUME NEW w \in Wires, w < NumInputs, w < gWire
               PROVE  active'[w] = LabelOf(label0[w], value[w], R)
    BY <1>1 DEF LabelsEncode, LabelOf, garbler
  <2>1. w \in BobWires \/ (w \notin BobWires /\ w < eWire)
    BY <1>2, Numbers DEF BobWires, Wires
  <2> QED  BY <1>5, <1>6, <2>1 DEF LabelsEncode, LabelOf
<1> QED  BY <1>1, <1>8, <1>9, <1>10, <1>11, <1>12, EvalStepKeeps

-----------------------------------------------------------------------------
(* Steps of the evaluator at the gates *)

\* What an evaluated gate needs: label is the evaluator's for its output.
EvalMakes(g, label) ==
    /\ eStage = "gates" /\ eWire < NumWires /\ g = eWire - NumInputs /\ label \in Labels
    /\ active' = [active EXCEPT ![eWire] = label] /\ eWire' = eWire + 1
    /\ UNCHANGED <<value, garbler, eStage, result, toEval, toGarb>>
    /\ LET a == active[Gates[g].a]
           b == active[Gates[g].b]
       IN  /\ Gates[g].op = "ZERO" => label = Zero
           /\ Gates[g].op = "NOT" => label = a
           /\ Gates[g].op = "XOR" => label = Xor(a, b)
           /\ Gates[g].op = "AND" => eWire < gWire
    /\ eWire < gWire => label = LabelOf(label0[eWire], value[eWire], R)

LEMMA EvalMakesLabels ==
    ASSUME IInv, NEW g, eStage = "gates", eWire < NumWires, g = eWire - NumInputs
    PROVE  /\ g \in DOMAIN Gates /\ eWire = NumInputs + g /\ eWire \in Nat /\ eWire \in Wires
           /\ eId = Ands(g) /\ Len(result) = 0 /\ eRead = 4 + NumAlice + 2 * eId
           /\ active[Gates[g].a] \in Labels /\ active[Gates[g].b] \in Labels
           /\ Gates[g].a \in Wires /\ Gates[g].a < eWire
           /\ Gates[g].b \in Wires /\ Gates[g].b < eWire
<1> USE DEF IInv
<1>1. /\ eWire \in Nat /\ eWire >= NumInputs /\ eWire < NumInputs + NumGates
      /\ eId = Ands(eWire - NumInputs) /\ Len(result) = 0
  BY Numbers DEF EvalPlace, Progress, AtGates
<1>2. g \in 0 .. NumGates - 1 /\ eWire = NumInputs + g
  BY <1>1, Numbers
<1>3. eRead = 4 + NumAlice + 2 * eId
  BY PositionOf DEF EvalPlace
<1>4. /\ Gates[g].a \in Wires /\ Gates[g].a < eWire
      /\ Gates[g].b \in Wires /\ Gates[g].b < eWire /\ eWire \in Wires
  BY <1>2, Sizes
<1> QED  BY <1>1, <1>2, <1>3, <1>4, Sizes DEF Types

\* The labels of the wires a gate reads encode their values on both sides.
LEMMA ReadsEncode ==
    ASSUME IInv, NEW g, eStage = "gates", eWire < NumWires, g = eWire - NumInputs,
           eWire < gWire
    PROVE  /\ active[Gates[g].a] = LabelOf(label0[Gates[g].a], value[Gates[g].a], R)
           /\ active[Gates[g].b] = LabelOf(label0[Gates[g].b], value[Gates[g].b], R)
<1>1. /\ Gates[g].a \in Wires /\ Gates[g].a < eWire
      /\ Gates[g].b \in Wires /\ Gates[g].b < eWire /\ eWire \in Nat
  BY EvalMakesLabels
<1>2. gWire \in Nat
  BY DEF IInv, GarbPlace, Progress
<1>3. Gates[g].a < gWire /\ Gates[g].b < gWire
  BY <1>1, <1>2, Numbers DEF Wires
<1> QED  BY <1>1, <1>3 DEF IInv, LabelsEncode, LabelOf

LEMMA EvalMakesKeeps ==
    ASSUME IInv, NEW g, NEW label, EvalMakes(g, label),
           eId' = Ands(g + 1), eRead' = 4 + NumAlice + 2 * eId', eRead' <= Len(toEval)
    PROVE  IInv'
<1> USE DEF IInv
<1>1. /\ eStage = "gates" /\ eWire < NumWires /\ g = eWire - NumInputs
      /\ label \in Labels /\ eWire' = eWire + 1 /\ active' = [active EXCEPT ![eWire] = label]
      /\ UNCHANGED <<value, garbler, eStage, result, toEval, toGarb>>
      /\ Gates[g].op = "ZERO" => label = Zero
      /\ Gates[g].op = "NOT" => label = active[Gates[g].a]
      /\ Gates[g].op = "XOR" => label = Xor(active[Gates[g].a], active[Gates[g].b])
      /\ Gates[g].op = "AND" => eWire < gWire
      /\ eWire < gWire => label = LabelOf(label0[eWire], value[eWire], R)
  BY DEF EvalMakes
<1>2. /\ g \in DOMAIN Gates /\ eWire = NumInputs + g /\ eWire \in Nat /\ eWire \in Wires
      /\ Len(result) = 0
  BY <1>1, EvalMakesLabels
<1>3. g \in Nat /\ g + 1 \in Nat /\ g + 1 <= NumGates
  BY <1>2, Sizes
<1>4. /\ active' \in [Wires -> Labels] /\ active'[eWire] = label
      /\ \A w \in Wires : w # eWire => active'[w] = active[w]
  BY <1>1, <1>2 DEF Types
<1>5. eId' \in Nat /\ eRead' \in Nat
  <2>1. eId' \in Nat
    BY <1>3, AndsCount
  <2> QED  BY <2>1, Numbers
<1>6. Types'
  BY <1>1, <1>4, <1>5 DEF Types, garbler
<1>7. EvalPlace'
  <2>1. eWire' \in 0 .. NumWires /\ eWire' >= NumInputs /\ eWire' - NumInputs = g + 1
    <3>1. eWire' = NumInputs + g + 1 /\ NumWires = NumInputs + NumGates
      BY <1>1, <1>2, <1>3, Numbers
    <3> QED  BY <1>3, <3>1, Numbers
  <2>2. Progress(eStage, eWire, eId, NumAlice)'
    BY <1>1, <1>5, <2>1 DEF Progress, Before, Transfer, AtGates
  <2>3. eRead' = Position("gates", eWire', eId', Len(result'))
    BY PositionOf
  <2> QED  BY <1>1, <1>2, <2>2, <2>3 DEF EvalPlace
<1>8. Answers' /\ Transferred' /\ OutputsCorrect'
  BY <1>1 DEF Answers, Transferred, Transfer, OutputsCorrect
<1>9. Evaluated'
  <2> SUFFICES ASSUME NEW h \in DOMAIN Gates, NumInputs + h < eWire'
               PROVE  LET l == active'[NumInputs + h]
                          a == active'[Gates[h].a]
                          b == active'[Gates[h].b]
                      IN  /\ Gates[h].op = "ZERO" => l = Zero
                          /\ Gates[h].op = "NOT" => l = a
                          /\ Gates[h].op = "XOR" => l = Xor(a, b)
                          /\ Gates[h].op = "AND" => NumInputs + h < gWire
    BY <1>1 DEF Evaluated, garbler
  <2>1. h \in Nat /\ (h = g \/ NumInputs + h < eWire) /\ NumInputs + h <= eWire
    BY <1>1, <1>2, <1>3, Numbers, Sizes
  <2>2. /\ Gates[h].a \in Wires /\ Gates[h].a < NumInputs + h
        /\ Gates[h].b \in Wires /\ Gates[h].b < NumInputs + h /\ NumInputs + h \in Wires
    BY Sizes
  <2>3. Gates[h].a # eWire /\ Gates[h].b # eWire
    <3>1. Gates[h].a \in Nat /\ Gates[h].b \in Nat
      BY <2>2 DEF Wires
    <3> QED  BY <1>2, <2>1, <2>2, <3>1, Numbers
  <2>4. active'[Gates[h].a] = active[Gates[h].a] /\ active'[Gates[h].b] = active[Gates[h].b]
    BY <1>4, <2>2, <2>3
  <2>5. CASE h = g
    BY <1>1, <1>2, <1>4, <2>4, <2>5
  <2>6. CASE NumInputs + h < eWire
    <3>1. NumInputs + h # eWire
      BY <1>2, <2>1, <2>6, Numbers
    <3>2. active'[NumInputs + h] = active[NumInputs + h]
      BY <1>4, <2>2, <3>1
    <3> QED  BY <2>4, <2>6, <3>2 DEF Evaluated
  <2> QED  BY <2>1, <2>5, <2>6
<1>10. LabelsEncode'
  <2> SUFFICES ASSUME NEW w \in Wires, w < eWire + 1, w < gWire
               PROVE  active'[w] = LabelOf(label0[w], value[w], R)
    BY <1>1 DEF LabelsEncode, LabelOf, garbler
  <2>1. w = eWire \/ (w # eWire /\ w < eWire)
    BY <1>2, Numbers DEF Wires
  <2> QED  BY <1>1, <1>4, <2>1 DEF LabelsEncode, LabelOf
<1> QED  BY <1>1, <1>6, <1>7, <1>8, <1>9, <1>10, EvalStepKeeps

LEMMA EvalFreeKeeps == ASSUME IInv, EvalFree PROVE IInv'
<1> USE DEF IInv
<1>0. PICK g : g = eWire - NumInputs
  OBVIOUS
<1>1. /\ eStage = "gates" /\ eWire < NumWires /\ g = eWire - NumInputs
      /\ Gates[g].op # "AND" /\ UNCHANGED <<eId, eRead>>
  BY <1>0 DEF EvalFree, Evaluating, EvalGate
<1>2. /\ g \in DOMAIN Gates /\ eWire = NumInputs + g /\ eWire \in Nat
      /\ eId = Ands(g) /\ eRead = 4 + NumAlice + 2 * eId
      /\ active[Gates[g].a] \in Labels /\ active[Gates[g].b] \in Labels
  BY <1>1, EvalMakesLabels
<1>3. PICK label \in Labels :
        /\ EvalMake(label)
        /\ Gates[g].op = "ZERO" => label = Zero
        /\ Gates[g].op = "NOT" => label = active[Gates[g].a]
        /\ Gates[g].op = "XOR" => label = Xor(active[Gates[g].a], active[Gates[g].b])
  <2>1. /\ Zero \in Labels /\ active[Gates[g].a] \in Labels
        /\ Xor(active[Gates[g].a], active[Gates[g].b]) \in Labels
    BY <1>2, LabelTypes
  <2>2. \/ Gates[g].op = "ZERO" /\ EvalMake(Zero)
        \/ Gates[g].op = "NOT" /\ EvalMake(active[Gates[g].a])
        \/ Gates[g].op = "XOR" /\ EvalMake(Xor(active[Gates[g].a], active[Gates[g].b]))
    BY <1>0 DEF EvalFree, EvalGate, EvalA, EvalB
  <2>3. CASE Gates[g].op = "ZERO" /\ EvalMake(Zero)
    BY <2>1, <2>3
  <2>4. CASE Gates[g].op = "NOT" /\ EvalMake(active[Gates[g].a])
    BY <2>1, <2>4
  <2>5. CASE Gates[g].op = "XOR" /\ EvalMake(Xor(active[Gates[g].a], active[Gates[g].b]))
    BY <2>1, <2>5
  <2> QED  BY <2>2, <2>3, <2>4, <2>5
<1>4. eWire < gWire => label = LabelOf(label0[eWire], value[eWire], R)
  <2> SUFFICES ASSUME eWire < gWire
               PROVE  label = LabelOf(label0[eWire], value[eWire], R)
    OBVIOUS
  <2>1. /\ active[Gates[g].a] = LabelOf(label0[Gates[g].a], value[Gates[g].a], R)
        /\ active[Gates[g].b] = LabelOf(label0[Gates[g].b], value[Gates[g].b], R)
    BY <1>1, ReadsEncode
  <2>2. /\ Gates[g].op = "ZERO" => label0[eWire] = Zero
        /\ Gates[g].op = "NOT" => label0[eWire] = Xor(label0[Gates[g].a], R)
        /\ Gates[g].op = "XOR" => label0[eWire] = Xor(label0[Gates[g].a], label0[Gates[g].b])
    BY <1>2 DEF Garbled
  <2>3. /\ Gates[g].op = "ZERO" => label0[eWire] = Zero /\ label = Zero
        /\ Gates[g].op = "NOT" =>
              label0[eWire] = Xor(label0[Gates[g].a], R) /\ label = active[Gates[g].a]
        /\ Gates[g].op = "XOR" =>
              /\ label0[eWire] = Xor(label0[Gates[g].a], label0[Gates[g].b])
              /\ label = Xor(active[Gates[g].a], active[Gates[g].b])
    BY ONLY <1>3, <2>2
  <2>4. Types /\ g \in DOMAIN Gates /\ Gates[g].op # "AND"
    BY <1>1, <1>2
  <2>5. label = LabelOf(label0[eWire], value[NumInputs + g], R)
    BY ONLY <2>1, <2>3, <2>4, FreeGateEncodes
  <2> QED  BY ONLY <1>2, <2>5
<1>5. EvalMakes(g, label)
  BY <1>1, <1>3, <1>4 DEF EvalMake, EvalMakes
<1>6. eId' = Ands(g + 1) /\ eRead' = 4 + NumAlice + 2 * eId' /\ eRead' <= Len(toEval)
  BY <1>1, <1>2, Sizes, AndsCount DEF Types
<1> QED  BY <1>5, <1>6, EvalMakesKeeps

\* A table that has arrived was written when the garbler made the gate.
LEMMA TableArrived ==
    ASSUME IInv, NEW g \in DOMAIN Gates, Len(toEval) > 4 + NumAlice + 2 * Ands(g)
    PROVE  NumInputs + g < gWire
<1> USE DEF IInv
<1>1. /\ g \in Nat /\ g < NumGates /\ Ands(g) \in Nat
      /\ gWire \in Nat /\ gId \in Nat /\ Len(toEval) = Position(gStage, gWire, gId, gOut)
  <2>1. g \in Nat /\ g < NumGates
    BY Sizes
  <2>2. gWire \in Nat /\ gId \in Nat /\ Len(toEval) = Position(gStage, gWire, gId, gOut)
    BY DEF GarbPlace, Progress
  <2> QED  BY <2>1, <2>2, AndsCount
<1>2. Len(toEval) >= 4 + NumAlice
  BY <1>1, Numbers
<1>3. gStage = "check" \/ gStage = "gates" \/ gStage = "outputs"
  BY <1>2, GarbReached DEF AtGates
<1>4. CASE gStage = "outputs"
  <2>1. gWire = NumWires
    BY <1>4 DEF GarbPlace, Progress
  <2> QED  BY <1>1, <2>1, Numbers
<1>5. CASE gStage = "check" \/ gStage = "gates"
  <2>1. Len(toEval) = 4 + NumAlice + 2 * gId
    BY <1>1, <1>5, PositionOf
  <2>2. gId >= Ands(g) + 1
    BY <1>1, <2>1, Numbers
  <2>3. gStage = "gates"
    BY <1>1, <1>5, <2>2 DEF GarbPlace, Progress, AtGates
  <2>4. gWire >= NumInputs /\ gId = Ands(gWire - NumInputs)
    BY <2>3 DEF GarbPlace, Progress, AtGates
  <2>5. CASE gWire - NumInputs <= g
    <3>1. gWire - NumInputs \in Nat
      BY <1>1, <2>4, Numbers
    <3>2. Ands(gWire - NumInputs) <= Ands(g)
      BY <1>1, <2>5, <3>1, AndsCount
    <3> QED  BY <1>1, <2>2, <2>4, <3>2
  <2> QED  BY <1>1, <2>5, Numbers
<1> QED  BY <1>3, <1>4, <1>5

LEMMA EvalAndKeeps == ASSUME IInv, EvalAnd PROVE IInv'
<1> USE DEF IInv
<1>0. PICK g : g = eWire - NumInputs
  OBVIOUS
<1>1. /\ eStage = "gates" /\ eWire < NumWires /\ g = eWire - NumInputs
      /\ Gates[g].op = "AND" /\ eId' = eId + 1 /\ eRead' = eRead + 2
      /\ eRead + 2 <= Len(toEval)
      /\ EvalMake(EvaluatedAnd(active[Gates[g].a], active[Gates[g].b], eId,
                               toEval[eRead + 1].body, toEval[eRead + 2].body))
  BY <1>0 DEF EvalAnd, Evaluating, EvalGate, EvalReads, EvalHas, EvalNext, EvalA, EvalB
<1>2. /\ g \in DOMAIN Gates /\ eWire = NumInputs + g /\ eWire \in Nat /\ eWire \in Wires
      /\ eId = Ands(g) /\ eRead = 4 + NumAlice + 2 * eId
  BY <1>1, EvalMakesLabels
<1>3. Ands(g) \in Nat
  BY <1>2, AndsBound
<1>4. eWire < gWire
  <2>1. Len(toEval) > 4 + NumAlice + 2 * Ands(g)
    <3>1. Len(toEval) \in Nat
      BY DEF Types
    <3> QED  BY <1>1, <1>2, <1>3, <3>1, Numbers
  <2> QED  BY <1>2, <2>1, TableArrived
<1> DEFINE a0 == label0[Gates[g].a]
           b0 == label0[Gates[g].b]
           va == value[Gates[g].a]
           vb == value[Gates[g].b]
           label == LabelOf(label0[eWire], value[eWire], R)
<1>5. toEval[eRead + 1].body = TG(g) /\ toEval[eRead + 2].body = TE(g)
  <2>1. eRead + 1 = TableAt(g) /\ eRead + 2 = TableAt(g) + 1
    BY <1>2, <1>3, Numbers DEF TableAt
  <2>2. /\ toEval[TableAt(g)] = Message("TG", TG(g))
        /\ toEval[TableAt(g) + 1] = Message("TE", TE(g))
    BY <1>1, <1>2, <1>4 DEF Tables
  <2> QED  BY <2>1, <2>2, LabelTypes
<1>6. /\ active[Gates[g].a] = LabelOf(a0, va, R) /\ active[Gates[g].b] = LabelOf(b0, vb, R)
  BY <1>1, <1>4, ReadsEncode
<1>7. va \in BOOLEAN /\ vb \in BOOLEAN /\ LSB(R) /\ value[eWire] = (va /\ vb)
  <2>1. value[NumInputs + g] = Operation(Gates[g], value)
    BY <1>2 DEF Types, Computes
  <2>2. Operation(Gates[g], value) = (va /\ vb)
    BY <1>1 DEF Operation
  <2> QED  BY <1>2, <2>1, <2>2, Sizes DEF Types
<1>8. label0[eWire] = GarbledAnd(R, a0, b0, Ands(g))
  BY <1>1, <1>2, <1>4 DEF Garbled
<1>9. EvaluatedAnd(active[Gates[g].a], active[Gates[g].b], eId,
                   toEval[eRead + 1].body, toEval[eRead + 2].body) = label
  <2>1. EvaluatedAnd(LabelOf(a0, va, R), LabelOf(b0, vb, R), Ands(g),
                     TableG(R, a0, b0, Ands(g)), TableE(R, a0, b0, Ands(g)))
          = LabelOf(GarbledAnd(R, a0, b0, Ands(g)), va /\ vb, R)
    BY <1>7, AndCorrect
  <2> QED  BY <1>2, <1>5, <1>6, <1>7, <1>8, <2>1 DEF TG, TE
<1>10. label \in Labels
  BY <1>2, LabelTypes DEF Types, LabelOf
<1> HIDE DEF label
<1>11. EvalMakes(g, label)
  <2>1. EvalMake(label)
    BY <1>1, <1>9
  <2> QED  BY <1>1, <1>4, <1>10, <2>1 DEF EvalMake, EvalMakes, label
<1>12. eId' = Ands(g + 1) /\ eRead' = 4 + NumAlice + 2 * eId' /\ eRead' <= Len(toEval)
  <2>1. eId' = Ands(g + 1)
    BY <1>1, <1>2, Sizes, AndsCount
  <2>2. eRead' = 4 + NumAlice + 2 * (eId + 1)
    <3>1. eRead' = eRead + 2 /\ eRead = 4 + NumAlice + 2 * eId /\ eId \in Nat
      BY <1>1, <1>2, <1>3
    <3>2. NumAlice \in Nat
      BY Numbers
    <3> QED  BY ONLY <3>1, <3>2
  <2> QED  BY <1>1, <2>1, <2>2
<1> QED  BY <1>11, <1>12, EvalMakesKeeps

LEMMA EvalGatesDoneKeeps == ASSUME IInv, EvalGatesDone PROVE IInv'
<1> USE DEF IInv, EvalGatesDone
<1>1. /\ eStage = "gates" /\ eStage' = "outputs" /\ eWire = NumWires
      /\ UNCHANGED <<value, garbler, active, eWire, eId, result, eRead, toEval, toGarb>>
  OBVIOUS
<1>2. Types'
  BY <1>1, StageNames DEF Types, garbler
<1>3. EvalPlace'
  BY <1>1, Numbers, PositionOf, BackOf DEF EvalPlace, Progress, Before, Transfer, AtGates
<1>4. Answers' /\ Transferred'
  BY <1>1 DEF Answers, Transferred, Transfer, garbler
<1> QED  BY <1>1, <1>2, <1>3, <1>4, EvalStepKeeps, LabelsKept

\* An output vector that has arrived holds the garbler's select bits.
LEMMA OutputArrived ==
    ASSUME IInv, NEW o, o = Len(result), eStage = "outputs", o < NumOutputs,
           eRead + 1 <= Len(toEval)
    PROVE  /\ gStage = "outputs" /\ gWire = NumWires /\ eWire = NumWires
           /\ o \in Nat /\ o \in 0 .. NumOutputs - 1 /\ o < gOut
           /\ eRead = 4 + NumAlice + 2 * NumAnds + o
           /\ toEval[eRead + 1] = Message("output", SelectBits(label0, Outputs[o]))
<1> USE DEF IInv
<1>2. /\ o \in Nat /\ o \in 0 .. NumOutputs - 1 /\ eRead = 4 + NumAlice + 2 * NumAnds + o
      /\ eWire = NumWires /\ Len(toEval) \in Nat
  <2>1. o \in Nat /\ Len(toEval) \in Nat
    BY DEF Types
  <2>2. o \in 0 .. NumOutputs - 1
    BY <2>1, Numbers
  <2>3. eRead = Position("outputs", eWire, eId, o)
    BY DEF EvalPlace
  <2>4. eWire = NumWires
    BY DEF EvalPlace, Progress
  <2> QED  BY <2>1, <2>2, <2>3, <2>4, PositionOf
<1>3. gStage = "outputs" /\ o < gOut /\ gWire = NumWires
  <2>1. /\ gWire \in Nat /\ gId \in Nat /\ gOut \in Nat
        /\ Len(toEval) = Position(gStage, gWire, gId, gOut)
    BY Numbers DEF GarbPlace, Progress, Types
  <2>2. Len(toEval) >= 5 + NumAlice + 2 * NumAnds + o
    <3> DEFINE n == Len(toEval)
    <3>1. n \in Nat /\ o \in Nat /\ eRead = 4 + NumAlice + 2 * NumAnds + o /\ eRead + 1 <= n
      BY <1>2
    <3>2. NumAlice \in Nat /\ NumAnds \in Nat
      BY Numbers
    <3> HIDE DEF n
    <3>3. n >= 5 + NumAlice + 2 * NumAnds + o
      BY ONLY <3>1, <3>2
    <3> QED  BY <3>3 DEF n
  <2>3. gStage = "check" \/ gStage = "gates" \/ gStage = "outputs"
    <3>1. Len(toEval) >= 4 + NumAlice
      BY <1>2, <2>2, Numbers
    <3> QED  BY <3>1, GarbReached DEF AtGates
  <2>4. CASE gStage = "check" \/ gStage = "gates"
    <3>1. Len(toEval) = 4 + NumAlice + 2 * gId
      BY <2>1, <2>4, PositionOf
    <3>2. gId <= NumAnds
      <4>1. CASE gStage = "check"
        BY <4>1, Numbers DEF GarbPlace, Progress, AtGates
      <4>2. CASE gStage = "gates"
        <5>1. gWire - NumInputs \in Nat /\ gWire - NumInputs <= NumGates
          BY <4>2, Numbers DEF GarbPlace, Progress
        <5>2. gId = Ands(gWire - NumInputs)
          BY <4>2 DEF GarbPlace, Progress, AtGates
        <5>3. Ands(gWire - NumInputs) <= Ands(NumGates)
          BY <5>1, Numbers, AndsCount
        <5> QED  BY <5>2, <5>3 DEF NumAnds
      <4> QED  BY <2>4, <4>1, <4>2
    <3>3. NumAlice \in Nat /\ NumAnds \in Nat
      BY Numbers
    <3>4. ~(4 + NumAlice + 2 * gId >= 5 + NumAlice + 2 * NumAnds + o)
      BY ONLY <1>2, <2>1, <3>2, <3>3
    <3> QED  BY ONLY <2>2, <3>1, <3>4
  <2>5. CASE gStage = "outputs"
    <3>1. Len(toEval) = 4 + NumAlice + 2 * NumAnds + gOut
      BY <2>1, <2>5, PositionOf
    <3>2. NumAlice \in Nat /\ NumAnds \in Nat
      BY Numbers
    <3>3. 4 + NumAlice + 2 * NumAnds + gOut >= 5 + NumAlice + 2 * NumAnds + o
      BY ONLY <2>2, <3>1
    <3>4. o < gOut
      BY ONLY <1>2, <2>1, <3>2, <3>3
    <3> QED  BY <2>5, <3>4 DEF GarbPlace, Progress
  <2> QED  BY <2>3, <2>4, <2>5
<1>4. toEval[eRead + 1] = Message("output", SelectBits(label0, Outputs[o]))
  <2>1. eRead + 1 = OutputAt(o)
    BY <1>2, Numbers DEF OutputAt
  <2>2. o \in 0 .. gOut - 1
    BY <1>2, <1>3 DEF Types
  <2>3. toEval[OutputAt(o)] = Message("output", SelectBits(label0, Outputs[o]))
    BY <2>2 DEF Decoding
  <2> QED  BY <2>1, <2>3
<1> QED  BY <1>2, <1>3, <1>4

LEMMA EvalOutputKeeps == ASSUME IInv, EvalOutput PROVE IInv'
<1> USE DEF IInv
<1> DEFINE o == Len(result)
           mine == SelectBits(active, Outputs[o])
           bits == [x \in DOMAIN mine |-> toEval[eRead + 1].body[x] # mine[x]]
<1>1. /\ eStage = "outputs" /\ o < NumOutputs /\ eRead' = eRead + 1
      /\ eRead + 1 <= Len(toEval) /\ result' = Append(result, bits)
      /\ UNCHANGED <<value, garbler, active, eWire, eId, eStage, toEval, toGarb>>
  BY DEF EvalOutput, EvalReads, EvalHas, EvalNext
<1>2. /\ gStage = "outputs" /\ gWire = NumWires /\ eWire = NumWires
      /\ o \in Nat /\ o \in 0 .. NumOutputs - 1 /\ o < gOut
      /\ eRead = 4 + NumAlice + 2 * NumAnds + o
      /\ toEval[eRead + 1] = Message("output", SelectBits(label0, Outputs[o]))
  BY <1>1, OutputArrived
<1>3. toEval[eRead + 1].body = SelectBits(label0, Outputs[o])
  BY <1>2, LabelTypes
<1>5. /\ DOMAIN mine = DOMAIN Outputs[o] /\ bits \in OutputBits
      /\ \A x \in DOMAIN Outputs[o] : bits[x] = value[Outputs[o][x]]
  <2>1. DOMAIN mine = DOMAIN Outputs[o]
    BY DEF SelectBits
  <2>2. bits \in [DOMAIN Outputs[o] -> BOOLEAN]
    BY <2>1
  <2>3. ASSUME NEW x \in DOMAIN Outputs[o]
        PROVE  bits[x] = value[Outputs[o][x]]
    <3> DEFINE w == Outputs[o][x]
    <3>1. w \in Wires /\ w < eWire /\ w < gWire
      <4>1. w \in Wires
        BY <1>2, Sizes
      <4>2. w < NumWires
        BY <4>1, Numbers DEF Wires
      <4> QED  BY <1>2, <4>1, <4>2
    <3>2. active[w] = LabelOf(label0[w], value[w], R) /\ value[w] \in BOOLEAN /\ LSB(R)
      BY <3>1 DEF LabelsEncode, LabelOf, Types
    <3>3. bits[x] = (LSB(label0[w]) # LSB(active[w]))
      BY <1>3, <2>1 DEF SelectBits
    <3>4. LSB(active[w]) <=> (LSB(label0[w]) # value[w])
      <4>1. CASE value[w]
        BY <3>2, <4>1 DEF LabelOf, When, Xor, LSB
      <4>2. CASE ~value[w]
        BY <3>2, <4>2 DEF LabelOf, When, Xor, LSB, Zero
      <4> QED  BY <3>2, <4>1, <4>2
    <3> QED  BY <3>2, <3>3, <3>4 DEF LSB
  <2> QED  BY <1>2, <2>1, <2>2, <2>3 DEF OutputBits
<1> HIDE DEF bits
<1>6. /\ result' \in Seq(OutputBits) /\ Len(result') = o + 1 /\ result'[o + 1] = bits
      /\ \A k \in 1 .. o : result'[k] = result[k]
  BY <1>1, <1>5 DEF Types
<1>7. Types'
  <2>1. Len(result') <= NumOutputs
    BY <1>1, <1>2, <1>6, Numbers
  <2>2. eRead' \in Nat /\ eRead' <= Len(toEval)
    BY <1>1 DEF Types
  <2> QED  BY <1>1, <1>6, <2>1, <2>2 DEF Types, garbler
<1>8. EvalPlace'
  <2>1. Progress(eStage, eWire, eId, NumAlice)'
    BY <1>1 DEF EvalPlace, Progress
  <2>2. eRead' = 4 + NumAlice + 2 * NumAnds + Len(result')
    <3>1. /\ o \in Nat /\ eRead = 4 + NumAlice + 2 * NumAnds + o /\ eRead' = eRead + 1
          /\ Len(result') = o + 1
      BY <1>1, <1>2, <1>6
    <3>2. NumAlice \in Nat /\ NumAnds \in Nat
      BY Numbers
    <3> HIDE DEF o
    <3> QED  BY <3>1, <3>2
  <2> QED  BY <1>1, <2>1, <2>2, PositionOf DEF EvalPlace
<1>9. Answers' /\ Transferred'
  BY <1>1 DEF Answers, Transferred, Transfer, garbler
<1>10. Evaluated' /\ LabelsEncode'
  BY <1>1 DEF Evaluated, LabelsEncode, garbler
<1>11. OutputsCorrect'
  <2> SUFFICES ASSUME NEW k \in 1 .. Len(result'), NEW x \in DOMAIN Outputs[k-1]
               PROVE  result'[k][x] = value[Outputs[k-1][x]]
    BY <1>1 DEF OutputsCorrect
  <2>1. CASE k = o + 1
    <3>1. k - 1 = o
      BY <1>2, <2>1
    <3> QED  BY <1>5, <1>6, <2>1, <3>1
  <2>2. CASE k # o + 1
    <3>1. k \in 1 .. o
      BY <1>2, <1>6, <2>2
    <3> QED  BY <1>6, <3>1 DEF OutputsCorrect
  <2> QED  BY <2>1, <2>2
<1> QED  BY <1>1, <1>7, <1>8, <1>9, <1>10, <1>11, EvalStepKeeps

-----------------------------------------------------------------------------
(* The theorems *)

LEMMA InitIInv == ASSUME Init PROVE IInv
<1> USE DEF Init
<1>1. Types
  <2>1. Computes(value) /\ value \in [Wires -> BOOLEAN]
    OBVIOUS
  <2>2. R \in Labels /\ LSB(R) /\ curDelta \in Labels
    BY LabelTypes DEF Deltas
  <2>3. label0 \in [Wires -> Labels] /\ active \in [Wires -> Labels]
    BY LabelTypes
  <2> QED  BY <2>1, <2>2, <2>3, StageNames, Numbers DEF Types
<1>2. GarbPlace /\ EvalPlace
  BY Numbers, PositionOf, BackOf
     DEF GarbPlace, EvalPlace, Progress, Before, Transfer, AtGates
<1>3. Inputs /\ Answers
  <2>1. \A w \in AliceWires : ~(w + 3 <= 0)
    BY Numbers DEF AliceWires
  <2>2. ~(0 >= 3 + NumAlice) /\ ~(0 >= 4 + NumAlice)
    BY Numbers
  <2> QED  BY <2>1, <2>2 DEF Inputs, Answers, Transfer
<1>4. ASSUME NEW g \in DOMAIN Gates
      PROVE  ~(NumInputs + g < 0)
  <2>1. g \in Nat
    BY Sizes
  <2> QED  BY <2>1, Numbers
<1>5. Tables /\ Garbled /\ Evaluated
  BY <1>4 DEF Tables, Garbled, Evaluated
<1>6. Decoding /\ Transferred /\ OutputsCorrect
  BY DEF Decoding, Transferred, Transfer, AtGates, OutputsCorrect
<1>7. LabelsEncode
  <2>1. \A w \in Wires : ~(w < 0)
    BY Numbers DEF Wires
  <2> QED  BY <2>1 DEF LabelsEncode
<1> QED  BY <1>1, <1>2, <1>3, <1>5, <1>6, <1>7 DEF IInv

LEMMA StutterIInv == ASSUME IInv, UNCHANGED vars PROVE IInv'
<1> USE DEF IInv, vars, evaluator
<1>1. Quiet /\ Grows /\ toEval' = toEval
  BY DEF Quiet, Grows, Types, garbler
<1>2. Types'
  BY DEF Types, garbler
<1>3. GarbPlace' /\ Inputs' /\ Decoding'
  BY EvalStepKeeps
<1>4. Transferred'
  BY DEF Transferred, garbler
<1> QED  BY <1>1, <1>2, <1>3, <1>4, QuietKeeps, EvalPlaceKept

LEMMA NextIInv == ASSUME IInv, [Next]_vars PROVE IInv'
<1>1. CASE Garbler
  BY <1>1, GarbReadKeeps, GarbSendKeeps, GarbAliceKeeps, GarbAliceDoneKeeps, GarbUKeeps,
     GarbOffsetKeeps, GarbFreeKeeps, GarbAndKeeps, GarbGatesDoneKeeps, GarbOutputKeeps
     DEF Garbler
<1>2. CASE Evaluator
  BY <1>2, EvalSendKeeps, EvalReadKeeps, EvalAliceKeeps, EvalAliceDoneKeeps, EvalUKeeps,
     EvalOffsetKeeps, EvalFreeKeeps, EvalAndKeeps, EvalGatesDoneKeeps, EvalOutputKeeps
     DEF Evaluator
<1>3. CASE UNCHANGED vars
  BY <1>3, StutterIInv
<1> QED  BY <1>1, <1>2, <1>3 DEF Next

\* The inductive invariant: every step of either side, and every interleaving of
\* the two, keeps what stands on the connection and what the labels encode.
THEOREM Invariance == Spec => []IInv
<1>1. Init => IInv
  BY InitIInv
<1>2. IInv /\ [Next]_vars => IInv'
  BY NextIInv
<1> QED  BY <1>1, <1>2, PTL DEF Spec

\* Labels stay labels; counters stay within the circuit, the reads within what
\* was written.
THEOREM TypeCorrect == Spec => []TypeOK
<1>1. IInv => TypeOK
  BY DEF IInv, Types, GarbPlace, EvalPlace, Progress, TypeOK
<1> QED  BY <1>1, Invariance, PTL

\* On every wire both sides have made, the evaluator holds the label of the
\* plain value, whatever the circuit, the hash and the inputs.
THEOREM LabelsAlwaysEncode == Spec => []LabelsEncode
<1>1. IInv => LabelsEncode
  BY DEF IInv
<1> QED  BY <1>1, Invariance, PTL

\* What Evaluator::outputToBob decodes is what the circuit computes in the clear.
THEOREM OutputsAlwaysCorrect == Spec => []OutputsCorrect
<1>1. IInv => OutputsCorrect
  BY DEF IInv
<1> QED  BY <1>1, Invariance, PTL

LEMMA EvalInStep ==
    ASSUME IInv, NEW kind \in EvalExpects, EvalHas(1)
    PROVE  toEval[eRead + 1].kind = kind
<1> USE DEF IInv
<1>0. eRead + 1 <= Len(toEval) /\ Len(toEval) \in Nat /\ eRead \in Nat
  BY DEF EvalHas, Types
<1>1. CASE kind = "basePoints"
  <2>1. eStage = "basePoints"
    BY <1>1 DEF EvalExpects
  <2>2. eRead = 0
    BY <2>1, PositionOf DEF EvalPlace
  <2> QED  BY <1>0, <1>1, <2>2 DEF Inputs
<1>8. CASE kind = "answer"
  <2>1. eStage = "answer"
    BY <1>8 DEF EvalExpects
  <2>2. eRead = 1
    BY <2>1, PositionOf DEF EvalPlace
  <2> QED  BY <1>0, <1>8, <2>2 DEF Inputs
<1>2. CASE kind = "alice"
  <2>1. eStage = "alice" /\ eWire < NumAlice
    BY <1>2 DEF EvalExpects
  <2>2. eRead = 2 + eWire /\ eWire \in AliceWires /\ eWire \in Nat
    BY <2>1, PositionOf, Numbers DEF EvalPlace, Progress, AliceWires
  <2>3. eRead + 1 = eWire + 3 /\ eWire + 3 <= Len(toEval)
    BY <1>0, <2>2
  <2> QED  BY <1>2, <2>2, <2>3, LabelTypes DEF Inputs
<1>3. CASE kind = "seed"
  <2>1. eStage = "seed"
    BY <1>3 DEF EvalExpects
  <2>2. eRead = 2 + NumAlice
    BY <2>1, PositionOf DEF EvalPlace
  <2>3. eRead + 1 = 3 + NumAlice /\ Len(toEval) >= 3 + NumAlice
    BY <1>0, <2>2, Numbers
  <2> QED  BY <1>3, <2>3 DEF Inputs
<1>4. CASE kind = "offset"
  <2>1. eStage = "offset"
    BY <1>4 DEF EvalExpects
  <2>2. eRead = 3 + NumAlice
    BY <2>1, PositionOf DEF EvalPlace
  <2>3. eRead + 1 = 4 + NumAlice /\ Len(toEval) >= 4 + NumAlice
    BY <1>0, <2>2, Numbers
  <2> QED  BY <1>4, <2>3, LabelTypes DEF Inputs
<1>5. CASE kind = "TG"
  <2>0. PICK g : g = eWire - NumInputs
    OBVIOUS
  <2>1. eStage = "gates" /\ eWire < NumWires /\ Gates[g].op = "AND"
    BY <1>5, <2>0 DEF EvalExpects, Evaluating, EvalGate
  <2>2. g \in DOMAIN Gates /\ eId = Ands(g) /\ eRead = 4 + NumAlice + 2 * eId
    BY <2>0, <2>1, EvalMakesLabels
  <2>3. Ands(g) \in Nat
    BY <2>2, AndsBound
  <2>4. eRead + 1 = TableAt(g)
    BY <2>2, <2>3, Numbers DEF TableAt
  <2>5. Len(toEval) > 4 + NumAlice + 2 * Ands(g)
    BY <1>0, <2>2
  <2>6. toEval[TableAt(g)] = Message("TG", TG(g))
    BY <2>1, <2>2, <2>5, TableArrived DEF Tables
  <2> QED  BY <1>5, <2>4, <2>6, LabelTypes
<1>6. CASE kind = "output"
  <2>1. eStage = "outputs" /\ Len(result) # NumOutputs
    BY <1>6 DEF EvalExpects, EvalDone
  <2>2. Len(result) < NumOutputs
    BY <2>1, Numbers DEF Types
  <2>3. toEval[eRead + 1] = Message("output", SelectBits(label0, Outputs[Len(result)]))
    BY <1>0, <2>1, <2>2, OutputArrived
  <2> QED  BY <1>6, <2>3, LabelTypes
<1>7. kind \in {"basePoints", "answer", "alice", "seed", "offset", "TG", "output"}
  BY DEF EvalExpects
<1> QED  BY <1>1, <1>2, <1>3, <1>4, <1>5, <1>6, <1>7, <1>8

LEMMA GarbInStep ==
    ASSUME IInv, NEW kind \in GarbExpects, GarbHas
    PROVE  toGarb[gRead + 1].kind = kind
<1>1. /\ kind = gStage
      /\ kind \in {"baseKeys", "challenge", "opening", "commit", "u", "theirSeed", "check"}
      /\ gRead < Len(toGarb) /\ gRead = Back(gStage) /\ Len(toGarb) \in Nat
  BY DEF GarbExpects, GarbHas, IInv, GarbPlace, Types
<1>2. Answers
  BY DEF IInv
<1>3. CASE gStage = "baseKeys"
  BY <1>1, <1>2, <1>3, BackOf DEF Answers
<1>4. CASE gStage = "commit"
  BY <1>1, <1>2, <1>4, BackOf DEF Answers
<1>5. CASE gStage = "u"
  BY <1>1, <1>2, <1>5, BackOf DEF Answers
<1>6. CASE gStage = "theirSeed"
  BY <1>1, <1>2, <1>6, BackOf DEF Answers
<1>7. CASE gStage = "check"
  BY <1>1, <1>2, <1>7, BackOf DEF Answers
<1>8. CASE gStage = "challenge"
  BY <1>1, <1>2, <1>8, BackOf DEF Answers
<1>9. CASE gStage = "opening"
  BY <1>1, <1>2, <1>9, BackOf DEF Answers
<1> QED  BY <1>1, <1>3, <1>4, <1>5, <1>6, <1>7, <1>8, <1>9

\* Circuit::garble and Circuit::evaluate agree on every message: each is read
\* for what it was written for, and none is left at the end.
THEOREM AlwaysLockstep == Spec => []Lockstep
<1>1. ASSUME IInv PROVE Lockstep
  <2>1. ASSUME EvalDone, GarbDone PROVE ~EvalHas(1) /\ ~GarbHas
    <3>1. eStage = "outputs" /\ gStage = "outputs" /\ Len(result) = NumOutputs /\ gOut = NumOutputs
      BY <2>1 DEF EvalDone, GarbDone, VectorsToSend
    <3>2. eRead = Len(toEval) /\ gRead = Len(toGarb)
      BY <1>1, <3>1, PositionOf, BackOf DEF IInv, GarbPlace, EvalPlace
    <3>3. eRead \in Nat /\ gRead \in Nat
      BY <1>1 DEF IInv, Types
    <3> QED  BY <3>2, <3>3 DEF EvalHas, GarbHas
  <2> QED  BY <1>1, <2>1, EvalInStep, GarbInStep DEF Lockstep
<1>2. IInv => Lockstep
  BY <1>1
<1> QED  BY <1>2, Invariance, PTL
=============================================================================
