-------------------------- MODULE SIMDGatesProofs --------------------------
(***************************************************************************)
(* For every circuit, hash and label width, in all three ways of running   *)
(* it: the two sides read every message for what it was written for, in    *)
(* every lane the evaluator's labels encode the plain values, and the      *)
(* outputs it decodes are right.  The number of lanes is any; only in the  *)
(* phases the corrected choices have to fill whole bytes (WholeBytes).     *)
(*                                                                         *)
(* The argument is about messages on their way.  From what the two sides   *)
(* have done of their scripts (GarbDid, EvalDid) follows how many messages *)
(* were written and read (Sent, Taken and so on), and every message on its *)
(* way is the right one for its place (CircuitRight, LinkRight,            *)
(* AnswerRight).  What is right for a place also says what the writer has  *)
(* done before; so the reader learns it with the message.                  *)
(***************************************************************************)
EXTENDS SIMDGates, Arithmetic, FiniteSetTheorems, SequenceTheorems

phased == mode = "phases"

\* What the phases need: the garbler receives as many bytes of choices as the
\* evaluator sends.
WholeBytes == phased => ChoicesFillBytes

\* AND gates among the first n gates: one less is the id of gate n, if it is one.
AndGates(n) == {g \in 1 .. n : Gates[g].op = "AND"}
Ands(n) == Cardinality(AndGates(n))
NumGates == Len(Gates)
NumAnds == Ands(NumGates)
NumOutputs == Len(Outputs)

-----------------------------------------------------------------------------
(* Scripts *)

StepName == {"SIMDvalues", "baseKeys", "basePoints", "challenge", "answer", "opening",
             "alice", "commit", "u", "seed", "theirSeed", "offset", "check", "bob",
             "gates", "outputs", "gcs", "choices", "labels"}

\* The place of a step in a script; what is not in it comes never.
Never == 99
Direct == [SIMDvalues |-> 1, baseKeys |-> 2, basePoints |-> 3, challenge |-> 4,
           answer |-> 5, opening |-> 6, alice |-> 7, commit |-> 8, u |-> 9, seed |-> 10,
           theirSeed |-> 11, offset |-> 12, check |-> 13, bob |-> 14, gates |-> 15,
           outputs |-> 16, gcs |-> Never, choices |-> Never, labels |-> Never]
GarbPhases == [SIMDvalues |-> Never, baseKeys |-> 1, basePoints |-> 2, challenge |-> 3,
               answer |-> 4, opening |-> 5, commit |-> 6, u |-> 7, seed |-> 8,
               theirSeed |-> 9, offset |-> 10, check |-> 11, alice |-> 12, bob |-> 13,
               gates |-> 14, outputs |-> 15, gcs |-> 16, choices |-> 17, labels |-> 18]
EvalPhases == [SIMDvalues |-> Never, baseKeys |-> 1, basePoints |-> 2, challenge |-> 3,
               answer |-> 4, opening |-> 5, commit |-> 6, u |-> 7, seed |-> 8,
               theirSeed |-> 9, offset |-> 10, check |-> 11, gcs |-> 12, alice |-> 13,
               choices |-> 14, labels |-> 15, bob |-> Never, gates |-> 16,
               outputs |-> 17]
GarbIndex == IF phased THEN GarbPhases ELSE Direct
EvalIndex == IF phased THEN EvalPhases ELSE Direct
LastStep == IF phased THEN 18 ELSE 16
EvalLastStep == IF phased THEN 17 ELSE 16

\* Items in a step, and items of it that a side has done.
Times(step) ==
    CASE step = "alice" -> mInputA_size
      [] step \in {"bob", "labels"} -> mInputB_size
      [] step = "gates" -> NumGates
      [] step = "outputs" -> NumOutputs
      [] OTHER -> 1
Did(at, pos, index, step) ==
    IF at > index[step] THEN Times(step) ELSE IF at = index[step] THEN pos ELSE 0
GarbDid(step) == Did(gStep, gPos, GarbIndex, step)
EvalDid(step) == Did(eStep, ePos, EvalIndex, step)
GarbPast(step) == gStep > GarbIndex[step]
EvalPast(step) == eStep > EvalIndex[step]

\* A side is somewhere in its script, and within the items of a repeated step.
Within(at, pos, index, last) ==
    /\ at \in 1 .. last + 1 /\ pos \in Nat
    /\ pos > 0 => \E step \in DOMAIN Count : at = index[step] /\ pos <= Times(step)
GarbWithin == Within(gStep, gPos, GarbIndex, LastStep)
EvalWithin == Within(eStep, ePos, EvalIndex, EvalLastStep)

\* Messages up to a point of a script: of the circuit, others towards the
\* evaluator, and back to the garbler.
Circuits(at, pos, index) ==
    Did(at, pos, index, "alice") + 2 * Ands(Did(at, pos, index, "gates"))
      + Did(at, pos, index, "outputs")
Links(at, pos, index) ==
    Did(at, pos, index, "SIMDvalues") + Did(at, pos, index, "basePoints")
      + Did(at, pos, index, "answer") + Did(at, pos, index, "seed")
      + Did(at, pos, index, "offset") + Did(at, pos, index, "gcs")
      + Did(at, pos, index, "labels")
Backs(at, pos, index) ==
    Did(at, pos, index, "baseKeys") + Did(at, pos, index, "challenge")
      + Did(at, pos, index, "opening") + Did(at, pos, index, "commit")
      + Did(at, pos, index, "u") + Did(at, pos, index, "theirSeed")
      + Did(at, pos, index, "check") + Did(at, pos, index, "choices")

GarbCircuit == Circuits(gStep, gPos, GarbIndex)
EvalCircuit == Circuits(eStep, ePos, EvalIndex)
GarbLink == Links(gStep, gPos, GarbIndex)
EvalLink == Links(eStep, ePos, EvalIndex)
GarbBack == Backs(gStep, gPos, GarbIndex)
EvalBack == Backs(eStep, ePos, EvalIndex)
Sent == IF phased THEN GarbLink ELSE GarbLink + GarbCircuit
Taken == IF phased THEN EvalLink ELSE EvalLink + EvalCircuit

-----------------------------------------------------------------------------
(* What is right for a place *)

\* The circuit's messages have places of their own in the phases.
TablesFrom == IF phased THEN mInputA_size ELSE 5 + mInputA_size
AliceAt(w) == IF phased THEN w ELSE 3 + w
TableAt(g) == TablesFrom + 2 * Ands(g - 1) + 1
OutputAt(o) == TablesFrom + 2 * NumAnds + o

PointsAt == IF phased THEN 1 ELSE 2
AnswerAt == IF phased THEN 2 ELSE 3
SeedAt == IF phased THEN 3 ELSE 4 + mInputA_size
OffsetAt == IF phased THEN 4 ELSE 5 + mInputA_size
LabelsAt(b) == 5 + b

AliceKind == IF Shared THEN "alice" ELSE "aliceSIMD"
Encoding(w) == XorAll(label0[w], WhenAll([i \in Lane |-> value[i][w]], R))
TG(g) == TableGAll(R, label0[Gates[g].a], label0[Gates[g].b], Ands(g - 1))
TE(g) == TableEAll(R, label0[Gates[g].a], label0[Gates[g].b], Ands(g - 1))
IsAnd(g) == Gates[g].op = "AND"

CircuitRight(p, m) ==
    /\ \A w \in 1 .. mInputA_size : p = AliceAt(w) =>
          w <= Len(label0) /\ m = Message(AliceKind, Encoding(w))
    /\ \A g \in DOMAIN Gates : IsAnd(g) /\ p = TableAt(g) =>
          NumInputs + g <= Len(label0) /\ m = Message("TG", TG(g))
    /\ \A g \in DOMAIN Gates : IsAnd(g) /\ p = TableAt(g) + 1 =>
          NumInputs + g <= Len(label0) /\ m = Message("TE", TE(g))
    /\ \A o \in DOMAIN Outputs : p = OutputAt(o) =>
          NumWires <= Len(label0) /\ m = Message("output", SelectBits(label0[Outputs[o]]))

\* The labels of the evaluator's input b hidden by the OTs.
Hidden(b) ==
    [i \in Lane |-> Xor(label0[mInputA_size + b][i],
                        OTMessage(OTIndex(b - 1, i), corrected[OTIndex(b - 1, i)]))]

LinkRight(p, m) ==
    /\ ~phased /\ p = 1 => m.kind = "SIMDvalues"
    /\ p = PointsAt => m.kind = "basePoints"
    /\ p = AnswerAt => m.kind = "answer"
    /\ p = SeedAt => m.kind = "seed"
    /\ p = OffsetAt => GarbPast("u") /\ m = Message("offset", Xor(curDelta, R))
    /\ phased /\ p = 5 => GarbPast("gcs") /\ m = Message("gcs", bufG)
    /\ phased => \A b \in 1 .. mInputB_size : p = LabelsAt(b) =>
          GarbPast("choices") /\ m = Message("labels", Hidden(b))

\* What the evaluator writes; its rows change when it has read the offset.
AnswerRight(p, m) ==
    /\ p = 1 => m.kind = "baseKeys"
    /\ p = 2 => m.kind = "challenge"
    /\ p = 3 => m.kind = "opening"
    /\ p = 4 => m.kind = "commit"
    /\ p = 5 => /\ EvalPast("u") /\ m.kind = "u" /\ m.body.choice = randChoices
                /\ ~EvalPast("offset") => m.body.row = eOTs
    /\ p = 6 => m.kind = "theirSeed"
    /\ p = 7 => m.kind = "check" /\ EvalPast("offset")
    /\ p = 8 => /\ EvalPast("u")
                /\ m = Message("choices", Bytes([k \in OT |-> All[k] # randChoices[k]]))

\* Without phases the circuit's messages are on the connection as well.
ConnectionRight(p, m) == LinkRight(p, m) /\ (~phased => CircuitRight(p, m))

\* The messages of q stand at the places after from.
CircuitFrom(q, from) == \A k \in 1 .. Len(q) : CircuitRight(from + k, q[k])
ConnectionFrom(q, from) == \A k \in 1 .. Len(q) : ConnectionRight(from + k, q[k])
AnswersFrom(q, from) == \A k \in 1 .. Len(q) : AnswerRight(from + k, q[k])

-----------------------------------------------------------------------------
(* The inductive invariant *)

Types ==
    /\ mode \in Mode /\ value \in [Lane -> Plain] /\ R \in Labels /\ LSB(R)
    /\ Shared => \A i \in Lane, w \in 1 .. mInputA_size : value[i][w] = value[0][w]
    /\ randChoices \in [OT -> BOOLEAN]

GarbPlace ==
    /\ GarbWithin
    /\ Len(label0) = GarbDid("alice") + GarbDid("bob") + GarbDid("gates")
    /\ gId = Ands(GarbDid("gates"))
EvalPlace ==
    /\ EvalWithin
    /\ Len(active) = EvalDid("alice") + EvalDid("bob") + EvalDid("labels") + EvalDid("gates")
    /\ eId = Ands(EvalDid("gates"))
    /\ Len(result) = EvalDid("outputs")

IsSeq(q) == \E S : q \in Seq(S)
Sequences ==
    /\ IsSeq(label0) /\ IsSeq(active) /\ IsSeq(result)
    /\ IsSeq(bufG) /\ IsSeq(bufE) /\ IsSeq(toEval) /\ IsSeq(toGarb)

ToEval == Len(toEval) = Sent - Taken /\ ConnectionFrom(toEval, Taken)
ToGarb == Len(toGarb) = EvalBack - GarbBack /\ AnswersFrom(toGarb, GarbBack)
Buffers ==
    /\ ~phased => bufG = <<>> /\ bufE = <<>>
    /\ phased => /\ Len(bufG) = GarbCircuit /\ CircuitFrom(bufG, 0)
                 /\ EvalPast("gcs") => /\ Len(bufE) = GarbCircuit - EvalCircuit
                                       /\ CircuitFrom(bufE, EvalCircuit)
                 /\ ~EvalPast("gcs") => bufE = <<>>

\* What a side has learned of the other one with the messages it has read.
Learned ==
    /\ GarbPast("u") => EvalPast("u")
    /\ EvalPast("offset") => GarbPast("u")
    /\ GarbPast("check") => EvalPast("offset")
    /\ EvalPast("gcs") => GarbPast("gcs")
    /\ \A w \in 1 .. mInputA_size : w <= Len(active) => w <= Len(label0)

\* The oblivious transfers: the two messages differ by curDelta, until the
\* evaluator has read the offset that turns it into R.
Transferred ==
    /\ GarbPast("u") => \A k \in OT :
          gOTs[k] = Xor(eOTs[k], When(randChoices[k],
                                      IF EvalPast("offset") THEN R ELSE curDelta))
    /\ EvalPast("u") /\ ~phased => \A k \in OT : randChoices[k] = All[k]
    /\ GarbPast("choices") => \A k \in OT : corrected[k] = (All[k] # randChoices[k])

\* Without phases the labels of the evaluator's inputs are the transferred ones.
InputLabels ==
    /\ GarbPast("bob") /\ ~phased => \A b \in 1 .. mInputB_size, i \in Lane :
          label0[mInputA_size + b][i] = gOTs[OTIndex(b - 1, i)]
    /\ EvalPast("bob") => \A b \in 1 .. mInputB_size, i \in Lane :
          active[mInputA_size + b][i] = eOTs[OTIndex(b - 1, i)]

\* The labels of a gate follow from those of the wires it reads.  Without phases
\* the evaluator may be ahead of the garbler in gates that need no table.
Garbled ==
    \A g \in DOMAIN Gates : NumInputs + g <= Len(label0) =>
        LET l == label0[NumInputs + g]
            a == label0[Gates[g].a]
            b == label0[Gates[g].b]
        IN  /\ Gates[g].op = "NOT" => l = XorAll(a, Same(R))
            /\ Gates[g].op = "XOR" => l = XorAll(a, b)
            /\ Gates[g].op = "AND" => l = GarbledAndAll(R, a, b, Ands(g - 1))
Evaluated ==
    \A g \in DOMAIN Gates : NumInputs + g <= Len(active) =>
        LET l == active[NumInputs + g]
            a == active[Gates[g].a]
            b == active[Gates[g].b]
        IN  /\ Gates[g].op = "NOT" => l = a
            /\ Gates[g].op = "XOR" => l = XorAll(a, b)
            /\ Gates[g].op = "AND" => NumInputs + g <= Len(label0)

IInv == /\ Types /\ GarbPlace /\ EvalPlace /\ Sequences
        /\ ToEval /\ ToGarb /\ Buffers /\ Learned /\ Transferred /\ InputLabels /\ Garbled /\ Evaluated
        /\ LabelsEncode /\ OutputsCorrect

-----------------------------------------------------------------------------
(* Sequences *)

\* One sequence begins another.
Begins(q, r) == Len(r) >= Len(q) /\ \A k \in 1 .. Len(q) : r[k] = q[k]

LEMMA SeqIs ==
    ASSUME NEW q, IsSeq(q)
    PROVE  Len(q) \in Nat /\ DOMAIN q = 1 .. Len(q) /\ (q = <<>> <=> Len(q) = 0)
<1>1. PICK S : q \in Seq(S)
  BY DEF IsSeq
<1> QED  BY <1>1

LEMMA EmptyIs == IsSeq(<<>>) /\ Len(<<>>) = 0
<1>1. <<>> \in Seq({})
  OBVIOUS
<1> QED  BY <1>1 DEF IsSeq

LEMMA OneIs ==
    ASSUME NEW m
    PROVE  IsSeq(<<m>>) /\ Len(<<m>>) = 1 /\ <<m>>[1] = m
<1>1. <<m>> \in Seq({m})
  OBVIOUS
<1> QED  BY <1>1 DEF IsSeq

LEMMA TwoIs ==
    ASSUME NEW m, NEW n
    PROVE  IsSeq(<<m, n>>) /\ Len(<<m, n>>) = 2 /\ <<m, n>>[1] = m /\ <<m, n>>[2] = n
<1>1. <<m, n>> \in Seq({m, n})
  OBVIOUS
<1> QED  BY <1>1 DEF IsSeq

\* What stands where after q \o r.
JoinedTo(q, r, qr) ==
    /\ IsSeq(qr) /\ Len(qr) = Len(q) + Len(r) /\ Begins(q, qr)
    /\ \A k \in 1 .. Len(r) : qr[Len(q) + k] = r[k]

LEMMA Joined ==
    ASSUME NEW q, IsSeq(q), NEW r, IsSeq(r)
    PROVE  JoinedTo(q, r, q \o r)
<1>1. PICK S, T : q \in Seq(S) /\ r \in Seq(T)
  BY DEF IsSeq
<1>2. PICK U : U = S \cup T
  OBVIOUS
<1>3. \A e : e \in S \/ e \in T => e \in U
  BY <1>2
<1>4. q \in Seq(U) /\ r \in Seq(U)
  <2>1. /\ Len(q) \in Nat /\ q = [k \in 1 .. Len(q) |-> q[k]]
        /\ \A k \in 1 .. Len(q) : q[k] \in S
    BY <1>1
  <2>2. /\ Len(r) \in Nat /\ r = [k \in 1 .. Len(r) |-> r[k]]
        /\ \A k \in 1 .. Len(r) : r[k] \in T
    BY <1>1
  <2>3. q \in Seq(U)
    BY <1>3, <2>1, SeqDef
  <2>4. r \in Seq(U)
    BY <1>3, <2>2, SeqDef
  <2> QED  BY <2>3, <2>4
<1>5. /\ q \o r \in Seq(U) /\ Len(q \o r) = Len(q) + Len(r)
      /\ \A k \in 1 .. Len(q) : (q \o r)[k] = q[k]
      /\ \A k \in 1 .. Len(r) : (q \o r)[Len(q) + k] = r[k]
  BY <1>4
<1>6. Len(q) \in Nat /\ Len(r) \in Nat
  BY <1>4
<1> QED  BY <1>5, <1>6 DEF JoinedTo, IsSeq, Begins

LEMMA Appended ==
    ASSUME NEW q, IsSeq(q), NEW e
    PROVE  /\ IsSeq(Append(q, e)) /\ Len(Append(q, e)) = Len(q) + 1
           /\ Begins(q, Append(q, e)) /\ Append(q, e)[Len(q) + 1] = e
<1>1. PICK S : q \in Seq(S)
  BY DEF IsSeq
<1>2. Append(q, e) = q \o <<e>>
  BY <1>1
<1>3. JoinedTo(q, <<e>>, q \o <<e>>)
  BY Joined, OneIs
<1>4. PICK r : r = <<e>>
  OBVIOUS
<1>5. Len(r) = 1 /\ r[1] = e
  BY <1>4, OneIs
<1> QED  BY <1>2, <1>3, <1>4, <1>5 DEF JoinedTo

\* What is left without the first n.
LeftOf(q, n, r) ==
    /\ IsSeq(r) /\ Len(r) = Len(q) - n
    /\ \A k \in 1 .. Len(r) : r[k] = q[n + k]

LEMMA Dropped ==
    ASSUME NEW q, IsSeq(q), NEW n \in Nat, n <= Len(q)
    PROVE  LeftOf(q, n, SubSeq(q, n + 1, Len(q)))
<1>1. PICK S : q \in Seq(S)
  BY DEF IsSeq
<1>2. PICK l \in Nat : l = Len(q)
  BY <1>1
<1>3. PICK r : r = SubSeq(q, n + 1, l)
  OBVIOUS
<1>4. r = [k \in 1 .. (l - n) |-> q[n + k]] /\ Len(r) = l - n
  BY <1>1, <1>2, <1>3, SubSeqProperties
<1>5. \A k \in 1 .. (l - n) : q[n + k] \in S
  BY <1>1, <1>2
<1>6. r \in Seq(S)
  BY <1>2, <1>4, <1>5, SeqDef
<1> QED  BY <1>2, <1>3, <1>4, <1>6 DEF LeftOf, IsSeq

LEMMA TailIs ==
    ASSUME NEW q, IsSeq(q), Len(q) >= 1
    PROVE  LeftOf(q, 1, Tail(q)) /\ Head(q) = q[1]
<1>1. PICK S : q \in Seq(S)
  BY DEF IsSeq
<1>2. Head(q) = q[1]
  BY <1>1
<1>3. Tail(q) = SubSeq(q, 2, Len(q))
  BY <1>1
<1>4. PICK n \in Nat : n = 1
  OBVIOUS
<1>5. n <= Len(q) /\ n + 1 = 2
  BY <1>4
<1>6. LeftOf(q, n, SubSeq(q, n + 1, Len(q)))
  BY <1>5, Dropped
<1> QED  BY ONLY <1>2, <1>3, <1>4, <1>5, <1>6

-----------------------------------------------------------------------------
(* Gates in one lane, as HalfGatesProofs has them on single labels *)

\* The label of a wire with 0-label zero and plain value bit.
LabelOf(zero, bit, delta) == Xor(zero, When(bit, delta))

\* XOR adds membership of every bit modulo two.
LEMMA XorMember ==
    ASSUME NEW a, NEW b, NEW x
    PROVE  x \in Xor(a, b) <=> ~(x \in a <=> x \in b)
BY DEF Xor

LEMMA XorZero ==
    ASSUME NEW a
    PROVE  Xor(a, Zero) = a
BY DEF Xor, Zero

\* WireLabel::operator^ on two labels of wires: the offsets of two ones cancel,
\* which makes XOR gates free.
LEMMA XorCorrect ==
    ASSUME NEW a0, NEW b0, NEW delta, NEW va \in BOOLEAN, NEW vb \in BOOLEAN
    PROVE  Xor(LabelOf(a0, va, delta), LabelOf(b0, vb, delta)) = LabelOf(Xor(a0, b0), va # vb, delta)
<1>1. CASE va /\ vb
  BY <1>1 DEF LabelOf, When, Xor, Zero
<1>2. CASE va /\ ~vb
  BY <1>2 DEF LabelOf, When, Xor, Zero
<1>3. CASE ~va /\ vb
  BY <1>3 DEF LabelOf, When, Xor, Zero
<1>4. CASE ~va /\ ~vb
  BY <1>4 DEF LabelOf, When, Xor, Zero
<1> QED  BY <1>1, <1>2, <1>3, <1>4

\* The evaluator's NOT leaves the label, the garbler's adds the offset.
LEMMA NotCorrect ==
    ASSUME NEW a0, NEW delta, NEW va \in BOOLEAN
    PROVE  LabelOf(a0, va, delta) = LabelOf(Xor(a0, delta), ~va, delta)
<1>1. CASE va
  BY <1>1 DEF LabelOf, When, Xor, Zero
<1>2. CASE ~va
  BY <1>2 DEF LabelOf, When, Xor, Zero
<1> QED  BY <1>1, <1>2

\* The first half gate, of the garbler's permute bit: its table row is right
\* whichever label the evaluator has.
LEMMA GarblerHalf ==
    ASSUME NEW a0, NEW delta, NEW id, NEW va \in BOOLEAN, NEW pb \in BOOLEAN, LSB(delta),
           NEW tg, tg = Xor(Xor(Hash(a0, id), Hash(Xor(a0, delta), id)), When(pb, delta))
    PROVE  LET a == LabelOf(a0, va, delta)
           IN  Xor(Hash(a, id), When(LSB(a), tg))
                 = Xor(Xor(Hash(a0, id), When(LSB(a0), tg)), When(va /\ pb, delta))
<1> DEFINE h0 == Hash(a0, id)
           h1 == Hash(Xor(a0, delta), id)
<1>1. CASE ~va
  <2>1. LabelOf(a0, va, delta) = a0
    BY <1>1, XorZero DEF LabelOf, When
  <2>2. Xor(Xor(Hash(a0, id), When(LSB(a0), tg)), When(va /\ pb, delta))
          = Xor(Hash(a0, id), When(LSB(a0), tg))
    BY <1>1, XorZero DEF When
  <2> QED  BY <2>1, <2>2
<1>2. CASE va
  <2>1. LabelOf(a0, va, delta) = Xor(a0, delta)
    BY <1>2 DEF LabelOf, When
  <2>2. LSB(Xor(a0, delta)) <=> ~LSB(a0)
    BY XorMember DEF LSB
  <2>3. tg = Xor(Xor(h0, h1), When(pb, delta))
    OBVIOUS
  <2>4. CASE LSB(a0)
    <3>1. Xor(h1, Zero) = Xor(Xor(h0, Xor(Xor(h0, h1), When(pb, delta))), When(pb, delta))
      <4> HIDE DEF h0, h1
      <4> QED  BY DEF Xor, Zero
    <3> QED  BY <1>2, <2>1, <2>2, <2>3, <2>4, <3>1 DEF When
  <2>5. CASE ~LSB(a0)
    <3>1. Xor(h1, Xor(Xor(h0, h1), When(pb, delta))) = Xor(Xor(h0, Zero), When(pb, delta))
      <4> HIDE DEF h0, h1
      <4> QED  BY DEF Xor, Zero
    <3> QED  BY <1>2, <2>1, <2>2, <2>3, <2>5, <3>1 DEF When
  <2> QED  BY <2>4, <2>5
<1> QED  BY <1>1, <1>2

\* The second half gate, of the evaluator's select bit.
LEMMA EvaluatorHalf ==
    ASSUME NEW a0, NEW b0, NEW delta, NEW id, NEW va \in BOOLEAN, NEW vb \in BOOLEAN, LSB(delta),
           NEW te, te = TableE(delta, a0, b0, id)
    PROVE  LET a == LabelOf(a0, va, delta)
               b == LabelOf(b0, vb, delta)
           IN  Xor(Hash(b, id), When(LSB(b), Xor(te, a)))
                 = Xor(Xor(Hash(b0, id), When(LSB(b0), Xor(te, a0))),
                       When(va /\ (vb # LSB(b0)), delta))
<1> DEFINE a == LabelOf(a0, va, delta)
           h0 == Hash(b0, id)
           h1 == Hash(Xor(b0, delta), id)
<1>1. te = Xor(Xor(h0, h1), a0)
  BY DEF TableE
<1>2. a = Xor(a0, When(va, delta))
  BY DEF LabelOf
<1>3. LSB(b0) \in BOOLEAN
  BY DEF LSB
<1>4. CASE ~vb
  <2>1. LabelOf(b0, vb, delta) = b0
    BY <1>4, XorZero DEF LabelOf, When
  <2>2. CASE LSB(b0)
    <3>1. Xor(h0, Xor(te, a)) = Xor(Xor(h0, Xor(te, a0)), When(va, delta))
      <4> HIDE DEF h0, h1, a
      <4> QED  BY <1>2 DEF Xor
    <3> QED  BY <1>4, <2>1, <2>2, <3>1 DEF When
  <2>3. CASE ~LSB(b0)
    <3>1. When(va /\ (vb # LSB(b0)), delta) = Zero
      BY <1>3, <1>4, <2>3 DEF When
    <3>2. Xor(h0, Zero) = Xor(Xor(h0, Zero), Zero)
      BY XorZero
    <3> QED  BY <2>1, <2>3, <3>1, <3>2 DEF When
  <2> QED  BY <2>2, <2>3
<1>5. CASE vb
  <2>1. LabelOf(b0, vb, delta) = Xor(b0, delta)
    BY <1>5 DEF LabelOf, When
  <2>2. LSB(Xor(b0, delta)) <=> ~LSB(b0)
    BY XorMember DEF LSB
  <2>3. CASE LSB(b0)
    <3>1. Xor(h1, Zero) = Xor(Xor(h0, Xor(te, a0)), Zero)
      <4> HIDE DEF h0, h1, a
      <4> QED  BY <1>1 DEF Xor, Zero
    <3> QED  BY <1>5, <2>1, <2>2, <2>3, <3>1 DEF When
  <2>4. CASE ~LSB(b0)
    <3>1. Xor(h1, Xor(te, a)) = Xor(Xor(h0, Zero), When(va, delta))
      <4> HIDE DEF h0, h1, a
      <4> QED  BY <1>1, <1>2 DEF Xor, Zero
    <3> QED  BY <1>5, <2>1, <2>2, <2>4, <3>1 DEF When
  <2> QED  BY <2>3, <2>4
<1> QED  BY <1>4, <1>5

\* Garbler::AND and Evaluator::AND: from labels of va and vb and the garbler's
\* two table rows the evaluator gets the label of va /\ vb.
LEMMA AndCorrect ==
    ASSUME NEW a0, NEW b0, NEW delta, NEW id, NEW va \in BOOLEAN, NEW vb \in BOOLEAN, LSB(delta)
    PROVE  EvaluatedAnd(LabelOf(a0, va, delta), LabelOf(b0, vb, delta), id,
                        TableG(delta, a0, b0, id), TableE(delta, a0, b0, id))
             = LabelOf(GarbledAnd(delta, a0, b0, id), va /\ vb, delta)
<1> DEFINE a == LabelOf(a0, va, delta)
           b == LabelOf(b0, vb, delta)
           tg == TableG(delta, a0, b0, id)
           te == TableE(delta, a0, b0, id)
           wg == Xor(Hash(a0, id), When(LSB(a0), tg))
           we == Xor(Hash(b0, id), When(LSB(b0), Xor(te, a0)))
           dg == When(va /\ LSB(b0), delta)
           de == When(va /\ (vb # LSB(b0)), delta)
<1>1. LSB(b0) \in BOOLEAN
  BY DEF LSB
<1>2. Xor(Hash(a, id), When(LSB(a), tg)) = Xor(wg, dg)
  <2>1. tg = Xor(Xor(Hash(a0, id), Hash(Xor(a0, delta), id)), When(LSB(b0), delta))
    BY DEF TableG
  <2> HIDE DEF tg
  <2> QED  BY <1>1, <2>1, GarblerHalf
<1>3. Xor(Hash(b, id), When(LSB(b), Xor(te, a))) = Xor(we, de)
  BY EvaluatorHalf
<1>4. EvaluatedAnd(a, b, id, tg, te) = Xor(Xor(wg, dg), Xor(we, de))
  BY <1>2, <1>3 DEF EvaluatedAnd
<1>5. GarbledAnd(delta, a0, b0, id) = Xor(wg, we)
  BY DEF GarbledAnd
<1>6. Xor(dg, de) = When(va /\ vb, delta)
  <2>1. CASE LSB(b0)
    BY <1>1, <2>1 DEF When, Xor, Zero
  <2>2. CASE ~LSB(b0)
    BY <1>1, <2>2 DEF When, Xor, Zero
  <2> QED  BY <1>1, <2>1, <2>2
<1>7. Xor(Xor(wg, dg), Xor(we, de)) = Xor(Xor(wg, we), Xor(dg, de))
  <2> HIDE DEF wg, we, dg, de
  <2> QED  BY DEF Xor
<1> QED  BY <1>4, <1>5, <1>6, <1>7 DEF LabelOf

-----------------------------------------------------------------------------
(* Scripts and counts *)

LEMMA Counts ==
    /\ mInputA_size \in Nat /\ mInputB_size \in Nat /\ NumGates \in Nat /\ NumOutputs \in Nat
    /\ NumInputs = mInputA_size + mInputB_size /\ NumInputs \in Nat
    /\ NumWires = NumInputs + NumGates /\ NumWires \in Nat
    /\ DOMAIN Gates = 1 .. NumGates /\ DOMAIN Outputs = 1 .. NumOutputs
    /\ DOMAIN Count = {"alice", "gates", "outputs", "labels"}
    /\ Count.alice = mInputA_size /\ Count.gates = NumGates
    /\ Count.outputs = NumOutputs /\ Count.labels = mInputB_size
BY SIMDAssumption DEF NumGates, NumOutputs, NumInputs, NumWires, Count

LEMMA TimesOf ==
    /\ Times("alice") = mInputA_size /\ Times("bob") = mInputB_size
    /\ Times("labels") = mInputB_size /\ Times("gates") = NumGates
    /\ Times("outputs") = NumOutputs
    /\ \A step \in StepName \ {"alice", "bob", "labels", "gates", "outputs"} : Times(step) = 1
    /\ \A step \in StepName : Times(step) \in Nat
    /\ \A step \in DOMAIN Count : Count[step] = Times(step) /\ step \in StepName
<1>1. /\ Times("alice") = mInputA_size /\ Times("bob") = mInputB_size
      /\ Times("labels") = mInputB_size /\ Times("gates") = NumGates
      /\ Times("outputs") = NumOutputs
  BY DEF Times
<1>2. ASSUME NEW step \in StepName \ {"alice", "bob", "labels", "gates", "outputs"}
      PROVE  Times(step) = 1
  <2>1. step # "alice" /\ step \notin {"bob", "labels"} /\ step # "gates" /\ step # "outputs"
    OBVIOUS
  <2> QED  BY <2>1 DEF Times
<1>3. \A step \in StepName : Times(step) \in Nat
  BY <1>1, <1>2, Counts
<1>4. \A step \in DOMAIN Count : Count[step] = Times(step) /\ step \in StepName
  BY <1>1, Counts DEF StepName
<1> QED  BY <1>1, <1>2, <1>3, <1>4

\* q, of length n, is the part of a script that the index places after from.
Spells(q, n, index, from) ==
    /\ IsSeq(q) /\ Len(q) = n
    /\ \A step \in StepName, k \in 1 .. Len(q) : q[k] = step <=> index[step] = from + k

LEMMA SpellsJoined ==
    ASSUME NEW q, NEW r, NEW index, NEW from \in Nat, NEW m \in Nat, NEW n \in Nat,
           Spells(q, m, index, from), Spells(r, n, index, from + m)
    PROVE  Spells(q \o r, m + n, index, from)
<1>1. JoinedTo(q, r, q \o r)
  BY Joined DEF Spells
<1>2. m = Len(q) /\ n = Len(r)
  BY DEF Spells
<1>3. PICK qr : qr = q \o r
  OBVIOUS
<1>4. ASSUME NEW step \in StepName, NEW k \in 1 .. Len(qr)
      PROVE  qr[k] = step <=> index[step] = from + k
  <2>1. Len(qr) = m + n /\ k \in Nat
    BY <1>1, <1>2, <1>3 DEF JoinedTo
  <2>2. CASE k <= m
    BY <1>1, <1>2, <1>3, <2>1, <2>2 DEF JoinedTo, Begins, Spells
  <2>3. CASE k > m
    <3>1. PICK l \in 1 .. n : k = m + l
      BY <2>1, <2>3
    <3>2. qr[k] = r[l]
      BY <1>1, <1>2, <1>3, <3>1 DEF JoinedTo
    <3>3. r[l] = step <=> index[step] = (from + m) + l
      BY <1>2, <3>1 DEF Spells
    <3>4. (from + m) + l = from + k
      BY <3>1
    <3> QED  BY <3>2, <3>3, <3>4
  <2> QED  BY <2>1, <2>2, <2>3
<1> QED  BY <1>1, <1>2, <1>3, <1>4 DEF Spells, JoinedTo

Indices == {Direct, GarbPhases, EvalPhases}

\* Steps of one script have different places in it.
LEMMA Distinct ==
    ASSUME NEW index \in Indices
    PROVE  /\ \A step \in StepName : index[step] \in 1 .. Never
           /\ \A s, t \in StepName : index[s] = index[t] /\ index[s] # Never => s = t
<1>1. CASE index = Direct
  BY <1>1 DEF StepName, Direct, Never
<1>2. CASE index = GarbPhases
  BY <1>2 DEF StepName, GarbPhases, Never
<1>3. CASE index = EvalPhases
  BY <1>3 DEF StepName, EvalPhases, Never
<1> QED  BY <1>1, <1>2, <1>3 DEF Indices

\* The parts of the scripts, each at its place.
LEMMA Parts ==
    /\ Spells(<<"SIMDvalues">>, 1, Direct, 0) /\ Spells(BaseOTs, 5, Direct, 1)
    /\ Spells(<<"alice">>, 1, Direct, 6) /\ Spells(OTPhase, 6, Direct, 7)
    /\ Spells(<<"bob", "gates", "outputs">>, 3, Direct, 13)
    /\ Spells(BaseOTs, 5, GarbPhases, 0) /\ Spells(OTPhase, 6, GarbPhases, 5)
    /\ Spells(<<"alice", "bob", "gates", "outputs", "gcs", "choices", "labels">>, 7,
              GarbPhases, 11)
    /\ Spells(BaseOTs, 5, EvalPhases, 0) /\ Spells(OTPhase, 6, EvalPhases, 5)
    /\ Spells(<<"gcs", "alice", "choices", "labels", "gates", "outputs">>, 6,
              EvalPhases, 11)
<1>2. PICK q2 : q2 = <<"SIMDvalues">> /\ IsSeq(q2)
  <2>1. <<"SIMDvalues">> \in Seq({"SIMDvalues"})
    OBVIOUS
  <2> QED  BY <2>1 DEF IsSeq
<1>3. /\ Len(q2) = 1
      /\ q2[1] = "SIMDvalues"
  BY <1>2
<1>4. Spells(q2, 1, Direct, 0)
  BY <1>2, <1>3 DEF Spells, StepName, Direct, Never
<1>5. PICK q5 : q5 = <<"baseKeys", "basePoints", "challenge", "answer", "opening">> /\ IsSeq(q5)
  <2>1. <<"baseKeys", "basePoints", "challenge", "answer", "opening">> \in Seq({"baseKeys", "basePoints", "challenge", "answer", "opening"})
    OBVIOUS
  <2> QED  BY <2>1 DEF IsSeq
<1>6. /\ Len(q5) = 5
      /\ q5[1] = "baseKeys"
      /\ q5[2] = "basePoints"
      /\ q5[3] = "challenge"
      /\ q5[4] = "answer"
      /\ q5[5] = "opening"
  BY <1>5
<1>7. Spells(q5, 5, Direct, 1)
  BY <1>5, <1>6 DEF Spells, StepName, Direct, Never
<1>8. Spells(q5, 5, GarbPhases, 0)
  BY <1>5, <1>6 DEF Spells, StepName, GarbPhases, Never
<1>9. Spells(q5, 5, EvalPhases, 0)
  BY <1>5, <1>6 DEF Spells, StepName, EvalPhases, Never
<1>10. PICK q10 : q10 = <<"alice">> /\ IsSeq(q10)
  <2>1. <<"alice">> \in Seq({"alice"})
    OBVIOUS
  <2> QED  BY <2>1 DEF IsSeq
<1>11. /\ Len(q10) = 1
      /\ q10[1] = "alice"
  BY <1>10
<1>12. Spells(q10, 1, Direct, 6)
  BY <1>10, <1>11 DEF Spells, StepName, Direct, Never
<1>13. PICK q13 : q13 = <<"commit", "u", "seed", "theirSeed", "offset", "check">> /\ IsSeq(q13)
  <2>1. <<"commit", "u", "seed", "theirSeed", "offset", "check">> \in Seq({"commit", "u", "seed", "theirSeed", "offset", "check"})
    OBVIOUS
  <2> QED  BY <2>1 DEF IsSeq
<1>14. /\ Len(q13) = 6
      /\ q13[1] = "commit"
      /\ q13[2] = "u"
      /\ q13[3] = "seed"
      /\ q13[4] = "theirSeed"
      /\ q13[5] = "offset"
      /\ q13[6] = "check"
  BY <1>13
<1>15. Spells(q13, 6, Direct, 7)
  BY <1>13, <1>14 DEF Spells, StepName, Direct, Never
<1>16. Spells(q13, 6, GarbPhases, 5)
  BY <1>13, <1>14 DEF Spells, StepName, GarbPhases, Never
<1>17. Spells(q13, 6, EvalPhases, 5)
  BY <1>13, <1>14 DEF Spells, StepName, EvalPhases, Never
<1>18. PICK q18 : q18 = <<"bob", "gates", "outputs">> /\ IsSeq(q18)
  <2>1. <<"bob", "gates", "outputs">> \in Seq({"bob", "gates", "outputs"})
    OBVIOUS
  <2> QED  BY <2>1 DEF IsSeq
<1>19. /\ Len(q18) = 3
      /\ q18[1] = "bob"
      /\ q18[2] = "gates"
      /\ q18[3] = "outputs"
  BY <1>18
<1>20. Spells(q18, 3, Direct, 13)
  BY <1>18, <1>19 DEF Spells, StepName, Direct, Never
<1>21. PICK q21 : q21 = <<"alice", "bob", "gates", "outputs", "gcs", "choices", "labels">> /\ IsSeq(q21)
  <2>1. <<"alice", "bob", "gates", "outputs", "gcs", "choices", "labels">> \in Seq({"alice", "bob", "gates", "outputs", "gcs", "choices", "labels"})
    OBVIOUS
  <2> QED  BY <2>1 DEF IsSeq
<1>22. /\ Len(q21) = 7
      /\ q21[1] = "alice"
      /\ q21[2] = "bob"
      /\ q21[3] = "gates"
      /\ q21[4] = "outputs"
      /\ q21[5] = "gcs"
      /\ q21[6] = "choices"
      /\ q21[7] = "labels"
  BY <1>21
<1>23. Spells(q21, 7, GarbPhases, 11)
  BY <1>21, <1>22 DEF Spells, StepName, GarbPhases, Never
<1>24. PICK q24 : q24 = <<"gcs", "alice", "choices", "labels", "gates", "outputs">> /\ IsSeq(q24)
  <2>1. <<"gcs", "alice", "choices", "labels", "gates", "outputs">> \in Seq({"gcs", "alice", "choices", "labels", "gates", "outputs"})
    OBVIOUS
  <2> QED  BY <2>1 DEF IsSeq
<1>25. /\ Len(q24) = 6
      /\ q24[1] = "gcs"
      /\ q24[2] = "alice"
      /\ q24[3] = "choices"
      /\ q24[4] = "labels"
      /\ q24[5] = "gates"
      /\ q24[6] = "outputs"
  BY <1>24
<1>26. Spells(q24, 6, EvalPhases, 11)
  BY <1>24, <1>25 DEF Spells, StepName, EvalPhases, Never
<1> QED  BY <1>2, <1>5, <1>10, <1>13, <1>18, <1>21, <1>24,
            <1>4, <1>7, <1>8, <1>9, <1>12, <1>15, <1>16, <1>17, <1>20, <1>23, <1>26 DEF BaseOTs, OTPhase

LEMMA ThreeParts ==
    ASSUME NEW q, NEW r, NEW s, NEW index, NEW n \in Nat,
           Spells(q, 5, index, 0), Spells(r, 6, index, 5), Spells(s, n, index, 11)
    PROVE  Spells(q \o r \o s, 11 + n, index, 0)
<1>1. Spells(q \o r, 5 + 6, index, 0)
  <2>1. Spells(r, 6, index, 0 + 5)
    OBVIOUS
  <2> QED  BY ONLY <2>1, Spells(q, 5, index, 0), SpellsJoined
<1>2. PICK qr : qr = q \o r
  OBVIOUS
<1>3. Spells(qr, 11, index, 0) /\ Spells(s, n, index, 0 + 11)
  BY <1>1, <1>2
<1>4. Spells(qr \o s, 11 + n, index, 0)
  BY ONLY <1>3, n \in Nat, SpellsJoined
<1> QED  BY <1>2, <1>4

LEMMA FiveParts ==
    ASSUME NEW q, NEW r, NEW s, NEW t, NEW u, NEW index,
           Spells(q, 1, index, 0), Spells(r, 5, index, 1), Spells(s, 1, index, 6),
           Spells(t, 6, index, 7), Spells(u, 3, index, 13)
    PROVE  Spells(q \o r \o s \o t \o u, 16, index, 0)
<1>1. PICK a, b, c : a = q \o r /\ b = a \o s /\ c = b \o t
  OBVIOUS
<1>2. Spells(q \o r, 1 + 5, index, 0)
  <2>1. Spells(r, 5, index, 0 + 1)
    OBVIOUS
  <2> QED  BY ONLY <2>1, Spells(q, 1, index, 0), SpellsJoined
<1>3. Spells(a, 6, index, 0) /\ Spells(s, 1, index, 0 + 6)
  BY <1>1, <1>2
<1>4. Spells(a \o s, 6 + 1, index, 0)
  BY ONLY <1>3, SpellsJoined
<1>5. Spells(b, 7, index, 0) /\ Spells(t, 6, index, 0 + 7)
  BY <1>1, <1>4
<1>6. Spells(b \o t, 7 + 6, index, 0)
  BY ONLY <1>5, SpellsJoined
<1>7. Spells(c, 13, index, 0) /\ Spells(u, 3, index, 0 + 13)
  BY <1>1, <1>6
<1>8. Spells(c \o u, 13 + 3, index, 0)
  BY ONLY <1>7, SpellsJoined
<1> QED  BY <1>1, <1>8

LEMMA ScriptsAre ==
    /\ Spells(GarblerSteps, LastStep, GarbIndex, 0)
    /\ Spells(EvaluatorSteps, EvalLastStep, EvalIndex, 0)
<1>1. CASE phased
  <2>1. PICK s, t : /\ s = <<"alice", "bob", "gates", "outputs", "gcs", "choices", "labels">>
                    /\ t = <<"gcs", "alice", "choices", "labels", "gates", "outputs">>
    OBVIOUS
  <2>2. Spells(BaseOTs \o OTPhase \o s, 11 + 7, GarbPhases, 0)
    BY ONLY <2>1, Parts, ThreeParts, 7 \in Nat
  <2>3. Spells(BaseOTs \o OTPhase \o t, 11 + 6, EvalPhases, 0)
    BY ONLY <2>1, Parts, ThreeParts, 6 \in Nat
  <2>4. GarblerSteps = BaseOTs \o OTPhase \o s /\ EvaluatorSteps = BaseOTs \o OTPhase \o t
    BY <1>1, <2>1 DEF GarblerSteps, EvaluatorSteps, phased
  <2> QED  BY <1>1, <2>2, <2>3, <2>4 DEF GarbIndex, EvalIndex, LastStep, EvalLastStep
<1>2. CASE ~phased
  <2>1. PICK q, s, u : q = <<"SIMDvalues">> /\ s = <<"alice">> /\ u = <<"bob", "gates", "outputs">>
    OBVIOUS
  <2>2. Spells(q \o BaseOTs \o s \o OTPhase \o u, 16, Direct, 0)
    BY ONLY <2>1, Parts, FiveParts
  <2>3. /\ GarblerSteps = q \o BaseOTs \o s \o OTPhase \o u
        /\ EvaluatorSteps = q \o BaseOTs \o s \o OTPhase \o u
    BY <1>2, <2>1 DEF GarblerSteps, EvaluatorSteps, phased
  <2> QED  BY <1>2, <2>2, <2>3 DEF GarbIndex, EvalIndex, LastStep, EvalLastStep
<1> QED  BY <1>1, <1>2

\* A side is at a step exactly at the place of the step.
LEMMA AtStep ==
    ASSUME gStep \in 1 .. LastStep + 1, eStep \in 1 .. EvalLastStep + 1
    PROVE  /\ \A step \in StepName : GarbAt(step) <=> gStep = GarbIndex[step]
           /\ \A step \in StepName : EvalAt(step) <=> eStep = EvalIndex[step]
           /\ GarbDone <=> gStep = LastStep + 1
           /\ EvalDone <=> eStep = EvalLastStep + 1
<1>1. LastStep \in {16, 18} /\ EvalLastStep \in {16, 17}
  BY DEF LastStep, EvalLastStep
<1>2. ASSUME NEW step \in StepName PROVE GarbAt(step) <=> gStep = GarbIndex[step]
  <2>1. CASE gStep = LastStep + 1
    <3>1. GarbIndex[step] # gStep
      BY <1>1, <1>2, <2>1 DEF GarbIndex, LastStep, Direct, GarbPhases, StepName, Never
    <3> QED  BY <1>1, <2>1, <3>1, ScriptsAre DEF GarbAt, GarbDone, Spells
  <2>2. CASE gStep \in 1 .. LastStep
    BY <1>1, <2>2, ScriptsAre DEF GarbAt, GarbDone, Spells
  <2> QED  BY <1>1, <2>1, <2>2
<1>3. ASSUME NEW step \in StepName PROVE EvalAt(step) <=> eStep = EvalIndex[step]
  <2>1. CASE eStep = EvalLastStep + 1
    <3>1. EvalIndex[step] # eStep
      BY <1>1, <1>3, <2>1 DEF EvalIndex, EvalLastStep, Direct, EvalPhases, StepName, Never
    <3> QED  BY <1>1, <2>1, <3>1, ScriptsAre DEF EvalAt, EvalDone, Spells
  <2>2. CASE eStep \in 1 .. EvalLastStep
    BY <1>1, <2>2, ScriptsAre DEF EvalAt, EvalDone, Spells
  <2> QED  BY <1>1, <2>1, <2>2
<1>4. (GarbDone <=> gStep = LastStep + 1) /\ (EvalDone <=> eStep = EvalLastStep + 1)
  BY <1>1, ScriptsAre DEF GarbDone, EvalDone, Spells
<1> QED  BY <1>2, <1>3, <1>4

-----------------------------------------------------------------------------
(* What a step does to the counts *)

\* Of the items done, only those of step become more; only step is passed.
Moves(at, pos, atNext, posNext, index, step, n) ==
    \A s \in StepName : Did(atNext, posNext, index, s)
                          = IF s = step THEN Did(at, pos, index, s) + n
                                        ELSE Did(at, pos, index, s)
Passes(at, atNext, index, step) ==
    \A s \in StepName : atNext > index[s] <=> at > index[s] \/ s = step

LEMMA AtPlace ==
    ASSUME NEW index \in Indices, NEW last \in 16 .. 18, NEW at, NEW pos,
           Within(at, pos, index, last), NEW step \in StepName, at = index[step]
    PROVE  /\ at \in 1 .. 19 /\ pos \in Nat
           /\ \A s \in StepName : index[s] \in 1 .. Never /\ (index[s] = at => s = step)
           /\ Did(at, pos, index, step) = pos
           /\ step \notin DOMAIN Count => pos = 0
           /\ pos <= Times(step)
<1>1. at \in 1 .. 19 /\ pos \in Nat /\ at # Never
  BY DEF Within, Never
<1>2. \A s \in StepName : index[s] \in 1 .. Never /\ (index[s] = at => s = step)
  BY <1>1, Distinct
<1>3. pos > 0 => step \in DOMAIN Count /\ pos <= Times(step)
  <2>1. ASSUME pos > 0
        PROVE  step \in DOMAIN Count /\ pos <= Times(step)
    <3>1. PICK s \in DOMAIN Count : at = index[s] /\ pos <= Times(s)
      BY <2>1 DEF Within
    <3>2. s = step
      BY <1>2, <3>1, TimesOf
    <3> QED  BY <3>1, <3>2
  <2> QED  BY <2>1
<1>4. Times(step) \in Nat
  BY TimesOf
<1>5. Did(at, pos, index, step) = pos
  BY <1>1, <1>2 DEF Did
<1> QED  BY <1>1, <1>2, <1>3, <1>4, <1>5

\* A step with one item, or the labels of the evaluator's inputs, all at once.
LEMMA Advances ==
    ASSUME NEW index \in Indices, NEW last \in 16 .. 18, NEW at, NEW pos,
           Within(at, pos, index, last), NEW step \in StepName, at = index[step],
           at <= last, pos = 0 \/ pos = Times(step)
    PROVE  /\ Within(at + 1, 0, index, last)
           /\ Moves(at, pos, at + 1, 0, index, step, Times(step) - pos)
           /\ Passes(at, at + 1, index, step)
<1>1. /\ at \in 1 .. 19 /\ pos \in Nat
      /\ \A s \in StepName : index[s] \in 1 .. Never /\ (index[s] = at => s = step)
      /\ Did(at, pos, index, step) = pos
  BY AtPlace
<1>2. Within(at + 1, 0, index, last)
  BY <1>1 DEF Within
<1>3. Passes(at, at + 1, index, step)
  BY <1>1 DEF Passes, Never
<1>4. ASSUME NEW s \in StepName
      PROVE  Did(at + 1, 0, index, s) = IF s = step THEN Did(at, pos, index, s) + (Times(step) - pos)
                                                    ELSE Did(at, pos, index, s)
  <2>1. Times(step) \in Nat
    BY TimesOf
  <2>2. CASE s = step
    <3>1. Did(at + 1, 0, index, s) = Times(step)
      BY <1>1, <2>2 DEF Did
    <3> QED  BY <1>1, <2>1, <2>2, <3>1
  <2>3. CASE s # step
    <3>1. index[s] # at /\ index[s] \in Nat
      BY <1>1, <2>3 DEF Never
    <3> QED  BY <1>1, <2>3, <3>1 DEF Did
  <2> QED  BY <2>2, <2>3
<1> QED  BY <1>2, <1>3, <1>4 DEF Moves

\* One more item of a repeated step.
LEMMA Repeats ==
    ASSUME NEW index \in Indices, NEW last \in 16 .. 18, NEW at, NEW pos,
           Within(at, pos, index, last), NEW step \in DOMAIN Count, at = index[step],
           pos < Times(step)
    PROVE  /\ Within(at, pos + 1, index, last)
           /\ Moves(at, pos, at, pos + 1, index, step, 1)
<1>1. step \in StepName /\ Times(step) \in Nat
  BY TimesOf
<1>2. /\ at \in 1 .. 19 /\ pos \in Nat
      /\ \A s \in StepName : index[s] \in 1 .. Never /\ (index[s] = at => s = step)
      /\ Did(at, pos, index, step) = pos
  BY <1>1, AtPlace
<1>3. Within(at, pos + 1, index, last)
  BY <1>1, <1>2 DEF Within
<1>4. ASSUME NEW s \in StepName
      PROVE  Did(at, pos + 1, index, s) = IF s = step THEN Did(at, pos, index, s) + 1
                                                    ELSE Did(at, pos, index, s)
  <2>1. CASE s = step
    <3>1. Did(at, pos + 1, index, s) = pos + 1
      BY <1>2, <2>1 DEF Did
    <3> QED  BY <1>2, <2>1, <3>1
  <2>2. CASE s # step
    <3>1. index[s] # at
      BY <1>2, <2>2
    <3> QED  BY <2>2, <3>1 DEF Did
  <2> QED  BY <2>1, <2>2
<1> QED  BY <1>3, <1>4 DEF Moves

\* The same for the two sides.
GarbMoves(step, n) ==
    \A s \in StepName : GarbDid(s)' = IF s = step THEN GarbDid(s) + n ELSE GarbDid(s)
EvalMoves(step, n) ==
    \A s \in StepName : EvalDid(s)' = IF s = step THEN EvalDid(s) + n ELSE EvalDid(s)
GarbPasses(step) == \A s \in StepName : GarbPast(s)' <=> GarbPast(s) \/ s = step
EvalPasses(step) == \A s \in StepName : EvalPast(s)' <=> EvalPast(s) \/ s = step
GarbStays == \A s \in StepName : GarbPast(s)' <=> GarbPast(s)
EvalStays == \A s \in StepName : EvalPast(s)' <=> EvalPast(s)

LEMMA Scripts ==
    /\ GarbIndex \in Indices /\ EvalIndex \in Indices
    /\ LastStep \in 16 .. 18 /\ EvalLastStep \in 16 .. 18
    /\ GarbWithin => gStep \in 1 .. LastStep + 1 /\ gPos \in Nat
    /\ EvalWithin => eStep \in 1 .. EvalLastStep + 1 /\ ePos \in Nat
BY DEF GarbIndex, EvalIndex, Indices, LastStep, EvalLastStep, GarbWithin, EvalWithin, Within

LEMMA ModeKept ==
    ASSUME mode' = mode
    PROVE  /\ phased' = phased /\ Shared' = Shared
           /\ GarbIndex' = GarbIndex /\ LastStep' = LastStep
           /\ EvalIndex' = EvalIndex /\ EvalLastStep' = EvalLastStep
           /\ \A step \in StepName : Times(step)' = Times(step)
BY DEF phased, Shared, GarbIndex, LastStep, EvalIndex, EvalLastStep, Times

LEMMA GarbAtStep ==
    ASSUME GarbWithin, EvalWithin, NEW step \in StepName, GarbAt(step)
    PROVE  /\ gStep = GarbIndex[step] /\ gStep <= LastStep /\ ~GarbPast(step)
           /\ GarbDid(step) = gPos /\ gPos \in Nat /\ gPos <= Times(step)
           /\ step \notin DOMAIN Count => gPos = 0
<1>1. gStep = GarbIndex[step] /\ gStep <= LastStep
  BY Scripts, AtStep, ScriptsAre DEF GarbAt, GarbDone, Spells
<1>2. /\ GarbDid(step) = gPos /\ gPos \in Nat /\ gPos <= Times(step)
      /\ step \notin DOMAIN Count => gPos = 0
  BY <1>1, Scripts, AtPlace DEF GarbWithin, GarbDid
<1>3. ~GarbPast(step)
  BY <1>1, Scripts DEF GarbPast
<1> QED  BY <1>1, <1>2, <1>3

LEMMA EvalAtStep ==
    ASSUME GarbWithin, EvalWithin, NEW step \in StepName, EvalAt(step)
    PROVE  /\ eStep = EvalIndex[step] /\ eStep <= EvalLastStep /\ ~EvalPast(step)
           /\ EvalDid(step) = ePos /\ ePos \in Nat /\ ePos <= Times(step)
           /\ step \notin DOMAIN Count => ePos = 0
<1>1. eStep = EvalIndex[step] /\ eStep <= EvalLastStep
  BY Scripts, AtStep, ScriptsAre DEF EvalAt, EvalDone, Spells
<1>2. /\ EvalDid(step) = ePos /\ ePos \in Nat /\ ePos <= Times(step)
      /\ step \notin DOMAIN Count => ePos = 0
  BY <1>1, Scripts, AtPlace DEF EvalWithin, EvalDid
<1>3. ~EvalPast(step)
  BY <1>1, Scripts DEF EvalPast
<1> QED  BY <1>1, <1>2, <1>3

\* A step that is done once, a round of a repeated one, and its end.
LEMMA GarbOnce ==
    ASSUME GarbWithin, EvalWithin, mode' = mode, NEW step \in StepName \ DOMAIN Count,
           GarbAt(step), GarbAdvance
    PROVE  GarbWithin' /\ GarbMoves(step, Times(step)) /\ GarbPasses(step) /\ GarbDid(step) = 0
<1>1. /\ gStep = GarbIndex[step] /\ gStep <= LastStep /\ gPos = 0 /\ GarbDid(step) = 0
  BY GarbAtStep
<1>2. /\ Within(gStep + 1, 0, GarbIndex, LastStep)
      /\ Moves(gStep, gPos, gStep + 1, 0, GarbIndex, step, Times(step) - gPos)
      /\ Passes(gStep, gStep + 1, GarbIndex, step)
  BY <1>1, Scripts, Advances DEF GarbWithin
<1>3. gStep' = gStep + 1 /\ gPos' = 0 /\ Times(step) - gPos = Times(step)
  BY <1>1, TimesOf DEF GarbAdvance
<1> QED  BY <1>1, <1>2, <1>3, ModeKept
         DEF GarbWithin, GarbMoves, GarbPasses, GarbDid, GarbPast, Moves, Passes

LEMMA GarbRound ==
    ASSUME GarbWithin, EvalWithin, mode' = mode, NEW step \in DOMAIN Count,
           GarbAt(step), gPos < Count[step], GarbMore
    PROVE  GarbWithin' /\ GarbMoves(step, 1) /\ GarbStays
<1>1. step \in StepName /\ gStep = GarbIndex[step]
  BY GarbAtStep, TimesOf
<1>2. /\ Within(gStep, gPos + 1, GarbIndex, LastStep)
      /\ Moves(gStep, gPos, gStep, gPos + 1, GarbIndex, step, 1)
  BY <1>1, Scripts, TimesOf, Repeats DEF GarbWithin
<1>3. gStep' = gStep /\ gPos' = gPos + 1
  BY DEF GarbMore
<1> QED  BY <1>2, <1>3, ModeKept
         DEF GarbWithin, GarbMoves, GarbStays, GarbDid, GarbPast, Moves

LEMMA GarbEnd ==
    ASSUME GarbWithin, EvalWithin, mode' = mode, NEW step \in DOMAIN Count,
           GarbAt(step), gPos = Count[step], GarbAdvance
    PROVE  GarbWithin' /\ GarbMoves(step, 0) /\ GarbPasses(step)
<1>1. step \in StepName /\ gStep = GarbIndex[step] /\ gStep <= LastStep /\ gPos = Times(step)
  BY GarbAtStep, TimesOf
<1>2. /\ Within(gStep + 1, 0, GarbIndex, LastStep)
      /\ Moves(gStep, gPos, gStep + 1, 0, GarbIndex, step, Times(step) - gPos)
      /\ Passes(gStep, gStep + 1, GarbIndex, step)
  BY <1>1, Scripts, Advances DEF GarbWithin
<1>3. gStep' = gStep + 1 /\ gPos' = 0 /\ Times(step) - gPos = 0
  BY <1>1, TimesOf DEF GarbAdvance
<1> QED  BY <1>1, <1>2, <1>3, ModeKept
         DEF GarbWithin, GarbMoves, GarbPasses, GarbDid, GarbPast, Moves, Passes

LEMMA EvalOnce ==
    ASSUME GarbWithin, EvalWithin, mode' = mode, NEW step \in StepName \ DOMAIN Count,
           EvalAt(step), EvalAdvance
    PROVE  EvalWithin' /\ EvalMoves(step, Times(step)) /\ EvalPasses(step) /\ EvalDid(step) = 0
<1>1. /\ eStep = EvalIndex[step] /\ eStep <= EvalLastStep /\ ePos = 0 /\ EvalDid(step) = 0
  BY EvalAtStep
<1>2. /\ Within(eStep + 1, 0, EvalIndex, EvalLastStep)
      /\ Moves(eStep, ePos, eStep + 1, 0, EvalIndex, step, Times(step) - ePos)
      /\ Passes(eStep, eStep + 1, EvalIndex, step)
  BY <1>1, Scripts, Advances DEF EvalWithin
<1>3. eStep' = eStep + 1 /\ ePos' = 0 /\ Times(step) - ePos = Times(step)
  BY <1>1, TimesOf DEF EvalAdvance
<1> QED  BY <1>1, <1>2, <1>3, ModeKept
         DEF EvalWithin, EvalMoves, EvalPasses, EvalDid, EvalPast, Moves, Passes

LEMMA EvalRound ==
    ASSUME GarbWithin, EvalWithin, mode' = mode, NEW step \in DOMAIN Count,
           EvalAt(step), ePos < Count[step], EvalMore
    PROVE  EvalWithin' /\ EvalMoves(step, 1) /\ EvalStays
<1>1. step \in StepName /\ eStep = EvalIndex[step]
  BY EvalAtStep, TimesOf
<1>2. /\ Within(eStep, ePos + 1, EvalIndex, EvalLastStep)
      /\ Moves(eStep, ePos, eStep, ePos + 1, EvalIndex, step, 1)
  BY <1>1, Scripts, TimesOf, Repeats DEF EvalWithin
<1>3. eStep' = eStep /\ ePos' = ePos + 1
  BY DEF EvalMore
<1> QED  BY <1>2, <1>3, ModeKept
         DEF EvalWithin, EvalMoves, EvalStays, EvalDid, EvalPast, Moves

LEMMA EvalEnd ==
    ASSUME GarbWithin, EvalWithin, mode' = mode, NEW step \in DOMAIN Count,
           EvalAt(step), ePos = Count[step], EvalAdvance
    PROVE  EvalWithin' /\ EvalMoves(step, 0) /\ EvalPasses(step)
<1>1. step \in StepName /\ eStep = EvalIndex[step] /\ eStep <= EvalLastStep /\ ePos = Times(step)
  BY EvalAtStep, TimesOf
<1>2. /\ Within(eStep + 1, 0, EvalIndex, EvalLastStep)
      /\ Moves(eStep, ePos, eStep + 1, 0, EvalIndex, step, Times(step) - ePos)
      /\ Passes(eStep, eStep + 1, EvalIndex, step)
  BY <1>1, Scripts, Advances DEF EvalWithin
<1>3. eStep' = eStep + 1 /\ ePos' = 0 /\ Times(step) - ePos = 0
  BY <1>1, TimesOf DEF EvalAdvance
<1> QED  BY <1>1, <1>2, <1>3, ModeKept
         DEF EvalWithin, EvalMoves, EvalPasses, EvalDid, EvalPast, Moves, Passes

-----------------------------------------------------------------------------
(* Counting messages *)

LEMMA AndGatesFinite ==
    ASSUME NEW n \in Nat
    PROVE  IsFiniteSet(AndGates(n)) /\ Ands(n) \in Nat
<1>1. IsFiniteSet(1 .. n)
  BY FS_Interval
<1>2. AndGates(n) \subseteq 1 .. n
  BY DEF AndGates
<1> QED  BY <1>1, <1>2, FS_Subset, FS_CardinalityType DEF Ands

\* Ands counts the AND gates in front.
LEMMA AndsCount ==
    /\ Ands(0) = 0
    /\ \A n \in Nat : Ands(n) \in Nat
    /\ \A n \in Nat : Ands(n + 1) = IF IsAnd(n + 1) THEN Ands(n) + 1 ELSE Ands(n)
    /\ \A m, n \in Nat : m <= n => Ands(m) <= Ands(n)
<1>1. Ands(0) = 0
  <2>1. AndGates(0) = {}
    BY DEF AndGates
  <2> QED  BY <2>1, FS_EmptySet DEF Ands
<1>2. ASSUME NEW n \in Nat
      PROVE  Ands(n + 1) = IF IsAnd(n + 1) THEN Ands(n) + 1 ELSE Ands(n)
  <2>1. AndGates(n + 1) = IF IsAnd(n + 1) THEN AndGates(n) \cup {n + 1} ELSE AndGates(n)
    BY DEF AndGates, IsAnd
  <2>2. n + 1 \notin AndGates(n)
    BY DEF AndGates
  <2> QED  BY <2>1, <2>2, AndGatesFinite, FS_AddElement DEF Ands
<1>3. ASSUME NEW m \in Nat, NEW n \in Nat, m <= n
      PROVE  Ands(m) <= Ands(n)
  <2>1. AndGates(m) \subseteq AndGates(n)
    BY <1>3 DEF AndGates
  <2> QED  BY <2>1, AndGatesFinite, FS_Subset DEF Ands
<1> QED  BY <1>1, <1>2, <1>3, AndGatesFinite

\* The tables of a gate have their places among the tables of all gates.
LEMMA AndsBound ==
    /\ NumAnds \in Nat
    /\ \A g \in 1 .. NumGates : Ands(g - 1) \in Nat /\ Ands(g - 1) <= NumAnds
    /\ \A g \in 1 .. NumGates : IsAnd(g) => Ands(g - 1) + 1 <= NumAnds
    /\ \A g, h \in 1 .. NumGates : IsAnd(g) /\ IsAnd(h) /\ g # h => Ands(g - 1) # Ands(h - 1)
<1>1. NumAnds \in Nat /\ NumGates \in Nat
  BY Counts, AndsCount DEF NumAnds
<1>2. ASSUME NEW g \in 1 .. NumGates
      PROVE  /\ Ands(g - 1) \in Nat /\ Ands(g - 1) <= NumAnds
             /\ IsAnd(g) => Ands(g - 1) + 1 = Ands(g)
             /\ Ands(g) <= NumAnds /\ Ands(g) \in Nat
  <2>1. g - 1 \in Nat /\ g \in Nat /\ (g - 1) + 1 = g /\ g <= NumGates /\ g - 1 <= NumGates
    BY <1>1
  <2>2. Ands((g - 1) + 1) = IF IsAnd((g - 1) + 1) THEN Ands(g - 1) + 1 ELSE Ands(g - 1)
    BY ONLY <2>1, AndsCount
  <2>3. Ands(g) = IF IsAnd(g) THEN Ands(g - 1) + 1 ELSE Ands(g - 1)
    BY ONLY <2>1, <2>2
  <2> QED  BY ONLY <1>1, <2>1, <2>3, AndsCount DEF NumAnds
<1>3. ASSUME NEW g \in 1 .. NumGates, NEW h \in 1 .. NumGates, IsAnd(g), IsAnd(h), g < h
      PROVE  Ands(g - 1) # Ands(h - 1)
  <2>1. g \in Nat /\ h - 1 \in Nat /\ g <= h - 1
    BY <1>1, <1>3
  <2>2. Ands(g) <= Ands(h - 1)
    BY ONLY <2>1, AndsCount
  <2> QED  BY <1>2, <1>3, <2>2
<1>4. ASSUME NEW g \in 1 .. NumGates, NEW h \in 1 .. NumGates, IsAnd(g), IsAnd(h), g # h
      PROVE  Ands(g - 1) # Ands(h - 1)
  <2>1. g < h \/ h < g
    BY <1>1, <1>4
  <2> QED  BY <1>3, <1>4, <2>1
<1>5. \A g \in 1 .. NumGates : IsAnd(g) => Ands(g - 1) + 1 <= NumAnds
  BY <1>2
<1> QED  BY <1>1, <1>2, <1>4, <1>5

\* Steps by what they write.
CircuitSteps == {"alice", "gates", "outputs"}
LinkSteps == {"SIMDvalues", "basePoints", "answer", "seed", "offset", "gcs", "labels"}
BackSteps == {"baseKeys", "challenge", "opening", "commit", "u", "theirSeed", "check",
              "choices"}

LEMMA DidType ==
    ASSUME NEW index \in Indices, NEW at \in Nat, NEW pos \in Nat
    PROVE  \A s \in StepName : Did(at, pos, index, s) \in Nat
BY TimesOf DEF Did

LEMMA MovesCounts ==
    ASSUME NEW index \in Indices, NEW at \in Nat, NEW pos \in Nat, NEW atNext, NEW posNext,
           NEW step \in StepName, NEW n \in Nat,
           Moves(at, pos, atNext, posNext, index, step, n)
    PROVE  /\ Links(atNext, posNext, index)
                = IF step \in LinkSteps THEN Links(at, pos, index) + n ELSE Links(at, pos, index)
           /\ Backs(atNext, posNext, index)
                = IF step \in BackSteps THEN Backs(at, pos, index) + n ELSE Backs(at, pos, index)
           /\ step \notin CircuitSteps =>
                Circuits(atNext, posNext, index) = Circuits(at, pos, index)
           /\ step \in {"alice", "outputs"} =>
                Circuits(atNext, posNext, index) = Circuits(at, pos, index) + n
           /\ Links(at, pos, index) \in Nat /\ Backs(at, pos, index) \in Nat
           /\ Circuits(at, pos, index) \in Nat
<1>1. \A s \in StepName : Did(at, pos, index, s) \in Nat
  BY DidType
<1>2. Links(at, pos, index) \in Nat /\ Backs(at, pos, index) \in Nat
  BY <1>1 DEF Links, Backs, StepName
<1>3. Circuits(at, pos, index) \in Nat
  <2>1. Ands(Did(at, pos, index, "gates")) \in Nat
    BY <1>1, AndsCount DEF StepName
  <2> QED  BY <1>1, <2>1 DEF Circuits, StepName
<1>4. Links(atNext, posNext, index)
        = IF step \in LinkSteps THEN Links(at, pos, index) + n ELSE Links(at, pos, index)
  BY <1>1 DEF Links, Moves, LinkSteps, StepName
<1>5. Backs(atNext, posNext, index)
        = IF step \in BackSteps THEN Backs(at, pos, index) + n ELSE Backs(at, pos, index)
  BY <1>1 DEF Backs, Moves, BackSteps, StepName
<1>6. step \notin CircuitSteps => Circuits(atNext, posNext, index) = Circuits(at, pos, index)
  BY <1>1 DEF Circuits, Moves, CircuitSteps, StepName
<1>7. step \in {"alice", "outputs"} =>
        Circuits(atNext, posNext, index) = Circuits(at, pos, index) + n
  <2>1. Ands(Did(at, pos, index, "gates")) \in Nat
    BY <1>1, AndsCount DEF StepName
  <2> QED  BY <1>1, <2>1 DEF Circuits, Moves, StepName
<1> QED  BY <1>2, <1>3, <1>4, <1>5, <1>6, <1>7

-----------------------------------------------------------------------------
(* The counts at every step *)

LEMMA DirectCounts ==
    ASSUME NEW at \in 1 .. 17, NEW pos \in Nat
    PROVE  /\ at = 1 => /\ Links(at, pos, Direct) = pos
                        /\ Circuits(at, pos, Direct) = 0
           /\ at = 3 => /\ Links(at, pos, Direct) = 1 + pos
                        /\ Circuits(at, pos, Direct) = 0
           /\ at = 5 => /\ Links(at, pos, Direct) = 2 + pos
                        /\ Circuits(at, pos, Direct) = 0
           /\ at = 7 => /\ Links(at, pos, Direct) = 3
                        /\ Circuits(at, pos, Direct) = pos
           /\ at = 10 => /\ Links(at, pos, Direct) = 3 + pos
                         /\ Circuits(at, pos, Direct) = mInputA_size
           /\ at = 12 => /\ Links(at, pos, Direct) = 4 + pos
                         /\ Circuits(at, pos, Direct) = mInputA_size
           /\ at = 15 => /\ Links(at, pos, Direct) = 5
                         /\ Circuits(at, pos, Direct) = mInputA_size + 2 * Ands(pos)
           /\ at = 16 => /\ Links(at, pos, Direct) = 5
                         /\ Circuits(at, pos, Direct) = mInputA_size + 2 * NumAnds + pos
           /\ at = 17 => /\ Links(at, pos, Direct) = 5
                         /\ Circuits(at, pos, Direct) = mInputA_size + 2 * NumAnds + NumOutputs
           /\ at = 2 => Backs(at, pos, Direct) = pos
           /\ at = 4 => Backs(at, pos, Direct) = 1 + pos
           /\ at = 6 => Backs(at, pos, Direct) = 2 + pos
           /\ at = 8 => Backs(at, pos, Direct) = 3 + pos
           /\ at = 9 => Backs(at, pos, Direct) = 4 + pos
           /\ at = 11 => Backs(at, pos, Direct) = 5 + pos
           /\ at = 13 => Backs(at, pos, Direct) = 6 + pos
           /\ at = 17 => Backs(at, pos, Direct) = 7
<1>1. /\ Did(at, pos, Direct, "SIMDvalues") = IF at > 1 THEN 1 ELSE IF at = 1 THEN pos ELSE 0
      /\ Did(at, pos, Direct, "baseKeys") = IF at > 2 THEN 1 ELSE IF at = 2 THEN pos ELSE 0
      /\ Did(at, pos, Direct, "basePoints") = IF at > 3 THEN 1 ELSE IF at = 3 THEN pos ELSE 0
      /\ Did(at, pos, Direct, "challenge") = IF at > 4 THEN 1 ELSE IF at = 4 THEN pos ELSE 0
      /\ Did(at, pos, Direct, "answer") = IF at > 5 THEN 1 ELSE IF at = 5 THEN pos ELSE 0
      /\ Did(at, pos, Direct, "opening") = IF at > 6 THEN 1 ELSE IF at = 6 THEN pos ELSE 0
      /\ Did(at, pos, Direct, "alice") = IF at > 7 THEN mInputA_size ELSE IF at = 7 THEN pos ELSE 0
      /\ Did(at, pos, Direct, "commit") = IF at > 8 THEN 1 ELSE IF at = 8 THEN pos ELSE 0
      /\ Did(at, pos, Direct, "u") = IF at > 9 THEN 1 ELSE IF at = 9 THEN pos ELSE 0
      /\ Did(at, pos, Direct, "seed") = IF at > 10 THEN 1 ELSE IF at = 10 THEN pos ELSE 0
      /\ Did(at, pos, Direct, "theirSeed") = IF at > 11 THEN 1 ELSE IF at = 11 THEN pos ELSE 0
      /\ Did(at, pos, Direct, "offset") = IF at > 12 THEN 1 ELSE IF at = 12 THEN pos ELSE 0
      /\ Did(at, pos, Direct, "check") = IF at > 13 THEN 1 ELSE IF at = 13 THEN pos ELSE 0
      /\ Did(at, pos, Direct, "gates") = IF at > 15 THEN NumGates ELSE IF at = 15 THEN pos ELSE 0
      /\ Did(at, pos, Direct, "outputs") = IF at > 16 THEN NumOutputs ELSE IF at = 16 THEN pos ELSE 0
      /\ Did(at, pos, Direct, "gcs") = 0 /\ Did(at, pos, Direct, "choices") = 0
      /\ Did(at, pos, Direct, "labels") = 0
  BY TimesOf DEF Did, Direct, Never, StepName
<1>2. Ands(0) = 0 /\ NumAnds = Ands(NumGates) /\ NumAnds \in Nat /\ Ands(pos) \in Nat
  BY AndsCount, AndsBound DEF NumAnds
<1>3. mInputA_size \in Nat /\ NumOutputs \in Nat
  BY Counts
<1> QED  BY ONLY <1>1, <1>2, <1>3, at \in 1 .. 17, pos \in Nat DEF Links, Circuits, Backs

LEMMA GarbPhasesCounts ==
    ASSUME NEW at \in 1 .. 19, NEW pos \in Nat
    PROVE  /\ at = 2 => Links(at, pos, GarbPhases) = pos
           /\ at = 4 => Links(at, pos, GarbPhases) = 1 + pos
           /\ at = 8 => Links(at, pos, GarbPhases) = 2 + pos
           /\ at = 10 => Links(at, pos, GarbPhases) = 3 + pos
           /\ at = 16 => Links(at, pos, GarbPhases) = 4 + pos
           /\ at = 18 => Links(at, pos, GarbPhases) = 5 + pos
           /\ at = 19 => Links(at, pos, GarbPhases) = 5 + mInputB_size
           /\ at = 12 => Circuits(at, pos, GarbPhases) = pos
           /\ at = 14 => Circuits(at, pos, GarbPhases) = mInputA_size + 2 * Ands(pos)
           /\ at = 15 => Circuits(at, pos, GarbPhases) = mInputA_size + 2 * NumAnds + pos
           /\ at > 15 => Circuits(at, pos, GarbPhases) = mInputA_size + 2 * NumAnds + NumOutputs
           /\ at = 1 => Backs(at, pos, GarbPhases) = pos
           /\ at = 3 => Backs(at, pos, GarbPhases) = 1 + pos
           /\ at = 5 => Backs(at, pos, GarbPhases) = 2 + pos
           /\ at = 6 => Backs(at, pos, GarbPhases) = 3 + pos
           /\ at = 7 => Backs(at, pos, GarbPhases) = 4 + pos
           /\ at = 9 => Backs(at, pos, GarbPhases) = 5 + pos
           /\ at = 11 => Backs(at, pos, GarbPhases) = 6 + pos
           /\ at = 17 => Backs(at, pos, GarbPhases) = 7 + pos
           /\ at = 19 => Backs(at, pos, GarbPhases) = 8
<1>1. /\ Did(at, pos, GarbPhases, "SIMDvalues") = 0
      /\ Did(at, pos, GarbPhases, "baseKeys") = IF at > 1 THEN 1 ELSE IF at = 1 THEN pos ELSE 0
      /\ Did(at, pos, GarbPhases, "basePoints") = IF at > 2 THEN 1 ELSE IF at = 2 THEN pos ELSE 0
      /\ Did(at, pos, GarbPhases, "challenge") = IF at > 3 THEN 1 ELSE IF at = 3 THEN pos ELSE 0
      /\ Did(at, pos, GarbPhases, "answer") = IF at > 4 THEN 1 ELSE IF at = 4 THEN pos ELSE 0
      /\ Did(at, pos, GarbPhases, "opening") = IF at > 5 THEN 1 ELSE IF at = 5 THEN pos ELSE 0
      /\ Did(at, pos, GarbPhases, "commit") = IF at > 6 THEN 1 ELSE IF at = 6 THEN pos ELSE 0
      /\ Did(at, pos, GarbPhases, "u") = IF at > 7 THEN 1 ELSE IF at = 7 THEN pos ELSE 0
      /\ Did(at, pos, GarbPhases, "seed") = IF at > 8 THEN 1 ELSE IF at = 8 THEN pos ELSE 0
      /\ Did(at, pos, GarbPhases, "theirSeed") = IF at > 9 THEN 1 ELSE IF at = 9 THEN pos ELSE 0
      /\ Did(at, pos, GarbPhases, "offset") = IF at > 10 THEN 1 ELSE IF at = 10 THEN pos ELSE 0
      /\ Did(at, pos, GarbPhases, "check") = IF at > 11 THEN 1 ELSE IF at = 11 THEN pos ELSE 0
      /\ Did(at, pos, GarbPhases, "alice") = IF at > 12 THEN mInputA_size ELSE IF at = 12 THEN pos ELSE 0
      /\ Did(at, pos, GarbPhases, "gates") = IF at > 14 THEN NumGates ELSE IF at = 14 THEN pos ELSE 0
      /\ Did(at, pos, GarbPhases, "outputs") = IF at > 15 THEN NumOutputs ELSE IF at = 15 THEN pos ELSE 0
      /\ Did(at, pos, GarbPhases, "gcs") = IF at > 16 THEN 1 ELSE IF at = 16 THEN pos ELSE 0
      /\ Did(at, pos, GarbPhases, "choices") = IF at > 17 THEN 1 ELSE IF at = 17 THEN pos ELSE 0
      /\ Did(at, pos, GarbPhases, "labels") = IF at > 18 THEN mInputB_size ELSE IF at = 18 THEN pos ELSE 0
  BY TimesOf DEF Did, GarbPhases, Never, StepName
<1>2. Ands(0) = 0 /\ NumAnds = Ands(NumGates) /\ NumAnds \in Nat /\ Ands(pos) \in Nat
  BY AndsCount, AndsBound DEF NumAnds
<1>3. mInputA_size \in Nat /\ mInputB_size \in Nat /\ NumOutputs \in Nat
  BY Counts
<1> QED  BY ONLY <1>1, <1>2, <1>3, at \in 1 .. 19, pos \in Nat DEF Links, Circuits, Backs

LEMMA EvalPhasesCounts ==
    ASSUME NEW at \in 1 .. 18, NEW pos \in Nat
    PROVE  /\ at = 2 => Links(at, pos, EvalPhases) = pos
           /\ at = 4 => Links(at, pos, EvalPhases) = 1 + pos
           /\ at = 8 => Links(at, pos, EvalPhases) = 2 + pos
           /\ at = 10 => Links(at, pos, EvalPhases) = 3 + pos
           /\ at = 12 => Links(at, pos, EvalPhases) = 4 + pos
           /\ at = 15 => Links(at, pos, EvalPhases) = 5 + pos
           /\ at = 18 => Links(at, pos, EvalPhases) = 5 + mInputB_size
           /\ at = 13 => Circuits(at, pos, EvalPhases) = pos
           /\ at = 16 => Circuits(at, pos, EvalPhases) = mInputA_size + 2 * Ands(pos)
           /\ at = 17 => Circuits(at, pos, EvalPhases) = mInputA_size + 2 * NumAnds + pos
           /\ at <= 12 => Circuits(at, pos, EvalPhases) = 0
           /\ at = 18 => Circuits(at, pos, EvalPhases) = mInputA_size + 2 * NumAnds + NumOutputs
           /\ at = 1 => Backs(at, pos, EvalPhases) = pos
           /\ at = 3 => Backs(at, pos, EvalPhases) = 1 + pos
           /\ at = 5 => Backs(at, pos, EvalPhases) = 2 + pos
           /\ at = 6 => Backs(at, pos, EvalPhases) = 3 + pos
           /\ at = 7 => Backs(at, pos, EvalPhases) = 4 + pos
           /\ at = 9 => Backs(at, pos, EvalPhases) = 5 + pos
           /\ at = 11 => Backs(at, pos, EvalPhases) = 6 + pos
           /\ at = 14 => Backs(at, pos, EvalPhases) = 7 + pos
           /\ at = 18 => Backs(at, pos, EvalPhases) = 8
<1>1. /\ Did(at, pos, EvalPhases, "SIMDvalues") = 0
      /\ Did(at, pos, EvalPhases, "baseKeys") = IF at > 1 THEN 1 ELSE IF at = 1 THEN pos ELSE 0
      /\ Did(at, pos, EvalPhases, "basePoints") = IF at > 2 THEN 1 ELSE IF at = 2 THEN pos ELSE 0
      /\ Did(at, pos, EvalPhases, "challenge") = IF at > 3 THEN 1 ELSE IF at = 3 THEN pos ELSE 0
      /\ Did(at, pos, EvalPhases, "answer") = IF at > 4 THEN 1 ELSE IF at = 4 THEN pos ELSE 0
      /\ Did(at, pos, EvalPhases, "opening") = IF at > 5 THEN 1 ELSE IF at = 5 THEN pos ELSE 0
      /\ Did(at, pos, EvalPhases, "commit") = IF at > 6 THEN 1 ELSE IF at = 6 THEN pos ELSE 0
      /\ Did(at, pos, EvalPhases, "u") = IF at > 7 THEN 1 ELSE IF at = 7 THEN pos ELSE 0
      /\ Did(at, pos, EvalPhases, "seed") = IF at > 8 THEN 1 ELSE IF at = 8 THEN pos ELSE 0
      /\ Did(at, pos, EvalPhases, "theirSeed") = IF at > 9 THEN 1 ELSE IF at = 9 THEN pos ELSE 0
      /\ Did(at, pos, EvalPhases, "offset") = IF at > 10 THEN 1 ELSE IF at = 10 THEN pos ELSE 0
      /\ Did(at, pos, EvalPhases, "check") = IF at > 11 THEN 1 ELSE IF at = 11 THEN pos ELSE 0
      /\ Did(at, pos, EvalPhases, "gcs") = IF at > 12 THEN 1 ELSE IF at = 12 THEN pos ELSE 0
      /\ Did(at, pos, EvalPhases, "alice") = IF at > 13 THEN mInputA_size ELSE IF at = 13 THEN pos ELSE 0
      /\ Did(at, pos, EvalPhases, "choices") = IF at > 14 THEN 1 ELSE IF at = 14 THEN pos ELSE 0
      /\ Did(at, pos, EvalPhases, "labels") = IF at > 15 THEN mInputB_size ELSE IF at = 15 THEN pos ELSE 0
      /\ Did(at, pos, EvalPhases, "gates") = IF at > 16 THEN NumGates ELSE IF at = 16 THEN pos ELSE 0
      /\ Did(at, pos, EvalPhases, "outputs") = IF at > 17 THEN NumOutputs ELSE IF at = 17 THEN pos ELSE 0
  BY TimesOf DEF Did, EvalPhases, Never, StepName
<1>2. Ands(0) = 0 /\ NumAnds = Ands(NumGates) /\ NumAnds \in Nat /\ Ands(pos) \in Nat
  BY AndsCount, AndsBound DEF NumAnds
<1>3. mInputA_size \in Nat /\ mInputB_size \in Nat /\ NumOutputs \in Nat
  BY Counts
<1> QED  BY ONLY <1>1, <1>2, <1>3, at \in 1 .. 18, pos \in Nat DEF Links, Circuits, Backs

\* The places of the next messages.
NextLink(at, pos, index) ==
    (IF phased THEN Links(at, pos, index) ELSE Links(at, pos, index) + Circuits(at, pos, index)) + 1
NextCircuit(at, pos, index) ==
    (IF phased THEN Circuits(at, pos, index) ELSE Links(at, pos, index) + Circuits(at, pos, index)) + 1
NextBack(at, pos, index) == Backs(at, pos, index) + 1

\* At every step the next message is the one for the step.
PlacesAre(at, pos, index) ==
    /\ at = index.SIMDvalues => ~phased /\ NextLink(at, pos, index) = 1 + pos
    /\ at = index.basePoints => NextLink(at, pos, index) = PointsAt + pos
    /\ at = index.answer => NextLink(at, pos, index) = AnswerAt + pos
    /\ at = index.seed => NextLink(at, pos, index) = SeedAt + pos
    /\ at = index.offset => NextLink(at, pos, index) = OffsetAt + pos
    /\ at = index.gcs => phased /\ NextLink(at, pos, index) = 5 + pos
    /\ at = index.labels => phased /\ NextLink(at, pos, index) = LabelsAt(pos + 1)
    /\ at = index.alice => NextCircuit(at, pos, index) = AliceAt(pos + 1)
    /\ at = index.gates => NextCircuit(at, pos, index) = TablesFrom + 2 * Ands(pos) + 1
    /\ at = index.outputs => NextCircuit(at, pos, index) = OutputAt(pos + 1)
    /\ at = index.baseKeys => NextBack(at, pos, index) = 1 + pos
    /\ at = index.challenge => NextBack(at, pos, index) = 2 + pos
    /\ at = index.opening => NextBack(at, pos, index) = 3 + pos
    /\ at = index.commit => NextBack(at, pos, index) = 4 + pos
    /\ at = index.u => NextBack(at, pos, index) = 5 + pos
    /\ at = index.theirSeed => NextBack(at, pos, index) = 6 + pos
    /\ at = index.check => NextBack(at, pos, index) = 7 + pos
    /\ at = index.choices => phased /\ NextBack(at, pos, index) = 8 + pos
\* Everything that is sent, for a side that is done.
AllSent(at, pos, index) ==
    /\ NextLink(at, pos, index) = IF phased THEN 6 + mInputB_size
                                  ELSE TablesFrom + 2 * NumAnds + NumOutputs + 1
    /\ NextCircuit(at, pos, index) = TablesFrom + 2 * NumAnds + NumOutputs + 1
    /\ NextBack(at, pos, index) = IF phased THEN 9 ELSE 8

LEMMA PlacesDirect ==
    ASSUME ~phased, NEW at \in 1 .. 17, NEW pos \in Nat
    PROVE  PlacesAre(at, pos, Direct) /\ (at = 17 => AllSent(at, pos, Direct))
<1>1. /\ Direct.SIMDvalues = 1 /\ Direct.baseKeys = 2 /\ Direct.basePoints = 3
      /\ Direct.challenge = 4 /\ Direct.answer = 5 /\ Direct.opening = 6 /\ Direct.alice = 7
      /\ Direct.commit = 8 /\ Direct.u = 9 /\ Direct.seed = 10 /\ Direct.theirSeed = 11
      /\ Direct.offset = 12 /\ Direct.check = 13 /\ Direct.bob = 14 /\ Direct.gates = 15
      /\ Direct.outputs = 16 /\ Direct.gcs = 99 /\ Direct.choices = 99 /\ Direct.labels = 99
  BY DEF Direct, Never
<1>2. Ands(pos) \in Nat /\ NumAnds \in Nat
  BY AndsCount, AndsBound
<1>3. mInputA_size \in Nat /\ NumOutputs \in Nat
  BY Counts
<1> QED  BY ONLY <1>1, <1>2, <1>3, ~phased, at \in 1 .. 17, pos \in Nat, DirectCounts
         DEF PlacesAre, AllSent, NextLink, NextCircuit, NextBack, PointsAt, AnswerAt, SeedAt, OffsetAt,
             LabelsAt, AliceAt, TablesFrom, OutputAt

LEMMA PlacesGarbPhases ==
    ASSUME phased, NEW at \in 1 .. 19, NEW pos \in Nat
    PROVE  PlacesAre(at, pos, GarbPhases) /\ (at = 19 => AllSent(at, pos, GarbPhases))
<1>1. /\ GarbPhases.baseKeys = 1 /\ GarbPhases.basePoints = 2 /\ GarbPhases.challenge = 3
      /\ GarbPhases.answer = 4 /\ GarbPhases.opening = 5 /\ GarbPhases.commit = 6
      /\ GarbPhases.u = 7 /\ GarbPhases.seed = 8 /\ GarbPhases.theirSeed = 9
      /\ GarbPhases.offset = 10 /\ GarbPhases.check = 11 /\ GarbPhases.alice = 12
      /\ GarbPhases.bob = 13 /\ GarbPhases.gates = 14 /\ GarbPhases.outputs = 15
      /\ GarbPhases.gcs = 16 /\ GarbPhases.choices = 17 /\ GarbPhases.labels = 18
      /\ GarbPhases.SIMDvalues = 99
  BY DEF GarbPhases, Never
<1>2. Ands(pos) \in Nat /\ NumAnds \in Nat
  BY AndsCount, AndsBound
<1>3. mInputA_size \in Nat /\ mInputB_size \in Nat /\ NumOutputs \in Nat
  BY Counts
<1> QED  BY ONLY <1>1, <1>2, <1>3, phased, at \in 1 .. 19, pos \in Nat, GarbPhasesCounts
         DEF PlacesAre, AllSent, NextLink, NextCircuit, NextBack, PointsAt, AnswerAt, SeedAt, OffsetAt,
             LabelsAt, AliceAt, TablesFrom, OutputAt

LEMMA PlacesEvalPhases ==
    ASSUME phased, NEW at \in 1 .. 18, NEW pos \in Nat
    PROVE  PlacesAre(at, pos, EvalPhases) /\ (at = 18 => AllSent(at, pos, EvalPhases))
<1>1. /\ EvalPhases.baseKeys = 1 /\ EvalPhases.basePoints = 2 /\ EvalPhases.challenge = 3
      /\ EvalPhases.answer = 4 /\ EvalPhases.opening = 5 /\ EvalPhases.commit = 6
      /\ EvalPhases.u = 7 /\ EvalPhases.seed = 8 /\ EvalPhases.theirSeed = 9
      /\ EvalPhases.offset = 10 /\ EvalPhases.check = 11 /\ EvalPhases.gcs = 12
      /\ EvalPhases.alice = 13 /\ EvalPhases.choices = 14 /\ EvalPhases.labels = 15
      /\ EvalPhases.gates = 16 /\ EvalPhases.outputs = 17 /\ EvalPhases.SIMDvalues = 99
      /\ EvalPhases.bob = 99
  BY DEF EvalPhases, Never
<1>2. Ands(pos) \in Nat /\ NumAnds \in Nat
  BY AndsCount, AndsBound
<1>3. mInputA_size \in Nat /\ mInputB_size \in Nat /\ NumOutputs \in Nat
  BY Counts
<1> QED  BY ONLY <1>1, <1>2, <1>3, phased, at \in 1 .. 18, pos \in Nat, EvalPhasesCounts
         DEF PlacesAre, AllSent, NextLink, NextCircuit, NextBack, PointsAt, AnswerAt, SeedAt, OffsetAt,
             LabelsAt, AliceAt, TablesFrom, OutputAt

\* The places the two sides are at, on the connection and in the circuit.
CircuitSent == IF phased THEN GarbCircuit ELSE Sent
CircuitTaken == IF phased THEN EvalCircuit ELSE Taken

LEMMA Places ==
    ASSUME GarbWithin, EvalWithin
    PROVE  /\ PlacesAre(gStep, gPos, GarbIndex) /\ PlacesAre(eStep, ePos, EvalIndex)
           /\ GarbDone => AllSent(gStep, gPos, GarbIndex)
           /\ EvalDone => AllSent(eStep, ePos, EvalIndex)
           /\ NextLink(gStep, gPos, GarbIndex) = Sent + 1
           /\ NextLink(eStep, ePos, EvalIndex) = Taken + 1
           /\ NextCircuit(gStep, gPos, GarbIndex) = CircuitSent + 1
           /\ NextCircuit(eStep, ePos, EvalIndex) = CircuitTaken + 1
           /\ NextBack(gStep, gPos, GarbIndex) = GarbBack + 1
           /\ NextBack(eStep, ePos, EvalIndex) = EvalBack + 1
           /\ Sent \in Nat /\ Taken \in Nat /\ GarbCircuit \in Nat /\ EvalCircuit \in Nat
           /\ GarbBack \in Nat /\ EvalBack \in Nat
           /\ CircuitSent \in Nat /\ CircuitTaken \in Nat
           /\ GarbLink \in Nat /\ EvalLink \in Nat
<1>1. /\ gStep \in 1 .. LastStep + 1 /\ gPos \in Nat /\ gStep \in Nat
      /\ eStep \in 1 .. EvalLastStep + 1 /\ ePos \in Nat /\ eStep \in Nat
  BY Scripts
<1>2. PlacesAre(gStep, gPos, GarbIndex) /\ (GarbDone => AllSent(gStep, gPos, GarbIndex))
  BY <1>1, AtStep, PlacesDirect, PlacesGarbPhases DEF GarbIndex, LastStep
<1>3. PlacesAre(eStep, ePos, EvalIndex) /\ (EvalDone => AllSent(eStep, ePos, EvalIndex))
  BY <1>1, AtStep, PlacesDirect, PlacesEvalPhases DEF EvalIndex, EvalLastStep
<1>4. ASSUME NEW index \in Indices, NEW at \in Nat, NEW pos \in Nat
      PROVE  /\ Links(at, pos, index) \in Nat /\ Backs(at, pos, index) \in Nat
             /\ Circuits(at, pos, index) \in Nat
  <2>1. \A s \in StepName : Did(at, pos, index, s) \in Nat
    BY DidType
  <2>2. Ands(Did(at, pos, index, "gates")) \in Nat
    BY <2>1, AndsCount DEF StepName
  <2> QED  BY <2>1, <2>2 DEF Links, Backs, Circuits, StepName
<1>5. /\ GarbLink \in Nat /\ GarbBack \in Nat /\ GarbCircuit \in Nat
      /\ EvalLink \in Nat /\ EvalBack \in Nat /\ EvalCircuit \in Nat
  BY <1>1, <1>4, Scripts DEF GarbLink, GarbBack, GarbCircuit, EvalLink, EvalBack, EvalCircuit
<1> QED  BY <1>2, <1>3, <1>5
         DEF NextLink, NextCircuit, NextBack, Sent, Taken, CircuitSent, CircuitTaken,
             GarbLink, GarbBack, GarbCircuit, EvalLink, EvalBack, EvalCircuit

\* The same after a step of one side.
LEMMA GarbCounts ==
    ASSUME GarbWithin, EvalWithin, mode' = mode, NEW step \in StepName, NEW n \in Nat,
           GarbMoves(step, n), UNCHANGED <<eStep, ePos>>
    PROVE  /\ GarbLink' = IF step \in LinkSteps THEN GarbLink + n ELSE GarbLink
           /\ GarbBack' = IF step \in BackSteps THEN GarbBack + n ELSE GarbBack
           /\ step \notin CircuitSteps \/ n = 0 => GarbCircuit' = GarbCircuit
           /\ step \in {"alice", "outputs"} => GarbCircuit' = GarbCircuit + n
           /\ step = "gates" /\ n = 1 =>
                GarbCircuit' = IF IsAnd(GarbDid("gates") + 1) THEN GarbCircuit + 2
                                                              ELSE GarbCircuit
           /\ EvalLink' = EvalLink /\ EvalBack' = EvalBack /\ EvalCircuit' = EvalCircuit
           /\ \A s \in StepName : EvalDid(s)' = EvalDid(s) /\ (EvalPast(s)' <=> EvalPast(s))
           /\ EvalWithin'
<1>1. Moves(gStep, gPos, gStep', gPos', GarbIndex, step, n)
  BY ModeKept DEF Moves, GarbMoves, GarbDid
<1>2. /\ GarbIndex \in Indices /\ gStep \in Nat /\ gPos \in Nat
      /\ GarbIndex' = GarbIndex /\ EvalIndex' = EvalIndex /\ EvalLastStep' = EvalLastStep
      /\ \A s \in StepName : Times(s)' = Times(s)
  BY Scripts, ModeKept
<1>3. /\ GarbLink' = IF step \in LinkSteps THEN GarbLink + n ELSE GarbLink
      /\ GarbBack' = IF step \in BackSteps THEN GarbBack + n ELSE GarbBack
      /\ step \notin CircuitSteps => GarbCircuit' = GarbCircuit
      /\ step \in {"alice", "outputs"} => GarbCircuit' = GarbCircuit + n
  <2>1. PICK at, pos : at = gStep' /\ pos = gPos'
    OBVIOUS
  <2>2. Moves(gStep, gPos, at, pos, GarbIndex, step, n)
    BY <1>1, <2>1
  <2>3. /\ Links(at, pos, GarbIndex)
             = IF step \in LinkSteps THEN Links(gStep, gPos, GarbIndex) + n
                                     ELSE Links(gStep, gPos, GarbIndex)
        /\ Backs(at, pos, GarbIndex)
             = IF step \in BackSteps THEN Backs(gStep, gPos, GarbIndex) + n
                                     ELSE Backs(gStep, gPos, GarbIndex)
        /\ step \notin CircuitSteps =>
             Circuits(at, pos, GarbIndex) = Circuits(gStep, gPos, GarbIndex)
        /\ step \in {"alice", "outputs"} =>
             Circuits(at, pos, GarbIndex) = Circuits(gStep, gPos, GarbIndex) + n
    BY ONLY <1>2, <2>2, MovesCounts, step \in StepName, n \in Nat
  <2>4. /\ GarbLink' = Links(at, pos, GarbIndex) /\ GarbBack' = Backs(at, pos, GarbIndex)
        /\ GarbCircuit' = Circuits(at, pos, GarbIndex)
    BY <1>2, <2>1 DEF GarbLink, GarbBack, GarbCircuit, Links, Backs, Circuits, Did, StepName
  <2> QED  BY <2>3, <2>4 DEF GarbLink, GarbBack, GarbCircuit
<1>4. GarbDid("gates") \in Nat /\ GarbDid("alice") \in Nat /\ GarbDid("outputs") \in Nat
  BY <1>2, DidType DEF StepName, GarbDid
<1>5. n = 0 => GarbCircuit' = GarbCircuit
  <2>1. \A s \in StepName : GarbDid(s) \in Nat
    BY <1>2, DidType DEF GarbDid
  <2>2. n = 0 => \A s \in StepName : GarbDid(s)' = GarbDid(s)
    BY <2>1 DEF GarbMoves
  <2> QED  BY <1>2, <2>2 DEF GarbCircuit, Circuits, GarbDid, StepName
<1>6. step = "gates" /\ n = 1 =>
        GarbCircuit' = IF IsAnd(GarbDid("gates") + 1) THEN GarbCircuit + 2 ELSE GarbCircuit
  <2>1. GarbCircuit = GarbDid("alice") + 2 * Ands(GarbDid("gates")) + GarbDid("outputs")
    BY DEF GarbCircuit, Circuits, GarbDid
  <2>2. GarbCircuit' = GarbDid("alice")' + 2 * Ands(GarbDid("gates")') + GarbDid("outputs")'
    BY <1>2 DEF GarbCircuit, Circuits, GarbDid
  <2>3. step = "gates" /\ n = 1 =>
          /\ GarbDid("gates")' = GarbDid("gates") + 1 /\ GarbDid("alice")' = GarbDid("alice")
          /\ GarbDid("outputs")' = GarbDid("outputs")
    BY DEF GarbMoves, StepName
  <2>4. PICK d \in Nat : d = GarbDid("gates")
    BY <1>4
  <2>5. Ands(d) \in Nat /\ Ands(d + 1) = IF IsAnd(d + 1) THEN Ands(d) + 1 ELSE Ands(d)
    BY AndsCount
  <2> QED  BY <1>4, <2>1, <2>2, <2>3, <2>4, <2>5
<1>7. EvalLink' = EvalLink /\ EvalBack' = EvalBack /\ EvalCircuit' = EvalCircuit
  BY <1>2 DEF EvalLink, EvalBack, EvalCircuit, Links, Backs, Circuits, Did, StepName
<1>8. \A s \in StepName : EvalDid(s)' = EvalDid(s) /\ (EvalPast(s)' <=> EvalPast(s))
  BY <1>2 DEF EvalDid, EvalPast, Did
<1>9. EvalWithin'
  BY <1>2, TimesOf DEF EvalWithin, Within
<1> QED  BY <1>3, <1>5, <1>6, <1>7, <1>8, <1>9

LEMMA EvalCounts ==
    ASSUME GarbWithin, EvalWithin, mode' = mode, NEW step \in StepName, NEW n \in Nat,
           EvalMoves(step, n), UNCHANGED <<gStep, gPos>>
    PROVE  /\ EvalLink' = IF step \in LinkSteps THEN EvalLink + n ELSE EvalLink
           /\ EvalBack' = IF step \in BackSteps THEN EvalBack + n ELSE EvalBack
           /\ step \notin CircuitSteps \/ n = 0 => EvalCircuit' = EvalCircuit
           /\ step \in {"alice", "outputs"} => EvalCircuit' = EvalCircuit + n
           /\ step = "gates" /\ n = 1 =>
                EvalCircuit' = IF IsAnd(EvalDid("gates") + 1) THEN EvalCircuit + 2
                                                              ELSE EvalCircuit
           /\ GarbLink' = GarbLink /\ GarbBack' = GarbBack /\ GarbCircuit' = GarbCircuit
           /\ \A s \in StepName : GarbDid(s)' = GarbDid(s) /\ (GarbPast(s)' <=> GarbPast(s))
           /\ GarbWithin'
<1>1. Moves(eStep, ePos, eStep', ePos', EvalIndex, step, n)
  BY ModeKept DEF Moves, EvalMoves, EvalDid
<1>2. /\ EvalIndex \in Indices /\ eStep \in Nat /\ ePos \in Nat
      /\ EvalIndex' = EvalIndex /\ GarbIndex' = GarbIndex /\ LastStep' = LastStep
      /\ \A s \in StepName : Times(s)' = Times(s)
  BY Scripts, ModeKept
<1>3. /\ EvalLink' = IF step \in LinkSteps THEN EvalLink + n ELSE EvalLink
      /\ EvalBack' = IF step \in BackSteps THEN EvalBack + n ELSE EvalBack
      /\ step \notin CircuitSteps => EvalCircuit' = EvalCircuit
      /\ step \in {"alice", "outputs"} => EvalCircuit' = EvalCircuit + n
  <2>1. PICK at, pos : at = eStep' /\ pos = ePos'
    OBVIOUS
  <2>2. Moves(eStep, ePos, at, pos, EvalIndex, step, n)
    BY <1>1, <2>1
  <2>3. /\ Links(at, pos, EvalIndex)
             = IF step \in LinkSteps THEN Links(eStep, ePos, EvalIndex) + n
                                     ELSE Links(eStep, ePos, EvalIndex)
        /\ Backs(at, pos, EvalIndex)
             = IF step \in BackSteps THEN Backs(eStep, ePos, EvalIndex) + n
                                     ELSE Backs(eStep, ePos, EvalIndex)
        /\ step \notin CircuitSteps =>
             Circuits(at, pos, EvalIndex) = Circuits(eStep, ePos, EvalIndex)
        /\ step \in {"alice", "outputs"} =>
             Circuits(at, pos, EvalIndex) = Circuits(eStep, ePos, EvalIndex) + n
    BY ONLY <1>2, <2>2, MovesCounts, step \in StepName, n \in Nat
  <2>4. /\ EvalLink' = Links(at, pos, EvalIndex) /\ EvalBack' = Backs(at, pos, EvalIndex)
        /\ EvalCircuit' = Circuits(at, pos, EvalIndex)
    BY <1>2, <2>1 DEF EvalLink, EvalBack, EvalCircuit, Links, Backs, Circuits, Did, StepName
  <2> QED  BY <2>3, <2>4 DEF EvalLink, EvalBack, EvalCircuit
<1>4. EvalDid("gates") \in Nat /\ EvalDid("alice") \in Nat /\ EvalDid("outputs") \in Nat
  BY <1>2, DidType DEF StepName, EvalDid
<1>5. n = 0 => EvalCircuit' = EvalCircuit
  <2>1. \A s \in StepName : EvalDid(s) \in Nat
    BY <1>2, DidType DEF EvalDid
  <2>2. n = 0 => \A s \in StepName : EvalDid(s)' = EvalDid(s)
    BY <2>1 DEF EvalMoves
  <2> QED  BY <1>2, <2>2 DEF EvalCircuit, Circuits, EvalDid, StepName
<1>6. step = "gates" /\ n = 1 =>
        EvalCircuit' = IF IsAnd(EvalDid("gates") + 1) THEN EvalCircuit + 2 ELSE EvalCircuit
  <2>1. EvalCircuit = EvalDid("alice") + 2 * Ands(EvalDid("gates")) + EvalDid("outputs")
    BY DEF EvalCircuit, Circuits, EvalDid
  <2>2. EvalCircuit' = EvalDid("alice")' + 2 * Ands(EvalDid("gates")') + EvalDid("outputs")'
    BY <1>2 DEF EvalCircuit, Circuits, EvalDid
  <2>3. step = "gates" /\ n = 1 =>
          /\ EvalDid("gates")' = EvalDid("gates") + 1 /\ EvalDid("alice")' = EvalDid("alice")
          /\ EvalDid("outputs")' = EvalDid("outputs")
    BY DEF EvalMoves, StepName
  <2>4. PICK d \in Nat : d = EvalDid("gates")
    BY <1>4
  <2>5. Ands(d) \in Nat /\ Ands(d + 1) = IF IsAnd(d + 1) THEN Ands(d) + 1 ELSE Ands(d)
    BY AndsCount
  <2> QED  BY <1>4, <2>1, <2>2, <2>3, <2>4, <2>5
<1>7. GarbLink' = GarbLink /\ GarbBack' = GarbBack /\ GarbCircuit' = GarbCircuit
  BY <1>2 DEF GarbLink, GarbBack, GarbCircuit, Links, Backs, Circuits, Did, StepName
<1>8. \A s \in StepName : GarbDid(s)' = GarbDid(s) /\ (GarbPast(s)' <=> GarbPast(s))
  BY <1>2 DEF GarbDid, GarbPast, Did
<1>9. GarbWithin'
  BY <1>2, TimesOf DEF GarbWithin, Within
<1> QED  BY <1>3, <1>5, <1>6, <1>7, <1>8, <1>9

-----------------------------------------------------------------------------
(* What comes before what, and the labels made so far *)

LEMMA GarbOrder ==
    ASSUME GarbWithin
    PROVE  /\ GarbPast("offset") => GarbPast("u")
           /\ GarbPast("check") => GarbPast("offset")
           /\ GarbPast("bob") => GarbPast("check") /\ GarbPast("alice")
           /\ GarbPast("gates") => GarbPast("bob")
           /\ GarbPast("gcs") => phased /\ GarbPast("outputs") /\ GarbPast("gates")
           /\ GarbPast("choices") => GarbPast("gcs")
<1>1. gStep \in 1 .. 19
  <2>1. gStep \in 1 .. LastStep + 1 /\ gPos \in Nat
    BY ONLY GarbWithin, Scripts
  <2>2. LastStep \in 16 .. 18
    BY Scripts
  <2> QED  BY ONLY <2>1, <2>2
<1> QED  BY <1>1 DEF GarbPast, GarbIndex, Direct, GarbPhases, Never

LEMMA EvalOrder ==
    ASSUME EvalWithin
    PROVE  /\ EvalPast("offset") => EvalPast("u")
           /\ EvalPast("gcs") => phased /\ EvalPast("offset")
           /\ EvalPast("choices") => phased /\ EvalPast("gcs") /\ EvalPast("alice")
           /\ EvalPast("labels") => EvalPast("choices")
           /\ EvalPast("bob") => ~phased /\ EvalPast("offset") /\ EvalPast("alice")
<1>1. eStep \in 1 .. 19
  <2>1. eStep \in 1 .. EvalLastStep + 1 /\ ePos \in Nat
    BY ONLY EvalWithin, Scripts
  <2>2. EvalLastStep \in 16 .. 18
    BY Scripts
  <2> QED  BY ONLY <2>1, <2>2
<1> QED  BY <1>1 DEF EvalPast, EvalIndex, Direct, EvalPhases, Never

\* At a step of repeats, the labels made before it.
LEMMA GarbMade ==
    ASSUME GarbPlace
    PROVE  /\ gStep = GarbIndex["alice"] => Len(label0) = gPos
           /\ gStep = GarbIndex["bob"] => Len(label0) = mInputA_size
           /\ gStep = GarbIndex["gates"] => Len(label0) = NumInputs + gPos
           /\ GarbPast("gates") => Len(label0) = NumWires
           /\ GarbPast("bob") => Len(label0) >= NumInputs
           /\ Len(label0) > mInputA_size => GarbPast("bob")
           /\ Len(label0) \in 0 .. NumWires
<1>1. gStep \in 1 .. 19 /\ gPos \in Nat
  <2>1. GarbWithin
    BY DEF GarbPlace
  <2>2. gStep \in 1 .. LastStep + 1 /\ gPos \in Nat
    BY ONLY <2>1, Scripts
  <2>3. LastStep \in 16 .. 18
    BY Scripts
  <2> QED  BY ONLY <2>2, <2>3
<1>2. /\ mInputA_size \in Nat /\ mInputB_size \in Nat /\ NumGates \in Nat
      /\ NumInputs = mInputA_size + mInputB_size /\ NumWires = NumInputs + NumGates
  BY Counts
<1>3. /\ GarbDid("alice") = IF gStep > GarbIndex["alice"] THEN mInputA_size
                            ELSE IF gStep = GarbIndex["alice"] THEN gPos ELSE 0
      /\ GarbDid("bob") = IF gStep > GarbIndex["bob"] THEN mInputB_size
                          ELSE IF gStep = GarbIndex["bob"] THEN gPos ELSE 0
      /\ GarbDid("gates") = IF gStep > GarbIndex["gates"] THEN NumGates
                            ELSE IF gStep = GarbIndex["gates"] THEN gPos ELSE 0
  BY TimesOf DEF GarbDid, Did
<1>4. /\ gStep = GarbIndex["alice"] => gPos <= mInputA_size
      /\ gStep = GarbIndex["bob"] => gPos = 0
      /\ gStep = GarbIndex["gates"] => gPos <= NumGates
  <2>1. {"alice", "bob", "gates"} \subseteq StepName /\ "bob" \notin DOMAIN Count
    BY Counts DEF StepName
  <2> QED  BY <2>1, Scripts, AtPlace, TimesOf DEF GarbPlace, GarbWithin
<1>5. \/ GarbIndex["alice"] = 7 /\ GarbIndex["bob"] = 14 /\ GarbIndex["gates"] = 15
      \/ GarbIndex["alice"] = 12 /\ GarbIndex["bob"] = 13 /\ GarbIndex["gates"] = 14
  BY DEF GarbIndex, Direct, GarbPhases
<1>6. Len(label0) = GarbDid("alice") + GarbDid("bob") + GarbDid("gates")
  BY DEF GarbPlace
<1>7. PICK a, b, g : a = GarbDid("alice") /\ b = GarbDid("bob") /\ g = GarbDid("gates")
  OBVIOUS
<1>8. Len(label0) = a + b + g
  BY <1>6, <1>7
<1>9. a \in 0 .. mInputA_size /\ b \in 0 .. mInputB_size /\ g \in 0 .. NumGates
  BY ONLY <1>1, <1>2, <1>3, <1>4, <1>7
<1>10. Len(label0) \in 0 .. NumWires
  BY ONLY <1>2, <1>8, <1>9
<1>11. /\ gStep = GarbIndex["alice"] => a = gPos /\ b = 0 /\ g = 0
       /\ gStep = GarbIndex["bob"] => a = mInputA_size /\ b = 0 /\ g = 0
       /\ gStep = GarbIndex["gates"] => a = mInputA_size /\ b = mInputB_size /\ g = gPos
       /\ GarbPast("gates") => a = mInputA_size /\ b = mInputB_size /\ g = NumGates
       /\ GarbPast("bob") => a = mInputA_size /\ b = mInputB_size
       /\ ~GarbPast("bob") => b = 0 /\ g = 0
  <2>1. CASE GarbIndex["alice"] = 7 /\ GarbIndex["bob"] = 14 /\ GarbIndex["gates"] = 15
    BY ONLY <1>1, <1>3, <1>4, <1>7, <2>1 DEF GarbPast
  <2>2. CASE GarbIndex["alice"] = 12 /\ GarbIndex["bob"] = 13 /\ GarbIndex["gates"] = 14
    BY ONLY <1>1, <1>3, <1>4, <1>7, <2>2 DEF GarbPast
  <2> QED  BY ONLY <1>5, <2>1, <2>2
<1> QED  BY ONLY <1>1, <1>2, <1>8, <1>9, <1>10, <1>11

LEMMA EvalMade ==
    ASSUME EvalPlace
    PROVE  /\ eStep = EvalIndex["alice"] => Len(active) = ePos
           /\ eStep = EvalIndex["bob"] => Len(active) = mInputA_size
           /\ eStep = EvalIndex["labels"] => Len(active) = mInputA_size + ePos
           /\ eStep = EvalIndex["gates"] => Len(active) = NumInputs + ePos
           /\ EvalPast("gates") => Len(active) = NumWires
           /\ EvalPast("bob") => Len(active) >= NumInputs
           /\ eStep = EvalIndex["outputs"] => Len(result) = ePos
           /\ Len(active) > 0 /\ phased => EvalPast("gcs")
           /\ Len(active) > mInputA_size => EvalPast(IF phased THEN "choices" ELSE "bob")
           /\ Len(active) > NumInputs => EvalPast(IF phased THEN "labels" ELSE "bob")
           /\ Len(active) \in 0 .. NumWires
<1>1. eStep \in 1 .. 19 /\ ePos \in Nat
  <2>1. EvalWithin
    BY DEF EvalPlace
  <2>2. eStep \in 1 .. EvalLastStep + 1 /\ ePos \in Nat
    BY ONLY <2>1, Scripts
  <2>3. EvalLastStep \in 16 .. 18
    BY Scripts
  <2> QED  BY ONLY <2>2, <2>3
<1>2. /\ mInputA_size \in Nat /\ mInputB_size \in Nat /\ NumGates \in Nat
      /\ NumInputs = mInputA_size + mInputB_size /\ NumWires = NumInputs + NumGates
  BY Counts
<1>3. /\ EvalDid("alice") = IF eStep > EvalIndex["alice"] THEN mInputA_size
                            ELSE IF eStep = EvalIndex["alice"] THEN ePos ELSE 0
      /\ EvalDid("bob") = IF eStep > EvalIndex["bob"] THEN mInputB_size
                          ELSE IF eStep = EvalIndex["bob"] THEN ePos ELSE 0
      /\ EvalDid("labels") = IF eStep > EvalIndex["labels"] THEN mInputB_size
                             ELSE IF eStep = EvalIndex["labels"] THEN ePos ELSE 0
      /\ EvalDid("gates") = IF eStep > EvalIndex["gates"] THEN NumGates
                            ELSE IF eStep = EvalIndex["gates"] THEN ePos ELSE 0
      /\ eStep = EvalIndex["outputs"] => EvalDid("outputs") = ePos
  BY <1>1, TimesOf DEF EvalDid, Did, EvalIndex, Direct, EvalPhases
<1>4. /\ eStep = EvalIndex["alice"] => ePos <= mInputA_size
      /\ eStep = EvalIndex["bob"] => ePos = 0
      /\ eStep = EvalIndex["labels"] => ePos <= mInputB_size
      /\ eStep = EvalIndex["gates"] => ePos <= NumGates
  <2>1. {"alice", "bob", "labels", "gates"} \subseteq StepName /\ "bob" \notin DOMAIN Count
    BY Counts DEF StepName
  <2> QED  BY <2>1, Scripts, AtPlace, TimesOf DEF EvalPlace, EvalWithin
<1>5. \/ /\ ~phased /\ EvalIndex["alice"] = 7 /\ EvalIndex["bob"] = 14 /\ EvalIndex["gates"] = 15
         /\ EvalIndex["labels"] = 99
      \/ /\ phased /\ EvalIndex["gcs"] = 12 /\ EvalIndex["alice"] = 13 /\ EvalIndex["bob"] = 99
         /\ EvalIndex["choices"] = 14 /\ EvalIndex["labels"] = 15 /\ EvalIndex["gates"] = 16
  BY DEF EvalIndex, Direct, EvalPhases, Never
<1>6. /\ Len(active) = EvalDid("alice") + EvalDid("bob") + EvalDid("labels") + EvalDid("gates")
      /\ Len(result) = EvalDid("outputs")
  BY DEF EvalPlace
<1>7. CASE phased
  <2>1. Len(active) = EvalDid("alice") + EvalDid("labels") + EvalDid("gates")
    <3>1. EvalDid("bob") = 0
      BY ONLY <1>1, <1>3, <1>5, <1>7
    <3>2. EvalDid("alice") \in Nat /\ EvalDid("labels") \in Nat /\ EvalDid("gates") \in Nat
      BY ONLY <1>1, <1>2, <1>3
    <3> QED  BY ONLY <1>6, <3>1, <3>2
  <2>2. /\ eStep = EvalIndex["alice"] => Len(active) = ePos
        /\ eStep = EvalIndex["bob"] => Len(active) = mInputA_size
        /\ eStep = EvalIndex["labels"] => Len(active) = mInputA_size + ePos
        /\ eStep = EvalIndex["gates"] => Len(active) = NumInputs + ePos
        /\ EvalPast("gates") => Len(active) = NumWires
        /\ Len(active) \in 0 .. NumWires
    <3>1. CASE eStep > 16
      <4>1. /\ EvalDid("alice") = mInputA_size /\ EvalDid("labels") = mInputB_size
            /\ EvalDid("gates") = NumGates
        BY ONLY <1>1, <1>3, <1>5, <1>7, <3>1
      <4>2. Len(active) = NumWires
        BY ONLY <1>2, <2>1, <4>1
      <4>3. /\ eStep # EvalIndex["alice"] /\ eStep # EvalIndex["labels"]
            /\ eStep # EvalIndex["gates"] /\ eStep # EvalIndex["bob"]
        BY ONLY <1>1, <1>5, <1>7, <3>1
      <4> QED  BY ONLY <1>2, <4>2, <4>3
    <3>2. CASE eStep = 16
      BY ONLY <1>1, <1>2, <1>3, <1>4, <1>5, <1>7, <2>1, <3>2 DEF EvalPast
    <3>3. CASE eStep = 15
      BY ONLY <1>1, <1>2, <1>3, <1>4, <1>5, <1>7, <2>1, <3>3 DEF EvalPast
    <3>4. CASE eStep < 15
      BY ONLY <1>1, <1>2, <1>3, <1>4, <1>5, <1>7, <2>1, <3>4 DEF EvalPast
    <3> QED  BY ONLY <1>1, <3>1, <3>2, <3>3, <3>4
  <2>3. /\ Len(active) > 0 => EvalPast("gcs")
        /\ Len(active) > mInputA_size => EvalPast("choices")
        /\ Len(active) > NumInputs => EvalPast("labels")
    BY ONLY <1>1, <1>2, <1>3, <1>4, <1>5, <1>7, <2>1 DEF EvalPast
  <2>4. EvalPast("bob") => Len(active) >= NumInputs
    BY ONLY <1>1, <1>2, <1>3, <1>4, <1>5, <1>7, <2>1 DEF EvalPast
  <2> QED  BY ONLY <1>3, <1>6, <1>7, <2>2, <2>3, <2>4
<1>8. CASE ~phased
  <2>1. Len(active) = EvalDid("alice") + EvalDid("bob") + EvalDid("gates")
    <3>1. EvalDid("labels") = 0
      BY ONLY <1>1, <1>3, <1>5, <1>8
    <3>2. EvalDid("alice") \in Nat /\ EvalDid("bob") \in Nat /\ EvalDid("gates") \in Nat
      BY ONLY <1>1, <1>2, <1>3
    <3> QED  BY ONLY <1>6, <3>1, <3>2
  <2>2. /\ eStep = EvalIndex["alice"] => Len(active) = ePos
        /\ eStep = EvalIndex["bob"] => Len(active) = mInputA_size
        /\ eStep = EvalIndex["labels"] => Len(active) = mInputA_size + ePos
        /\ eStep = EvalIndex["gates"] => Len(active) = NumInputs + ePos
        /\ EvalPast("gates") => Len(active) = NumWires
        /\ Len(active) \in 0 .. NumWires
    BY ONLY <1>1, <1>2, <1>3, <1>4, <1>5, <1>8, <2>1 DEF EvalPast
  <2>3. /\ Len(active) > mInputA_size => EvalPast("bob")
        /\ Len(active) > NumInputs => EvalPast("bob")
    BY ONLY <1>1, <1>2, <1>3, <1>4, <1>5, <1>8, <2>1 DEF EvalPast
  <2>4. EvalPast("bob") => Len(active) >= NumInputs
    BY ONLY <1>1, <1>2, <1>3, <1>4, <1>5, <1>8, <2>1 DEF EvalPast
  <2> QED  BY ONLY <1>3, <1>6, <1>8, <2>2, <2>3, <2>4
<1> QED  BY <1>7, <1>8

-----------------------------------------------------------------------------
(* What is right for a place stays right *)

LEMMA GateWires ==
    /\ \A g \in DOMAIN Gates :
          /\ g \in 1 .. NumGates /\ Gates[g].op \in {"NOT", "XOR", "AND"}
          /\ Gates[g].a \in 1 .. NumWires /\ Gates[g].b \in 1 .. NumWires
          /\ Gates[g].a < NumInputs + g /\ Gates[g].b < NumInputs + g
    /\ \A o \in DOMAIN Outputs : Outputs[o] \in 1 .. NumWires
<1>1. \A g \in DOMAIN Gates : Gates[g] \in Gate /\ g \in 1 .. NumGates
  BY SIMDAssumption DEF NumGates
<1>2. \A o \in DOMAIN Outputs : Outputs[o] \in Wire
  BY SIMDAssumption
<1>3. \A g \in DOMAIN Gates : Gates[g].a < NumInputs + g /\ Gates[g].b < NumInputs + g
  BY SIMDAssumption
<1> QED  BY <1>1, <1>2, <1>3 DEF Gate, Wire

LEMMA PlacesKept ==
    ASSUME mode' = mode
    PROVE  /\ phased' = phased /\ AliceKind' = AliceKind
           /\ \A w : AliceAt(w)' = AliceAt(w)
           /\ \A g : TableAt(g)' = TableAt(g)
           /\ \A o : OutputAt(o)' = OutputAt(o)
           /\ PointsAt' = PointsAt /\ AnswerAt' = AnswerAt
           /\ SeedAt' = SeedAt /\ OffsetAt' = OffsetAt
BY ModeKept DEF AliceKind, AliceAt, TablesFrom, TableAt, OutputAt, PointsAt, AnswerAt,
                SeedAt, OffsetAt

\* What the garbler leaves alone.
GarbFrame ==
    /\ mode' = mode /\ value' = value /\ R' = R
    /\ UNCHANGED evaluator
    /\ Begins(label0, label0')
    /\ \A s \in StepName : GarbPast(s) => GarbPast(s)'
    /\ GarbPast("u") => curDelta' = curDelta /\ gOTs' = gOTs
    /\ GarbPast("gcs") => bufG' = bufG
    /\ GarbPast("choices") => corrected' = corrected

LEMMA CircuitKept ==
    ASSUME IInv, GarbFrame, NEW p, NEW m, CircuitRight(p, m)
    PROVE  CircuitRight(p, m)'
<1>1. /\ Len(label0) \in Nat /\ Len(label0)' >= Len(label0)
      /\ \A k \in 1 .. Len(label0) : label0'[k] = label0[k]
      /\ R' = R /\ value' = value
  BY SeqIs DEF IInv, Sequences, GarbFrame, Begins
<1>2. /\ AliceKind' = AliceKind /\ \A w : AliceAt(w)' = AliceAt(w)
      /\ \A g : TableAt(g)' = TableAt(g) /\ \A o : OutputAt(o)' = OutputAt(o)
  BY PlacesKept DEF GarbFrame
<1>3. ASSUME NEW w \in 1 .. mInputA_size, p = AliceAt(w)'
      PROVE  w <= Len(label0)' /\ m = Message(AliceKind, Encoding(w))'
  <2>1. w <= Len(label0) /\ m = Message(AliceKind, Encoding(w)) /\ w \in Nat
    BY <1>2, <1>3, Counts DEF CircuitRight
  <2>2. label0'[w] = label0[w] /\ w <= Len(label0)'
    BY <1>1, <2>1, Counts, mInputA_size \in Nat
  <2>3. Encoding(w)' = Encoding(w)
    BY <1>1, <2>2 DEF Encoding
  <2> QED  BY <1>2, <2>1, <2>2, <2>3 DEF Message
<1>4. ASSUME NEW g \in DOMAIN Gates, NumInputs + g <= Len(label0)
      PROVE  NumInputs + g <= Len(label0)' /\ TG(g)' = TG(g) /\ TE(g)' = TE(g)
  <2>1. /\ Gates[g].a \in 1 .. Len(label0) /\ Gates[g].b \in 1 .. Len(label0)
        /\ NumInputs + g \in Nat
    BY <1>1, <1>4, GateWires, Counts
  <2>2. label0'[Gates[g].a] = label0[Gates[g].a] /\ label0'[Gates[g].b] = label0[Gates[g].b]
    BY <1>1, <2>1
  <2> QED  BY <1>1, <1>4, <2>1, <2>2 DEF TG, TE
<1>5. ASSUME NEW o \in DOMAIN Outputs, NumWires <= Len(label0)
      PROVE  NumWires <= Len(label0)' /\ label0'[Outputs[o]] = label0[Outputs[o]]
  <2>1. Outputs[o] \in 1 .. Len(label0) /\ NumWires \in Nat
    BY <1>1, <1>5, GateWires, Counts
  <2> QED  BY <1>1, <1>5, <2>1
<1>6. \A g \in DOMAIN Gates : IsAnd(g) /\ p = TableAt(g) =>
          NumInputs + g <= Len(label0)' /\ m = Message("TG", TG(g))'
  BY <1>2, <1>4 DEF CircuitRight, Message
<1>7. \A g \in DOMAIN Gates : IsAnd(g) /\ p = TableAt(g) + 1 =>
          NumInputs + g <= Len(label0)' /\ m = Message("TE", TE(g))'
  BY <1>2, <1>4 DEF CircuitRight, Message
<1>8. \A o \in DOMAIN Outputs : p = OutputAt(o) =>
          NumWires <= Len(label0)' /\ m = Message("output", SelectBits(label0'[Outputs[o]]))
  BY <1>2, <1>5 DEF CircuitRight
<1> QED  BY <1>2, <1>3, <1>6, <1>7, <1>8 DEF CircuitRight, IsAnd

LEMMA LinkKept ==
    ASSUME IInv, GarbFrame, NEW p, NEW m, LinkRight(p, m)
    PROVE  LinkRight(p, m)'
<1>1. /\ phased' = phased /\ PointsAt' = PointsAt /\ AnswerAt' = AnswerAt
      /\ SeedAt' = SeedAt /\ OffsetAt' = OffsetAt
  BY PlacesKept DEF GarbFrame
<1>2. /\ GarbPast("u") => GarbPast("u")' /\ curDelta' = curDelta /\ gOTs' = gOTs
      /\ GarbPast("gcs") => GarbPast("gcs")' /\ bufG' = bufG
      /\ GarbPast("choices") => GarbPast("choices")' /\ corrected' = corrected
      /\ R' = R
  BY DEF GarbFrame, StepName
<1>3. ASSUME NEW b \in 1 .. mInputB_size, GarbPast("choices")
      PROVE  Hidden(b)' = Hidden(b)
  <2>1. GarbPast("u") /\ GarbPast("bob")
    BY <1>3, GarbOrder DEF IInv, GarbPlace
  <2>2. Len(label0) >= NumInputs /\ Len(label0) \in Nat
    BY <2>1, GarbMade, SeqIs DEF IInv, Sequences
  <2>3. mInputA_size + b \in 1 .. Len(label0)
    BY <2>2, Counts
  <2>4. label0'[mInputA_size + b] = label0[mInputA_size + b]
    BY <2>3 DEF GarbFrame, Begins
  <2> QED  BY <1>2, <1>3, <2>1, <2>4 DEF Hidden, OTMessage
<1> QED  BY <1>1, <1>2, <1>3 DEF LinkRight

LEMMA AnswerKept ==
    ASSUME GarbFrame, NEW p, NEW m, AnswerRight(p, m)
    PROVE  AnswerRight(p, m)'
<1>1. /\ eOTs' = eOTs /\ randChoices' = randChoices /\ eStep' = eStep /\ value' = value
      /\ mode' = mode
  BY DEF GarbFrame, evaluator
<1>2. \A s : EvalPast(s)' = EvalPast(s)
  BY <1>1, ModeKept DEF EvalPast
<1>3. All' = All
  BY <1>1 DEF All
<1> QED  BY <1>1, <1>2, <1>3 DEF AnswerRight

\* What the evaluator leaves alone.
EvalFrame ==
    /\ mode' = mode /\ value' = value
    /\ UNCHANGED garbler
    /\ Begins(active, active')
    /\ \A s \in StepName : EvalPast(s) => EvalPast(s)'
    /\ EvalPast("u") => randChoices' = randChoices
    /\ EvalPast("u") /\ ~EvalPast("offset")' => eOTs' = eOTs
    /\ EvalPast("offset") => eOTs' = eOTs

LEMMA EvalKeepsAnswer ==
    ASSUME EvalFrame, NEW p, NEW m, AnswerRight(p, m)
    PROVE  AnswerRight(p, m)'
<1>1. All' = All
  BY DEF EvalFrame, All
<1>2. /\ EvalPast("u") => EvalPast("u")' /\ randChoices' = randChoices
      /\ EvalPast("offset") => EvalPast("offset")'
      /\ EvalPast("u") /\ ~EvalPast("offset")' => eOTs' = eOTs
  BY DEF EvalFrame, StepName
<1> QED  BY <1>1, <1>2 DEF AnswerRight

LEMMA EvalKeepsPlaces ==
    ASSUME EvalFrame, NEW p, NEW m
    PROVE  /\ CircuitRight(p, m) => CircuitRight(p, m)'
           /\ LinkRight(p, m) => LinkRight(p, m)'
<1>1. /\ label0' = label0 /\ R' = R /\ value' = value /\ curDelta' = curDelta
      /\ gOTs' = gOTs /\ bufG' = bufG /\ corrected' = corrected /\ gStep' = gStep
      /\ mode' = mode
  BY DEF EvalFrame, garbler
<1>2. /\ AliceKind' = AliceKind /\ \A w : AliceAt(w)' = AliceAt(w)
      /\ \A g : TableAt(g)' = TableAt(g) /\ \A o : OutputAt(o)' = OutputAt(o)
      /\ phased' = phased /\ PointsAt' = PointsAt /\ AnswerAt' = AnswerAt
      /\ SeedAt' = SeedAt /\ OffsetAt' = OffsetAt
  BY <1>1, PlacesKept
<1>3. \A s : GarbPast(s)' = GarbPast(s)
  BY <1>1, ModeKept DEF GarbPast
<1>4. /\ \A w : Encoding(w)' = Encoding(w)
      /\ \A g : TG(g)' = TG(g) /\ TE(g)' = TE(g)
      /\ \A b : Hidden(b)' = Hidden(b)
  BY <1>1 DEF Encoding, TG, TE, Hidden, OTMessage
<1>5. CircuitRight(p, m) => CircuitRight(p, m)'
  BY <1>1, <1>2, <1>4 DEF CircuitRight, IsAnd, Message
<1>6. LinkRight(p, m) => LinkRight(p, m)'
  BY <1>1, <1>2, <1>3, <1>4 DEF LinkRight
<1> QED  BY <1>5, <1>6

-----------------------------------------------------------------------------
(* Messages on their way *)

RightStays ==
    /\ phased' = phased
    /\ \A p, m : /\ CircuitRight(p, m) => CircuitRight(p, m)'
                 /\ LinkRight(p, m) => LinkRight(p, m)'
                 /\ ConnectionRight(p, m) => ConnectionRight(p, m)'
                 /\ AnswerRight(p, m) => AnswerRight(p, m)'

LEMMA FramesKeep == IInv /\ (GarbFrame \/ EvalFrame) => RightStays
<1>1. GarbFrame \/ EvalFrame => phased' = phased
  BY ModeKept DEF GarbFrame, EvalFrame
<1>2. ASSUME IInv, GarbFrame, NEW p, NEW m
      PROVE  /\ CircuitRight(p, m) => CircuitRight(p, m)'
             /\ LinkRight(p, m) => LinkRight(p, m)'
             /\ AnswerRight(p, m) => AnswerRight(p, m)'
  BY <1>2, CircuitKept, LinkKept, AnswerKept
<1>3. ASSUME EvalFrame, NEW p, NEW m
      PROVE  /\ CircuitRight(p, m) => CircuitRight(p, m)'
             /\ LinkRight(p, m) => LinkRight(p, m)'
             /\ AnswerRight(p, m) => AnswerRight(p, m)'
  BY <1>3, EvalKeepsPlaces, EvalKeepsAnswer
<1> QED  BY <1>1, <1>2, <1>3 DEF RightStays, ConnectionRight

\* The connection towards the evaluator: nothing, more at the end, less at the front.
LEMMA ToEvalKept ==
    ASSUME ToEval, RightStays, toEval' = toEval, Sent' = Sent, Taken' = Taken
    PROVE  ToEval'
<1>1. PICK q, t : q = toEval /\ t = Taken
  OBVIOUS
<1>2. \A k \in 1 .. Len(q) : ConnectionRight(t + k, q[k])
  BY <1>1 DEF ToEval, ConnectionFrom
<1>3. \A k \in 1 .. Len(q) : ConnectionRight(t + k, q[k])'
  BY <1>2 DEF RightStays
<1> QED  BY <1>1, <1>3 DEF ToEval, ConnectionFrom

LEMMA ToEvalGrows ==
    ASSUME ToEval, IsSeq(toEval), Taken \in Nat, RightStays, NEW q, JoinedTo(toEval, q, toEval'),
           IsSeq(q), NEW n \in Nat, n = Sent, Sent' = n + Len(q), Taken' = Taken,
           \A k \in 1 .. Len(q) : ConnectionRight(n + k, q[k])'
    PROVE  ToEval' /\ IsSeq(toEval)'
<1>1. PICK r, s, t : r = toEval /\ s = toEval' /\ t = Taken
  OBVIOUS
<1>2. /\ Len(r) \in Nat /\ Len(q) \in Nat /\ t \in Nat /\ Len(r) = n - t
      /\ Len(s) = Len(r) + Len(q) /\ \A k \in 1 .. Len(r) : s[k] = r[k]
      /\ \A k \in 1 .. Len(q) : s[Len(r) + k] = q[k]
      /\ IsSeq(s)
  BY <1>1, SeqIs DEF ToEval, JoinedTo, Begins
<1>3. \A k \in 1 .. Len(r) : ConnectionRight(t + k, r[k])
  BY <1>1 DEF ToEval, ConnectionFrom
<1>4. ASSUME NEW k \in 1 .. Len(s)
      PROVE  ConnectionRight(t + k, s[k])'
  <2>1. CASE k <= Len(r)
    <3>1. k \in 1 .. Len(r) /\ s[k] = r[k]
      BY <1>2, <2>1
    <3> QED  BY <1>3, <3>1 DEF RightStays
  <2>2. CASE k > Len(r)
    <3>1. PICK j \in 1 .. Len(q) : k = Len(r) + j
      BY <1>2, <2>2
    <3>2. s[k] = q[j] /\ t + k = n + j
      BY <1>2, <3>1
    <3> QED  BY <3>2
  <2> QED  BY <1>2, <2>1, <2>2
<1>5. Len(s) = Sent' - Taken'
  BY <1>1, <1>2
<1> QED  BY <1>1, <1>2, <1>4, <1>5 DEF ToEval, ConnectionFrom

LEMMA ToEvalShrinks ==
    ASSUME ToEval, Sent \in Nat, Taken \in Nat, RightStays, NEW n \in Nat,
           LeftOf(toEval, n, toEval'), Sent' = Sent, Taken' = Taken + n
    PROVE  ToEval' /\ IsSeq(toEval)'
<1>1. PICK r, s, t : r = toEval /\ s = toEval' /\ t = Taken
  OBVIOUS
<1>2. /\ IsSeq(s) /\ Len(s) = Len(r) - n /\ \A k \in 1 .. Len(s) : s[k] = r[n + k]
      /\ Len(s) \in Nat /\ t \in Nat /\ Len(r) = Sent - t
  BY <1>1, SeqIs DEF ToEval, LeftOf
<1>3. \A k \in 1 .. Len(r) : ConnectionRight(t + k, r[k])
  BY <1>1 DEF ToEval, ConnectionFrom
<1>4. ASSUME NEW k \in 1 .. Len(s)
      PROVE  ConnectionRight((t + n) + k, s[k])'
  <2>1. n + k \in 1 .. Len(r) /\ s[k] = r[n + k] /\ t + (n + k) = (t + n) + k
    BY <1>2
  <2> QED  BY <1>3, <2>1 DEF RightStays
<1>5. Len(s) = Sent' - Taken'
  BY <1>1, <1>2
<1>6. PICK u : u = t + n
  OBVIOUS
<1>7. Taken' = u
  BY <1>1, <1>6
<1>8. \A k \in 1 .. Len(s) : ConnectionRight(u + k, s[k])'
  BY <1>4, <1>6
<1> QED  BY <1>1, <1>2, <1>5, <1>7, <1>8 DEF ToEval, ConnectionFrom

\* The answers.
LEMMA ToGarbKept ==
    ASSUME ToGarb, RightStays, toGarb' = toGarb, EvalBack' = EvalBack, GarbBack' = GarbBack
    PROVE  ToGarb'
<1>1. PICK q, t : q = toGarb /\ t = GarbBack
  OBVIOUS
<1>2. \A k \in 1 .. Len(q) : AnswerRight(t + k, q[k])
  BY <1>1 DEF ToGarb, AnswersFrom
<1>3. \A k \in 1 .. Len(q) : AnswerRight(t + k, q[k])'
  BY <1>2 DEF RightStays
<1> QED  BY <1>1, <1>3 DEF ToGarb, AnswersFrom

LEMMA ToGarbGrows ==
    ASSUME ToGarb, IsSeq(toGarb), GarbBack \in Nat, RightStays, NEW m, toGarb' = Append(toGarb, m),
           NEW n \in Nat, n = EvalBack, EvalBack' = n + 1, GarbBack' = GarbBack,
           AnswerRight(n + 1, m)'
    PROVE  ToGarb' /\ IsSeq(toGarb)'
<1>1. PICK r, s, t : r = toGarb /\ s = toGarb' /\ t = GarbBack
  OBVIOUS
<1>2. /\ Len(r) \in Nat /\ t \in Nat /\ Len(r) = n - t /\ IsSeq(r)
      /\ s = Append(r, m)
  BY <1>1, SeqIs DEF ToGarb
<1>3. /\ IsSeq(s) /\ Len(s) = Len(r) + 1 /\ \A k \in 1 .. Len(r) : s[k] = r[k]
      /\ s[Len(r) + 1] = m
  BY <1>2, Appended DEF Begins
<1>4. \A k \in 1 .. Len(r) : AnswerRight(t + k, r[k])
  BY <1>1 DEF ToGarb, AnswersFrom
<1>5. ASSUME NEW k \in 1 .. Len(s)
      PROVE  AnswerRight(t + k, s[k])'
  <2>1. CASE k <= Len(r)
    <3>1. k \in 1 .. Len(r) /\ s[k] = r[k]
      BY <1>2, <1>3, <2>1
    <3> QED  BY <1>4, <3>1 DEF RightStays
  <2>2. CASE k = Len(r) + 1
    <3>1. s[k] = m /\ t + k = n + 1
      BY <1>2, <1>3, <2>2
    <3> QED  BY <3>1
  <2> QED  BY <1>2, <1>3, <2>1, <2>2
<1>6. Len(s) = EvalBack' - GarbBack'
  BY <1>1, <1>2, <1>3
<1> QED  BY <1>1, <1>3, <1>5, <1>6 DEF ToGarb, AnswersFrom

LEMMA ToGarbShrinks ==
    ASSUME ToGarb, EvalBack \in Nat, GarbBack \in Nat, RightStays, LeftOf(toGarb, 1, toGarb'),
           EvalBack' = EvalBack, GarbBack' = GarbBack + 1
    PROVE  ToGarb' /\ IsSeq(toGarb)'
<1>1. PICK r, s, t : r = toGarb /\ s = toGarb' /\ t = GarbBack
  OBVIOUS
<1>2. /\ IsSeq(s) /\ Len(s) = Len(r) - 1 /\ \A k \in 1 .. Len(s) : s[k] = r[1 + k]
      /\ Len(s) \in Nat /\ t \in Nat /\ Len(r) = EvalBack - t
  BY <1>1, SeqIs DEF ToGarb, LeftOf
<1>3. \A k \in 1 .. Len(r) : AnswerRight(t + k, r[k])
  BY <1>1 DEF ToGarb, AnswersFrom
<1>4. PICK u \in Nat : u = t + 1
  BY <1>2
<1>5. ASSUME NEW k \in 1 .. Len(s)
      PROVE  AnswerRight(u + k, s[k])'
  <2>1. 1 + k \in 1 .. Len(r) /\ s[k] = r[1 + k] /\ t + (1 + k) = u + k
    BY <1>2, <1>4
  <2> QED  BY <1>3, <2>1 DEF RightStays
<1>6. Len(s) = EvalBack' - GarbBack' /\ GarbBack' = u
  BY <1>1, <1>2, <1>4
<1> QED  BY <1>1, <1>2, <1>5, <1>6 DEF ToGarb, AnswersFrom

\* The buffers of the phases.
LEMMA BuffersKept ==
    ASSUME Buffers, RightStays, bufG' = bufG, bufE' = bufE, GarbCircuit' = GarbCircuit,
           EvalCircuit' = EvalCircuit, EvalPast("gcs")' <=> EvalPast("gcs")
    PROVE  Buffers'
<1>1. PICK q, r, t : q = bufG /\ r = bufE /\ t = EvalCircuit
  OBVIOUS
<1>2. /\ phased => \A k \in 1 .. Len(q) : CircuitRight(0 + k, q[k])
      /\ phased /\ EvalPast("gcs") => \A k \in 1 .. Len(r) : CircuitRight(t + k, r[k])
  BY <1>1 DEF Buffers, CircuitFrom
<1>3. /\ phased => \A k \in 1 .. Len(q) : CircuitRight(0 + k, q[k])'
      /\ phased /\ EvalPast("gcs") => \A k \in 1 .. Len(r) : CircuitRight(t + k, r[k])'
  BY <1>2 DEF RightStays
<1> QED  BY <1>1, <1>3 DEF Buffers, CircuitFrom, RightStays

LEMMA BufGGrows ==
    ASSUME Buffers, IsSeq(bufG), RightStays, phased, NEW q, IsSeq(q), JoinedTo(bufG, q, bufG'),
           bufE' = bufE, ~EvalPast("gcs"), EvalPast("gcs")' <=> EvalPast("gcs"),
           NEW n \in Nat, n = GarbCircuit, GarbCircuit' = n + Len(q),
           \A k \in 1 .. Len(q) : CircuitRight(n + k, q[k])'
    PROVE  Buffers' /\ IsSeq(bufG)'
<1>1. PICK r, s : r = bufG /\ s = bufG'
  OBVIOUS
<1>2. /\ Len(r) \in Nat /\ Len(q) \in Nat /\ Len(r) = n
      /\ Len(s) = Len(r) + Len(q) /\ \A k \in 1 .. Len(r) : s[k] = r[k]
      /\ \A k \in 1 .. Len(q) : s[Len(r) + k] = q[k]
      /\ IsSeq(s)
  BY <1>1, SeqIs DEF Buffers, JoinedTo, Begins
<1>3. \A k \in 1 .. Len(r) : CircuitRight(0 + k, r[k])
  BY <1>1 DEF Buffers, CircuitFrom
<1>4. ASSUME NEW k \in 1 .. Len(s)
      PROVE  CircuitRight(0 + k, s[k])'
  <2>1. CASE k <= Len(r)
    <3>1. k \in 1 .. Len(r) /\ s[k] = r[k]
      BY <1>2, <2>1
    <3> QED  BY <1>3, <3>1 DEF RightStays
  <2>2. CASE k > Len(r)
    <3>1. PICK j \in 1 .. Len(q) : k = Len(r) + j
      BY <1>2, <2>2
    <3>2. s[k] = q[j] /\ 0 + k = n + j
      BY <1>2, <3>1
    <3> QED  BY <3>2
  <2> QED  BY <1>2, <2>1, <2>2
<1>5. phased' /\ ~EvalPast("gcs")' /\ bufE' = <<>> /\ Len(s) = GarbCircuit'
  BY <1>1, <1>2 DEF Buffers, RightStays
<1> QED  BY <1>1, <1>2, <1>4, <1>5 DEF Buffers, CircuitFrom

LEMMA BufEShrinks ==
    ASSUME Buffers, RightStays, phased, NEW n \in Nat, LeftOf(bufE, n, bufE'), bufG' = bufG,
           EvalPast("gcs"), EvalPast("gcs")', GarbCircuit \in Nat, EvalCircuit \in Nat,
           GarbCircuit' = GarbCircuit, EvalCircuit' = EvalCircuit + n
    PROVE  Buffers' /\ IsSeq(bufE)'
<1>1. PICK q, r, s, t : q = bufG /\ r = bufE /\ s = bufE' /\ t = EvalCircuit
  OBVIOUS
<1>2. /\ IsSeq(s) /\ Len(s) = Len(r) - n /\ \A k \in 1 .. Len(s) : s[k] = r[n + k]
      /\ Len(s) \in Nat /\ t \in Nat /\ Len(r) = GarbCircuit - t
  BY <1>1, SeqIs DEF Buffers, LeftOf
<1>3. /\ \A k \in 1 .. Len(q) : CircuitRight(0 + k, q[k])
      /\ \A k \in 1 .. Len(r) : CircuitRight(t + k, r[k])
  BY <1>1 DEF Buffers, CircuitFrom
<1>4. PICK u \in Nat : u = t + n
  BY <1>2
<1>5. ASSUME NEW k \in 1 .. Len(s)
      PROVE  CircuitRight(u + k, s[k])'
  <2>1. n + k \in 1 .. Len(r) /\ s[k] = r[n + k] /\ t + (n + k) = u + k
    BY <1>2, <1>4
  <2> QED  BY <1>3, <2>1 DEF RightStays
<1>6. \A k \in 1 .. Len(q) : CircuitRight(0 + k, q[k])'
  BY <1>3 DEF RightStays
<1>7. Len(s) = GarbCircuit' - EvalCircuit' /\ EvalCircuit' = u /\ Len(bufG') = GarbCircuit'
  BY <1>1, <1>2, <1>4 DEF Buffers
<1> QED  BY <1>1, <1>2, <1>5, <1>6, <1>7 DEF Buffers, CircuitFrom, RightStays

-----------------------------------------------------------------------------
(* The messages a step writes *)

LEMMA PlacesApart ==
    /\ TablesFrom \in Nat /\ mInputA_size <= TablesFrom
    /\ \A w \in 1 .. mInputA_size : AliceAt(w) \in Nat /\ AliceAt(w) <= TablesFrom
    /\ \A v, w \in 1 .. mInputA_size : AliceAt(v) = AliceAt(w) => v = w
    /\ \A g \in DOMAIN Gates : IsAnd(g) =>
          TableAt(g) \in Nat /\ TableAt(g) > TablesFrom
            /\ TableAt(g) + 1 <= TablesFrom + 2 * NumAnds
    /\ \A g, h \in DOMAIN Gates : IsAnd(g) /\ IsAnd(h) =>
          TableAt(g) # TableAt(h) + 1 /\ (TableAt(g) = TableAt(h) => g = h)
    /\ \A o \in DOMAIN Outputs : OutputAt(o) \in Nat /\ OutputAt(o) > TablesFrom + 2 * NumAnds
    /\ \A n, o \in DOMAIN Outputs : OutputAt(n) = OutputAt(o) => n = o
<1>1. /\ mInputA_size \in Nat /\ TablesFrom \in Nat /\ NumAnds \in Nat
      /\ TablesFrom = IF phased THEN mInputA_size ELSE 5 + mInputA_size
      /\ DOMAIN Gates = 1 .. NumGates /\ DOMAIN Outputs = 1 .. NumOutputs
      /\ NumGates \in Nat /\ NumOutputs \in Nat
  BY Counts, AndsBound DEF TablesFrom
<1>2. /\ \A w \in 1 .. mInputA_size : AliceAt(w) \in Nat /\ AliceAt(w) <= TablesFrom
      /\ \A v, w \in 1 .. mInputA_size : AliceAt(v) = AliceAt(w) => v = w
  BY ONLY <1>1 DEF AliceAt
<1>3. ASSUME NEW g \in DOMAIN Gates, IsAnd(g)
      PROVE  /\ Ands(g - 1) \in Nat /\ Ands(g - 1) + 1 <= NumAnds
             /\ TableAt(g) = TablesFrom + 2 * Ands(g - 1) + 1
             /\ TableAt(g) \in Nat /\ TableAt(g) > TablesFrom
             /\ TableAt(g) + 1 <= TablesFrom + 2 * NumAnds
  <2>1. Ands(g - 1) \in Nat /\ Ands(g - 1) + 1 <= NumAnds
    BY <1>1, <1>3, AndsBound
  <2>2. TableAt(g) = TablesFrom + 2 * Ands(g - 1) + 1
    BY DEF TableAt
  <2>3. PICK a : a = Ands(g - 1)
    OBVIOUS
  <2> QED  BY <1>1, <2>1, <2>2, <2>3
<1>4. ASSUME NEW g \in DOMAIN Gates, NEW h \in DOMAIN Gates, IsAnd(g), IsAnd(h)
      PROVE  TableAt(g) # TableAt(h) + 1 /\ (TableAt(g) = TableAt(h) => g = h)
  <2>1. /\ Ands(g - 1) \in Nat /\ TableAt(g) = TablesFrom + 2 * Ands(g - 1) + 1
        /\ Ands(h - 1) \in Nat /\ TableAt(h) = TablesFrom + 2 * Ands(h - 1) + 1
    BY <1>3, <1>4
  <2>2. g # h => Ands(g - 1) # Ands(h - 1)
    BY <1>1, <1>4, AndsBound
  <2>3. PICK a, b : a = Ands(g - 1) /\ b = Ands(h - 1)
    OBVIOUS
  <2> QED  BY <1>1, <2>1, <2>2, <2>3
<1>5. /\ \A o \in DOMAIN Outputs : OutputAt(o) \in Nat /\ OutputAt(o) > TablesFrom + 2 * NumAnds
      /\ \A n, o \in DOMAIN Outputs : OutputAt(n) = OutputAt(o) => n = o
  BY ONLY <1>1 DEF OutputAt
<1>6. \A g \in DOMAIN Gates : IsAnd(g) =>
          TableAt(g) \in Nat /\ TableAt(g) > TablesFrom
            /\ TableAt(g) + 1 <= TablesFrom + 2 * NumAnds
  BY <1>3
<1>7. \A g, h \in DOMAIN Gates : IsAnd(g) /\ IsAnd(h) =>
          TableAt(g) # TableAt(h) + 1 /\ (TableAt(g) = TableAt(h) => g = h)
  BY <1>4
<1>8. mInputA_size <= TablesFrom
  BY <1>1
<1> QED  BY <1>1, <1>2, <1>5, <1>6, <1>7, <1>8

LEMMA AliceRight ==
    ASSUME mode' = mode, NEW w \in 1 .. mInputA_size, NEW p, NEW m, p = AliceAt(w),
           w <= Len(label0)', m = Message(AliceKind, Encoding(w))'
    PROVE  CircuitRight(p, m)'
<1>1. /\ AliceKind' = AliceKind /\ \A v : AliceAt(v)' = AliceAt(v)
      /\ \A g : TableAt(g)' = TableAt(g) /\ \A o : OutputAt(o)' = OutputAt(o)
  BY PlacesKept
<1>2. \A v \in 1 .. mInputA_size : p = AliceAt(v) => v = w
  BY PlacesApart
<1>3. /\ \A g \in DOMAIN Gates : IsAnd(g) => p # TableAt(g) /\ p # TableAt(g) + 1
      /\ \A o \in DOMAIN Outputs : p # OutputAt(o)
  BY PlacesApart, AndsBound
<1> QED  BY <1>1, <1>2, <1>3 DEF CircuitRight, IsAnd

LEMMA TableRight ==
    ASSUME mode' = mode, NEW h \in DOMAIN Gates, IsAnd(h), NEW p, NEW m,
           NumInputs + h <= Len(label0)',
           \/ p = TableAt(h) /\ m = Message("TG", TG(h))'
           \/ p = TableAt(h) + 1 /\ m = Message("TE", TE(h))'
    PROVE  CircuitRight(p, m)'
<1>1. /\ AliceKind' = AliceKind /\ \A v : AliceAt(v)' = AliceAt(v)
      /\ \A g : TableAt(g)' = TableAt(g) /\ \A o : OutputAt(o)' = OutputAt(o)
  BY PlacesKept
<1>2. /\ TableAt(h) \in Nat /\ TableAt(h) > TablesFrom
      /\ TableAt(h) + 1 <= TablesFrom + 2 * NumAnds
      /\ TablesFrom \in Nat /\ NumAnds \in Nat
  BY PlacesApart, AndsBound
<1>3. /\ \A w \in 1 .. mInputA_size : p # AliceAt(w)
      /\ \A o \in DOMAIN Outputs : p # OutputAt(o)
  BY <1>2, PlacesApart
<1>4. CASE p = TableAt(h) /\ m = Message("TG", TG(h))'
  <2>1. \A g \in DOMAIN Gates : IsAnd(g) =>
           p # TableAt(g) + 1 /\ (p = TableAt(g) => g = h)
    BY <1>4, PlacesApart
  <2> QED  BY <1>1, <1>3, <1>4, <2>1 DEF CircuitRight, IsAnd
<1>5. CASE p = TableAt(h) + 1 /\ m = Message("TE", TE(h))'
  <2>1. \A g \in DOMAIN Gates : IsAnd(g) =>
           p # TableAt(g) /\ (p = TableAt(g) + 1 => g = h)
    BY <1>2, <1>5, PlacesApart
  <2> QED  BY <1>1, <1>3, <1>5, <2>1 DEF CircuitRight, IsAnd
<1> QED  BY <1>4, <1>5

LEMMA OutputRight ==
    ASSUME mode' = mode, NEW n \in DOMAIN Outputs, NEW p, NEW m, p = OutputAt(n),
           NumWires <= Len(label0)', m = Message("output", SelectBits(label0'[Outputs[n]]))
    PROVE  CircuitRight(p, m)'
<1>1. /\ AliceKind' = AliceKind /\ \A v : AliceAt(v)' = AliceAt(v)
      /\ \A g : TableAt(g)' = TableAt(g) /\ \A o : OutputAt(o)' = OutputAt(o)
  BY PlacesKept
<1>2. \A o \in DOMAIN Outputs : p = OutputAt(o) => o = n
  BY PlacesApart
<1>3. /\ \A g \in DOMAIN Gates : IsAnd(g) => p # TableAt(g) /\ p # TableAt(g) + 1
      /\ \A w \in 1 .. mInputA_size : p # AliceAt(w)
  BY PlacesApart, AndsBound
<1> QED  BY <1>1, <1>2, <1>3 DEF CircuitRight, IsAnd

\* Without phases the places of the circuit are not those of other messages.
LEMMA CircuitOnConnection ==
    ASSUME mode' = mode, NEW p, NEW m, CircuitRight(p, m)',
           \/ \E w \in 1 .. mInputA_size : p = AliceAt(w)
           \/ p \in Nat /\ p > TablesFrom
    PROVE  ~phased => ConnectionRight(p, m)'
<1>1. /\ phased' = phased /\ PointsAt' = PointsAt /\ AnswerAt' = AnswerAt
      /\ SeedAt' = SeedAt /\ OffsetAt' = OffsetAt
  BY PlacesKept
<1>2. ASSUME ~phased
      PROVE  p # 1 /\ p # PointsAt /\ p # AnswerAt /\ p # SeedAt /\ p # OffsetAt
  BY <1>2, Counts DEF AliceAt, TablesFrom, PointsAt, AnswerAt, SeedAt, OffsetAt
<1> QED  BY <1>1, <1>2 DEF ConnectionRight, LinkRight

LEMMA LinkOnConnection ==
    ASSUME mode' = mode, NEW p, NEW m, LinkRight(p, m)',
           ~phased => p \in {1, PointsAt, AnswerAt, SeedAt, OffsetAt}
    PROVE  ConnectionRight(p, m)'
<1>1. /\ phased' = phased /\ \A v : AliceAt(v)' = AliceAt(v)
      /\ \A g : TableAt(g)' = TableAt(g) /\ \A o : OutputAt(o)' = OutputAt(o)
  BY PlacesKept
<1>2. ASSUME ~phased
      PROVE  /\ \A w \in 1 .. mInputA_size : p # AliceAt(w)
             /\ p <= TablesFrom
  BY <1>2, Counts DEF AliceAt, TablesFrom, PointsAt, AnswerAt, SeedAt, OffsetAt
<1>3. ASSUME ~phased
      PROVE  /\ \A g \in DOMAIN Gates : IsAnd(g) => p # TableAt(g) /\ p # TableAt(g) + 1
             /\ \A o \in DOMAIN Outputs : p # OutputAt(o)
  <2>1. p \in Nat /\ p <= TablesFrom
    BY <1>2, <1>3, Counts DEF PointsAt, AnswerAt, SeedAt, OffsetAt
  <2> QED  BY <2>1, PlacesApart, AndsBound
<1> QED  BY <1>1, <1>2, <1>3 DEF ConnectionRight, CircuitRight, IsAnd

\* The messages outside the circuit.
LEMMA LinkWritten ==
    ASSUME mode' = mode, NEW p, NEW m,
           \/ ~phased /\ p = 1 /\ m.kind = "SIMDvalues"
           \/ p = PointsAt /\ m.kind = "basePoints"
           \/ p = AnswerAt /\ m.kind = "answer"
           \/ p = SeedAt /\ m.kind = "seed"
           \/ p = OffsetAt /\ GarbPast("u")' /\ m = Message("offset", Xor(curDelta, R))'
           \/ phased /\ p = 5 /\ GarbPast("gcs")' /\ m = Message("gcs", bufG)'
    PROVE  ConnectionRight(p, m)'
<1>1. /\ phased' = phased /\ PointsAt' = PointsAt /\ AnswerAt' = AnswerAt
      /\ SeedAt' = SeedAt /\ OffsetAt' = OffsetAt
  BY PlacesKept
<1>2. mInputA_size \in Nat /\ mInputB_size \in Nat
  BY Counts
<1>3. LinkRight(p, m)'
  <2>1. CASE phased
    <3>1. /\ PointsAt = 1 /\ AnswerAt = 2 /\ SeedAt = 3 /\ OffsetAt = 4
          /\ p \in {1, 2, 3, 4, 5}
      BY <2>1 DEF PointsAt, AnswerAt, SeedAt, OffsetAt
    <3>2. \A b \in 1 .. mInputB_size : p # LabelsAt(b)
      BY <1>2, <3>1 DEF LabelsAt
    <3> QED  BY ONLY <1>1, <2>1, <3>1, <3>2, mode' = mode,
              \/ ~phased /\ p = 1 /\ m.kind = "SIMDvalues"
              \/ p = PointsAt /\ m.kind = "basePoints"
              \/ p = AnswerAt /\ m.kind = "answer"
              \/ p = SeedAt /\ m.kind = "seed"
              \/ p = OffsetAt /\ GarbPast("u")' /\ m = Message("offset", Xor(curDelta, R))'
              \/ phased /\ p = 5 /\ GarbPast("gcs")' /\ m = Message("gcs", bufG)'
             DEF LinkRight
  <2>2. CASE ~phased
    <3>1. /\ PointsAt = 2 /\ AnswerAt = 3 /\ SeedAt = 4 + mInputA_size
          /\ OffsetAt = 5 + mInputA_size
      BY <2>2 DEF PointsAt, AnswerAt, SeedAt, OffsetAt
    <3>2. /\ 1 # PointsAt /\ 1 # AnswerAt /\ 1 # SeedAt /\ 1 # OffsetAt
          /\ PointsAt # AnswerAt /\ PointsAt # SeedAt /\ PointsAt # OffsetAt
          /\ AnswerAt # SeedAt /\ AnswerAt # OffsetAt /\ SeedAt # OffsetAt
      BY <1>2, <3>1
    <3> QED  BY ONLY <1>1, <2>2, <3>2,
              \/ ~phased /\ p = 1 /\ m.kind = "SIMDvalues"
              \/ p = PointsAt /\ m.kind = "basePoints"
              \/ p = AnswerAt /\ m.kind = "answer"
              \/ p = SeedAt /\ m.kind = "seed"
              \/ p = OffsetAt /\ GarbPast("u")' /\ m = Message("offset", Xor(curDelta, R))'
              \/ phased /\ p = 5 /\ GarbPast("gcs")' /\ m = Message("gcs", bufG)'
             DEF LinkRight
  <2> QED  BY <2>1, <2>2
<1> QED  BY <1>3, LinkOnConnection

LEMMA LabelsWritten ==
    ASSUME mode' = mode, phased, NEW b \in 1 .. mInputB_size, NEW p, NEW m, p = LabelsAt(b),
           GarbPast("choices")', m = Message("labels", Hidden(b))'
    PROVE  ConnectionRight(p, m)'
<1>1. /\ phased' = phased /\ PointsAt' = PointsAt /\ AnswerAt' = AnswerAt
      /\ SeedAt' = SeedAt /\ OffsetAt' = OffsetAt
  BY PlacesKept
<1>2. PointsAt = 1 /\ AnswerAt = 2 /\ SeedAt = 3 /\ OffsetAt = 4
  BY DEF PointsAt, AnswerAt, SeedAt, OffsetAt
<1>3. p = 5 + b /\ \A c \in 1 .. mInputB_size : p = LabelsAt(c) => c = b
  BY Counts DEF LabelsAt
<1>4. p # 1 /\ p # 2 /\ p # 3 /\ p # 4 /\ p # 5
  BY <1>3, Counts
<1>5. LinkRight(p, m)'
  BY <1>1, <1>2, <1>3, <1>4 DEF LinkRight
<1> QED  BY <1>5, LinkOnConnection

-----------------------------------------------------------------------------
(* Reading and writing *)

\* The counts of the other side and of messages do not change with a write to
\* the circuit, except for the garbler's circuit.
LEMMA CircuitGrows ==
    ASSUME IInv, GarbFrame, ~GarbPast("gcs"), EvalPast("gcs")' <=> EvalPast("gcs"),
           NEW q, IsSeq(q), ToCircuit(q), NEW n \in Nat, n = CircuitSent,
           GarbLink' = GarbLink, GarbCircuit' = GarbCircuit + Len(q),
           EvalLink' = EvalLink, EvalCircuit' = EvalCircuit,
           \A k \in 1 .. Len(q) : CircuitRight(n + k, q[k])' /\ (~phased => ConnectionRight(n + k, q[k])')
    PROVE  ToEval' /\ Buffers' /\ IsSeq(toEval)' /\ IsSeq(bufG)'
<1>1. RightStays /\ phased' = phased /\ bufE' = bufE
  BY FramesKeep DEF RightStays, GarbFrame, evaluator
<1>2. /\ ToEval /\ Buffers /\ IsSeq(toEval) /\ IsSeq(bufG) /\ ~EvalPast("gcs")
      /\ Taken \in Nat /\ Len(q) \in Nat /\ GarbLink' = GarbLink
      /\ Sent \in Nat /\ GarbCircuit \in Nat
  BY Places, SeqIs DEF IInv, Sequences, Learned, GarbPlace, EvalPlace
<1>3. CASE phased
  <2>1. bufG' = bufG \o q /\ toEval' = toEval
    BY <1>3 DEF ToCircuit, phased
  <2>2. JoinedTo(bufG, q, bufG')
    BY <1>2, <2>1, Joined
  <2>3. n = GarbCircuit /\ GarbCircuit' = n + Len(q)
    BY <1>3 DEF CircuitSent
  <2>4. Sent' = Sent /\ Taken' = Taken
    BY <1>1, <1>3 DEF Sent, Taken
  <2>5. Buffers' /\ IsSeq(bufG)'
    BY <1>1, <1>2, <1>3, <2>2, <2>3, BufGGrows
  <2>6. ToEval'
    BY <1>1, <1>2, <2>1, <2>4, ToEvalKept
  <2> QED  BY <1>2, <2>1, <2>5, <2>6 DEF IsSeq
<1>4. CASE ~phased
  <2>1. toEval' = toEval \o q /\ bufG' = bufG
    BY <1>4 DEF ToCircuit, SendToEval, phased
  <2>2. JoinedTo(toEval, q, toEval')
    BY <1>2, <2>1, Joined
  <2>3. n = Sent /\ Sent' = n + Len(q) /\ Taken' = Taken
    <3>1. GarbLink \in Nat
      BY Places DEF IInv, GarbPlace, EvalPlace
    <3>2. Sent = GarbLink + GarbCircuit /\ Sent' = GarbLink + (GarbCircuit + Len(q))
          /\ n = Sent
      BY <1>1, <1>4 DEF Sent, CircuitSent
    <3>3. Taken' = Taken
      BY <1>1, <1>4 DEF Taken
    <3> QED  BY <1>2, <3>1, <3>2, <3>3
  <2>4. ToEval' /\ IsSeq(toEval)'
    BY <1>1, <1>2, <1>4, <2>2, <2>3, ToEvalGrows
  <2>5. Buffers'
    BY <1>1, <1>2, <1>4, <2>1 DEF Buffers
  <2> QED  BY <1>2, <2>1, <2>4, <2>5 DEF IsSeq
<1> QED  BY <1>3, <1>4

LEMMA CircuitShrinks ==
    ASSUME IInv, EvalFrame, phased => EvalPast("gcs"), EvalPast("gcs")' <=> EvalPast("gcs"),
           NEW n \in Nat, ReadCircuit(n), GarbLink' = GarbLink, GarbCircuit' = GarbCircuit,
           EvalLink' = EvalLink, EvalCircuit' = EvalCircuit + n
    PROVE  /\ ToEval' /\ Buffers' /\ IsSeq(toEval)' /\ IsSeq(bufE)'
           /\ \A k \in 1 .. n : CircuitRight(CircuitTaken + k, Circuit[k])
           /\ Len(Circuit) >= n /\ IsSeq(Circuit)
<1>1. RightStays /\ phased' = phased /\ bufG' = bufG
  BY FramesKeep DEF RightStays, EvalFrame, garbler
<1>2. /\ ToEval /\ Buffers /\ IsSeq(toEval) /\ IsSeq(bufE)
      /\ Taken \in Nat /\ Sent \in Nat /\ GarbCircuit \in Nat /\ EvalCircuit \in Nat
  BY Places DEF IInv, Sequences, GarbPlace, EvalPlace
<1>3. Len(Circuit) >= n
  BY DEF ReadCircuit, Has
<1>4. CASE phased
  <2>1. bufE' = SubSeq(bufE, n + 1, Len(bufE)) /\ toEval' = toEval /\ Circuit = bufE
    BY <1>4 DEF ReadCircuit, Circuit, phased
  <2>2. LeftOf(bufE, n, bufE')
    BY <1>2, <1>3, <2>1, Dropped
  <2>3. Sent' = Sent /\ Taken' = Taken
    BY <1>1, <1>4 DEF Sent, Taken
  <2>4. Buffers' /\ IsSeq(bufE)'
    BY <1>1, <1>2, <1>4, <2>2, BufEShrinks
  <2>5. ToEval'
    BY <1>1, <1>2, <2>1, <2>3, ToEvalKept
  <2>6. \A k \in 1 .. n : CircuitRight(CircuitTaken + k, Circuit[k])
    <3>1. \A k \in 1 .. Len(bufE) : CircuitRight(EvalCircuit + k, bufE[k])
      BY <1>4 DEF IInv, Buffers, CircuitFrom
    <3>2. Len(bufE) \in Nat /\ CircuitTaken = EvalCircuit
      BY <1>2, <1>4, SeqIs DEF CircuitTaken
    <3> QED  BY <1>3, <2>1, <3>1, <3>2
  <2> QED  BY <1>2, <1>3, <2>1, <2>4, <2>5, <2>6 DEF IsSeq
<1>5. CASE ~phased
  <2>1. toEval' = SubSeq(toEval, n + 1, Len(toEval)) /\ bufE' = bufE /\ Circuit = toEval
    BY <1>5 DEF ReadCircuit, Circuit, phased
  <2>2. LeftOf(toEval, n, toEval')
    BY <1>2, <1>3, <2>1, Dropped
  <2>3. Sent' = Sent /\ Taken' = Taken + n
    <3>1. Taken = EvalLink + EvalCircuit /\ Taken' = EvalLink + (EvalCircuit + n)
      BY <1>1, <1>5 DEF Taken
    <3>2. EvalLink \in Nat
      BY Places DEF IInv, GarbPlace, EvalPlace
    <3>3. Sent' = Sent
      BY <1>1, <1>5 DEF Sent
    <3> QED  BY <1>2, <3>1, <3>2, <3>3
  <2>4. ToEval' /\ IsSeq(toEval)'
    BY <1>1, <1>2, <2>2, <2>3, ToEvalShrinks
  <2>5. Buffers'
    BY <1>1, <1>2, <1>5, <2>1 DEF Buffers
  <2>6. \A k \in 1 .. n : CircuitRight(CircuitTaken + k, Circuit[k])
    <3>1. \A k \in 1 .. Len(toEval) : CircuitRight(Taken + k, toEval[k])
      BY <1>5 DEF IInv, ToEval, ConnectionFrom, ConnectionRight
    <3>2. Len(toEval) \in Nat /\ CircuitTaken = Taken
      BY <1>2, <1>5, SeqIs DEF CircuitTaken
    <3> QED  BY <1>3, <2>1, <3>1, <3>2
  <2> QED  BY <1>2, <1>3, <2>1, <2>4, <2>5, <2>6 DEF IsSeq
<1> QED  BY <1>4, <1>5

\* A message outside the circuit.
LEMMA LinkGrows ==
    ASSUME IInv, GarbFrame, EvalPast("gcs")' <=> EvalPast("gcs"),
           NEW m, SendToEval(<<m>>), bufG' = bufG, NEW n \in Nat, n = Sent,
           GarbLink' = GarbLink + 1, GarbCircuit' = GarbCircuit,
           EvalLink' = EvalLink, EvalCircuit' = EvalCircuit, ConnectionRight(n + 1, m)'
    PROVE  ToEval' /\ Buffers' /\ IsSeq(toEval)'
<1>1. RightStays /\ phased' = phased /\ bufE' = bufE
  BY FramesKeep DEF RightStays, GarbFrame, evaluator
<1>2. ToEval /\ Buffers /\ IsSeq(toEval) /\ Taken \in Nat /\ GarbCircuit \in Nat
  BY Places DEF IInv, Sequences, GarbPlace, EvalPlace
<1>3. PICK q : q = <<m>>
  OBVIOUS
<1>4. IsSeq(q) /\ Len(q) = 1 /\ q[1] = m
  BY <1>3, OneIs
<1>5. toEval' = toEval \o q
  BY <1>3 DEF SendToEval
<1>6. JoinedTo(toEval, q, toEval')
  BY <1>2, <1>4, <1>5, Joined
<1>7. Sent' = n + Len(q) /\ Taken' = Taken
  <2>1. GarbLink \in Nat
    BY Places DEF IInv, GarbPlace, EvalPlace
  <2>2. Sent' = Sent + 1
    BY <1>1, <1>2, <2>1 DEF Sent
  <2> QED  BY <1>1, <1>4, <2>2 DEF Taken
<1>8. \A k \in 1 .. Len(q) : ConnectionRight(n + k, q[k])'
  <2>1. \A k \in 1 .. Len(q) : k = 1
    BY <1>4
  <2> QED  BY <1>4, <2>1
<1>9. ToEval' /\ IsSeq(toEval)'
  BY <1>1, <1>2, <1>4, <1>6, <1>7, <1>8, ToEvalGrows
<1> QED  BY <1>1, <1>2, <1>9, BuffersKept

LEMMA LinkShrinks ==
    ASSUME IInv, EvalFrame, FromGarb, GarbLink' = GarbLink, GarbCircuit' = GarbCircuit,
           EvalLink' = EvalLink + 1, EvalCircuit' = EvalCircuit
    PROVE  ToEval' /\ IsSeq(toEval)' /\ LinkRight(Taken + 1, Head(toEval))
<1>1. RightStays /\ phased' = phased
  BY FramesKeep DEF RightStays
<1>2. /\ ToEval /\ IsSeq(toEval) /\ Taken \in Nat /\ Sent \in Nat /\ EvalCircuit \in Nat
      /\ Len(toEval) >= 1 /\ Len(toEval) \in Nat /\ toEval' = Tail(toEval)
  BY Places, SeqIs DEF IInv, Sequences, GarbPlace, EvalPlace, FromGarb, Has
<1>3. LeftOf(toEval, 1, toEval') /\ Head(toEval) = toEval[1]
  BY <1>2, TailIs
<1>4. Sent' = Sent /\ Taken' = Taken + 1
  <2>1. EvalLink \in Nat
    BY Places DEF IInv, GarbPlace, EvalPlace
  <2> QED  BY <1>1, <1>2, <2>1 DEF Sent, Taken
<1>5. PICK n \in Nat : n = 1
  OBVIOUS
<1>6. LeftOf(toEval, n, toEval') /\ Taken' = Taken + n
  BY <1>3, <1>4, <1>5
<1>7. ToEval' /\ IsSeq(toEval)'
  BY ONLY <1>1, <1>2, <1>4, <1>6, ToEvalShrinks
<1>8. LinkRight(Taken + 1, toEval[1])
  <2>1. 1 \in 1 .. Len(toEval)
    BY <1>2
  <2> QED  BY <1>2, <2>1 DEF ToEval, ConnectionFrom, ConnectionRight
<1> QED  BY <1>3, <1>7, <1>8

\* An answer that is read.
LEMMA AnswerShrinks ==
    ASSUME IInv, GarbFrame, FromEval, EvalBack' = EvalBack, GarbBack' = GarbBack + 1
    PROVE  ToGarb' /\ IsSeq(toGarb)' /\ AnswerRight(GarbBack + 1, Head(toGarb))
<1>1. RightStays
  BY FramesKeep
<1>2. /\ ToGarb /\ IsSeq(toGarb) /\ GarbBack \in Nat /\ EvalBack \in Nat
      /\ Len(toGarb) >= 1 /\ Len(toGarb) \in Nat /\ toGarb' = Tail(toGarb)
  <2>1. IsSeq(toGarb) /\ toGarb # <<>> /\ toGarb' = Tail(toGarb)
    BY DEF IInv, Sequences, FromEval
  <2>2. Len(toGarb) >= 1 /\ Len(toGarb) \in Nat
    BY <2>1, SeqIs
  <2> QED  BY <2>1, <2>2, Places DEF IInv, GarbPlace, EvalPlace
<1>3. LeftOf(toGarb, 1, toGarb') /\ Head(toGarb) = toGarb[1]
  BY <1>2, TailIs
<1>4. ToGarb' /\ IsSeq(toGarb)'
  BY <1>1, <1>2, <1>3, ToGarbShrinks
<1>5. AnswerRight(GarbBack + 1, toGarb[1])
  <2>1. 1 \in 1 .. Len(toGarb)
    BY <1>2
  <2> QED  BY <1>2, <2>1 DEF ToGarb, AnswersFrom
<1> QED  BY <1>3, <1>4, <1>5

-----------------------------------------------------------------------------
(* What most steps leave as it is *)

GarbPassed(step) == \A s \in StepName : s # step => (GarbPast(s)' <=> GarbPast(s))
EvalPassed(step) == \A s \in StepName : s # step => (EvalPast(s)' <=> EvalPast(s))

LEMMA PassedIs ==
    ASSUME NEW step \in StepName
    PROVE  /\ GarbPasses(step) \/ GarbStays => GarbPassed(step)
           /\ EvalPasses(step) \/ EvalStays => EvalPassed(step)
BY DEF GarbPasses, GarbStays, GarbPassed, EvalPasses, EvalStays, EvalPassed

\* A step of the garbler: what concerns the evaluator alone.
LEMMA GarbStep ==
    ASSUME IInv, GarbFrame
    PROVE  /\ Types' /\ EvalPlace' /\ OutputsCorrect'
           /\ IsSeq(active)' /\ IsSeq(result)' /\ IsSeq(bufE)'
           /\ \A s : EvalPast(s)' <=> EvalPast(s)
<1>1. /\ mode' = mode /\ value' = value /\ R' = R /\ randChoices' = randChoices
      /\ active' = active /\ eStep' = eStep /\ ePos' = ePos /\ eId' = eId /\ bufE' = bufE
      /\ result' = result
  BY DEF GarbFrame, evaluator
<1>2. Shared' = Shared /\ EvalIndex' = EvalIndex /\ EvalLastStep' = EvalLastStep
  BY <1>1, ModeKept
<1>3. Types'
  BY <1>1, <1>2 DEF IInv, Types, Shared
<1>4. EvalPlace'
  <2>1. EvalWithin'
    BY <1>1, <1>2, ModeKept, TimesOf DEF IInv, EvalPlace, EvalWithin, Within
  <2>2. \A s : EvalDid(s)' = EvalDid(s)
    BY <1>1, <1>2 DEF EvalDid, Did, Times
  <2> QED  BY <1>1, <2>1, <2>2 DEF IInv, EvalPlace
<1>5. OutputsCorrect'
  BY <1>1 DEF IInv, OutputsCorrect
<1>6. IsSeq(active)' /\ IsSeq(result)' /\ IsSeq(bufE)'
  BY <1>1 DEF IInv, Sequences, IsSeq
<1>7. \A s : EvalPast(s)' <=> EvalPast(s)
  BY <1>1, <1>2 DEF EvalPast
<1> QED  BY <1>3, <1>4, <1>5, <1>6, <1>7

LEMMA GarbLabelsStay ==
    ASSUME IInv, GarbFrame, label0' = label0, NEW step \in StepName \ {"bob"}, GarbPassed(step)
    PROVE  InputLabels' /\ Garbled' /\ Evaluated' /\ LabelsEncode' /\ IsSeq(label0)'
<1>1. /\ mode' = mode /\ value' = value /\ R' = R /\ active' = active /\ eOTs' = eOTs
      /\ phased' = phased
  BY ModeKept DEF GarbFrame, evaluator
<1>2. GarbPast("bob")' <=> GarbPast("bob")
  BY DEF GarbPassed, StepName
<1>3. GarbPast("bob") => gOTs' = gOTs
  BY GarbOrder DEF IInv, GarbPlace, GarbFrame
<1>4. EvalPast("bob")' <=> EvalPast("bob")
  BY GarbStep
<1>5. InputLabels'
  BY <1>1, <1>2, <1>3, <1>4 DEF IInv, InputLabels
<1>6. Garbled' /\ Evaluated' /\ LabelsEncode'
  BY <1>1 DEF IInv, Garbled, Evaluated, LabelsEncode
<1> QED  BY <1>5, <1>6 DEF IInv, Sequences, IsSeq

LEMMA GarbTransferredStays ==
    ASSUME IInv, GarbFrame, NEW step \in StepName \ {"u", "choices"}, GarbPassed(step)
    PROVE  Transferred'
<1>1. /\ R' = R /\ eOTs' = eOTs /\ randChoices' = randChoices /\ phased' = phased
      /\ All' = All
  BY ModeKept DEF GarbFrame, evaluator, All
<1>2. /\ GarbPast("u")' <=> GarbPast("u")
      /\ GarbPast("choices")' <=> GarbPast("choices")
  BY DEF GarbPassed, StepName
<1>3. /\ GarbPast("u") => gOTs' = gOTs /\ curDelta' = curDelta
      /\ GarbPast("choices") => corrected' = corrected
  BY DEF GarbFrame
<1>4. /\ EvalPast("u")' <=> EvalPast("u")
      /\ EvalPast("offset")' <=> EvalPast("offset")
  BY GarbStep
<1> QED  BY <1>1, <1>2, <1>3, <1>4 DEF IInv, Transferred

LEMMA GarbLearnedStays ==
    ASSUME IInv, GarbFrame, NEW step \in StepName \ {"u", "check", "gcs"}, GarbPassed(step)
    PROVE  Learned'
<1>1. active' = active /\ Len(label0)' >= Len(label0) /\ Len(label0) \in Nat
  BY SeqIs DEF IInv, Sequences, GarbFrame, Begins, evaluator
<1>2. /\ GarbPast("u")' <=> GarbPast("u")
      /\ GarbPast("check")' <=> GarbPast("check")
      /\ GarbPast("gcs")' <=> GarbPast("gcs")
  BY DEF GarbPassed, StepName
<1>3. \A s : EvalPast(s)' <=> EvalPast(s)
  BY GarbStep
<1>4. \A w \in 1 .. mInputA_size : w <= Len(label0) => w <= Len(label0)'
  <2>1. Len(label0)' \in Nat \/ Len(label0)' \notin Nat
    OBVIOUS
  <2> QED  BY <1>1, Counts DEF GarbFrame
<1> QED  BY <1>1, <1>2, <1>3, <1>4 DEF IInv, Learned

\* The garbler's place, when it makes no label.
LEMMA GarbPlaceStays ==
    ASSUME IInv, GarbWithin', label0' = label0, gId' = gId, NEW step \in StepName, NEW n \in Nat,
           GarbMoves(step, n), step \notin {"alice", "bob", "gates"} \/ n = 0
    PROVE  GarbPlace'
<1>1. \A s \in StepName : GarbDid(s) \in Nat
  BY Scripts, DidType DEF IInv, GarbPlace, GarbDid
<1>2. \A s \in {"alice", "bob", "gates"} : GarbDid(s)' = GarbDid(s)
  BY <1>1 DEF GarbMoves, StepName
<1> QED  BY <1>2 DEF IInv, GarbPlace

\* A step of the evaluator.
LEMMA EvalStepIs ==
    ASSUME IInv, EvalFrame
    PROVE  /\ GarbPlace' /\ Garbled'
           /\ IsSeq(label0)' /\ IsSeq(bufG)'
           /\ \A s : GarbPast(s)' <=> GarbPast(s)
           /\ EvalPast("u") => Types'
<1>1. /\ mode' = mode /\ value' = value /\ R' = R /\ label0' = label0 /\ gStep' = gStep
      /\ gPos' = gPos /\ gId' = gId /\ bufG' = bufG /\ corrected' = corrected
  BY DEF EvalFrame, garbler
<1>2. Shared' = Shared /\ GarbIndex' = GarbIndex /\ LastStep' = LastStep
  BY <1>1, ModeKept
<1>3. GarbPlace'
  <2>1. GarbWithin'
    BY <1>1, <1>2, ModeKept, TimesOf DEF IInv, GarbPlace, GarbWithin, Within
  <2>2. \A s : GarbDid(s)' = GarbDid(s)
    BY <1>1, <1>2 DEF GarbDid, Did, Times
  <2> QED  BY <1>1, <2>1, <2>2 DEF IInv, GarbPlace
<1>4. Garbled'
  BY <1>1 DEF IInv, Garbled
<1>5. IsSeq(label0)' /\ IsSeq(bufG)'
  BY <1>1 DEF IInv, Sequences, IsSeq
<1>6. \A s : GarbPast(s)' <=> GarbPast(s)
  BY <1>1, <1>2 DEF GarbPast
<1>7. EvalPast("u") => Types'
  BY <1>1, <1>2 DEF IInv, Types, Shared, EvalFrame
<1> QED  BY <1>3, <1>4, <1>5, <1>6, <1>7

LEMMA EvalLabelsStay ==
    ASSUME IInv, EvalFrame, active' = active, NEW step \in StepName \ {"bob"}, EvalPassed(step)
    PROVE  InputLabels' /\ Evaluated' /\ LabelsEncode' /\ IsSeq(active)'
<1>1. /\ mode' = mode /\ value' = value /\ R' = R /\ label0' = label0 /\ gOTs' = gOTs
      /\ phased' = phased
  BY ModeKept DEF EvalFrame, garbler
<1>2. EvalPast("bob")' <=> EvalPast("bob")
  BY DEF EvalPassed, StepName
<1>3. EvalPast("bob") => eOTs' = eOTs
  BY EvalOrder DEF IInv, EvalPlace, EvalFrame
<1>4. GarbPast("bob")' <=> GarbPast("bob")
  BY EvalStepIs
<1>5. InputLabels'
  BY <1>1, <1>2, <1>3, <1>4 DEF IInv, InputLabels
<1>6. Evaluated' /\ LabelsEncode'
  BY <1>1 DEF IInv, Evaluated, LabelsEncode
<1> QED  BY <1>5, <1>6 DEF IInv, Sequences, IsSeq

LEMMA EvalTransferredStays ==
    ASSUME IInv, EvalFrame, NEW step \in StepName \ {"u", "offset"}, EvalPassed(step)
    PROVE  Transferred'
<1>1. /\ R' = R /\ gOTs' = gOTs /\ curDelta' = curDelta /\ corrected' = corrected
      /\ phased' = phased /\ All' = All
  BY ModeKept DEF EvalFrame, garbler, All
<1>2. /\ EvalPast("u")' <=> EvalPast("u")
      /\ EvalPast("offset")' <=> EvalPast("offset")
  BY DEF EvalPassed, StepName
<1>3. EvalPast("u") => randChoices' = randChoices /\ eOTs' = eOTs
  BY <1>2 DEF EvalFrame
<1>4. /\ GarbPast("u")' <=> GarbPast("u")
      /\ GarbPast("choices")' <=> GarbPast("choices")
  BY EvalStepIs
<1>5. /\ GarbPast("u") => EvalPast("u")
      /\ GarbPast("choices") => EvalPast("u")
  BY GarbOrder DEF IInv, Learned, GarbPlace
<1> QED  BY <1>1, <1>2, <1>3, <1>4, <1>5 DEF IInv, Transferred

LEMMA EvalLearnedStays ==
    ASSUME IInv, EvalFrame, active' = active, NEW step \in StepName \ {"u", "offset", "gcs"},
           EvalPassed(step)
    PROVE  Learned'
<1>1. label0' = label0
  BY DEF EvalFrame, garbler
<1>2. /\ EvalPast("u")' <=> EvalPast("u")
      /\ EvalPast("offset")' <=> EvalPast("offset")
      /\ EvalPast("gcs")' <=> EvalPast("gcs")
  BY DEF EvalPassed, StepName
<1>3. \A s : GarbPast(s)' <=> GarbPast(s)
  BY EvalStepIs
<1> QED  BY <1>1, <1>2, <1>3 DEF IInv, Learned

LEMMA EvalPlaceStays ==
    ASSUME IInv, EvalWithin', active' = active, eId' = eId, result' = result,
           NEW step \in StepName, NEW n \in Nat, EvalMoves(step, n),
           step \notin {"alice", "bob", "labels", "gates", "outputs"} \/ n = 0
    PROVE  EvalPlace' /\ IsSeq(result)' /\ (value' = value => OutputsCorrect')
<1>1. \A s \in StepName : EvalDid(s) \in Nat
  BY Scripts, DidType DEF IInv, EvalPlace, EvalDid
<1>2. \A s \in {"alice", "bob", "labels", "gates", "outputs"} : EvalDid(s)' = EvalDid(s)
  BY <1>1 DEF EvalMoves, StepName
<1>3. EvalPlace'
  BY <1>2 DEF IInv, EvalPlace
<1> QED  BY <1>3 DEF IInv, Sequences, IsSeq, OutputsCorrect

\* What a step of a script does to counts, and what it does not.
GarbDoes(step, n) ==
    /\ GarbWithin' /\ GarbMoves(step, n) /\ GarbPassed(step)
    /\ \A s \in StepName : GarbPast(s) => GarbPast(s)'
    /\ GarbLink' = IF step \in LinkSteps THEN GarbLink + n ELSE GarbLink
    /\ GarbBack' = IF step \in BackSteps THEN GarbBack + n ELSE GarbBack
    /\ step \notin CircuitSteps \/ n = 0 => GarbCircuit' = GarbCircuit
    /\ step \in {"alice", "outputs"} => GarbCircuit' = GarbCircuit + n
    /\ step = "gates" /\ n = 1 =>
          GarbCircuit' = IF IsAnd(gPos + 1) THEN GarbCircuit + 2 ELSE GarbCircuit
    /\ EvalLink' = EvalLink /\ EvalBack' = EvalBack /\ EvalCircuit' = EvalCircuit
    /\ gStep = GarbIndex[step] /\ gPos \in Nat /\ ~GarbPast(step)
EvalDoes(step, n) ==
    /\ EvalWithin' /\ EvalMoves(step, n) /\ EvalPassed(step)
    /\ \A s \in StepName : EvalPast(s) => EvalPast(s)'
    /\ EvalLink' = IF step \in LinkSteps THEN EvalLink + n ELSE EvalLink
    /\ EvalBack' = IF step \in BackSteps THEN EvalBack + n ELSE EvalBack
    /\ step \notin CircuitSteps \/ n = 0 => EvalCircuit' = EvalCircuit
    /\ step \in {"alice", "outputs"} => EvalCircuit' = EvalCircuit + n
    /\ step = "gates" /\ n = 1 =>
          EvalCircuit' = IF IsAnd(ePos + 1) THEN EvalCircuit + 2 ELSE EvalCircuit
    /\ GarbLink' = GarbLink /\ GarbBack' = GarbBack /\ GarbCircuit' = GarbCircuit
    /\ eStep = EvalIndex[step] /\ ePos \in Nat /\ ~EvalPast(step)

LEMMA GarbDoesOnce ==
    ASSUME IInv, mode' = mode, UNCHANGED evaluator, NEW step \in StepName \ DOMAIN Count,
           GarbAt(step), GarbAdvance
    PROVE  GarbDoes(step, Times(step)) /\ GarbPast(step)' /\ gPos = 0
<1>1. GarbWithin /\ EvalWithin /\ UNCHANGED <<eStep, ePos>>
  BY DEF IInv, GarbPlace, EvalPlace, evaluator
<1>2. GarbWithin' /\ GarbMoves(step, Times(step)) /\ GarbPasses(step)
  BY <1>1, GarbOnce
<1>3. /\ gStep = GarbIndex[step] /\ ~GarbPast(step) /\ GarbDid(step) = gPos /\ gPos \in Nat
      /\ gPos = 0
  BY <1>1, GarbAtStep
<1>4. PICK n \in Nat : n = Times(step)
  BY TimesOf
<1>5. step # "gates" /\ GarbMoves(step, n)
  BY <1>2, <1>4, Counts
<1> QED  BY <1>1, <1>2, <1>3, <1>4, <1>5, GarbCounts, PassedIs DEF GarbDoes, GarbPasses

LEMMA GarbDoesRound ==
    ASSUME IInv, mode' = mode, UNCHANGED evaluator, NEW step \in DOMAIN Count,
           GarbAt(step), gPos < Count[step], GarbMore
    PROVE  GarbDoes(step, 1) /\ gPos + 1 \in 1 .. Count[step]
<1>1. GarbWithin /\ EvalWithin /\ UNCHANGED <<eStep, ePos>> /\ step \in StepName
  BY TimesOf DEF IInv, GarbPlace, EvalPlace, evaluator
<1>2. GarbWithin' /\ GarbMoves(step, 1) /\ GarbStays
  BY <1>1, GarbRound
<1>3. gStep = GarbIndex[step] /\ ~GarbPast(step) /\ GarbDid(step) = gPos /\ gPos \in Nat
  BY <1>1, GarbAtStep
<1>4. PICK n \in Nat : n = 1
  OBVIOUS
<1>5. gPos + 1 \in 1 .. Count[step]
  BY <1>3, Counts
<1>6. GarbMoves(step, n) /\ GarbPassed(step) /\ \A s \in StepName : GarbPast(s) => GarbPast(s)'
  BY <1>1, <1>2, <1>4, PassedIs DEF GarbStays
<1>7. GarbDoes(step, n)
  BY <1>1, <1>2, <1>3, <1>4, <1>6, GarbCounts DEF GarbDoes
<1> QED  BY <1>4, <1>5, <1>7

LEMMA GarbDoesEnd ==
    ASSUME IInv, mode' = mode, UNCHANGED evaluator, NEW step \in DOMAIN Count,
           GarbAt(step), gPos = Count[step], GarbAdvance
    PROVE  GarbDoes(step, 0)
<1>1. GarbWithin /\ EvalWithin /\ UNCHANGED <<eStep, ePos>> /\ step \in StepName
  BY TimesOf DEF IInv, GarbPlace, EvalPlace, evaluator
<1>2. GarbWithin' /\ GarbMoves(step, 0) /\ GarbPasses(step)
  BY <1>1, GarbEnd
<1>3. gStep = GarbIndex[step] /\ ~GarbPast(step) /\ GarbDid(step) = gPos /\ gPos \in Nat
  BY <1>1, GarbAtStep
<1>4. PICK n \in Nat : n = 0
  OBVIOUS
<1>5. GarbMoves(step, n) /\ GarbPassed(step) /\ \A s \in StepName : GarbPast(s) => GarbPast(s)'
  BY <1>1, <1>2, <1>4, PassedIs DEF GarbPasses
<1>6. GarbDoes(step, n)
  BY <1>1, <1>2, <1>3, <1>4, <1>5, GarbCounts DEF GarbDoes
<1> QED  BY <1>4, <1>6

LEMMA EvalDoesOnce ==
    ASSUME IInv, mode' = mode, UNCHANGED garbler, NEW step \in StepName \ DOMAIN Count,
           EvalAt(step), EvalAdvance
    PROVE  EvalDoes(step, Times(step)) /\ EvalPast(step)' /\ ePos = 0
<1>1. GarbWithin /\ EvalWithin /\ UNCHANGED <<gStep, gPos>>
  BY DEF IInv, GarbPlace, EvalPlace, garbler
<1>2. EvalWithin' /\ EvalMoves(step, Times(step)) /\ EvalPasses(step)
  BY <1>1, EvalOnce
<1>3. /\ eStep = EvalIndex[step] /\ ~EvalPast(step) /\ EvalDid(step) = ePos /\ ePos \in Nat
      /\ ePos = 0
  BY <1>1, EvalAtStep
<1>4. PICK n \in Nat : n = Times(step)
  BY TimesOf
<1>5. step # "gates" /\ EvalMoves(step, n)
  BY <1>2, <1>4, Counts
<1> QED  BY <1>1, <1>2, <1>3, <1>4, <1>5, EvalCounts, PassedIs DEF EvalDoes, EvalPasses

LEMMA EvalDoesRound ==
    ASSUME IInv, mode' = mode, UNCHANGED garbler, NEW step \in DOMAIN Count,
           EvalAt(step), ePos < Count[step], EvalMore
    PROVE  /\ EvalDoes(step, 1) /\ ePos + 1 \in 1 .. Count[step]
           /\ EvalPast("gcs")' <=> EvalPast("gcs")
<1>1. GarbWithin /\ EvalWithin /\ UNCHANGED <<gStep, gPos>> /\ step \in StepName
  BY TimesOf DEF IInv, GarbPlace, EvalPlace, garbler
<1>2. EvalWithin' /\ EvalMoves(step, 1) /\ EvalStays
  BY <1>1, EvalRound
<1>3. eStep = EvalIndex[step] /\ ~EvalPast(step) /\ EvalDid(step) = ePos /\ ePos \in Nat
  BY <1>1, EvalAtStep
<1>4. PICK n \in Nat : n = 1
  OBVIOUS
<1>5. ePos + 1 \in 1 .. Count[step]
  BY <1>3, Counts
<1>6. EvalMoves(step, n) /\ EvalPassed(step) /\ \A s \in StepName : EvalPast(s) => EvalPast(s)'
  BY <1>1, <1>2, <1>4, PassedIs DEF EvalStays
<1>7. EvalDoes(step, n)
  BY <1>1, <1>2, <1>3, <1>4, <1>6, EvalCounts DEF EvalDoes
<1> QED  BY <1>2, <1>4, <1>5, <1>7 DEF EvalStays, StepName

LEMMA EvalDoesEnd ==
    ASSUME IInv, mode' = mode, UNCHANGED garbler, NEW step \in DOMAIN Count,
           EvalAt(step), ePos = Count[step], EvalAdvance
    PROVE  EvalDoes(step, 0)
<1>1. GarbWithin /\ EvalWithin /\ UNCHANGED <<gStep, gPos>> /\ step \in StepName
  BY TimesOf DEF IInv, GarbPlace, EvalPlace, garbler
<1>2. EvalWithin' /\ EvalMoves(step, 0) /\ EvalPasses(step)
  BY <1>1, EvalEnd
<1>3. eStep = EvalIndex[step] /\ ~EvalPast(step) /\ EvalDid(step) = ePos /\ ePos \in Nat
  BY <1>1, EvalAtStep
<1>4. PICK n \in Nat : n = 0
  OBVIOUS
<1>5. EvalMoves(step, n) /\ EvalPassed(step) /\ \A s \in StepName : EvalPast(s) => EvalPast(s)'
  BY <1>1, <1>2, <1>4, PassedIs DEF EvalPasses
<1>6. EvalDoes(step, n)
  BY <1>1, <1>2, <1>3, <1>4, <1>5, EvalCounts DEF EvalDoes
<1> QED  BY <1>4, <1>6

-----------------------------------------------------------------------------
(* The bytes of the choices *)

\* BitVector::sizeBytes and the count of the garbler agree on whole bytes, and
\* every choice is in one of them.
LEMMA AllBytesRead ==
    ASSUME ChoicesFillBytes
    PROVE  /\ BytesRead = BytesSent /\ BytesSent \in Nat
           /\ \A k \in OT : ByteOf(k) \in 0 .. BytesSent - 1
<1>1. PICK n \in Nat, b \in Nat \ {0} : n = NumOTs /\ b = ByteBits
  <2>1. PICK x \in Nat, y \in Nat : x = mInputB_size /\ y = SIMDInputs
    BY SIMDAssumption
  <2>2. x * y \in Nat
    OBVIOUS
  <2> QED  BY <2>1, <2>2, SIMDAssumption DEF NumOTs
<1>2. n \in Int
  OBVIOUS
<1>3. PICK q \in Int : q = n \div b /\ n = q * b
  <2>1. (n % b) = 0
    BY <1>1 DEF ChoicesFillBytes
  <2>2. n \div b \in Int /\ n = (n \div b) * b + (n % b)
    BY ONLY <1>2, Division, b \in Nat \ {0}
  <2>3. PICK q \in Int : q = n \div b
    BY <2>2
  <2>4. q * b \in Int
    OBVIOUS
  <2> QED  BY ONLY <2>1, <2>2, <2>3, <2>4
<1>4. q \in Nat
  <2>1. q < 0 => q * b < 0
    OBVIOUS
  <2> QED  BY <1>3, <2>1
<1>5. BytesSent = q
  <2>1. PICK m \in Int, r \in 0 .. b - 1 : m = n + b - 1 /\ r = b - 1
    OBVIOUS
  <2>2. m = q * b + r
    <3>1. q * b \in Int
      OBVIOUS
    <3> QED  BY ONLY <1>3, <2>1, <3>1, b \in Nat \ {0}, n \in Nat
  <2>3. (m \div b) = q
    BY ONLY <2>1, <2>2, DivisionUnique, q \in Int, b \in Nat \ {0}
  <2> QED  BY <1>1, <2>1, <2>3 DEF BytesSent
<1>6. BytesRead = q
  BY <1>1, <1>3 DEF BytesRead
<1>7. ASSUME NEW k \in OT PROVE ByteOf(k) \in 0 .. q - 1
  <2>1. k \in Int /\ k >= 0 /\ k < n
    BY <1>1 DEF OT
  <2>2. PICK j \in Int, r \in 0 .. b - 1 : j = k \div b /\ k = j * b + r
    <3>1. k \div b \in Int /\ (k % b) \in 0 .. b - 1 /\ k = (k \div b) * b + (k % b)
      BY ONLY <2>1, Division, b \in Nat \ {0}
    <3> QED  BY <3>1
  <2>3. j >= 0
    <3>1. j < 0 => j * b <= 0 - b
      OBVIOUS
    <3>2. j * b \in Int
      OBVIOUS
    <3> QED  BY ONLY <2>1, <2>2, <3>1, <3>2, b \in Nat \ {0}
  <2>4. j < q
    <3>1. j >= q => j * b >= q * b
      OBVIOUS
    <3>2. j * b \in Int /\ q * b \in Int
      OBVIOUS
    <3> QED  BY ONLY <1>3, <2>1, <2>2, <3>1, <3>2, b \in Nat \ {0}
  <2> QED  BY <1>1, <1>4, <2>2, <2>3, <2>4 DEF ByteOf
<1> QED  BY <1>4, <1>5, <1>6, <1>7

-----------------------------------------------------------------------------
(* The garbler's steps *)

LEMMA GarbWritesNothing ==
    ASSUME IInv, GarbFrame, toEval' = toEval, bufG' = bufG, GarbLink' = GarbLink,
           GarbCircuit' = GarbCircuit, EvalLink' = EvalLink, EvalCircuit' = EvalCircuit
    PROVE  ToEval' /\ Buffers' /\ IsSeq(toEval)' /\ IsSeq(bufG)'
<1>1. RightStays /\ phased' = phased /\ bufE' = bufE /\ (EvalPast("gcs")' <=> EvalPast("gcs"))
  BY FramesKeep, GarbStep DEF RightStays, GarbFrame, evaluator
<1>2. Sent' = Sent /\ Taken' = Taken
  BY <1>1 DEF Sent, Taken
<1> QED  BY <1>1, <1>2, ToEvalKept, BuffersKept DEF IInv, Sequences, IsSeq

LEMMA GarbReadsNothing ==
    ASSUME IInv, GarbFrame, toGarb' = toGarb, EvalBack' = EvalBack, GarbBack' = GarbBack
    PROVE  ToGarb' /\ IsSeq(toGarb)'
<1>1. RightStays
  BY FramesKeep
<1> QED  BY <1>1, ToGarbKept DEF IInv, Sequences, IsSeq

\* Steps that change none of the garbler's secrets.
LEMMA GarbFrameOf ==
    ASSUME IInv, UNCHANGED <<mode, value, R, curDelta, gOTs, label0, corrected, evaluator>>,
           GarbPast("gcs") => bufG' = bufG, \A s \in StepName : GarbPast(s) => GarbPast(s)'
    PROVE  GarbFrame
<1>1. Begins(label0, label0')
  BY SeqIs DEF IInv, Sequences, Begins
<1> QED  BY <1>1 DEF GarbFrame

LEMMA GarbReadKeeps == IInv /\ GarbRead => IInv'
<1> SUFFICES ASSUME IInv, GarbRead PROVE IInv'
  OBVIOUS
<1>1. PICK step \in {"baseKeys", "challenge", "opening", "commit", "theirSeed", "check"} :
         GarbAt(step)
  BY DEF GarbRead
<1>2. /\ FromEval /\ GarbAdvance
      /\ UNCHANGED <<mode, value, R, curDelta, gOTs, label0, corrected, gId, bufG, evaluator, toEval>>
  BY DEF GarbRead
<1>3. step \in StepName \ DOMAIN Count /\ Times(step) = 1
  BY <1>1, TimesOf, Counts DEF StepName
<1>4. GarbDoes(step, 1) /\ gPos = 0
  BY <1>1, <1>2, <1>3, GarbDoesOnce
<1>5. GarbFrame
  BY <1>2, <1>4, GarbFrameOf DEF GarbDoes
<1>6. ToEval' /\ Buffers' /\ IsSeq(toEval)' /\ IsSeq(bufG)'
  BY <1>1, <1>2, <1>4, <1>5, GarbWritesNothing DEF GarbDoes, LinkSteps, CircuitSteps
<1>7. ToGarb' /\ IsSeq(toGarb)' /\ AnswerRight(GarbBack + 1, Head(toGarb))
  BY <1>1, <1>2, <1>4, <1>5, AnswerShrinks DEF GarbDoes, BackSteps
<1>8. /\ Types' /\ EvalPlace' /\ OutputsCorrect'
      /\ IsSeq(active)' /\ IsSeq(result)' /\ IsSeq(bufE)'
      /\ \A s : EvalPast(s)' <=> EvalPast(s)
  BY <1>5, GarbStep
<1>9. InputLabels' /\ Garbled' /\ Evaluated' /\ LabelsEncode' /\ IsSeq(label0)'
  BY <1>1, <1>2, <1>3, <1>4, <1>5, GarbLabelsStay DEF GarbDoes
<1>10. Transferred'
  BY <1>1, <1>3, <1>4, <1>5, GarbTransferredStays DEF GarbDoes
<1>11. GarbPlace'
  BY <1>1, <1>2, <1>3, <1>4, GarbPlaceStays DEF GarbDoes
<1>12. Learned'
  <2>1. CASE step # "check"
    BY <1>1, <1>3, <1>4, <1>5, <2>1, GarbLearnedStays DEF GarbDoes
  <2>2. CASE step = "check"
    <3>1. GarbBack + 1 = 7
      BY <1>4, <2>2, Places DEF GarbDoes, PlacesAre, IInv, GarbPlace, EvalPlace
    <3>2. EvalPast("offset")
      BY <1>7, <3>1 DEF AnswerRight
    <3>3. /\ GarbPast("u")' <=> GarbPast("u")
          /\ GarbPast("gcs")' <=> GarbPast("gcs")
      BY <1>4, <2>2 DEF GarbDoes, GarbPassed, StepName
    <3> QED  BY <1>2, <1>8, <3>2, <3>3 DEF IInv, Learned, evaluator
  <2> QED  BY <2>1, <2>2
<1> QED  BY <1>6, <1>7, <1>8, <1>9, <1>10, <1>11, <1>12 DEF IInv, Sequences

LEMMA GarbSendKeeps == IInv /\ GarbSend => IInv'
<1> SUFFICES ASSUME IInv, GarbSend PROVE IInv'
  OBVIOUS
<1>1. PICK step \in {"SIMDvalues", "basePoints", "answer", "seed"} :
         GarbAt(step) /\ SendToEval(<<Signal(step)>>)
  BY DEF GarbSend
<1>2. /\ GarbAdvance
      /\ UNCHANGED <<mode, value, R, curDelta, gOTs, label0, corrected, gId, bufG, evaluator, toGarb>>
  BY DEF GarbSend
<1>3. step \in StepName \ DOMAIN Count /\ Times(step) = 1
  BY <1>1, TimesOf, Counts DEF StepName
<1>4. GarbDoes(step, 1) /\ gPos = 0
  BY <1>1, <1>2, <1>3, GarbDoesOnce
<1>5. GarbFrame
  BY <1>2, <1>4, GarbFrameOf DEF GarbDoes
<1>6. /\ Types' /\ EvalPlace' /\ OutputsCorrect'
      /\ IsSeq(active)' /\ IsSeq(result)' /\ IsSeq(bufE)'
      /\ \A s : EvalPast(s)' <=> EvalPast(s)
  BY <1>5, GarbStep
<1>7. PICK n, m : n = Sent /\ m = Signal(step)
  OBVIOUS
<1>8. n \in Nat /\ ConnectionRight(n + 1, m)'
  <2>1. m.kind = step
    BY <1>7 DEF Signal, Message
  <2>2. /\ n \in Nat
        /\ step = "SIMDvalues" => ~phased /\ n + 1 = 1
        /\ step = "basePoints" => n + 1 = PointsAt
        /\ step = "answer" => n + 1 = AnswerAt
        /\ step = "seed" => n + 1 = SeedAt
    <3>1. PointsAt \in Nat /\ AnswerAt \in Nat /\ SeedAt \in Nat
      BY Counts DEF PointsAt, AnswerAt, SeedAt
    <3>2. /\ PlacesAre(gStep, gPos, GarbIndex) /\ NextLink(gStep, gPos, GarbIndex) = n + 1
          /\ n \in Nat
      BY <1>7, Places DEF IInv, GarbPlace, EvalPlace
    <3>3. gStep = GarbIndex[step] /\ gPos = 0
      BY <1>4 DEF GarbDoes
    <3> QED  BY ONLY <3>1, <3>2, <3>3 DEF PlacesAre
  <2> QED  BY <1>1, <1>2, <2>1, <2>2, LinkWritten
<1>9. ToEval' /\ Buffers' /\ IsSeq(toEval)' /\ IsSeq(bufG)'
  <2>1. /\ GarbLink' = GarbLink + 1 /\ GarbCircuit' = GarbCircuit
        /\ EvalLink' = EvalLink /\ EvalCircuit' = EvalCircuit
    BY <1>1, <1>4 DEF GarbDoes, LinkSteps, CircuitSteps
  <2> QED  BY <1>1, <1>2, <1>5, <1>6, <1>7, <1>8, <2>1, LinkGrows DEF IInv, Sequences, IsSeq
<1>10. ToGarb' /\ IsSeq(toGarb)'
  BY <1>1, <1>2, <1>4, <1>5, GarbReadsNothing DEF GarbDoes, BackSteps
<1>11. InputLabels' /\ Garbled' /\ Evaluated' /\ LabelsEncode' /\ IsSeq(label0)'
  BY <1>1, <1>2, <1>3, <1>4, <1>5, GarbLabelsStay DEF GarbDoes
<1>12. Transferred' /\ Learned'
  BY <1>1, <1>3, <1>4, <1>5, GarbTransferredStays, GarbLearnedStays DEF GarbDoes
<1>13. GarbPlace'
  BY <1>1, <1>2, <1>3, <1>4, GarbPlaceStays DEF GarbDoes
<1> QED  BY <1>6, <1>9, <1>10, <1>11, <1>12, <1>13 DEF IInv, Sequences

LEMMA GarbOffsetKeeps == IInv /\ GarbOffset => IInv'
<1> SUFFICES ASSUME IInv, GarbOffset PROVE IInv'
  OBVIOUS
<1>1. PICK step : step = "offset"
  OBVIOUS
<1>2. /\ GarbAt(step) /\ SendToEval(<<Message("offset", Xor(curDelta, R))>>) /\ GarbAdvance
      /\ UNCHANGED <<mode, value, R, curDelta, gOTs, label0, corrected, gId, bufG, evaluator, toGarb>>
  BY <1>1 DEF GarbOffset
<1>3. step \in StepName \ DOMAIN Count /\ Times(step) = 1
  BY <1>1, TimesOf, Counts DEF StepName
<1>4. GarbDoes(step, 1) /\ gPos = 0
  BY <1>2, <1>3, GarbDoesOnce
<1>5. GarbFrame
  BY <1>2, <1>4, GarbFrameOf DEF GarbDoes
<1>6. /\ Types' /\ EvalPlace' /\ OutputsCorrect'
      /\ IsSeq(active)' /\ IsSeq(result)' /\ IsSeq(bufE)'
      /\ \A s : EvalPast(s)' <=> EvalPast(s)
  BY <1>5, GarbStep
<1>7. PICK n, m : n = Sent /\ m = Message("offset", Xor(curDelta, R))
  OBVIOUS
<1>8. n \in Nat /\ ConnectionRight(n + 1, m)'
  <2>1. m = Message("offset", Xor(curDelta, R))'
    BY <1>2, <1>7 DEF Message
  <2>2. n \in Nat /\ n + 1 = OffsetAt
    BY <1>1, <1>4, <1>7, Places, Counts
       DEF GarbDoes, PlacesAre, IInv, GarbPlace, EvalPlace, OffsetAt
  <2>3. GarbPast("u")
    BY <1>1, <1>4, Scripts DEF GarbDoes, GarbPast, GarbIndex, Direct, GarbPhases
  <2>4. GarbPast("u")'
    BY <1>4, <2>3 DEF GarbDoes, StepName
  <2> QED  BY <1>2, <2>1, <2>2, <2>4, LinkWritten
<1>9. ToEval' /\ Buffers' /\ IsSeq(toEval)' /\ IsSeq(bufG)'
  <2>1. /\ GarbLink' = GarbLink + 1 /\ GarbCircuit' = GarbCircuit
        /\ EvalLink' = EvalLink /\ EvalCircuit' = EvalCircuit
    BY <1>1, <1>4 DEF GarbDoes, LinkSteps, CircuitSteps
  <2> QED  BY <1>1, <1>2, <1>5, <1>6, <1>7, <1>8, <2>1, LinkGrows DEF IInv, Sequences, IsSeq
<1>10. ToGarb' /\ IsSeq(toGarb)'
  BY <1>1, <1>2, <1>4, <1>5, GarbReadsNothing DEF GarbDoes, BackSteps
<1>11. InputLabels' /\ Garbled' /\ Evaluated' /\ LabelsEncode' /\ IsSeq(label0)'
  BY <1>1, <1>2, <1>3, <1>4, <1>5, GarbLabelsStay DEF GarbDoes
<1>12. Transferred' /\ Learned'
  BY <1>1, <1>3, <1>4, <1>5, GarbTransferredStays, GarbLearnedStays DEF GarbDoes
<1>13. GarbPlace'
  BY <1>1, <1>2, <1>3, <1>4, GarbPlaceStays DEF GarbDoes
<1> QED  BY <1>6, <1>9, <1>10, <1>11, <1>12, <1>13 DEF IInv, Sequences

LEMMA GarbBufferKeeps == IInv /\ GarbBuffer => IInv'
<1> SUFFICES ASSUME IInv, GarbBuffer PROVE IInv'
  OBVIOUS
<1>1. PICK step : step = "gcs"
  OBVIOUS
<1>2. /\ GarbAt(step) /\ SendToEval(<<Message("gcs", bufG)>>) /\ GarbAdvance
      /\ UNCHANGED <<mode, value, R, curDelta, gOTs, label0, corrected, gId, bufG, evaluator, toGarb>>
  BY <1>1 DEF GarbBuffer
<1>3. step \in StepName \ DOMAIN Count /\ Times(step) = 1
  BY <1>1, TimesOf, Counts DEF StepName
<1>4. GarbDoes(step, 1) /\ gPos = 0 /\ GarbPast("gcs")'
  BY <1>1, <1>2, <1>3, GarbDoesOnce
<1>5. GarbFrame
  BY <1>2, <1>4, GarbFrameOf DEF GarbDoes
<1>6. /\ Types' /\ EvalPlace' /\ OutputsCorrect'
      /\ IsSeq(active)' /\ IsSeq(result)' /\ IsSeq(bufE)'
      /\ \A s : EvalPast(s)' <=> EvalPast(s)
  BY <1>5, GarbStep
<1>7. PICK n, m : n = Sent /\ m = Message("gcs", bufG)
  OBVIOUS
<1>8. n \in Nat /\ ConnectionRight(n + 1, m)'
  <2>1. m = Message("gcs", bufG)'
    BY <1>2, <1>7 DEF Message
  <2>2. n \in Nat /\ n + 1 = 5 /\ phased
    BY <1>1, <1>4, <1>7, Places DEF GarbDoes, PlacesAre, IInv, GarbPlace, EvalPlace
  <2> QED  BY <1>2, <1>4, <2>1, <2>2, LinkWritten
<1>9. ToEval' /\ Buffers' /\ IsSeq(toEval)' /\ IsSeq(bufG)'
  <2>1. /\ GarbLink' = GarbLink + 1 /\ GarbCircuit' = GarbCircuit
        /\ EvalLink' = EvalLink /\ EvalCircuit' = EvalCircuit
    BY <1>1, <1>4 DEF GarbDoes, LinkSteps, CircuitSteps
  <2> QED  BY <1>1, <1>2, <1>5, <1>6, <1>7, <1>8, <2>1, LinkGrows DEF IInv, Sequences, IsSeq
<1>10. ToGarb' /\ IsSeq(toGarb)'
  BY <1>1, <1>2, <1>4, <1>5, GarbReadsNothing DEF GarbDoes, BackSteps
<1>11. InputLabels' /\ Garbled' /\ Evaluated' /\ LabelsEncode' /\ IsSeq(label0)'
  BY <1>1, <1>2, <1>3, <1>4, <1>5, GarbLabelsStay DEF GarbDoes
<1>12. Transferred'
  BY <1>1, <1>3, <1>4, <1>5, GarbTransferredStays DEF GarbDoes
<1>13. Learned'
  <2>1. /\ GarbPast("u")' <=> GarbPast("u")
        /\ GarbPast("check")' <=> GarbPast("check")
    BY <1>1, <1>4 DEF GarbDoes, GarbPassed, StepName
  <2> QED  BY <1>2, <1>4, <1>6, <2>1 DEF IInv, Learned, evaluator
<1>14. GarbPlace'
  BY <1>1, <1>2, <1>3, <1>4, GarbPlaceStays DEF GarbDoes
<1> QED  BY <1>6, <1>9, <1>10, <1>11, <1>12, <1>13, <1>14 DEF IInv, Sequences

LEMMA GarbChoicesKeeps == IInv /\ WholeBytes /\ GarbChoices => IInv'
<1> SUFFICES ASSUME IInv, WholeBytes, GarbChoices PROVE IInv'
  OBVIOUS
<1>1. PICK step : step = "choices"
  OBVIOUS
<1>2. /\ GarbAt(step) /\ toGarb # <<>> /\ GarbAdvance
      /\ UNCHANGED <<mode, value, R, curDelta, gOTs, label0, gId, bufG, evaluator, toEval>>
      /\ \A k \in OT : ByteOf(k) < BytesRead =>
            corrected'[k] = (k \in Head(toGarb).body[ByteOf(k)])
      /\ BytesRead = BytesSent /\ BytesSent \in Nat => toGarb' = <<>> \o Tail(toGarb)
  <2>1. /\ GarbAt(step) /\ toGarb # <<>> /\ GarbAdvance
        /\ UNCHANGED <<mode, value, R, curDelta, gOTs, label0, gId, bufG, evaluator, toEval>>
    BY <1>1 DEF GarbChoices
  <2>2. corrected' \in {bits \in [OT -> BOOLEAN] :
                          \A k \in OT : ByteOf(k) < BytesRead =>
                              bits[k] = (k \in Head(toGarb).body[ByteOf(k)])}
    BY DEF GarbChoices
  <2>3. \A k \in OT : ByteOf(k) < BytesRead =>
            corrected'[k] = (k \in Head(toGarb).body[ByteOf(k)])
    BY <2>2
  <2>4. BytesSent \in Nat => ~(BytesSent < BytesSent)
    OBVIOUS
  <2>5. BytesRead = BytesSent /\ BytesSent \in Nat => toGarb' = <<>> \o Tail(toGarb)
    BY <2>4 DEF GarbChoices
  <2> QED  BY <2>1, <2>3, <2>5
<1>3. step \in StepName \ DOMAIN Count /\ Times(step) = 1
  BY <1>1, TimesOf, Counts DEF StepName
<1>4. GarbDoes(step, 1) /\ gPos = 0 /\ ~GarbPast("choices")
  BY <1>1, <1>2, <1>3, GarbDoesOnce DEF GarbDoes
<1>5. GarbFrame
  <2>1. Begins(label0, label0')
    BY <1>2, SeqIs DEF IInv, Sequences, Begins
  <2> QED  BY <1>2, <1>4, <2>1 DEF GarbFrame, GarbDoes
<1>25. phased /\ BytesRead = BytesSent /\ BytesSent \in Nat
       /\ \A k \in OT : ByteOf(k) \in 0 .. BytesSent - 1
  <2>1. phased
    BY <1>1, <1>4, Places DEF GarbDoes, PlacesAre, IInv, GarbPlace, EvalPlace
  <2> QED  BY <2>1, AllBytesRead DEF WholeBytes
<1>26. FromEval
  <2>1. PICK S : toGarb \in Seq(S)
    BY DEF IInv, Sequences, IsSeq
  <2>2. Tail(toGarb) \in Seq(S)
    BY <1>2, <2>1
  <2>3. <<>> \o Tail(toGarb) = Tail(toGarb)
    BY <2>2
  <2> QED  BY <1>2, <1>25, <2>3 DEF FromEval
<1>6. ToEval' /\ Buffers' /\ IsSeq(toEval)' /\ IsSeq(bufG)'
  BY <1>1, <1>2, <1>4, <1>5, GarbWritesNothing DEF GarbDoes, LinkSteps, CircuitSteps
<1>7. ToGarb' /\ IsSeq(toGarb)' /\ AnswerRight(GarbBack + 1, Head(toGarb))
  BY <1>1, <1>2, <1>4, <1>5, <1>26, AnswerShrinks DEF GarbDoes, BackSteps
<1>8. /\ Types' /\ EvalPlace' /\ OutputsCorrect'
      /\ IsSeq(active)' /\ IsSeq(result)' /\ IsSeq(bufE)'
      /\ \A s : EvalPast(s)' <=> EvalPast(s)
  BY <1>5, GarbStep
<1>9. InputLabels' /\ Garbled' /\ Evaluated' /\ LabelsEncode' /\ IsSeq(label0)'
  BY <1>1, <1>2, <1>3, <1>4, <1>5, GarbLabelsStay DEF GarbDoes
<1>10. Learned'
  BY <1>1, <1>3, <1>4, <1>5, GarbLearnedStays DEF GarbDoes
<1>11. GarbPlace'
  BY <1>1, <1>2, <1>3, <1>4, GarbPlaceStays DEF GarbDoes
<1>12. Transferred'
  <2>1. GarbBack + 1 = 8
    BY <1>1, <1>4, Places DEF GarbDoes, PlacesAre, IInv, GarbPlace, EvalPlace
  <2>2. Head(toGarb).body = Bytes([k \in OT |-> All[k] # randChoices[k]])
    BY <1>7, <2>1 DEF AnswerRight, Message
  <2>3. ASSUME NEW k \in OT PROVE corrected'[k] = (All[k] # randChoices[k])
    <3>1. ByteOf(k) \in 0 .. BytesSent - 1 /\ ByteOf(k) < BytesRead
      BY <1>25
    <3>2. Head(toGarb).body[ByteOf(k)]
            = {l \in OT : ByteOf(l) = ByteOf(k) /\ All[l] # randChoices[l]}
      BY <2>2, <3>1 DEF Bytes
    <3>3. k \in Head(toGarb).body[ByteOf(k)] <=> All[k] # randChoices[k]
      BY <3>2
    <3>4. corrected'[k] = (k \in Head(toGarb).body[ByteOf(k)])
      BY <1>2, <3>1
    <3> QED  BY <3>3, <3>4
  <2>4. GarbPast("u")' <=> GarbPast("u")
    BY <1>1, <1>4 DEF GarbDoes, GarbPassed, StepName
  <2>5. /\ randChoices' = randChoices /\ eOTs' = eOTs /\ All' = All /\ phased' = phased
    BY <1>2, ModeKept DEF evaluator, All
  <2> QED  BY <1>2, <1>8, <2>3, <2>4, <2>5 DEF IInv, Transferred
<1> QED  BY <1>6, <1>7, <1>8, <1>9, <1>10, <1>11, <1>12 DEF IInv, Sequences

LEMMA GarbUKeeps == IInv /\ GarbU => IInv'
<1> SUFFICES ASSUME IInv, GarbU PROVE IInv'
  OBVIOUS
<1>1. PICK step : step = "u"
  OBVIOUS
<1>2. /\ GarbAt(step) /\ FromEval /\ GarbAdvance
      /\ gOTs' = [k \in OT |-> Xor(Head(toGarb).body.row[k],
                                    When(Head(toGarb).body.choice[k], curDelta'))]
      /\ UNCHANGED <<mode, value, R, label0, corrected, gId, bufG, evaluator, toEval>>
  BY <1>1 DEF GarbU
<1>3. step \in StepName \ DOMAIN Count /\ Times(step) = 1
  BY <1>1, TimesOf, Counts DEF StepName
<1>4. GarbDoes(step, 1) /\ gPos = 0 /\ ~GarbPast("u")
  BY <1>1, <1>2, <1>3, GarbDoesOnce DEF GarbDoes
<1>5. GarbFrame
  <2>1. Begins(label0, label0')
    BY <1>2, SeqIs DEF IInv, Sequences, Begins
  <2> QED  BY <1>2, <1>4, <2>1 DEF GarbFrame, GarbDoes
<1>6. ToEval' /\ Buffers' /\ IsSeq(toEval)' /\ IsSeq(bufG)'
  BY <1>1, <1>2, <1>4, <1>5, GarbWritesNothing DEF GarbDoes, LinkSteps, CircuitSteps
<1>7. ToGarb' /\ IsSeq(toGarb)' /\ AnswerRight(GarbBack + 1, Head(toGarb))
  BY <1>1, <1>2, <1>4, <1>5, AnswerShrinks DEF GarbDoes, BackSteps
<1>8. /\ Types' /\ EvalPlace' /\ OutputsCorrect'
      /\ IsSeq(active)' /\ IsSeq(result)' /\ IsSeq(bufE)'
      /\ \A s : EvalPast(s)' <=> EvalPast(s)
  BY <1>5, GarbStep
<1>9. InputLabels' /\ Garbled' /\ Evaluated' /\ LabelsEncode' /\ IsSeq(label0)'
  BY <1>1, <1>2, <1>3, <1>4, <1>5, GarbLabelsStay DEF GarbDoes
<1>10. GarbPlace'
  BY <1>1, <1>2, <1>3, <1>4, GarbPlaceStays DEF GarbDoes
<1>11. GarbBack + 1 = 5
  BY <1>1, <1>4, Places DEF GarbDoes, PlacesAre, IInv, GarbPlace, EvalPlace
<1>12. ~EvalPast("offset")
  BY <1>4 DEF IInv, Learned
<1>13. /\ EvalPast("u") /\ Head(toGarb).body.choice = randChoices
       /\ Head(toGarb).body.row = eOTs
  BY <1>7, <1>11, <1>12 DEF AnswerRight
<1>14. /\ GarbPast("check")' <=> GarbPast("check")
       /\ GarbPast("gcs")' <=> GarbPast("gcs")
       /\ GarbPast("choices")' <=> GarbPast("choices")
  BY <1>1, <1>4 DEF GarbDoes, GarbPassed, StepName
<1>15. Learned'
  BY <1>2, <1>8, <1>12, <1>13, <1>14 DEF IInv, Learned, evaluator
<1>16. Transferred'
  <2>1. ~GarbPast("choices")'
    BY <1>4, <1>14, GarbOrder DEF IInv, GarbPlace
  <2>2. /\ randChoices' = randChoices /\ eOTs' = eOTs /\ All' = All /\ phased' = phased
    BY <1>2, ModeKept DEF evaluator, All
  <2>3. \A k \in OT : gOTs'[k] = Xor(eOTs[k], When(randChoices[k], curDelta'))
    BY <1>2, <1>13
  <2> QED  BY <1>8, <1>12, <2>1, <2>2, <2>3 DEF IInv, Transferred
<1> QED  BY <1>6, <1>7, <1>8, <1>9, <1>10, <1>15, <1>16 DEF IInv, Sequences

LEMMA GarbLabelsKeeps == IInv /\ GarbLabels => IInv'
<1> SUFFICES ASSUME IInv, GarbLabels PROVE IInv'
  OBVIOUS
<1>1. PICK step : step = "labels"
  OBVIOUS
<1>2. /\ GarbAt(step) /\ gPos < Count[step] /\ GarbMore
      /\ SendToEval(<<Message("labels",
                              [i \in Lane |-> LET k == OTIndex(gPos, i)
                                              IN  Xor(label0[mInputA_size + gPos + 1][i],
                                                      OTMessage(k, corrected[k]))])>>)
      /\ UNCHANGED <<mode, value, R, curDelta, gOTs, label0, corrected, gId, bufG, evaluator, toGarb>>
  BY <1>1 DEF GarbLabels
<1>3. step \in StepName \ {"bob", "u", "choices", "check", "gcs"} /\ step \in DOMAIN Count
  BY <1>1, Counts DEF StepName
<1>4. GarbDoes(step, 1) /\ gPos + 1 \in 1 .. mInputB_size
  BY <1>1, <1>2, <1>3, Counts, GarbDoesRound
<1>5. GarbFrame
  BY <1>2, <1>4, GarbFrameOf DEF GarbDoes
<1>6. /\ Types' /\ EvalPlace' /\ OutputsCorrect'
      /\ IsSeq(active)' /\ IsSeq(result)' /\ IsSeq(bufE)'
      /\ \A s : EvalPast(s)' <=> EvalPast(s)
  BY <1>5, GarbStep
<1>7. PICK b \in 1 .. mInputB_size : b = gPos + 1
  BY <1>4
<1>8. PICK n, m : n = Sent /\ m = Message("labels", Hidden(b))
  OBVIOUS
<1>9. SendToEval(<<m>>)
  <2>1. gPos = b - 1 /\ mInputA_size + gPos + 1 = mInputA_size + b
    BY <1>4, <1>7, Counts DEF GarbDoes
  <2> QED  BY <1>2, <1>8, <2>1 DEF Hidden
<1>10. n \in Nat /\ ConnectionRight(n + 1, m)'
  <2>1. m = Message("labels", Hidden(b))'
    BY <1>2, <1>8 DEF Message, Hidden, OTMessage
  <2>2. n \in Nat /\ n + 1 = LabelsAt(b) /\ phased
    BY <1>1, <1>4, <1>7, <1>8, Places DEF GarbDoes, PlacesAre, IInv, GarbPlace, EvalPlace
  <2>3. GarbPast("choices")
    BY <1>1, <1>4, <2>2 DEF GarbDoes, GarbPast, GarbIndex, GarbPhases
  <2>4. GarbPast("choices")'
    BY <1>4, <2>3 DEF GarbDoes, StepName
  <2> QED  BY <1>2, <2>1, <2>2, <2>4, LabelsWritten
<1>11. ToEval' /\ Buffers' /\ IsSeq(toEval)' /\ IsSeq(bufG)'
  <2>1. /\ GarbLink' = GarbLink + 1 /\ GarbCircuit' = GarbCircuit
        /\ EvalLink' = EvalLink /\ EvalCircuit' = EvalCircuit
    BY <1>1, <1>4 DEF GarbDoes, LinkSteps, CircuitSteps
  <2> QED  BY <1>2, <1>5, <1>6, <1>8, <1>9, <1>10, <2>1, LinkGrows DEF IInv, Sequences, IsSeq
<1>12. ToGarb' /\ IsSeq(toGarb)'
  BY <1>1, <1>2, <1>4, <1>5, GarbReadsNothing DEF GarbDoes, BackSteps
<1>13. InputLabels' /\ Garbled' /\ Evaluated' /\ LabelsEncode' /\ IsSeq(label0)'
  BY <1>2, <1>3, <1>4, <1>5, GarbLabelsStay DEF GarbDoes
<1>14. Transferred' /\ Learned'
  BY <1>3, <1>4, <1>5, GarbTransferredStays, GarbLearnedStays DEF GarbDoes
<1>15. GarbPlace'
  BY <1>1, <1>2, <1>3, <1>4, GarbPlaceStays DEF GarbDoes
<1> QED  BY <1>6, <1>11, <1>12, <1>13, <1>14, <1>15 DEF IInv, Sequences

LEMMA GarbOutputKeeps == IInv /\ GarbOutput => IInv'
<1> SUFFICES ASSUME IInv, GarbOutput PROVE IInv'
  OBVIOUS
<1>1. PICK step : step = "outputs"
  OBVIOUS
<1>2. /\ GarbAt(step) /\ gPos < Count[step] /\ GarbMore
      /\ ToCircuit(<<Message("output", SelectBits(label0[Outputs[gPos + 1]]))>>)
      /\ UNCHANGED <<mode, value, R, curDelta, gOTs, label0, corrected, gId, evaluator, toGarb>>
  BY <1>1 DEF GarbOutput
<1>3. step \in StepName \ {"bob", "u", "choices", "check", "gcs"} /\ step \in DOMAIN Count
  BY <1>1, Counts DEF StepName
<1>4. GarbDoes(step, 1) /\ gPos + 1 \in DOMAIN Outputs
  BY <1>1, <1>2, <1>3, Counts, GarbDoesRound
<1>5. GarbPast("gates") /\ ~GarbPast("gcs")
  BY <1>1, <1>4, Scripts
     DEF GarbDoes, GarbPast, GarbIndex, GarbPhases, Direct, Never, IInv, GarbPlace
<1>6. GarbFrame
  BY <1>2, <1>4, <1>5, GarbFrameOf DEF GarbDoes
<1>7. /\ Types' /\ EvalPlace' /\ OutputsCorrect'
      /\ IsSeq(active)' /\ IsSeq(result)' /\ IsSeq(bufE)'
      /\ \A s : EvalPast(s)' <=> EvalPast(s)
  BY <1>6, GarbStep
<1>8. PICK o, n, m, q : /\ o = gPos + 1 /\ n = CircuitSent
                        /\ m = Message("output", SelectBits(label0[Outputs[o]])) /\ q = <<m>>
  OBVIOUS
<1>9. IsSeq(q) /\ Len(q) = 1 /\ q[1] = m /\ ToCircuit(q)
  BY <1>2, <1>8, OneIs
<1>10. n \in Nat /\ n + 1 = OutputAt(o) /\ o \in DOMAIN Outputs
  BY <1>1, <1>4, <1>8, Places DEF GarbDoes, PlacesAre, IInv, GarbPlace, EvalPlace
<1>11. CircuitRight(n + 1, m)'
  <2>1. NumWires <= Len(label0)' /\ m = Message("output", SelectBits(label0'[Outputs[o]]))
    BY <1>2, <1>5, <1>8, GarbMade, Counts DEF IInv
  <2> QED  BY <1>2, <1>10, <2>1, OutputRight
<1>12. ~phased => ConnectionRight(n + 1, m)'
  <2>1. n + 1 \in Nat /\ n + 1 > TablesFrom
    BY <1>10, PlacesApart, AndsBound
  <2> QED  BY <1>2, <1>11, <2>1, CircuitOnConnection
<1>13. ToEval' /\ Buffers' /\ IsSeq(toEval)' /\ IsSeq(bufG)'
  <2>1. /\ GarbLink' = GarbLink /\ GarbCircuit' = GarbCircuit + Len(q)
        /\ EvalLink' = EvalLink /\ EvalCircuit' = EvalCircuit
    BY <1>1, <1>4, <1>9 DEF GarbDoes, LinkSteps
  <2>2. \A k \in 1 .. Len(q) : CircuitRight(n + k, q[k])' /\ (~phased => ConnectionRight(n + k, q[k])')
    <3>1. \A k \in 1 .. Len(q) : k = 1
      BY <1>9
    <3> QED  BY <1>9, <1>11, <1>12, <3>1
  <2> QED  BY <1>5, <1>6, <1>7, <1>8, <1>9, <1>10, <2>1, <2>2, CircuitGrows
<1>14. ToGarb' /\ IsSeq(toGarb)'
  BY <1>1, <1>2, <1>4, <1>6, GarbReadsNothing DEF GarbDoes, BackSteps
<1>15. InputLabels' /\ Garbled' /\ Evaluated' /\ LabelsEncode' /\ IsSeq(label0)'
  BY <1>2, <1>3, <1>4, <1>6, GarbLabelsStay DEF GarbDoes
<1>16. Transferred' /\ Learned'
  BY <1>3, <1>4, <1>6, GarbTransferredStays, GarbLearnedStays DEF GarbDoes
<1>17. GarbPlace'
  BY <1>1, <1>2, <1>3, <1>4, GarbPlaceStays DEF GarbDoes
<1> QED  BY <1>7, <1>13, <1>14, <1>15, <1>16, <1>17 DEF IInv, Sequences

LEMMA GarbNextStepKeeps == IInv /\ GarbNextStep => IInv'
<1> SUFFICES ASSUME IInv, GarbNextStep PROVE IInv'
  OBVIOUS
<1>1. PICK step \in DOMAIN Count : GarbAt(step) /\ gPos = Count[step]
  BY DEF GarbNextStep
<1>2. /\ GarbAdvance
      /\ UNCHANGED <<mode, value, R, curDelta, gOTs, label0, corrected, gId, bufG, evaluator,
                     toEval, toGarb>>
  BY DEF GarbNextStep
<1>3. step \in StepName \ {"bob", "u", "choices", "check", "gcs"} /\ step \notin BackSteps
  BY <1>1, Counts DEF StepName, BackSteps
<1>4. GarbDoes(step, 0)
  BY <1>1, <1>2, GarbDoesEnd
<1>5. GarbFrame
  BY <1>2, <1>4, GarbFrameOf DEF GarbDoes
<1>6. /\ Types' /\ EvalPlace' /\ OutputsCorrect'
      /\ IsSeq(active)' /\ IsSeq(result)' /\ IsSeq(bufE)'
  BY <1>5, GarbStep
<1>7. GarbLink \in Nat
  BY Places DEF IInv, GarbPlace, EvalPlace
<1>8. ToEval' /\ Buffers' /\ IsSeq(toEval)' /\ IsSeq(bufG)'
  BY <1>2, <1>4, <1>5, <1>7, GarbWritesNothing DEF GarbDoes
<1>9. ToGarb' /\ IsSeq(toGarb)'
  BY <1>2, <1>3, <1>4, <1>5, GarbReadsNothing DEF GarbDoes
<1>10. InputLabels' /\ Garbled' /\ Evaluated' /\ LabelsEncode' /\ IsSeq(label0)'
  BY <1>2, <1>3, <1>4, <1>5, GarbLabelsStay DEF GarbDoes
<1>11. Transferred' /\ Learned'
  BY <1>3, <1>4, <1>5, GarbTransferredStays, GarbLearnedStays DEF GarbDoes
<1>12. GarbPlace'
  BY <1>2, <1>3, <1>4, GarbPlaceStays DEF GarbDoes
<1> QED  BY <1>6, <1>8, <1>9, <1>10, <1>11, <1>12 DEF IInv, Sequences

-----------------------------------------------------------------------------
(* New labels of the garbler *)

LEMMA SeqOf ==
    ASSUME NEW n \in Nat, NEW S, NEW f \in [1 .. n -> S]
    PROVE  IsSeq(f) /\ Len(f) = n
<1>1. f \in Seq(S)
  BY SeqDef
<1>2. Len(f) \in Nat /\ DOMAIN f = 1 .. Len(f)
  BY <1>1
<1>3. 1 .. n = 1 .. Len(f)
  BY <1>2
<1>4. Len(f) = n
  BY <1>2, <1>3
<1> QED  BY <1>1, <1>4 DEF IsSeq

\* The plain values of the wires.
LEMMA Values ==
    ASSUME Types, NEW i \in Lane
    PROVE  /\ \A w \in 1 .. NumWires : value[i][w] \in BOOLEAN
           /\ \A g \in DOMAIN Gates :
                 /\ Gates[g].op = "NOT" => value[i][NumInputs + g] = ~value[i][Gates[g].a]
                 /\ Gates[g].op = "XOR" => value[i][NumInputs + g]
                                              = (value[i][Gates[g].a] # value[i][Gates[g].b])
                 /\ Gates[g].op = "AND" => value[i][NumInputs + g]
                                              = (value[i][Gates[g].a] /\ value[i][Gates[g].b])
<1>1. PICK v : v = value[i]
  OBVIOUS
<1>2. v \in [Wire -> BOOLEAN] /\ Computes(v)
  BY <1>1 DEF Types, Plain
<1>3. ASSUME NEW g \in DOMAIN Gates
      PROVE  /\ Gates[g].op = "NOT" => v[NumInputs + g] = ~v[Gates[g].a]
             /\ Gates[g].op = "XOR" => v[NumInputs + g] = (v[Gates[g].a] # v[Gates[g].b])
             /\ Gates[g].op = "AND" => v[NumInputs + g] = (v[Gates[g].a] /\ v[Gates[g].b])
  <2>1. v[NumInputs + g] = Operation(Gates[g], v)
    BY <1>2 DEF Computes
  <2>2. CASE Gates[g].op = "NOT"
    <3>1. Operation(Gates[g], v) = ~v[Gates[g].a]
      BY <2>2, Zenon DEF Operation
    <3>2. Gates[g].op # "XOR" /\ Gates[g].op # "AND"
      BY <2>2
    <3> QED  BY <2>1, <3>1, <3>2, Zenon
  <2>3. CASE Gates[g].op = "XOR"
    <3>1. Gates[g].op # "NOT" /\ Gates[g].op # "AND"
      BY <2>3
    <3>2. Operation(Gates[g], v) = (v[Gates[g].a] # v[Gates[g].b])
      BY <2>3, <3>1, Zenon DEF Operation
    <3> QED  BY <2>1, <3>1, <3>2, Zenon
  <2>4. CASE Gates[g].op = "AND"
    <3>1. Gates[g].op # "NOT" /\ Gates[g].op # "XOR"
      BY <2>4
    <3>2. Operation(Gates[g], v) = (v[Gates[g].a] /\ v[Gates[g].b])
      BY <2>4, <3>1, Zenon DEF Operation
    <3> QED  BY <2>1, <3>1, <3>2, Zenon
  <2> QED  BY <2>2, <2>3, <2>4, GateWires
<1> QED  BY <1>1, <1>2, <1>3 DEF Wire

\* The garbler has more labels: what was said of the others stays.
LEMMA GarbledGrows ==
    ASSUME IInv, GarbFrame, IsSeq(label0)',
           \A g \in DOMAIN Gates : NumInputs + g > Len(label0) /\ NumInputs + g <= Len(label0)' =>
              /\ Gates[g].op = "NOT" =>
                    label0'[NumInputs + g] = XorAll(label0[Gates[g].a], Same(R))
              /\ Gates[g].op = "XOR" =>
                    label0'[NumInputs + g] = XorAll(label0[Gates[g].a], label0[Gates[g].b])
              /\ Gates[g].op = "AND" =>
                    label0'[NumInputs + g] = GarbledAndAll(R, label0[Gates[g].a],
                                                           label0[Gates[g].b], Ands(g - 1)),
           Len(label0)' <= NumInputs \/ Len(label0)' <= Len(label0) + 1
    PROVE  Garbled'
<1>1. /\ Len(label0) \in Nat /\ Len(label0)' \in Nat /\ Len(label0)' >= Len(label0)
      /\ \A k \in 1 .. Len(label0) : label0'[k] = label0[k] /\ R' = R
  <2>1. Len(label0') \in Nat
    BY SeqIs
  <2> QED  BY <2>1, SeqIs DEF IInv, Sequences, GarbFrame, Begins
<1>2. ASSUME NEW g \in DOMAIN Gates, NumInputs + g <= Len(label0)'
      PROVE  /\ Gates[g].op = "NOT" => label0'[NumInputs + g] = XorAll(label0'[Gates[g].a], Same(R'))
             /\ Gates[g].op = "XOR" =>
                   label0'[NumInputs + g] = XorAll(label0'[Gates[g].a], label0'[Gates[g].b])
             /\ Gates[g].op = "AND" =>
                   label0'[NumInputs + g] = GarbledAndAll(R', label0'[Gates[g].a],
                                                          label0'[Gates[g].b], Ands(g - 1))
  <2>1. NumInputs \in Nat /\ g \in Nat /\ g >= 1
    BY Counts
  <2>2. Gates[g].a \in 1 .. Len(label0) /\ Gates[g].b \in 1 .. Len(label0)
    BY <1>1, <1>2, <2>1, GateWires, Counts
  <2>3. label0'[Gates[g].a] = label0[Gates[g].a] /\ label0'[Gates[g].b] = label0[Gates[g].b]
        /\ R' = R
    BY <1>1, <2>2
  <2>4. CASE NumInputs + g <= Len(label0)
    <3>1. NumInputs + g \in 1 .. Len(label0)
      BY <1>1, <2>1, <2>4
    <3>2. label0'[NumInputs + g] = label0[NumInputs + g]
      BY <1>1, <3>1
    <3> QED  BY <2>3, <2>4, <3>2 DEF IInv, Garbled
  <2>5. CASE NumInputs + g > Len(label0)
    BY <1>2, <2>3, <2>5
  <2> QED  BY <1>1, <2>1, <2>4, <2>5
<1> QED  BY <1>2 DEF Garbled

LEMMA EvaluatedGrows ==
    ASSUME IInv, GarbFrame, IsSeq(label0)'
    PROVE  Evaluated'
<1>1. Len(label0) \in Nat /\ Len(label0)' \in Nat /\ Len(label0)' >= Len(label0) /\ active' = active
  <2>1. Len(label0') \in Nat
    BY SeqIs
  <2> QED  BY <2>1, SeqIs DEF IInv, Sequences, GarbFrame, Begins, evaluator
<1>2. \A g \in DOMAIN Gates : NumInputs + g <= Len(label0) => NumInputs + g <= Len(label0)'
  BY <1>1, Counts
<1> QED  BY <1>1, <1>2 DEF IInv, Evaluated

LEMMA LabelsEncodeGrows ==
    ASSUME IInv, GarbFrame, IsSeq(label0)',
           \A w \in 1 .. Len(active) : w > Len(label0) /\ w <= Len(label0)' => \A i \in Lane :
              active[w][i] = Xor(label0'[w][i], When(value[i][w], R))
    PROVE  LabelsEncode'
<1>1. /\ Len(label0) \in Nat /\ \A k \in 1 .. Len(label0) : label0'[k] = label0[k]
      /\ active' = active /\ value' = value /\ R' = R
  BY SeqIs DEF IInv, Sequences, GarbFrame, Begins, evaluator
<1>2. ASSUME NEW w \in 1 .. Len(active), w <= Len(label0)', NEW i \in Lane
      PROVE  active[w][i] = Xor(label0'[w][i], When(value[i][w], R))
  <2>1. CASE w <= Len(label0)
    <3>1. w \in 1 .. Len(label0)
      BY <1>1, <2>1, SeqIs DEF IInv, Sequences
    <3> QED  BY <1>1, <2>1, <3>1 DEF IInv, LabelsEncode
  <2>2. CASE w > Len(label0)
    BY <1>2, <2>2
  <2>3. w \in Nat
    BY SeqIs DEF IInv, Sequences
  <2> QED  BY <1>1, <2>1, <2>2, <2>3
<1> QED  BY <1>1, <1>2 DEF LabelsEncode

LEMMA InputLabelsGrow ==
    ASSUME IInv, GarbFrame, NEW step \in StepName \ {"bob"}, GarbPassed(step)
    PROVE  InputLabels'
<1>1. /\ phased' = phased /\ active' = active /\ eOTs' = eOTs
      /\ \A k \in 1 .. Len(label0) : label0'[k] = label0[k]
  BY ModeKept DEF GarbFrame, evaluator, Begins
<1>2. GarbPast("bob")' <=> GarbPast("bob")
  BY DEF GarbPassed, StepName
<1>3. EvalPast("bob")' <=> EvalPast("bob")
  BY GarbStep
<1>4. ASSUME GarbPast("bob"), NEW b \in 1 .. mInputB_size
      PROVE  gOTs' = gOTs /\ label0'[mInputA_size + b] = label0[mInputA_size + b]
  <2>1. gOTs' = gOTs
    BY <1>4, GarbOrder DEF IInv, GarbPlace, GarbFrame
  <2>2. mInputA_size + b \in 1 .. Len(label0)
    BY <1>4, GarbMade, SeqIs, Counts DEF IInv, Sequences
  <2> QED  BY <1>1, <2>1, <2>2
<1> QED  BY <1>1, <1>2, <1>3, <1>4 DEF IInv, InputLabels

\* The choice of the evaluator for its input b in lane i.
LEMMA ChoiceOf ==
    ASSUME NEW b \in 1 .. mInputB_size, NEW i \in Lane
    PROVE  /\ OTIndex(b - 1, i) \in OT
           /\ All[OTIndex(b - 1, i)] = value[i][mInputA_size + b]
<1>1. PICK B, S : B = mInputB_size /\ S = SIMDInputs
  OBVIOUS
<1>2. B \in Nat /\ S \in Nat /\ b \in Nat /\ b >= 1 /\ b <= B /\ i \in Nat /\ i <= S - 1
  BY <1>1, SIMDAssumption DEF Lane
<1>3. PICK c \in Nat : c = b - 1
  BY <1>2
<1>4. PICK k : k = i * B + c
  OBVIOUS
<1>5. c < B /\ B \in Nat \ {0}
  BY <1>2, <1>3
<1>6. (k \div B) = i /\ (k % B) = c
  <2>1. i * B \in Int /\ k \in Int /\ i \in Int /\ c \in 0 .. B - 1
    BY <1>2, <1>3, <1>4, <1>5
  <2> QED  BY ONLY <1>4, <1>5, <2>1, DivisionUnique
<1>7. k \in Nat /\ k <= B * S - 1
  <2>1. i * B \in Nat /\ k \in Nat
    BY <1>2, <1>3, <1>4
  <2>2. i * B + B <= S * B
    BY <1>2
  <2> QED  BY <1>2, <1>4, <1>5, <2>1, <2>2
<1>8. k = OTIndex(b - 1, i)
  BY <1>1, <1>3, <1>4 DEF OTIndex
<1>9. k \in OT
  BY <1>1, <1>2, <1>7 DEF OT, NumOTs
<1>10. All[k] = value[k \div B][mInputA_size + (k % B) + 1]
  BY <1>1, <1>9 DEF All
<1>11. mInputA_size + c + 1 = mInputA_size + b
  BY <1>2, <1>3, Counts
<1>12. All[k] = value[i][mInputA_size + c + 1]
  BY <1>6, <1>10
<1> QED  BY <1>8, <1>9, <1>11, <1>12

\* A new label at the end, for one of the garbler's inputs or a gate.
LEMMA OneMore ==
    ASSUME IInv, NEW label, label0' = Append(label0, label)
    PROVE  /\ IsSeq(label0)' /\ Len(label0)' = Len(label0) + 1 /\ Len(label0) \in Nat
           /\ Begins(label0, label0') /\ label0'[Len(label0) + 1] = label
BY SeqIs, Appended DEF IInv, Sequences

\* The labels counted by the steps that make them.
LEMMA GarbCounted ==
    ASSUME GarbPlace, NEW step \in {"alice", "bob", "gates"}, NEW n \in Nat,
           GarbMoves(step, n), Len(label0)' = Len(label0) + n
    PROVE  Len(label0)' = GarbDid("alice")' + GarbDid("bob")' + GarbDid("gates")'
<1>1. PICK a, b, g : a = GarbDid("alice") /\ b = GarbDid("bob") /\ g = GarbDid("gates")
  OBVIOUS
<1>2. a \in Nat /\ b \in Nat /\ g \in Nat
  <2>1. \A s \in StepName : GarbDid(s) \in Nat
    BY Scripts, DidType DEF GarbPlace, GarbDid
  <2> QED  BY <1>1, <2>1 DEF StepName
<1>3. Len(label0)' = a + b + g + n
  BY <1>1 DEF GarbPlace
<1>4. CASE step = "alice"
  <2>1. GarbDid("alice")' = a + n /\ GarbDid("bob")' = b /\ GarbDid("gates")' = g
    BY <1>1, <1>4 DEF GarbMoves, StepName
  <2> QED  BY ONLY <1>2, <1>3, <2>1, n \in Nat
<1>5. CASE step = "bob"
  <2>1. GarbDid("alice")' = a /\ GarbDid("bob")' = b + n /\ GarbDid("gates")' = g
    BY <1>1, <1>5 DEF GarbMoves, StepName
  <2> QED  BY ONLY <1>2, <1>3, <2>1, n \in Nat
<1>6. CASE step = "gates"
  <2>1. GarbDid("alice")' = a /\ GarbDid("bob")' = b /\ GarbDid("gates")' = g + n
    BY <1>1, <1>6 DEF GarbMoves, StepName
  <2> QED  BY ONLY <1>2, <1>3, <2>1, n \in Nat
<1> QED  BY <1>4, <1>5, <1>6

LEMMA GarbAliceKeeps == IInv /\ GarbAlice => IInv'
<1> SUFFICES ASSUME IInv, GarbAlice PROVE IInv'
  OBVIOUS
<1>1. PICK step : step = "alice"
  OBVIOUS
<1>2. PICK draw, label, m :
         /\ draw \in Draws
         /\ label = IF Shared THEN Same(draw[0]) ELSE draw
         /\ m = Message(AliceKind, XorAll(label, WhenAll([i \in Lane |-> value[i][gPos + 1]], R)))
         /\ label0' = Append(label0, label) /\ ToCircuit(<<m>>)
  BY DEF GarbAlice, AliceKind
<1>3. /\ GarbAt(step) /\ gPos < Count[step] /\ GarbMore
      /\ UNCHANGED <<mode, value, R, curDelta, gOTs, corrected, gId, evaluator, toGarb>>
  BY <1>1 DEF GarbAlice
<1>4. step \in StepName \ {"bob", "u", "choices", "check", "gcs"} /\ step \in DOMAIN Count
  BY <1>1, Counts DEF StepName
<1>5. GarbDoes(step, 1) /\ gPos + 1 \in 1 .. mInputA_size
  BY <1>1, <1>3, <1>4, Counts, GarbDoesRound
<1>6. ~GarbPast("u") \/ phased
  BY <1>1, <1>5 DEF GarbDoes, GarbPast, GarbIndex, Direct
<1>7. ~GarbPast("gcs") /\ ~GarbPast("choices")
  BY <1>1, <1>5, Scripts
     DEF GarbDoes, GarbPast, GarbIndex, GarbPhases, Direct, Never, IInv, GarbPlace
<1>8. /\ IsSeq(label0)' /\ Len(label0)' = Len(label0) + 1 /\ Len(label0) = gPos
      /\ Begins(label0, label0') /\ label0'[Len(label0) + 1] = label
  BY <1>1, <1>2, <1>5, OneMore, GarbMade DEF GarbDoes, IInv
<1>9. GarbFrame
  BY <1>3, <1>5, <1>7, <1>8 DEF GarbFrame, GarbDoes
<1>10. /\ Types' /\ EvalPlace' /\ OutputsCorrect'
       /\ IsSeq(active)' /\ IsSeq(result)' /\ IsSeq(bufE)'
       /\ \A s : EvalPast(s)' <=> EvalPast(s)
  BY <1>9, GarbStep
<1>11. PICK w, n, q : w = gPos + 1 /\ n = CircuitSent /\ q = <<m>>
  OBVIOUS
<1>12. IsSeq(q) /\ Len(q) = 1 /\ q[1] = m /\ ToCircuit(q)
  BY <1>2, <1>11, OneIs
<1>13. n \in Nat /\ n + 1 = AliceAt(w) /\ w \in 1 .. mInputA_size
  BY <1>1, <1>5, <1>11, Places DEF GarbDoes, PlacesAre, IInv, GarbPlace, EvalPlace
<1>14. CircuitRight(n + 1, m)'
  <2>1. w <= Len(label0)' /\ label0'[w] = label
    BY <1>5, <1>8, <1>11
  <2>2. m = Message(AliceKind, Encoding(w))'
    <3>1. AliceKind' = AliceKind
      BY <1>3, PlacesKept
    <3>2. Encoding(w)' = XorAll(label, WhenAll([i \in Lane |-> value[i][w]], R))
      BY <1>3, <2>1 DEF Encoding
    <3> QED  BY <1>2, <1>11, <3>1, <3>2 DEF Message
  <2> QED  BY <1>3, <1>13, <2>1, <2>2, AliceRight
<1>15. ~phased => ConnectionRight(n + 1, m)'
  BY <1>3, <1>13, <1>14, CircuitOnConnection
<1>16. ToEval' /\ Buffers' /\ IsSeq(toEval)' /\ IsSeq(bufG)'
  <2>1. /\ GarbLink' = GarbLink /\ GarbCircuit' = GarbCircuit + Len(q)
        /\ EvalLink' = EvalLink /\ EvalCircuit' = EvalCircuit
    BY <1>1, <1>5, <1>12 DEF GarbDoes, LinkSteps
  <2>2. \A k \in 1 .. Len(q) : CircuitRight(n + k, q[k])' /\ (~phased => ConnectionRight(n + k, q[k])')
    <3>1. \A k \in 1 .. Len(q) : k = 1
      BY <1>12
    <3> QED  BY <1>12, <1>14, <1>15, <3>1
  <2> QED  BY <1>7, <1>9, <1>10, <1>11, <1>12, <1>13, <2>1, <2>2, CircuitGrows
<1>17. ToGarb' /\ IsSeq(toGarb)'
  BY <1>1, <1>3, <1>5, <1>9, GarbReadsNothing DEF GarbDoes, BackSteps
<1>18. InputLabels' /\ Evaluated'
  BY <1>4, <1>5, <1>8, <1>9, InputLabelsGrow, EvaluatedGrows DEF GarbDoes
<1>19. Garbled'
  <2>1. Len(label0)' <= NumInputs /\ \A g \in DOMAIN Gates : NumInputs + g > Len(label0)'
    BY <1>5, <1>8, Counts
  <2>2. \A g \in DOMAIN Gates : ~(NumInputs + g <= Len(label0)')
    BY <1>5, <1>8, Counts
  <2> QED  BY <2>2 DEF Garbled
<1>20. LabelsEncode'
  <2>1. ASSUME NEW v \in 1 .. Len(active), v > Len(label0), v <= Len(label0)'
        PROVE  FALSE
    <3>1. Len(active) \in Nat /\ Len(label0) \in Nat
      BY SeqIs DEF IInv, Sequences
    <3>2. v = gPos + 1 /\ v \in 1 .. mInputA_size /\ v <= Len(active)
      BY <1>5, <1>8, <2>1, <3>1
    <3> QED  BY <2>1, <3>1, <3>2 DEF IInv, Learned
  <2> QED  BY <1>8, <1>9, <2>1, LabelsEncodeGrows
<1>21. Transferred' /\ Learned'
  BY <1>4, <1>5, <1>9, GarbTransferredStays, GarbLearnedStays DEF GarbDoes
<1>22. GarbPlace'
  <2>1. /\ GarbDid("alice")' = GarbDid("alice") + 1 /\ GarbDid("bob")' = GarbDid("bob")
        /\ GarbDid("gates")' = GarbDid("gates")
    BY <1>1, <1>5 DEF GarbDoes, GarbMoves, StepName
  <2>3. Len(label0)' = GarbDid("alice")' + GarbDid("bob")' + GarbDid("gates")'
    BY <1>1, <1>5, <1>8, GarbCounted DEF IInv, GarbDoes
  <2> QED  BY <1>3, <1>5, <2>1, <2>3 DEF IInv, GarbPlace, GarbDoes
<1> QED  BY <1>8, <1>10, <1>16, <1>17, <1>18, <1>19, <1>20, <1>21, <1>22 DEF IInv, Sequences

LEMMA GarbFreeKeeps == IInv /\ GarbFree => IInv'
<1> SUFFICES ASSUME IInv, GarbFree PROVE IInv'
  OBVIOUS
<1>1. PICK step, g : step = "gates" /\ g = gPos + 1
  OBVIOUS
<1>2. PICK label :
         /\ \/ Gates[g].op = "NOT" /\ label = XorAll(label0[Gates[g].a], Same(R))
            \/ Gates[g].op = "XOR" /\ label = XorAll(label0[Gates[g].a], label0[Gates[g].b])
         /\ label0' = Append(label0, label)
         /\ GarbAt(step) /\ gPos < Count[step] /\ GarbMore
         /\ UNCHANGED <<mode, value, R, curDelta, gOTs, corrected, evaluator, toGarb>>
         /\ UNCHANGED <<gId, bufG, toEval>>
  BY <1>1 DEF GarbFree, GarbMake, GarbGate, GarbA, GarbB
<1>3. step \in StepName \ {"bob", "u", "choices", "check", "gcs"} /\ step \in DOMAIN Count
  BY <1>1, Counts DEF StepName
<1>4. GarbDoes(step, 1) /\ g \in 1 .. NumGates /\ g \in DOMAIN Gates /\ gPos \in Nat
  BY <1>1, <1>2, <1>3, Counts, GarbDoesRound DEF GarbDoes
<1>5. ~GarbPast("gcs") /\ ~GarbPast("choices")
  BY <1>1, <1>4, Scripts
     DEF GarbDoes, GarbPast, GarbIndex, GarbPhases, Direct, Never, IInv, GarbPlace
<1>6. /\ IsSeq(label0)' /\ Len(label0)' = NumInputs + g /\ Len(label0) + 1 = NumInputs + g
      /\ Begins(label0, label0') /\ label0'[NumInputs + g] = label /\ Len(label0) \in Nat
  <2>1. Len(label0) = NumInputs + gPos
    BY <1>1, <1>4, GarbMade DEF GarbDoes, IInv
  <2>2. Len(label0) + 1 = NumInputs + g
    BY <1>1, <1>4, <2>1, Counts
  <2> QED  BY <1>2, <2>2, OneMore
<1>7. GarbFrame
  BY <1>2, <1>4, <1>5, <1>6 DEF GarbFrame, GarbDoes
<1>8. /\ Types' /\ EvalPlace' /\ OutputsCorrect'
      /\ IsSeq(active)' /\ IsSeq(result)' /\ IsSeq(bufE)'
      /\ \A s : EvalPast(s)' <=> EvalPast(s)
  BY <1>7, GarbStep
<1>9. ~IsAnd(g)
  BY <1>2 DEF IsAnd
<1>10. ToEval' /\ Buffers' /\ IsSeq(toEval)' /\ IsSeq(bufG)'
  BY <1>1, <1>2, <1>4, <1>7, <1>9, GarbWritesNothing DEF GarbDoes, LinkSteps
<1>11. ToGarb' /\ IsSeq(toGarb)'
  BY <1>1, <1>2, <1>4, <1>7, GarbReadsNothing DEF GarbDoes, BackSteps
<1>12. InputLabels' /\ Evaluated'
  BY <1>3, <1>4, <1>6, <1>7, InputLabelsGrow, EvaluatedGrows DEF GarbDoes
<1>13. \A h \in DOMAIN Gates : NumInputs + h > Len(label0) /\ NumInputs + h <= Len(label0)' => h = g
  BY <1>4, <1>6, Counts
<1>14. Garbled'
  BY <1>2, <1>6, <1>7, <1>13, GarbledGrows
<1>15. LabelsEncode'
  <2>1. ASSUME NEW w \in 1 .. Len(active), w > Len(label0), w <= Len(label0)', NEW i \in Lane
        PROVE  active[w][i] = Xor(label0'[w][i], When(value[i][w], R))
    <3>1. w = NumInputs + g /\ w <= Len(active) /\ Len(active) \in Nat
      BY <1>4, <1>6, <2>1, SeqIs, Counts DEF IInv, Sequences
    <3>2. PICK a, b : a = Gates[g].a /\ b = Gates[g].b
      OBVIOUS
    <3>3. /\ a \in 1 .. NumWires /\ b \in 1 .. NumWires
          /\ a \in 1 .. Len(active) /\ b \in 1 .. Len(active)
          /\ a <= Len(label0) /\ b <= Len(label0)
      BY <1>4, <1>6, <3>1, <3>2, GateWires, Counts
    <3>4. /\ active[a][i] = Xor(label0[a][i], When(value[i][a], R))
          /\ active[b][i] = Xor(label0[b][i], When(value[i][b], R))
      BY <2>1, <3>3 DEF IInv, LabelsEncode
    <3>5. PICK va \in BOOLEAN, vb \in BOOLEAN : va = value[i][a] /\ vb = value[i][b]
      BY <3>3, Values DEF IInv
    <3>6. CASE Gates[g].op = "NOT"
      <4>1. active[w] = active[a]
        BY <1>4, <3>1, <3>2, <3>6 DEF IInv, Evaluated
      <4>2. value[i][w] = ~va
        BY <1>4, <3>1, <3>2, <3>5, <3>6, Values DEF IInv
      <4>3. label0'[w][i] = Xor(label0[a][i], R)
        BY <1>2, <1>6, <3>1, <3>2, <3>6 DEF XorAll, Same
      <4>4. Xor(label0[a][i], When(va, R)) = Xor(Xor(label0[a][i], R), When(~va, R))
        BY NotCorrect DEF LabelOf
      <4> QED  BY <3>4, <3>5, <4>1, <4>2, <4>3, <4>4
    <3>7. CASE Gates[g].op = "XOR"
      <4>1. active[w] = XorAll(active[a], active[b])
        BY <1>4, <3>1, <3>2, <3>7 DEF IInv, Evaluated
      <4>2. value[i][w] = (va # vb)
        BY <1>4, <3>1, <3>2, <3>5, <3>7, Values DEF IInv
      <4>3. label0'[w][i] = Xor(label0[a][i], label0[b][i])
        BY <1>2, <1>6, <3>1, <3>2, <3>7 DEF XorAll
      <4>4. active[w][i] = Xor(active[a][i], active[b][i])
        BY <4>1 DEF XorAll
      <4>5. Xor(Xor(label0[a][i], When(va, R)), Xor(label0[b][i], When(vb, R)))
              = Xor(Xor(label0[a][i], label0[b][i]), When(va # vb, R))
        BY XorCorrect DEF LabelOf
      <4> QED  BY <3>4, <3>5, <4>2, <4>3, <4>4, <4>5
    <3> QED  BY <1>2, <3>6, <3>7
  <2> QED  BY <1>6, <1>7, <2>1, LabelsEncodeGrows
<1>16. Transferred' /\ Learned'
  BY <1>3, <1>4, <1>7, GarbTransferredStays, GarbLearnedStays DEF GarbDoes
<1>17. GarbPlace'
  <2>1. /\ GarbDid("alice")' = GarbDid("alice") /\ GarbDid("bob")' = GarbDid("bob")
        /\ GarbDid("gates")' = GarbDid("gates") + 1
    BY <1>1, <1>4 DEF GarbDoes, GarbMoves, StepName
  <2>3. Len(label0)' = GarbDid("alice")' + GarbDid("bob")' + GarbDid("gates")'
    BY <1>1, <1>2, <1>4, OneMore, GarbCounted DEF IInv, GarbDoes
  <2>4. GarbDid("gates") = gPos /\ GarbDid("gates")' = g
    <3>1. GarbDid("gates") = gPos
      BY <1>1, <1>2, <1>3, GarbAtStep DEF IInv, GarbPlace, EvalPlace
    <3> QED  BY <1>1, <2>1, <3>1
  <2>5. Ands(gPos + 1) = Ands(gPos)
    BY <1>1, <1>4, <1>9, AndsCount
  <2>6. gId' = Ands(GarbDid("gates")')
    BY <1>1, <1>2, <2>4, <2>5 DEF IInv, GarbPlace
  <2>7. Ands(GarbDid("gates")') = Ands(GarbDid("gates"))'
    BY DEF Ands, AndGates
  <2> QED  BY <1>4, <2>3, <2>6, <2>7 DEF GarbPlace, GarbDoes
<1> QED  BY <1>6, <1>8, <1>10, <1>11, <1>12, <1>14, <1>15, <1>16, <1>17 DEF IInv, Sequences

LEMMA GarbAndKeeps == IInv /\ GarbAnd => IInv'
<1> SUFFICES ASSUME IInv, GarbAnd PROVE IInv'
  OBVIOUS
<1>1. PICK step, g : step = "gates" /\ g = gPos + 1
  OBVIOUS
<1>2. PICK label, tg, te :
         /\ label = GarbledAndAll(R, label0[Gates[g].a], label0[Gates[g].b], gId)
         /\ tg = Message("TG", TableGAll(R, label0[Gates[g].a], label0[Gates[g].b], gId))
         /\ te = Message("TE", TableEAll(R, label0[Gates[g].a], label0[Gates[g].b], gId))
         /\ label0' = Append(label0, label)
  BY <1>1 DEF GarbAnd, GarbMake, GarbGate, GarbA, GarbB
<1>3. /\ GarbAt(step) /\ gPos < Count[step] /\ GarbMore /\ IsAnd(g)
      /\ UNCHANGED <<mode, value, R, curDelta, gOTs, corrected, evaluator, toGarb>>
      /\ ToCircuit(<<tg, te>>) /\ gId' = gId + 1
  BY <1>1, <1>2 DEF GarbAnd, GarbMake, GarbGate, GarbA, GarbB, IsAnd
<1>4. step \in StepName \ {"bob", "u", "choices", "check", "gcs"} /\ step \in DOMAIN Count
  BY <1>1, Counts DEF StepName
<1>5. GarbDoes(step, 1) /\ g \in 1 .. NumGates /\ g \in DOMAIN Gates /\ gPos \in Nat
  BY <1>1, <1>3, <1>4, Counts, GarbDoesRound DEF GarbDoes
<1>6. ~GarbPast("gcs") /\ ~GarbPast("choices")
  BY <1>1, <1>5, Scripts
     DEF GarbDoes, GarbPast, GarbIndex, GarbPhases, Direct, Never, IInv, GarbPlace
<1>7. /\ IsSeq(label0)' /\ Len(label0)' = NumInputs + g /\ Len(label0) + 1 = NumInputs + g
      /\ Begins(label0, label0') /\ label0'[NumInputs + g] = label /\ Len(label0) \in Nat
  <2>1. Len(label0) = NumInputs + gPos
    BY <1>1, <1>5, GarbMade DEF GarbDoes, IInv
  <2>2. Len(label0) + 1 = NumInputs + g
    BY <1>1, <1>5, <2>1, Counts
  <2> QED  BY <1>2, <2>2, OneMore
<1>8. GarbFrame
  BY <1>3, <1>5, <1>6, <1>7 DEF GarbFrame, GarbDoes
<1>9. /\ Types' /\ EvalPlace' /\ OutputsCorrect'
      /\ IsSeq(active)' /\ IsSeq(result)' /\ IsSeq(bufE)'
      /\ \A s : EvalPast(s)' <=> EvalPast(s)
  BY <1>8, GarbStep
<1>10. gId = Ands(g - 1) /\ Ands(g) = Ands(g - 1) + 1 /\ g - 1 = gPos
  <2>1. GarbDid("gates") = gPos
    BY <1>1, <1>3, <1>4, GarbAtStep DEF IInv, GarbPlace, EvalPlace
  <2>2. g - 1 = gPos
    BY <1>1, <1>5
  <2>3. Ands(gPos + 1) = Ands(gPos) + 1
    BY <1>1, <1>3, <1>5, AndsCount
  <2> QED  BY <1>1, <2>1, <2>2, <2>3 DEF IInv, GarbPlace
<1>11. PICK n, q : n = CircuitSent /\ q = <<tg, te>>
  OBVIOUS
<1>12. IsSeq(q) /\ Len(q) = 2 /\ q[1] = tg /\ q[2] = te /\ ToCircuit(q)
  BY <1>3, <1>11, TwoIs
<1>13. n \in Nat /\ n + 1 = TableAt(g)
  <2>1. n \in Nat /\ n + 1 = TablesFrom + 2 * Ands(gPos) + 1
    BY <1>1, <1>5, <1>11, Places DEF GarbDoes, PlacesAre, IInv, GarbPlace, EvalPlace
  <2> QED  BY <1>10, <2>1 DEF TableAt
<1>14. tg = Message("TG", TG(g))' /\ te = Message("TE", TE(g))'
  <2>1. Gates[g].a \in 1 .. Len(label0) /\ Gates[g].b \in 1 .. Len(label0)
    <3>1. PICK a, b, l : a = Gates[g].a /\ b = Gates[g].b /\ l = Len(label0)
      OBVIOUS
    <3>2. a \in 1 .. NumWires /\ b \in 1 .. NumWires /\ a < NumInputs + g /\ b < NumInputs + g
      BY <1>5, <3>1, GateWires
    <3>3. NumInputs \in Nat /\ NumWires \in Nat /\ g \in Nat /\ l \in Nat /\ l + 1 = NumInputs + g
      BY <1>5, <1>7, <3>1, Counts
    <3>4. a \in 1 .. l /\ b \in 1 .. l
      BY ONLY <3>2, <3>3
    <3> QED  BY <3>1, <3>4
  <2>2. label0'[Gates[g].a] = label0[Gates[g].a] /\ label0'[Gates[g].b] = label0[Gates[g].b]
    BY <1>7, <2>1 DEF Begins
  <2>3. TG(g)' = TableGAll(R, label0[Gates[g].a], label0[Gates[g].b], gId)
    BY <1>3, <1>10, <2>2 DEF TG, Ands, AndGates
  <2>4. TE(g)' = TableEAll(R, label0[Gates[g].a], label0[Gates[g].b], gId)
    BY <1>3, <1>10, <2>2 DEF TE, Ands, AndGates
  <2> QED  BY <1>2, <2>3, <2>4 DEF Message
<1>15. CircuitRight(n + 1, tg)' /\ CircuitRight(n + 2, te)'
  <2>1. NumInputs + g <= Len(label0)'
    BY <1>5, <1>7, Counts
  <2>2. n + 1 = TableAt(g) /\ n + 2 = TableAt(g) + 1
    BY <1>13
  <2> QED  BY <1>3, <1>5, <1>14, <2>1, <2>2, TableRight
<1>16. ~phased => ConnectionRight(n + 1, tg)' /\ ConnectionRight(n + 2, te)'
  <2>1. n + 1 \in Nat /\ n + 1 > TablesFrom /\ n + 2 \in Nat /\ n + 2 > TablesFrom
    BY <1>3, <1>5, <1>13, PlacesApart
  <2> QED  BY <1>3, <1>15, <2>1, CircuitOnConnection
<1>17. ToEval' /\ Buffers' /\ IsSeq(toEval)' /\ IsSeq(bufG)'
  <2>1. /\ GarbLink' = GarbLink /\ GarbCircuit' = GarbCircuit + Len(q)
        /\ EvalLink' = EvalLink /\ EvalCircuit' = EvalCircuit
    BY <1>1, <1>3, <1>5, <1>12 DEF GarbDoes, LinkSteps
  <2>2. \A k \in 1 .. Len(q) : CircuitRight(n + k, q[k])' /\ (~phased => ConnectionRight(n + k, q[k])')
    <3>1. \A k \in 1 .. Len(q) : k = 1 \/ k = 2
      BY <1>12
    <3> QED  BY <1>12, <1>15, <1>16, <3>1
  <2> QED  BY <1>6, <1>8, <1>9, <1>11, <1>12, <1>13, <2>1, <2>2, CircuitGrows
<1>18. ToGarb' /\ IsSeq(toGarb)'
  BY <1>1, <1>3, <1>5, <1>8, GarbReadsNothing DEF GarbDoes, BackSteps
<1>19. InputLabels' /\ Evaluated'
  BY <1>4, <1>5, <1>7, <1>8, InputLabelsGrow, EvaluatedGrows DEF GarbDoes
<1>20. \A h \in DOMAIN Gates : NumInputs + h > Len(label0) /\ NumInputs + h <= Len(label0)' => h = g
  BY <1>5, <1>7, Counts
<1>21. Garbled'
  BY <1>2, <1>3, <1>7, <1>8, <1>10, <1>20, GarbledGrows DEF IsAnd
<1>22. LabelsEncode'
  <2>1. ASSUME NEW w \in 1 .. Len(active), w > Len(label0), w <= Len(label0)'
        PROVE  FALSE
    <3>1. w = NumInputs + g /\ w <= Len(active) /\ Len(active) \in Nat
      BY <1>5, <1>7, <2>1, SeqIs, Counts DEF IInv, Sequences
    <3>2. NumInputs + g <= Len(label0)
      BY <1>3, <1>5, <3>1 DEF IInv, Evaluated, IsAnd
    <3> QED  BY <1>5, <1>7, <3>2, Counts
  <2> QED  BY <1>7, <1>8, <2>1, LabelsEncodeGrows
<1>23. Transferred' /\ Learned'
  BY <1>4, <1>5, <1>8, GarbTransferredStays, GarbLearnedStays DEF GarbDoes
<1>24. GarbPlace'
  <2>1. Len(label0)' = GarbDid("alice")' + GarbDid("bob")' + GarbDid("gates")'
    BY <1>1, <1>2, <1>5, OneMore, GarbCounted DEF IInv, GarbDoes
  <2>2. GarbDid("gates")' = g
    <3>1. GarbDid("gates") = gPos
      BY <1>1, <1>3, <1>4, GarbAtStep DEF IInv, GarbPlace, EvalPlace
    <3> QED  BY <1>1, <1>5, <3>1 DEF GarbDoes, GarbMoves, StepName
  <2>3. gId' = Ands(GarbDid("gates")')
    BY <1>3, <1>10, <2>2
  <2>4. Ands(GarbDid("gates")') = Ands(GarbDid("gates"))'
    BY DEF Ands, AndGates
  <2> QED  BY <1>5, <2>1, <2>3, <2>4 DEF GarbPlace, GarbDoes
<1> QED  BY <1>7, <1>9, <1>17, <1>18, <1>19, <1>21, <1>22, <1>23, <1>24 DEF IInv, Sequences

LEMMA XorBack ==
    ASSUME NEW a, NEW b
    PROVE  Xor(Xor(a, b), b) = a
BY DEF Xor

LEMMA GarbBobKeeps == IInv /\ GarbBob => IInv'
<1> SUFFICES ASSUME IInv, GarbBob PROVE IInv'
  OBVIOUS
<1>1. PICK step, n : step = "bob" /\ n = mInputB_size
  OBVIOUS
<1>2. PICK f : /\ label0' = label0 \o f
               /\ \E S : f \in [1 .. n -> S]
               /\ ~phased => \A b \in 1 .. mInputB_size, i \in Lane :
                                f[b][i] = gOTs[OTIndex(b - 1, i)]
  <2>1. CASE phased
    BY <1>1, <2>1 DEF GarbBob, phased
  <2>2. CASE ~phased
    <3>1. PICK f : f = [b \in 1 .. mInputB_size |-> [i \in Lane |-> gOTs[OTIndex(b - 1, i)]]]
      OBVIOUS
    <3>2. label0' = label0 \o f
      BY <2>2, <3>1 DEF GarbBob, phased
    <3>3. f \in [1 .. n -> {f[b] : b \in 1 .. n}]
      BY <1>1, <3>1
    <3>4. \A b \in 1 .. mInputB_size, i \in Lane : f[b][i] = gOTs[OTIndex(b - 1, i)]
      BY <3>1
    <3> QED  BY <3>2, <3>3, <3>4
  <2> QED  BY <2>1, <2>2
<1>3. /\ GarbAt(step) /\ GarbAdvance
      /\ UNCHANGED <<mode, value, R, curDelta, gOTs, corrected, gId, bufG,
                     evaluator, toEval, toGarb>>
  BY <1>1 DEF GarbBob
<1>4. step \in StepName \ DOMAIN Count /\ Times(step) = n /\ n \in Nat
  BY <1>1, TimesOf, Counts DEF StepName
<1>5. GarbDoes(step, n) /\ GarbPast(step)' /\ gPos = 0
  BY <1>3, <1>4, GarbDoesOnce
<1>6. /\ IsSeq(label0)' /\ Len(label0)' = NumInputs /\ Len(label0) = mInputA_size
      /\ Begins(label0, label0') /\ \A b \in 1 .. n : label0'[mInputA_size + b] = f[b]
  <2>1. IsSeq(f) /\ Len(f) = n
    BY <1>2, <1>4, SeqOf
  <2>2. JoinedTo(label0, f, label0')
    BY <1>2, <2>1, Joined DEF IInv, Sequences
  <2>3. Len(label0) = mInputA_size
    BY <1>1, <1>5, GarbMade DEF GarbDoes, IInv
  <2> QED  BY <1>1, <2>1, <2>2, <2>3, Counts DEF JoinedTo
<1>7. GarbFrame
  BY <1>3, <1>5, <1>6 DEF GarbFrame, GarbDoes
<1>8. /\ Types' /\ EvalPlace' /\ OutputsCorrect'
      /\ IsSeq(active)' /\ IsSeq(result)' /\ IsSeq(bufE)'
      /\ \A s : EvalPast(s)' <=> EvalPast(s)
  BY <1>7, GarbStep
<1>9. ToEval' /\ Buffers' /\ IsSeq(toEval)' /\ IsSeq(bufG)'
  BY <1>1, <1>3, <1>5, <1>7, GarbWritesNothing DEF GarbDoes, LinkSteps, CircuitSteps
<1>10. ToGarb' /\ IsSeq(toGarb)'
  BY <1>1, <1>3, <1>5, <1>7, GarbReadsNothing DEF GarbDoes, BackSteps
<1>11. Transferred' /\ Learned'
  BY <1>1, <1>4, <1>5, <1>7, GarbTransferredStays, GarbLearnedStays DEF GarbDoes
<1>12. Evaluated'
  BY <1>6, <1>7, EvaluatedGrows
<1>13. Garbled'
  <2>1. \A g \in DOMAIN Gates : ~(NumInputs + g <= Len(label0)')
    BY <1>6, Counts
  <2> QED  BY <2>1 DEF Garbled
<1>14. InputLabels'
  <2>1. phased' = phased /\ gOTs' = gOTs /\ active' = active /\ eOTs' = eOTs
    BY <1>3, ModeKept DEF evaluator
  <2>2. ~phased => \A b \in 1 .. mInputB_size, i \in Lane :
                      label0'[mInputA_size + b][i] = gOTs[OTIndex(b - 1, i)]
    BY <1>1, <1>2, <1>6
  <2> QED  BY <1>8, <2>1, <2>2 DEF IInv, InputLabels
<1>15. LabelsEncode'
  <2>1. ASSUME NEW w \in 1 .. Len(active), w > Len(label0), w <= Len(label0)', NEW i \in Lane
        PROVE  active[w][i] = Xor(label0'[w][i], When(value[i][w], R))
    <3>1. w > mInputA_size /\ w <= NumInputs /\ Len(active) > mInputA_size
      <4>1. Len(active) \in Nat
        BY SeqIs DEF IInv, Sequences
      <4> QED  BY <1>6, <2>1, <4>1, Counts
    <3>2. PICK b \in 1 .. mInputB_size : w = mInputA_size + b
      <4>1. w - mInputA_size \in 1 .. mInputB_size /\ w = mInputA_size + (w - mInputA_size)
        BY <2>1, <3>1, Counts
      <4> QED  BY <4>1
    <3>3. ~phased /\ EvalPast("bob")
      <4>1. CASE phased
        <5>1. EvalPast("gcs")
          BY <3>1, <4>1, EvalMade, EvalOrder DEF IInv, EvalPlace
        <5>2. GarbPast("bob")
          BY <5>1, GarbOrder DEF IInv, Learned, GarbPlace
        <5> QED  BY <1>1, <1>5, <5>2 DEF GarbDoes
      <4>2. CASE ~phased
        BY <3>1, <4>2, EvalMade DEF IInv
      <4> QED  BY <4>1, <4>2
    <3>4. EvalPast("offset") /\ EvalPast("u") /\ GarbPast("u")
      BY <3>3, EvalOrder DEF IInv, EvalPlace, Learned
    <3>5. PICK k : k = OTIndex(b - 1, i)
      OBVIOUS
    <3>6. k \in OT /\ All[k] = value[i][w]
      BY <3>2, <3>5, ChoiceOf
    <3>7. gOTs[k] = Xor(eOTs[k], When(value[i][w], R))
      BY <3>3, <3>4, <3>6 DEF IInv, Transferred
    <3>8. active[w][i] = eOTs[k]
      BY <3>2, <3>3, <3>5 DEF IInv, InputLabels
    <3>9. label0'[w][i] = gOTs[k]
      BY <1>1, <1>2, <1>6, <3>2, <3>3, <3>5
    <3> QED  BY <3>7, <3>8, <3>9, XorBack
  <2> QED  BY <1>6, <1>7, <2>1, LabelsEncodeGrows
<1>16. GarbPlace'
  <2>1. Len(label0)' = GarbDid("alice")' + GarbDid("bob")' + GarbDid("gates")'
    <3>1. Len(label0)' = Len(label0) + n
      BY <1>1, <1>6, Counts
    <3> QED  BY <1>1, <1>4, <1>5, <3>1, GarbCounted DEF IInv, GarbDoes
  <2>2. GarbDid("gates")' = GarbDid("gates")
    BY <1>1, <1>5 DEF GarbDoes, GarbMoves, StepName
  <2>3. Ands(GarbDid("gates")') = Ands(GarbDid("gates"))'
    BY DEF Ands, AndGates
  <2> QED  BY <1>3, <1>5, <2>1, <2>2, <2>3 DEF IInv, GarbPlace, GarbDoes
<1> QED  BY <1>6, <1>8, <1>9, <1>10, <1>11, <1>12, <1>13, <1>14, <1>15, <1>16 DEF IInv, Sequences

\* The evaluator reads nothing of the circuit, answers nothing, answers.
LEMMA EvalKeepsBuffers ==
    ASSUME IInv, EvalFrame, bufE' = bufE, GarbCircuit' = GarbCircuit,
           EvalCircuit' = EvalCircuit, EvalPast("gcs")' <=> EvalPast("gcs")
    PROVE  Buffers' /\ IsSeq(bufE)'
<1>1. RightStays /\ bufG' = bufG
  BY FramesKeep DEF EvalFrame, garbler
<1> QED  BY <1>1, BuffersKept DEF IInv, Sequences, IsSeq

LEMMA EvalTakesNothing ==
    ASSUME IInv, EvalFrame, toEval' = toEval, GarbLink' = GarbLink,
           GarbCircuit' = GarbCircuit, EvalLink' = EvalLink, EvalCircuit' = EvalCircuit
    PROVE  ToEval' /\ IsSeq(toEval)'
<1>1. RightStays /\ phased' = phased
  BY FramesKeep DEF RightStays
<1>2. Sent' = Sent /\ Taken' = Taken
  BY <1>1 DEF Sent, Taken
<1> QED  BY <1>1, <1>2, ToEvalKept DEF IInv, Sequences, IsSeq

LEMMA EvalAnswersNothing ==
    ASSUME IInv, EvalFrame, toGarb' = toGarb, EvalBack' = EvalBack, GarbBack' = GarbBack
    PROVE  ToGarb' /\ IsSeq(toGarb)'
<1>1. RightStays
  BY FramesKeep
<1> QED  BY <1>1, ToGarbKept DEF IInv, Sequences, IsSeq

LEMMA EvalAnswers ==
    ASSUME IInv, EvalFrame, NEW m, SendToGarb(m), NEW n \in Nat, n = EvalBack,
           EvalBack' = EvalBack + 1, GarbBack' = GarbBack, AnswerRight(n + 1, m)'
    PROVE  ToGarb' /\ IsSeq(toGarb)'
<1>1. RightStays /\ GarbBack \in Nat
  BY FramesKeep, Places DEF IInv, GarbPlace, EvalPlace
<1>2. ToGarb /\ IsSeq(toGarb) /\ EvalBack' = n + 1
  BY DEF IInv, Sequences
<1> QED  BY <1>1, <1>2, ToGarbGrows DEF SendToGarb

LEMMA AnswerWritten ==
    ASSUME NEW p, NEW m,
           \/ p = 1 /\ m.kind = "baseKeys"
           \/ p = 2 /\ m.kind = "challenge"
           \/ p = 3 /\ m.kind = "opening"
           \/ p = 4 /\ m.kind = "commit"
           \/ p = 6 /\ m.kind = "theirSeed"
           \/ p = 7 /\ m.kind = "check" /\ EvalPast("offset")'
    PROVE  AnswerRight(p, m)'
BY DEF AnswerRight

\* A step of the evaluator in which it makes no label.
LEMMA EvalStill ==
    ASSUME IInv, EvalFrame, UNCHANGED <<active, eId, result, randChoices>>,
           NEW step \in StepName \ {"bob", "u", "offset", "gcs"}, NEW n \in Nat,
           EvalDoes(step, n), step \notin {"alice", "labels", "gates", "outputs"} \/ n = 0
    PROVE  /\ Types' /\ GarbPlace' /\ EvalPlace' /\ Learned' /\ Transferred'
           /\ InputLabels' /\ Garbled' /\ Evaluated' /\ LabelsEncode' /\ OutputsCorrect'
           /\ IsSeq(label0)' /\ IsSeq(active)' /\ IsSeq(result)' /\ IsSeq(bufG)'
           /\ EvalPast("gcs")' <=> EvalPast("gcs")
<1>1. GarbPlace' /\ Garbled' /\ IsSeq(label0)' /\ IsSeq(bufG)'
  BY EvalStepIs
<1>2. Types'
  <2>1. mode' = mode /\ value' = value /\ R' = R /\ Shared' = Shared
    BY ModeKept DEF EvalFrame, garbler
  <2> QED  BY <2>1 DEF IInv, Types
<1>3. InputLabels' /\ Evaluated' /\ LabelsEncode' /\ IsSeq(active)'
  BY EvalLabelsStay DEF EvalDoes
<1>4. Transferred' /\ Learned'
  BY EvalTransferredStays, EvalLearnedStays DEF EvalDoes
<1>5. EvalPlace' /\ IsSeq(result)' /\ OutputsCorrect'
  <2>1. step \notin {"alice", "bob", "labels", "gates", "outputs"} \/ n = 0
    OBVIOUS
  <2> QED  BY <2>1, EvalPlaceStays DEF EvalDoes, EvalFrame
<1>6. EvalPast("gcs")' <=> EvalPast("gcs")
  BY DEF EvalDoes, EvalPassed, StepName
<1> QED  BY <1>1, <1>2, <1>3, <1>4, <1>5, <1>6

LEMMA EvalFrameOf ==
    ASSUME IInv, UNCHANGED <<mode, value, garbler, randChoices, eOTs, active>>,
           \A s \in StepName : EvalPast(s) => EvalPast(s)'
    PROVE  EvalFrame
<1>1. Begins(active, active')
  BY SeqIs DEF IInv, Sequences, Begins
<1> QED  BY <1>1 DEF EvalFrame

LEMMA EvalSendKeeps == IInv /\ EvalSend => IInv'
<1> SUFFICES ASSUME IInv, EvalSend PROVE IInv'
  OBVIOUS
<1>1. PICK step \in {"baseKeys", "challenge", "opening", "commit", "theirSeed", "check"} :
         EvalAt(step) /\ SendToGarb(Signal(step))
  BY DEF EvalSend
<1>2. /\ EvalAdvance
      /\ UNCHANGED <<mode, value, garbler, randChoices, eOTs, active, eId, bufE, result, toEval>>
  BY DEF EvalSend
<1>3. step \in StepName \ DOMAIN Count /\ Times(step) = 1
  BY TimesOf, Counts DEF StepName
<1>4. EvalDoes(step, 1) /\ ePos = 0
  BY <1>1, <1>2, <1>3, EvalDoesOnce
<1>5. EvalFrame
  BY <1>2, <1>4, EvalFrameOf DEF EvalDoes
<1>6. /\ Types' /\ GarbPlace' /\ EvalPlace' /\ Learned' /\ Transferred'
      /\ InputLabels' /\ Garbled' /\ Evaluated' /\ LabelsEncode' /\ OutputsCorrect'
      /\ IsSeq(label0)' /\ IsSeq(active)' /\ IsSeq(result)' /\ IsSeq(bufG)'
      /\ EvalPast("gcs")' <=> EvalPast("gcs")
  BY <1>2, <1>3, <1>4, <1>5, EvalStill
<1>7. /\ EvalLink' = EvalLink /\ EvalCircuit' = EvalCircuit /\ EvalBack' = EvalBack + 1
      /\ GarbLink' = GarbLink /\ GarbCircuit' = GarbCircuit /\ GarbBack' = GarbBack
  BY <1>4 DEF EvalDoes, LinkSteps, CircuitSteps, BackSteps
<1>8. ToEval' /\ IsSeq(toEval)' /\ Buffers' /\ IsSeq(bufE)'
  BY <1>2, <1>5, <1>6, <1>7, EvalTakesNothing, EvalKeepsBuffers
<1>9. PICK n, m : n = EvalBack /\ m = Signal(step)
  OBVIOUS
<1>10. /\ step = "baseKeys" => n + 1 = 1
       /\ step = "challenge" => n + 1 = 2
       /\ step = "opening" => n + 1 = 3
       /\ step = "commit" => n + 1 = 4
       /\ step = "theirSeed" => n + 1 = 6
       /\ step = "check" => n + 1 = 7
  <2>1. PlacesAre(eStep, ePos, EvalIndex) /\ NextBack(eStep, ePos, EvalIndex) = n + 1
    BY <1>9, Places DEF IInv, GarbPlace, EvalPlace
  <2>2. eStep = EvalIndex[step] /\ ePos = 0
    BY <1>4 DEF EvalDoes
  <2>3. CASE step = "baseKeys"
    BY <2>1, <2>2, <2>3 DEF PlacesAre
  <2>4. CASE step = "commit"
    BY <2>1, <2>2, <2>4 DEF PlacesAre
  <2>5. CASE step = "theirSeed"
    BY <2>1, <2>2, <2>5 DEF PlacesAre
  <2>6. CASE step = "check"
    BY <2>1, <2>2, <2>6 DEF PlacesAre
  <2>7. CASE step = "challenge"
    BY <2>1, <2>2, <2>7 DEF PlacesAre
  <2>8. CASE step = "opening"
    BY <2>1, <2>2, <2>8 DEF PlacesAre
  <2> QED  BY <2>3, <2>4, <2>5, <2>6, <2>7, <2>8
<1>11. step = "check" => EvalPast("offset")'
  <2>1. step = "check" => EvalPast("offset")
    BY <1>4 DEF EvalDoes, EvalPast, EvalIndex, EvalPhases, Direct
  <2> QED  BY <1>4, <2>1 DEF EvalDoes, StepName
<1>12. AnswerRight(n + 1, m)'
  <2>1. m.kind = step
    BY <1>9 DEF Signal, Message
  <2>2. \/ n + 1 = 1 /\ m.kind = "baseKeys"
        \/ n + 1 = 2 /\ m.kind = "challenge"
        \/ n + 1 = 3 /\ m.kind = "opening"
        \/ n + 1 = 4 /\ m.kind = "commit"
        \/ n + 1 = 6 /\ m.kind = "theirSeed"
        \/ n + 1 = 7 /\ m.kind = "check" /\ EvalPast("offset")'
    BY <1>10, <1>11, <2>1
  <2> QED  BY <2>2, AnswerWritten
<1>13. ToGarb' /\ IsSeq(toGarb)'
  <2>1. n \in Nat
    BY <1>9, Places DEF IInv, GarbPlace, EvalPlace
  <2> QED  BY <1>1, <1>5, <1>7, <1>9, <1>12, <2>1, EvalAnswers
<1> QED  BY <1>6, <1>8, <1>13 DEF IInv, Sequences

LEMMA EvalReadKeeps == IInv /\ EvalRead => IInv'
<1> SUFFICES ASSUME IInv, EvalRead PROVE IInv'
  OBVIOUS
<1>1. PICK step \in {"SIMDvalues", "basePoints", "answer", "seed"} : EvalAt(step)
  BY DEF EvalRead
<1>2. /\ FromGarb /\ EvalAdvance
      /\ UNCHANGED <<mode, value, garbler, randChoices, eOTs, active, eId, bufE, result, toGarb>>
  BY DEF EvalRead
<1>3. step \in StepName \ DOMAIN Count /\ Times(step) = 1
  BY TimesOf, Counts DEF StepName
<1>4. EvalDoes(step, 1) /\ ePos = 0
  BY <1>1, <1>2, <1>3, EvalDoesOnce
<1>5. EvalFrame
  BY <1>2, <1>4, EvalFrameOf DEF EvalDoes
<1>6. /\ Types' /\ GarbPlace' /\ EvalPlace' /\ Learned' /\ Transferred'
      /\ InputLabels' /\ Garbled' /\ Evaluated' /\ LabelsEncode' /\ OutputsCorrect'
      /\ IsSeq(label0)' /\ IsSeq(active)' /\ IsSeq(result)' /\ IsSeq(bufG)'
      /\ EvalPast("gcs")' <=> EvalPast("gcs")
  BY <1>2, <1>3, <1>4, <1>5, EvalStill
<1>7. /\ EvalLink' = EvalLink + 1 /\ EvalCircuit' = EvalCircuit /\ EvalBack' = EvalBack
      /\ GarbLink' = GarbLink /\ GarbCircuit' = GarbCircuit /\ GarbBack' = GarbBack
  BY <1>4 DEF EvalDoes, LinkSteps, CircuitSteps, BackSteps
<1>8. ToEval' /\ IsSeq(toEval)'
  BY <1>2, <1>5, <1>7, LinkShrinks
<1>9. Buffers' /\ IsSeq(bufE)' /\ ToGarb' /\ IsSeq(toGarb)'
  BY <1>2, <1>5, <1>6, <1>7, EvalKeepsBuffers, EvalAnswersNothing
<1> QED  BY <1>6, <1>8, <1>9 DEF IInv, Sequences

LEMMA EvalNextStepKeeps == IInv /\ EvalNextStep => IInv'
<1> SUFFICES ASSUME IInv, EvalNextStep PROVE IInv'
  OBVIOUS
<1>1. PICK step \in DOMAIN Count : EvalAt(step) /\ ePos = Count[step]
  BY DEF EvalNextStep
<1>2. /\ EvalAdvance
      /\ UNCHANGED <<mode, value, garbler, randChoices, eOTs, active, eId, bufE, result,
                     toEval, toGarb>>
  BY DEF EvalNextStep
<1>3. step \in StepName \ {"bob", "u", "offset", "gcs"}
  BY Counts DEF StepName
<1>4. EvalDoes(step, 0)
  BY <1>1, <1>2, EvalDoesEnd
<1>5. EvalFrame
  BY <1>2, <1>4, EvalFrameOf DEF EvalDoes
<1>6. /\ Types' /\ GarbPlace' /\ EvalPlace' /\ Learned' /\ Transferred'
      /\ InputLabels' /\ Garbled' /\ Evaluated' /\ LabelsEncode' /\ OutputsCorrect'
      /\ IsSeq(label0)' /\ IsSeq(active)' /\ IsSeq(result)' /\ IsSeq(bufG)'
      /\ EvalPast("gcs")' <=> EvalPast("gcs")
  BY <1>2, <1>3, <1>4, <1>5, EvalStill
<1>7. /\ EvalLink' = EvalLink /\ EvalCircuit' = EvalCircuit /\ EvalBack' = EvalBack
      /\ GarbLink' = GarbLink /\ GarbCircuit' = GarbCircuit /\ GarbBack' = GarbBack
  <2>1. EvalLink \in Nat /\ EvalBack \in Nat
    BY Places DEF IInv, GarbPlace, EvalPlace
  <2> QED  BY <1>4, <2>1 DEF EvalDoes
<1>8. ToEval' /\ IsSeq(toEval)' /\ Buffers' /\ IsSeq(bufE)' /\ ToGarb' /\ IsSeq(toGarb)'
  BY <1>2, <1>5, <1>6, <1>7, EvalTakesNothing, EvalKeepsBuffers, EvalAnswersNothing
<1> QED  BY <1>6, <1>8 DEF IInv, Sequences

-----------------------------------------------------------------------------
(* New labels of the evaluator *)

LEMMA EvalCounted ==
    ASSUME EvalPlace, NEW step \in {"alice", "bob", "labels", "gates"}, NEW n \in Nat,
           EvalMoves(step, n), Len(active)' = Len(active) + n
    PROVE  Len(active)' = EvalDid("alice")' + EvalDid("bob")' + EvalDid("labels")' + EvalDid("gates")'
<1>1. PICK a, b, l, g : /\ a = EvalDid("alice") /\ b = EvalDid("bob")
                        /\ l = EvalDid("labels") /\ g = EvalDid("gates")
  OBVIOUS
<1>2. a \in Nat /\ b \in Nat /\ l \in Nat /\ g \in Nat
  <2>1. \A s \in StepName : EvalDid(s) \in Nat
    BY Scripts, DidType DEF EvalPlace, EvalDid
  <2> QED  BY <1>1, <2>1 DEF StepName
<1>3. Len(active)' = a + b + l + g + n
  BY <1>1 DEF EvalPlace
<1>4. CASE step = "alice"
  <2>1. /\ EvalDid("alice")' = a + n /\ EvalDid("bob")' = b
        /\ EvalDid("labels")' = l /\ EvalDid("gates")' = g
    BY <1>1, <1>4 DEF EvalMoves, StepName
  <2> QED  BY ONLY <1>2, <1>3, <2>1, n \in Nat
<1>5. CASE step = "bob"
  <2>1. /\ EvalDid("alice")' = a /\ EvalDid("bob")' = b + n
        /\ EvalDid("labels")' = l /\ EvalDid("gates")' = g
    BY <1>1, <1>5 DEF EvalMoves, StepName
  <2> QED  BY ONLY <1>2, <1>3, <2>1, n \in Nat
<1>6. CASE step = "labels"
  <2>1. /\ EvalDid("alice")' = a /\ EvalDid("bob")' = b
        /\ EvalDid("labels")' = l + n /\ EvalDid("gates")' = g
    BY <1>1, <1>6 DEF EvalMoves, StepName
  <2> QED  BY ONLY <1>2, <1>3, <2>1, n \in Nat
<1>7. CASE step = "gates"
  <2>1. /\ EvalDid("alice")' = a /\ EvalDid("bob")' = b
        /\ EvalDid("labels")' = l /\ EvalDid("gates")' = g + n
    BY <1>1, <1>7 DEF EvalMoves, StepName
  <2> QED  BY ONLY <1>2, <1>3, <2>1, n \in Nat
<1> QED  BY <1>4, <1>5, <1>6, <1>7

LEMMA EvalPlaceMakes ==
    ASSUME IInv, NEW step \in {"alice", "bob", "labels", "gates"}, NEW n \in Nat,
           EvalDoes(step, n), Len(active)' = Len(active) + n, UNCHANGED <<value, result>>,
           IF step = "gates" THEN eId' = Ands(EvalDid("gates")') ELSE eId' = eId
    PROVE  EvalPlace' /\ IsSeq(result)' /\ OutputsCorrect'
<1>1. Len(active)' = EvalDid("alice")' + EvalDid("bob")' + EvalDid("labels")' + EvalDid("gates")'
  BY EvalCounted DEF EvalDoes, IInv
<1>2. eId' = Ands(EvalDid("gates")')
  <2>1. CASE step = "gates"
    BY <2>1
  <2>2. CASE step # "gates"
    <3>1. EvalDid("gates")' = EvalDid("gates")
      BY <2>2 DEF EvalDoes, EvalMoves, StepName
    <3> QED  BY <2>2, <3>1 DEF IInv, EvalPlace
  <2> QED  BY <2>1, <2>2
<1>3. Ands(EvalDid("gates")') = Ands(EvalDid("gates"))'
  BY DEF Ands, AndGates
<1>4. Len(result)' = EvalDid("outputs")'
  <2>1. EvalDid("outputs")' = EvalDid("outputs")
    BY DEF EvalDoes, EvalMoves, StepName
  <2> QED  BY <2>1 DEF IInv, EvalPlace
<1>5. EvalPlace'
  BY <1>1, <1>2, <1>3, <1>4 DEF EvalPlace, EvalDoes
<1> QED  BY <1>5 DEF IInv, Sequences, IsSeq, OutputsCorrect

\* The evaluator has more labels: what was said of the others stays.
LEMMA ActiveGrows ==
    ASSUME IInv, EvalFrame, IsSeq(active)'
    PROVE  /\ Len(active) \in Nat /\ Len(active)' \in Nat /\ Len(active)' >= Len(active)
           /\ \A k \in 1 .. Len(active) : active'[k] = active[k]
           /\ UNCHANGED <<mode, value, R, label0, gOTs>> /\ phased' = phased
<1>1. Len(active') \in Nat /\ Len(active) \in Nat
  BY SeqIs DEF IInv, Sequences
<1> QED  BY <1>1, ModeKept DEF EvalFrame, Begins, garbler

LEMMA LabelsEncodeMore ==
    ASSUME IInv, EvalFrame, IsSeq(active)',
           \A w \in 1 .. Len(label0) : w > Len(active) /\ w <= Len(active)' => \A i \in Lane :
              active'[w][i] = Xor(label0[w][i], When(value[i][w], R))
    PROVE  LabelsEncode'
<1>1. ASSUME NEW w \in 1 .. Len(active'), w <= Len(label0), NEW i \in Lane
      PROVE  active'[w][i] = Xor(label0[w][i], When(value[i][w], R))
  <2>1. Len(active) \in Nat /\ Len(active)' \in Nat /\ Len(label0) \in Nat
    BY ActiveGrows, SeqIs DEF IInv, Sequences
  <2>2. w \in Nat /\ w >= 1 /\ w <= Len(active)'
    BY <2>1
  <2>3. CASE w <= Len(active)
    <3>1. w \in 1 .. Len(active)
      BY <2>1, <2>2, <2>3
    <3>2. active'[w] = active[w]
      BY <3>1, ActiveGrows
    <3> QED  BY <1>1, <3>1, <3>2 DEF IInv, LabelsEncode
  <2>4. CASE w > Len(active)
    <3>1. w \in 1 .. Len(label0)
      BY <1>1, <2>1, <2>2
    <3> QED  BY <2>2, <2>4, <3>1
  <2> QED  BY <2>1, <2>2, <2>3, <2>4
<1> QED  BY <1>1, ActiveGrows DEF LabelsEncode

LEMMA EvaluatedMore ==
    ASSUME IInv, EvalFrame, IsSeq(active)',
           \A g \in DOMAIN Gates : NumInputs + g > Len(active) /\ NumInputs + g <= Len(active)' =>
              /\ Gates[g].op = "NOT" => active'[NumInputs + g] = active[Gates[g].a]
              /\ Gates[g].op = "XOR" =>
                    active'[NumInputs + g] = XorAll(active[Gates[g].a], active[Gates[g].b])
              /\ Gates[g].op = "AND" => NumInputs + g <= Len(label0),
           Len(active)' <= NumInputs \/ Len(active)' <= Len(active) + 1
    PROVE  Evaluated'
<1>1. /\ Len(active) \in Nat /\ Len(active)' \in Nat /\ Len(active)' >= Len(active)
      /\ \A k \in 1 .. Len(active) : active'[k] = active[k]
      /\ label0' = label0
  BY ActiveGrows
<1>2. ASSUME NEW g \in DOMAIN Gates, NumInputs + g <= Len(active)'
      PROVE  /\ Gates[g].op = "NOT" => active'[NumInputs + g] = active'[Gates[g].a]
             /\ Gates[g].op = "XOR" =>
                   active'[NumInputs + g] = XorAll(active'[Gates[g].a], active'[Gates[g].b])
             /\ Gates[g].op = "AND" => NumInputs + g <= Len(label0)
  <2>1. NumInputs \in Nat /\ g \in Nat /\ g >= 1
    BY Counts
  <2>2. Gates[g].a \in 1 .. Len(active) /\ Gates[g].b \in 1 .. Len(active)
    BY <1>1, <1>2, <2>1, GateWires, Counts
  <2>3. active'[Gates[g].a] = active[Gates[g].a] /\ active'[Gates[g].b] = active[Gates[g].b]
    BY <1>1, <2>2
  <2>4. CASE NumInputs + g <= Len(active)
    <3>1. NumInputs + g \in 1 .. Len(active)
      BY <1>1, <2>1, <2>4
    <3>2. active'[NumInputs + g] = active[NumInputs + g]
      BY <1>1, <3>1
    <3> QED  BY <2>3, <2>4, <3>2 DEF IInv, Evaluated
  <2>5. CASE NumInputs + g > Len(active)
    BY <1>2, <2>3, <2>5
  <2> QED  BY <1>1, <2>1, <2>4, <2>5
<1> QED  BY <1>1, <1>2 DEF Evaluated

LEMMA InputLabelsMore ==
    ASSUME IInv, EvalFrame, IsSeq(active)', NEW step \in StepName \ {"bob"}, EvalPassed(step)
    PROVE  InputLabels'
<1>1. EvalPast("bob")' <=> EvalPast("bob")
  BY DEF EvalPassed, StepName
<1>2. GarbPast("bob")' <=> GarbPast("bob")
  BY EvalStepIs
<1>3. ASSUME EvalPast("bob"), NEW b \in 1 .. mInputB_size, NEW i \in Lane
      PROVE  active'[mInputA_size + b][i] = eOTs'[OTIndex(b - 1, i)]
  <2>1. eOTs' = eOTs
    BY <1>3, EvalOrder DEF IInv, EvalPlace, EvalFrame
  <2>2. Len(active) >= NumInputs
    BY <1>3, EvalMade DEF IInv
  <2>3. mInputA_size + b \in 1 .. Len(active)
    BY <2>2, ActiveGrows, Counts
  <2>4. active'[mInputA_size + b] = active[mInputA_size + b]
    BY <2>3, ActiveGrows
  <2> QED  BY <1>3, <2>1, <2>4 DEF IInv, InputLabels
<1> QED  BY <1>1, <1>2, <1>3, ActiveGrows DEF IInv, InputLabels

LEMMA LearnedMore ==
    ASSUME IInv, EvalFrame, IsSeq(active)',
           \A w \in 1 .. mInputA_size : w > Len(active) /\ w <= Len(active)' => w <= Len(label0),
           NEW step \in StepName \ {"u", "offset", "gcs"}, EvalPassed(step)
    PROVE  Learned'
<1>1. /\ EvalPast("u")' <=> EvalPast("u")
      /\ EvalPast("offset")' <=> EvalPast("offset")
      /\ EvalPast("gcs")' <=> EvalPast("gcs")
  BY DEF EvalPassed, StepName
<1>2. \A s : GarbPast(s)' <=> GarbPast(s)
  BY EvalStepIs
<1>3. ASSUME NEW w \in 1 .. mInputA_size, w <= Len(active)'
      PROVE  w <= Len(label0)
  <2>1. w \in Nat /\ Len(active) \in Nat
    BY ActiveGrows, Counts
  <2>2. CASE w <= Len(active)
    BY <2>2 DEF IInv, Learned
  <2>3. CASE w > Len(active)
    BY <1>3, <2>3
  <2> QED  BY <2>1, <2>2, <2>3
<1> QED  BY <1>1, <1>2, <1>3, ActiveGrows DEF IInv, Learned

LEMMA ChoicesTyped ==
    ASSUME Types
    PROVE  All \in [OT -> BOOLEAN]
<1>1. PICK B, S : B = mInputB_size /\ S = SIMDInputs
  OBVIOUS
<1>2. B \in Nat /\ S \in Nat
  BY <1>1, SIMDAssumption
<1>3. ASSUME NEW k \in OT
      PROVE  value[k \div B][mInputA_size + (k % B) + 1] \in BOOLEAN
  <2>1. k \in Nat /\ k <= B * S - 1
    BY <1>1, <1>2 DEF OT, NumOTs
  <2>2. B \in Nat \ {0}
    <3>1. B = 0 => B * S = 0
      BY <1>2
    <3> QED  BY <1>2, <2>1, <3>1
  <2>3. PICK q, r : q = k \div B /\ r = k % B
    OBVIOUS
  <2>4. q \in Nat /\ r \in 0 .. B - 1 /\ k = q * B + r
    <3>1. /\ k % B \in 0 .. B - 1
          /\ k = (k \div B) * B + (k % B)
      <4>1. k \in Int
        BY <2>1
      <4> QED  BY ONLY <2>2, <4>1, Division
    <3>2. k \div B \in Nat
      BY <2>1, <2>2, DivisionOfNat
    <3> QED  BY ONLY <2>3, <3>1, <3>2
  <2>5. q <= S - 1
    <3>1. q >= S => q * B >= B * S
      BY ONLY <1>2, <2>2, <2>4
    <3>2. q * B \in Nat /\ B * S \in Nat
      BY ONLY <1>2, <2>2, <2>4
    <3> QED  BY ONLY <1>2, <2>1, <2>2, <2>4, <3>1, <3>2
  <2>6. q \in Lane /\ mInputA_size + r + 1 \in 1 .. NumWires
    BY <1>1, <1>2, <2>4, <2>5, Counts DEF Lane
  <2> QED  BY <2>3, <2>6, Values
<1> QED  BY <1>1, <1>3 DEF All

LEMMA OneMoreActive ==
    ASSUME IInv, NEW label, active' = Append(active, label)
    PROVE  /\ IsSeq(active)' /\ Len(active)' = Len(active) + 1 /\ Len(active) \in Nat
           /\ Begins(active, active') /\ active'[Len(active) + 1] = label
BY SeqIs, Appended DEF IInv, Sequences

LEMMA TypesKept ==
    ASSUME IInv, EvalFrame, randChoices' = randChoices
    PROVE  Types'
<1>1. mode' = mode /\ value' = value /\ R' = R /\ Shared' = Shared
  BY ModeKept DEF EvalFrame, garbler
<1> QED  BY <1>1 DEF IInv, Types

LEMMA EvalAliceKeeps == IInv /\ EvalAlice => IInv'
<1> SUFFICES ASSUME IInv, EvalAlice PROVE IInv'
  OBVIOUS
<1>1. PICK step, w, label : step = "alice" /\ w = ePos + 1 /\ label = Head(Circuit).body
  OBVIOUS
<1>2. /\ EvalAt(step) /\ ePos < Count[step] /\ ReadCircuit(1) /\ EvalMore
      /\ active' = Append(active, label)
      /\ UNCHANGED <<mode, value, garbler, randChoices, eOTs, eId, result, toGarb>>
  BY <1>1 DEF EvalAlice
<1>3. step \in StepName \ {"bob", "u", "offset", "gcs"} /\ step \in DOMAIN Count
  BY <1>1, Counts DEF StepName
<1>4. EvalDoes(step, 1) /\ w \in 1 .. mInputA_size /\ (EvalPast("gcs")' <=> EvalPast("gcs"))
  BY <1>1, <1>2, <1>3, Counts, EvalDoesRound
<1>5. /\ IsSeq(active)' /\ Len(active)' = w /\ Len(active) = ePos /\ ePos \in Nat
      /\ Begins(active, active') /\ active'[w] = label /\ w \in Nat
  <2>1. Len(active) = ePos /\ ePos \in Nat
    BY <1>1, <1>4, EvalMade DEF EvalDoes, IInv
  <2> QED  BY <1>1, <1>2, <2>1, OneMoreActive
<1>6. EvalFrame
  BY <1>2, <1>4, <1>5 DEF EvalFrame, EvalDoes
<1>7. /\ EvalLink' = EvalLink /\ EvalCircuit' = EvalCircuit + 1 /\ EvalBack' = EvalBack
      /\ GarbLink' = GarbLink /\ GarbCircuit' = GarbCircuit /\ GarbBack' = GarbBack
  BY <1>1, <1>4 DEF EvalDoes, LinkSteps, CircuitSteps, BackSteps
<1>8. phased => EvalPast("gcs")
  BY <1>1, <1>4 DEF EvalDoes, EvalPast, EvalIndex, EvalPhases
<1>9. /\ ToEval' /\ Buffers' /\ IsSeq(toEval)' /\ IsSeq(bufE)'
      /\ CircuitRight(CircuitTaken + 1, Circuit[1]) /\ Head(Circuit) = Circuit[1]
  <2>1. PICK n \in Nat : n = 1
    OBVIOUS
  <2>2. /\ ToEval' /\ Buffers' /\ IsSeq(toEval)' /\ IsSeq(bufE)'
        /\ \A k \in 1 .. n : CircuitRight(CircuitTaken + k, Circuit[k])
        /\ Len(Circuit) >= n /\ IsSeq(Circuit)
    BY <1>2, <1>4, <1>6, <1>7, <1>8, <2>1, CircuitShrinks
  <2> QED  BY <2>1, <2>2, TailIs
<1>10. w <= Len(label0) /\ label = Encoding(w)
  <2>1. CircuitTaken + 1 = AliceAt(w)
    BY <1>1, <1>4, Places DEF EvalDoes, PlacesAre, IInv, GarbPlace, EvalPlace
  <2>2. w <= Len(label0) /\ Circuit[1] = Message(AliceKind, Encoding(w))
    BY <1>4, <1>9, <2>1 DEF CircuitRight
  <2> QED  BY <1>1, <1>9, <2>2 DEF Message
<1>11. ToGarb' /\ IsSeq(toGarb)'
  BY <1>2, <1>6, <1>7, EvalAnswersNothing
<1>12. GarbPlace' /\ Garbled' /\ IsSeq(label0)' /\ IsSeq(bufG)' /\ Types'
  BY <1>2, <1>6, EvalStepIs, TypesKept
<1>13. EvalPlace' /\ IsSeq(result)' /\ OutputsCorrect'
  BY <1>1, <1>2, <1>4, <1>5, EvalPlaceMakes
<1>14. InputLabels' /\ Transferred'
  BY <1>1, <1>3, <1>4, <1>5, <1>6, InputLabelsMore, EvalTransferredStays DEF EvalDoes
<1>15. Learned'
  <2>1. \A v \in 1 .. mInputA_size : v > Len(active) /\ v <= Len(active)' => v <= Len(label0)
    <3>1. \A v \in 1 .. mInputA_size : v > Len(active) /\ v <= Len(active)' => v = w
      BY <1>1, <1>5, Counts
    <3> QED  BY <1>10, <3>1
  <2> QED  BY <1>3, <1>4, <1>5, <1>6, <2>1, LearnedMore DEF EvalDoes
<1>16. Evaluated'
  <2>1. \A g \in DOMAIN Gates : ~(NumInputs + g <= Len(active)')
    BY <1>4, <1>5, Counts
  <2> QED  BY <2>1 DEF Evaluated
<1>17. LabelsEncode'
  <2>1. ASSUME NEW v \in 1 .. Len(label0), v > Len(active), v <= Len(active)', NEW i \in Lane
        PROVE  active'[v][i] = Xor(label0[v][i], When(value[i][v], R))
    <3>1. v = w
      BY <1>1, <1>5, <2>1, SeqIs DEF IInv, Sequences
    <3> QED  BY <1>5, <1>10, <3>1 DEF Encoding, XorAll, WhenAll
  <2> QED  BY <1>5, <1>6, <2>1, LabelsEncodeMore
<1> QED  BY <1>5, <1>9, <1>11, <1>12, <1>13, <1>14, <1>15, <1>16, <1>17 DEF IInv, Sequences

LEMMA EvalUKeeps == IInv /\ EvalU => IInv'
<1> SUFFICES ASSUME IInv, EvalU PROVE IInv'
  OBVIOUS
<1>1. PICK step : step = "u"
  OBVIOUS
<1>2. /\ EvalAt(step) /\ EvalAdvance
      /\ UNCHANGED <<mode, value, garbler, active, eId, bufE, result, toEval>>
  BY <1>1 DEF EvalU
<1>3. PICK row, random, choice, m :
         /\ row \in Rows /\ random \in RandChoices
         /\ randChoices' = (IF phased THEN random ELSE All) /\ eOTs' = row
         /\ choice = randChoices'
         /\ m = Message("u", [row |-> row, choice |-> choice]) /\ SendToGarb(m)
  BY DEF EvalU, phased
<1>4. step \in StepName \ DOMAIN Count /\ Times(step) = 1
  BY <1>1, TimesOf, Counts DEF StepName
<1>5. EvalDoes(step, 1) /\ EvalPast(step)' /\ ePos = 0 /\ ~EvalPast(step)
  BY <1>2, <1>4, EvalDoesOnce DEF EvalDoes
<1>6. ~EvalPast("offset") /\ ~GarbPast("u") /\ ~GarbPast("choices")
  <2>1. ~EvalPast("offset") /\ ~GarbPast("u")
    BY <1>1, <1>5, EvalOrder DEF IInv, EvalPlace, Learned
  <2> QED  BY <2>1, GarbOrder DEF IInv, GarbPlace
<1>7. EvalFrame
  <2>1. Begins(active, active')
    BY <1>2, SeqIs DEF IInv, Sequences, Begins
  <2> QED  BY <1>1, <1>2, <1>5, <1>6, <2>1 DEF EvalFrame, EvalDoes
<1>8. /\ EvalLink' = EvalLink /\ EvalCircuit' = EvalCircuit /\ EvalBack' = EvalBack + 1
      /\ GarbLink' = GarbLink /\ GarbCircuit' = GarbCircuit /\ GarbBack' = GarbBack
  BY <1>1, <1>5 DEF EvalDoes, LinkSteps, CircuitSteps, BackSteps
<1>9. /\ EvalPast("gcs")' <=> EvalPast("gcs")
      /\ EvalPast("offset")' <=> EvalPast("offset")
  BY <1>1, <1>5 DEF EvalDoes, EvalPassed, StepName
<1>10. ToEval' /\ IsSeq(toEval)' /\ Buffers' /\ IsSeq(bufE)'
  BY <1>2, <1>7, <1>8, <1>9, EvalTakesNothing, EvalKeepsBuffers
<1>11. ToGarb' /\ IsSeq(toGarb)'
  <2>1. PICK n : n = EvalBack
    OBVIOUS
  <2>2. n \in Nat /\ n + 1 = 5
    BY <1>1, <1>5, <2>1, Places DEF EvalDoes, PlacesAre, IInv, GarbPlace, EvalPlace
  <2>3. m.kind = "u" /\ m.body.choice = randChoices' /\ m.body.row = eOTs'
    BY <1>3 DEF Message
  <2>4. AnswerRight(n + 1, m)'
    BY <1>1, <1>5, <2>2, <2>3 DEF AnswerRight
  <2> QED  BY <1>3, <1>7, <1>8, <2>1, <2>2, <2>4, EvalAnswers
<1>12. /\ GarbPlace' /\ Garbled' /\ IsSeq(label0)' /\ IsSeq(bufG)'
       /\ \A s : GarbPast(s)' <=> GarbPast(s)
  BY <1>7, EvalStepIs
<1>13. Types'
  <2>1. randChoices' \in [OT -> BOOLEAN]
    BY <1>3, ChoicesTyped, SIMDAssumption DEF IInv
  <2>2. mode' = mode /\ value' = value /\ R' = R /\ Shared' = Shared
    BY <1>2, ModeKept DEF garbler
  <2> QED  BY <2>1, <2>2 DEF IInv, Types
<1>14. InputLabels' /\ Evaluated' /\ LabelsEncode' /\ IsSeq(active)'
  BY <1>1, <1>2, <1>4, <1>5, <1>7, EvalLabelsStay DEF EvalDoes
<1>15. EvalPlace' /\ IsSeq(result)' /\ OutputsCorrect'
  <2>1. step \notin {"alice", "bob", "labels", "gates", "outputs"}
    BY <1>1
  <2> QED  BY <1>2, <1>4, <1>5, <2>1, EvalPlaceStays DEF EvalDoes
<1>16. Transferred'
  <2>1. All' = All /\ phased' = phased
    BY <1>2, ModeKept DEF All
  <2>2. ~phased => randChoices' = All
    BY <1>3
  <2> QED  BY <1>6, <1>12, <2>1, <2>2 DEF Transferred
<1>17. Learned'
  BY <1>1, <1>2, <1>5, <1>9, <1>12 DEF IInv, Learned, garbler
<1> QED  BY <1>10, <1>11, <1>12, <1>13, <1>14, <1>15, <1>16, <1>17 DEF IInv, Sequences

\* The evaluator's rows after it has read the offset: the messages of every OT
\* differ by R.
LEMMA OffsetCorrect ==
    ASSUME NEW e, NEW d, NEW r, NEW bit
    PROVE  Xor(e, When(bit, d)) = Xor(Xor(e, When(bit, Xor(d, r))), When(bit, r))
BY DEF Xor, When, Zero

LEMMA EvalOffsetKeeps == IInv /\ EvalOffset => IInv'
<1> SUFFICES ASSUME IInv, EvalOffset PROVE IInv'
  OBVIOUS
<1>1. PICK step, offset : step = "offset" /\ offset = Head(toEval).body
  OBVIOUS
<1>2. /\ EvalAt(step) /\ FromGarb /\ EvalAdvance
      /\ eOTs' = [k \in OT |-> Xor(eOTs[k], When(randChoices[k], offset))]
      /\ UNCHANGED <<mode, value, garbler, randChoices, active, eId, bufE, result, toGarb>>
  BY <1>1 DEF EvalOffset
<1>3. step \in StepName \ DOMAIN Count /\ Times(step) = 1
  BY <1>1, TimesOf, Counts DEF StepName
<1>4. EvalDoes(step, 1) /\ EvalPast(step)' /\ ePos = 0 /\ ~EvalPast(step)
  BY <1>2, <1>3, EvalDoesOnce DEF EvalDoes
<1>5. EvalPast("u")
  BY <1>1, <1>4 DEF EvalDoes, EvalPast, EvalIndex, EvalPhases, Direct
<1>6. EvalFrame
  <2>1. Begins(active, active')
    BY <1>2, SeqIs DEF IInv, Sequences, Begins
  <2> QED  BY <1>1, <1>2, <1>4, <2>1 DEF EvalFrame, EvalDoes
<1>7. /\ EvalLink' = EvalLink + 1 /\ EvalCircuit' = EvalCircuit /\ EvalBack' = EvalBack
      /\ GarbLink' = GarbLink /\ GarbCircuit' = GarbCircuit /\ GarbBack' = GarbBack
  BY <1>1, <1>4 DEF EvalDoes, LinkSteps, CircuitSteps, BackSteps
<1>8. /\ EvalPast("gcs")' <=> EvalPast("gcs")
      /\ EvalPast("u")' <=> EvalPast("u")
  BY <1>1, <1>4 DEF EvalDoes, EvalPassed, StepName
<1>9. ToEval' /\ IsSeq(toEval)' /\ LinkRight(Taken + 1, Head(toEval))
  BY <1>2, <1>6, <1>7, LinkShrinks
<1>10. GarbPast("u") /\ offset = Xor(curDelta, R)
  <2>1. OffsetAt \in Nat
    BY Counts DEF OffsetAt
  <2>2. Taken + 1 = OffsetAt
    BY <1>1, <1>4, <2>1, Places DEF EvalDoes, PlacesAre, IInv, GarbPlace, EvalPlace
  <2>3. GarbPast("u") /\ Head(toEval) = Message("offset", Xor(curDelta, R))
    BY <1>9, <2>2 DEF LinkRight
  <2> QED  BY <1>1, <2>3 DEF Message
<1>11. Buffers' /\ IsSeq(bufE)' /\ ToGarb' /\ IsSeq(toGarb)'
  BY <1>2, <1>6, <1>7, <1>8, EvalKeepsBuffers, EvalAnswersNothing
<1>12. /\ GarbPlace' /\ Garbled' /\ IsSeq(label0)' /\ IsSeq(bufG)' /\ Types'
       /\ \A s : GarbPast(s)' <=> GarbPast(s)
  BY <1>5, <1>6, EvalStepIs
<1>13. InputLabels' /\ Evaluated' /\ LabelsEncode' /\ IsSeq(active)'
  BY <1>1, <1>2, <1>3, <1>4, <1>6, EvalLabelsStay DEF EvalDoes
<1>14. EvalPlace' /\ IsSeq(result)' /\ OutputsCorrect'
  <2>1. step \notin {"alice", "bob", "labels", "gates", "outputs"}
    BY <1>1
  <2> QED  BY <1>2, <1>3, <1>4, <2>1, EvalPlaceStays DEF EvalDoes
<1>15. Transferred'
  <2>1. All' = All /\ phased' = phased /\ R' = R /\ gOTs' = gOTs /\ corrected' = corrected
    BY <1>2, ModeKept DEF All, garbler
  <2>2. ASSUME NEW k \in OT
        PROVE  gOTs[k] = Xor(eOTs'[k], When(randChoices[k], R))
    <3>1. gOTs[k] = Xor(eOTs[k], When(randChoices[k], curDelta))
      BY <1>1, <1>4, <1>10 DEF IInv, Transferred
    <3>2. eOTs'[k] = Xor(eOTs[k], When(randChoices[k], Xor(curDelta, R)))
      BY <1>2, <1>10
    <3> QED  BY <3>1, <3>2, OffsetCorrect
  <2> QED  BY <1>1, <1>2, <1>4, <1>8, <1>12, <2>1, <2>2 DEF IInv, Transferred
<1>16. Learned'
  BY <1>1, <1>2, <1>4, <1>8, <1>10, <1>12 DEF IInv, Learned, garbler
<1> QED  BY <1>9, <1>11, <1>12, <1>13, <1>14, <1>15, <1>16 DEF IInv, Sequences

LEMMA EvalBobKeeps == IInv /\ EvalBob => IInv'
<1> SUFFICES ASSUME IInv, EvalBob PROVE IInv'
  OBVIOUS
<1>1. PICK step, n : step = "bob" /\ n = mInputB_size
  OBVIOUS
<1>2. PICK f : f = [b \in 1 .. mInputB_size |-> [i \in Lane |-> eOTs[OTIndex(b - 1, i)]]]
  OBVIOUS
<1>3. /\ EvalAt(step) /\ EvalAdvance /\ active' = active \o f
      /\ UNCHANGED <<mode, value, garbler, randChoices, eOTs, eId, bufE, result, toEval, toGarb>>
  BY <1>1, <1>2 DEF EvalBob
<1>4. step \in StepName \ DOMAIN Count /\ Times(step) = n /\ n \in Nat
  BY <1>1, TimesOf, Counts DEF StepName
<1>5. EvalDoes(step, n) /\ EvalPast(step)' /\ ePos = 0
  BY <1>3, <1>4, EvalDoesOnce
<1>6. ~phased
  BY <1>1, <1>5, Scripts DEF EvalDoes, EvalIndex, EvalPhases, Never, IInv, EvalPlace
<1>7. EvalPast("offset") /\ EvalPast("u")
  BY <1>1, <1>5, <1>6 DEF EvalDoes, EvalPast, EvalIndex, Direct
<1>8. /\ IsSeq(active)' /\ Len(active)' = NumInputs /\ Len(active) = mInputA_size
      /\ Len(active)' = Len(active) + n
      /\ Begins(active, active') /\ \A b \in 1 .. n : active'[mInputA_size + b] = f[b]
  <2>1. IsSeq(f) /\ Len(f) = n
    <3>1. f \in [1 .. n -> {f[b] : b \in 1 .. n}]
      BY <1>1, <1>2
    <3> QED  BY <1>4, <3>1, SeqOf
  <2>2. JoinedTo(active, f, active')
    BY <1>3, <2>1, Joined DEF IInv, Sequences
  <2>3. Len(active) = mInputA_size
    BY <1>1, <1>5, EvalMade DEF EvalDoes, IInv
  <2> QED  BY <1>1, <2>1, <2>2, <2>3, Counts DEF JoinedTo
<1>9. EvalFrame
  BY <1>3, <1>5, <1>8 DEF EvalFrame, EvalDoes
<1>10. /\ EvalLink' = EvalLink /\ EvalCircuit' = EvalCircuit /\ EvalBack' = EvalBack
       /\ GarbLink' = GarbLink /\ GarbCircuit' = GarbCircuit /\ GarbBack' = GarbBack
       /\ EvalPast("gcs")' <=> EvalPast("gcs")
  BY <1>1, <1>5 DEF EvalDoes, EvalPassed, StepName, LinkSteps, CircuitSteps, BackSteps
<1>11. ToEval' /\ IsSeq(toEval)' /\ Buffers' /\ IsSeq(bufE)' /\ ToGarb' /\ IsSeq(toGarb)'
  BY <1>3, <1>9, <1>10, EvalTakesNothing, EvalKeepsBuffers, EvalAnswersNothing
<1>12. /\ GarbPlace' /\ Garbled' /\ IsSeq(label0)' /\ IsSeq(bufG)' /\ Types'
       /\ \A s : GarbPast(s)' <=> GarbPast(s)
  BY <1>3, <1>9, EvalStepIs, TypesKept
<1>13. EvalPlace' /\ IsSeq(result)' /\ OutputsCorrect'
  BY <1>1, <1>3, <1>4, <1>5, <1>8, EvalPlaceMakes
<1>14. Transferred'
  BY <1>1, <1>4, <1>5, <1>9, EvalTransferredStays DEF EvalDoes
<1>15. Learned'
  <2>1. \A w \in 1 .. mInputA_size : ~(w > Len(active))
    BY <1>8, Counts
  <2> QED  BY <1>1, <1>4, <1>5, <1>8, <1>9, <2>1, LearnedMore DEF EvalDoes
<1>16. InputLabels'
  <2>1. phased' = phased /\ gOTs' = gOTs /\ label0' = label0 /\ eOTs' = eOTs
    BY <1>3, ModeKept DEF garbler
  <2>2. \A b \in 1 .. mInputB_size, i \in Lane :
           active'[mInputA_size + b][i] = eOTs[OTIndex(b - 1, i)]
    BY <1>1, <1>2, <1>8
  <2> QED  BY <1>12, <2>1, <2>2 DEF IInv, InputLabels
<1>17. Evaluated'
  <2>1. \A g \in DOMAIN Gates : ~(NumInputs + g <= Len(active)')
    BY <1>8, Counts
  <2> QED  BY <2>1 DEF Evaluated
<1>18. LabelsEncode'
  <2>1. ASSUME NEW w \in 1 .. Len(label0), w > Len(active), w <= Len(active)', NEW i \in Lane
        PROVE  active'[w][i] = Xor(label0[w][i], When(value[i][w], R))
    <3>1. w > mInputA_size /\ w <= NumInputs /\ Len(label0) > mInputA_size
      <4>1. Len(label0) \in Nat
        BY SeqIs DEF IInv, Sequences
      <4> QED  BY <1>8, <2>1, <4>1, Counts
    <3>2. PICK b \in 1 .. mInputB_size : w = mInputA_size + b
      <4>1. w - mInputA_size \in 1 .. mInputB_size /\ w = mInputA_size + (w - mInputA_size)
        BY <2>1, <3>1, Counts
      <4> QED  BY <4>1
    <3>3. GarbPast("bob")
      BY <3>1, GarbMade DEF IInv
    <3>4. GarbPast("u")
      BY <3>3, GarbOrder DEF IInv, GarbPlace
    <3>5. PICK k : k = OTIndex(b - 1, i)
      OBVIOUS
    <3>6. k \in OT /\ All[k] = value[i][w]
      BY <3>2, <3>5, ChoiceOf
    <3>7. gOTs[k] = Xor(eOTs[k], When(value[i][w], R))
      BY <1>6, <1>7, <3>4, <3>6 DEF IInv, Transferred
    <3>8. active'[w][i] = eOTs[k]
      BY <1>1, <1>2, <1>8, <3>2, <3>5
    <3>9. label0[w][i] = gOTs[k]
      BY <1>6, <3>2, <3>3, <3>5 DEF IInv, InputLabels
    <3> QED  BY <3>7, <3>8, <3>9, XorBack
  <2> QED  BY <1>8, <1>9, <2>1, LabelsEncodeMore
<1> QED  BY <1>8, <1>11, <1>12, <1>13, <1>14, <1>15, <1>16, <1>17, <1>18 DEF IInv, Sequences

LEMMA EvalBufferKeeps == IInv /\ EvalBuffer => IInv'
<1> SUFFICES ASSUME IInv, EvalBuffer PROVE IInv'
  OBVIOUS
<1>1. PICK step : step = "gcs"
  OBVIOUS
<1>2. /\ EvalAt(step) /\ FromGarb /\ bufE' = Head(toEval).body /\ EvalAdvance
      /\ UNCHANGED <<mode, value, garbler, randChoices, eOTs, active, eId, result, toGarb>>
  BY <1>1 DEF EvalBuffer
<1>3. step \in StepName \ DOMAIN Count /\ Times(step) = 1
  BY <1>1, TimesOf, Counts DEF StepName
<1>4. EvalDoes(step, 1) /\ EvalPast(step)' /\ ePos = 0
  BY <1>2, <1>3, EvalDoesOnce
<1>5. EvalFrame
  BY <1>2, <1>4, EvalFrameOf DEF EvalDoes
<1>6. /\ EvalLink' = EvalLink + 1 /\ EvalCircuit' = EvalCircuit /\ EvalBack' = EvalBack
      /\ GarbLink' = GarbLink /\ GarbCircuit' = GarbCircuit /\ GarbBack' = GarbBack
  BY <1>1, <1>4 DEF EvalDoes, LinkSteps, CircuitSteps, BackSteps
<1>7. /\ EvalPast("offset")' <=> EvalPast("offset")
      /\ EvalPast("u")' <=> EvalPast("u")
  BY <1>1, <1>4 DEF EvalDoes, EvalPassed, StepName
<1>8. ToEval' /\ IsSeq(toEval)' /\ LinkRight(Taken + 1, Head(toEval))
  BY <1>2, <1>5, <1>6, LinkShrinks
<1>9. Taken + 1 = 5 /\ phased
  BY <1>1, <1>4, Places DEF EvalDoes, PlacesAre, IInv, GarbPlace, EvalPlace
<1>10. GarbPast("gcs") /\ bufE' = bufG
  <2>1. GarbPast("gcs") /\ Head(toEval) = Message("gcs", bufG)
    BY <1>8, <1>9 DEF LinkRight
  <2> QED  BY <1>2, <2>1 DEF Message
<1>11. EvalCircuit = 0
  <2>1. eStep = 12 /\ eStep \in 1 .. 18 /\ ePos \in Nat /\ EvalIndex = EvalPhases
    BY <1>1, <1>4, <1>9 DEF EvalDoes, EvalIndex, EvalPhases
  <2> QED  BY <2>1, EvalPhasesCounts DEF EvalCircuit
<1>12. Buffers' /\ IsSeq(bufE)'
  <2>1. RightStays /\ bufG' = bufG /\ phased' = phased
    BY <1>2, <1>5, FramesKeep DEF garbler, RightStays
  <2>2. /\ IsSeq(bufG) /\ Len(bufG) = GarbCircuit /\ GarbCircuit \in Nat
        /\ \A k \in 1 .. Len(bufG) : CircuitRight(0 + k, bufG[k])
    BY <1>9, Places DEF IInv, Sequences, Buffers, CircuitFrom, GarbPlace, EvalPlace
  <2>3. \A k \in 1 .. Len(bufG) : CircuitRight(0 + k, bufG[k])'
    BY <2>1, <2>2 DEF RightStays
  <2>4. Len(bufG) = GarbCircuit - EvalCircuit
    BY <1>11, <2>2
  <2>5. /\ Len(bufG') = GarbCircuit' /\ CircuitFrom(bufG, 0)'
        /\ Len(bufE') = GarbCircuit' - EvalCircuit' /\ CircuitFrom(bufE, EvalCircuit)'
    BY <1>6, <1>10, <1>11, <2>1, <2>2, <2>3, <2>4 DEF CircuitFrom
  <2> QED  BY <1>1, <1>4, <1>9, <1>10, <2>1, <2>2, <2>5 DEF Buffers, IsSeq
<1>13. ToGarb' /\ IsSeq(toGarb)'
  BY <1>2, <1>5, <1>6, EvalAnswersNothing
<1>14. /\ GarbPlace' /\ Garbled' /\ IsSeq(label0)' /\ IsSeq(bufG)' /\ Types'
       /\ \A s : GarbPast(s)' <=> GarbPast(s)
  BY <1>2, <1>5, EvalStepIs, TypesKept
<1>15. InputLabels' /\ Evaluated' /\ LabelsEncode' /\ IsSeq(active)'
  BY <1>1, <1>2, <1>3, <1>4, <1>5, EvalLabelsStay DEF EvalDoes
<1>16. EvalPlace' /\ IsSeq(result)' /\ OutputsCorrect'
  <2>1. step \notin {"alice", "bob", "labels", "gates", "outputs"}
    BY <1>1
  <2> QED  BY <1>2, <1>3, <1>4, <2>1, EvalPlaceStays DEF EvalDoes
<1>17. Transferred'
  BY <1>1, <1>3, <1>4, <1>5, EvalTransferredStays DEF EvalDoes
<1>18. Learned'
  BY <1>2, <1>7, <1>10, <1>14 DEF IInv, Learned, garbler
<1> QED  BY <1>8, <1>12, <1>13, <1>14, <1>15, <1>16, <1>17, <1>18 DEF IInv, Sequences

LEMMA EvalChoicesKeeps == IInv /\ EvalChoices => IInv'
<1> SUFFICES ASSUME IInv, EvalChoices PROVE IInv'
  OBVIOUS
<1>1. PICK step, m : /\ step = "choices"
                     /\ m = Message("choices", Bytes([k \in OT |-> All[k] # randChoices[k]]))
  OBVIOUS
<1>2. /\ EvalAt(step) /\ SendToGarb(m) /\ EvalAdvance
      /\ UNCHANGED <<mode, value, garbler, randChoices, eOTs, active, eId, bufE, result, toEval>>
  BY <1>1 DEF EvalChoices
<1>3. step \in StepName \ DOMAIN Count /\ Times(step) = 1 /\ step \in StepName \ {"bob", "u", "offset", "gcs"}
  BY <1>1, TimesOf, Counts DEF StepName
<1>4. EvalDoes(step, 1) /\ ePos = 0
  BY <1>2, <1>3, EvalDoesOnce
<1>5. EvalFrame
  BY <1>2, <1>4, EvalFrameOf DEF EvalDoes
<1>6. /\ Types' /\ GarbPlace' /\ EvalPlace' /\ Learned' /\ Transferred'
      /\ InputLabels' /\ Garbled' /\ Evaluated' /\ LabelsEncode' /\ OutputsCorrect'
      /\ IsSeq(label0)' /\ IsSeq(active)' /\ IsSeq(result)' /\ IsSeq(bufG)'
      /\ EvalPast("gcs")' <=> EvalPast("gcs")
  BY <1>1, <1>2, <1>3, <1>4, <1>5, EvalStill
<1>7. /\ EvalLink' = EvalLink /\ EvalCircuit' = EvalCircuit /\ EvalBack' = EvalBack + 1
      /\ GarbLink' = GarbLink /\ GarbCircuit' = GarbCircuit /\ GarbBack' = GarbBack
  BY <1>1, <1>4 DEF EvalDoes, LinkSteps, CircuitSteps, BackSteps
<1>8. ToEval' /\ IsSeq(toEval)' /\ Buffers' /\ IsSeq(bufE)'
  BY <1>2, <1>5, <1>6, <1>7, EvalTakesNothing, EvalKeepsBuffers
<1>9. ToGarb' /\ IsSeq(toGarb)'
  <2>1. PICK n : n = EvalBack
    OBVIOUS
  <2>2. n \in Nat /\ n + 1 = 8 /\ phased
    BY <1>1, <1>4, <2>1, Places DEF EvalDoes, PlacesAre, IInv, GarbPlace, EvalPlace
  <2>3. EvalPast("u")
    BY <1>1, <1>4, <2>2 DEF EvalDoes, EvalPast, EvalIndex, EvalPhases
  <2>4. EvalPast("u")'
    BY <1>4, <2>3 DEF EvalDoes, StepName
  <2>5. m = Message("choices", Bytes([k \in OT |-> All[k] # randChoices[k]]))'
    BY <1>1, <1>2 DEF Message, Bytes, All
  <2>6. AnswerRight(n + 1, m)'
    BY <2>2, <2>4, <2>5 DEF AnswerRight
  <2> QED  BY <1>2, <1>5, <1>7, <2>1, <2>2, <2>6, EvalAnswers
<1> QED  BY <1>6, <1>8, <1>9 DEF IInv, Sequences

\* The evaluator's row takes the OT message off the hidden label.
LEMMA HiddenCorrect ==
    ASSUME NEW l, NEW e, NEW r, NEW random \in BOOLEAN, NEW bit \in BOOLEAN
    PROVE  Xor(Xor(l, Xor(Xor(e, When(random, r)), When(bit # random, r))), e)
             = Xor(l, When(bit, r))
<1>1. CASE random /\ bit
  BY <1>1 DEF Xor, When, Zero
<1>2. CASE random /\ ~bit
  BY <1>2 DEF Xor, When, Zero
<1>3. CASE ~random /\ bit
  BY <1>3 DEF Xor, When, Zero
<1>4. CASE ~random /\ ~bit
  BY <1>4 DEF Xor, When, Zero
<1> QED  BY <1>1, <1>2, <1>3, <1>4

LEMMA EvalLabelsKeeps == IInv /\ EvalLabels => IInv'
<1> SUFFICES ASSUME IInv, EvalLabels PROVE IInv'
  OBVIOUS
<1>1. PICK step, b, w, label :
         /\ step = "labels" /\ b = ePos + 1 /\ w = mInputA_size + b
         /\ label = [i \in Lane |-> Xor(Head(toEval).body[i], eOTs[OTIndex(ePos, i)])]
  OBVIOUS
<1>2. /\ EvalAt(step) /\ ePos < Count[step] /\ FromGarb /\ EvalMore
      /\ active' = Append(active, label)
      /\ UNCHANGED <<mode, value, garbler, randChoices, eOTs, eId, bufE, result, toGarb>>
  BY <1>1 DEF EvalLabels
<1>3. step \in StepName \ {"bob", "u", "offset", "gcs"} /\ step \in DOMAIN Count
  BY <1>1, Counts DEF StepName
<1>4. EvalDoes(step, 1) /\ b \in 1 .. mInputB_size /\ (EvalPast("gcs")' <=> EvalPast("gcs"))
  BY <1>1, <1>2, <1>3, Counts, EvalDoesRound
<1>5. /\ IsSeq(active)' /\ Len(active)' = w /\ Len(active) + 1 = w /\ w \in Nat
      /\ Len(active) >= mInputA_size /\ w <= NumInputs
      /\ Begins(active, active') /\ active'[w] = label
  <2>1. Len(active) = mInputA_size + ePos
    BY <1>1, <1>4, EvalMade DEF EvalDoes, IInv
  <2>2. ePos \in Nat /\ Len(active) + 1 = w /\ Len(active) >= mInputA_size /\ w <= NumInputs
    BY <1>1, <1>4, <2>1, Counts DEF EvalDoes
  <2> QED  BY <1>1, <1>2, <2>1, <2>2, OneMoreActive
<1>6. EvalFrame
  BY <1>2, <1>4, <1>5 DEF EvalFrame, EvalDoes
<1>7. /\ EvalLink' = EvalLink + 1 /\ EvalCircuit' = EvalCircuit /\ EvalBack' = EvalBack
      /\ GarbLink' = GarbLink /\ GarbCircuit' = GarbCircuit /\ GarbBack' = GarbBack
  BY <1>1, <1>4 DEF EvalDoes, LinkSteps, CircuitSteps, BackSteps
<1>8. ToEval' /\ IsSeq(toEval)' /\ LinkRight(Taken + 1, Head(toEval))
  BY <1>2, <1>6, <1>7, LinkShrinks
<1>9. Taken + 1 = LabelsAt(b) /\ phased
  BY <1>1, <1>4, Places DEF EvalDoes, PlacesAre, IInv, GarbPlace, EvalPlace
<1>10. GarbPast("choices") /\ Head(toEval).body = Hidden(b)
  <2>1. GarbPast("choices") /\ Head(toEval) = Message("labels", Hidden(b))
    BY <1>4, <1>8, <1>9 DEF LinkRight
  <2> QED  BY <2>1 DEF Message
<1>11. EvalPast("offset") /\ GarbPast("u")
  <2>1. EvalPast("offset")
    BY <1>1, <1>4, <1>9 DEF EvalDoes, EvalPast, EvalIndex, EvalPhases
  <2> QED  BY <1>10, <2>1, GarbOrder DEF IInv, GarbPlace
<1>12. Buffers' /\ IsSeq(bufE)' /\ ToGarb' /\ IsSeq(toGarb)'
  BY <1>2, <1>4, <1>6, <1>7, EvalKeepsBuffers, EvalAnswersNothing
<1>13. GarbPlace' /\ Garbled' /\ IsSeq(label0)' /\ IsSeq(bufG)' /\ Types'
  BY <1>2, <1>6, EvalStepIs, TypesKept
<1>14. EvalPlace' /\ IsSeq(result)' /\ OutputsCorrect'
  <2>1. Len(active)' = Len(active) + 1
    BY <1>5
  <2> QED  BY <1>1, <1>2, <1>4, <2>1, EvalPlaceMakes
<1>15. InputLabels' /\ Transferred'
  BY <1>1, <1>3, <1>4, <1>5, <1>6, InputLabelsMore, EvalTransferredStays DEF EvalDoes
<1>16. Learned'
  <2>1. \A v \in 1 .. mInputA_size : ~(v > Len(active))
    BY <1>5, SeqIs, Counts DEF IInv, Sequences
  <2> QED  BY <1>3, <1>4, <1>5, <1>6, <2>1, LearnedMore DEF EvalDoes
<1>17. Evaluated'
  <2>1. \A g \in DOMAIN Gates : ~(NumInputs + g <= Len(active)')
    BY <1>5, Counts
  <2> QED  BY <2>1 DEF Evaluated
<1>18. LabelsEncode'
  <2>1. ASSUME NEW v \in 1 .. Len(label0), v > Len(active), v <= Len(active)', NEW i \in Lane
        PROVE  active'[v][i] = Xor(label0[v][i], When(value[i][v], R))
    <3>1. v = w
      BY <1>5, <2>1, SeqIs DEF IInv, Sequences
    <3>2. PICK k : k = OTIndex(b - 1, i)
      OBVIOUS
    <3>3. k \in OT /\ All[k] = value[i][w]
      BY <1>1, <1>4, <3>2, ChoiceOf
    <3>4. PICK bit \in BOOLEAN, random \in BOOLEAN : bit = value[i][w] /\ random = randChoices[k]
      BY <1>5, <3>1, <3>3, <2>1, Values, ChoicesTyped DEF IInv, Types
    <3>5. gOTs[k] = Xor(eOTs[k], When(random, R)) /\ corrected[k] = (bit # random)
      BY <1>10, <1>11, <3>3, <3>4 DEF IInv, Transferred
    <3>6. Hidden(b)[i] = Xor(label0[w][i], Xor(gOTs[k], When(corrected[k], R)))
      BY <1>1, <3>2 DEF Hidden, OTMessage
    <3>7. label[i] = Xor(Hidden(b)[i], eOTs[k])
      <4>1. ePos = b - 1
        BY <1>1, <1>4 DEF EvalDoes
      <4> QED  BY <1>1, <1>10, <3>2, <4>1
    <3> QED  BY <1>5, <3>1, <3>4, <3>5, <3>6, <3>7, HiddenCorrect
  <2> QED  BY <1>5, <1>6, <2>1, LabelsEncodeMore
<1> QED  BY <1>5, <1>8, <1>12, <1>13, <1>14, <1>15, <1>16, <1>17, <1>18 DEF IInv, Sequences

LEMMA EvalFreeKeeps == IInv /\ EvalFree => IInv'
<1> SUFFICES ASSUME IInv, EvalFree PROVE IInv'
  OBVIOUS
<1>1. PICK step, g, w : step = "gates" /\ g = ePos + 1 /\ w = NumInputs + g
  OBVIOUS
<1>2. PICK label :
         /\ \/ Gates[g].op = "NOT" /\ label = active[Gates[g].a]
            \/ Gates[g].op = "XOR" /\ label = XorAll(active[Gates[g].a], active[Gates[g].b])
         /\ active' = Append(active, label)
         /\ EvalAt(step) /\ ePos < Count[step] /\ EvalMore
         /\ UNCHANGED <<mode, value, garbler, randChoices, eOTs, result, toGarb>>
         /\ UNCHANGED <<eId, bufE, toEval>>
  BY <1>1 DEF EvalFree, EvalMake, EvalGate, EvalA, EvalB
<1>3. step \in StepName \ {"bob", "u", "offset", "gcs"} /\ step \in DOMAIN Count
  BY <1>1, Counts DEF StepName
<1>4. /\ EvalDoes(step, 1) /\ g \in 1 .. NumGates /\ g \in DOMAIN Gates /\ ePos \in Nat
      /\ EvalPast("gcs")' <=> EvalPast("gcs")
  BY <1>1, <1>2, <1>3, Counts, EvalDoesRound DEF EvalDoes
<1>5. /\ IsSeq(active)' /\ Len(active)' = w /\ Len(active) + 1 = w /\ w \in Nat
      /\ Begins(active, active') /\ active'[w] = label /\ Len(active) \in Nat
  <2>1. Len(active) = NumInputs + ePos
    BY <1>1, <1>4, EvalMade DEF EvalDoes, IInv
  <2>2. Len(active) + 1 = w /\ w \in Nat
    BY <1>1, <1>4, <2>1, Counts
  <2> QED  BY <1>2, <2>2, OneMoreActive
<1>6. EvalFrame
  BY <1>2, <1>4, <1>5 DEF EvalFrame, EvalDoes
<1>7. ~IsAnd(g)
  BY <1>2 DEF IsAnd
<1>8. /\ EvalLink' = EvalLink /\ EvalCircuit' = EvalCircuit /\ EvalBack' = EvalBack
      /\ GarbLink' = GarbLink /\ GarbCircuit' = GarbCircuit /\ GarbBack' = GarbBack
  BY <1>1, <1>4, <1>7 DEF EvalDoes, LinkSteps, CircuitSteps, BackSteps
<1>9. ToEval' /\ IsSeq(toEval)' /\ Buffers' /\ IsSeq(bufE)' /\ ToGarb' /\ IsSeq(toGarb)'
  BY <1>2, <1>4, <1>6, <1>8, EvalTakesNothing, EvalKeepsBuffers, EvalAnswersNothing
<1>10. GarbPlace' /\ Garbled' /\ IsSeq(label0)' /\ IsSeq(bufG)' /\ Types'
  BY <1>2, <1>6, EvalStepIs, TypesKept
<1>11. EvalPlace' /\ IsSeq(result)' /\ OutputsCorrect'
  <2>1. Len(active)' = Len(active) + 1
    BY <1>5
  <2>2. EvalDid("gates") = ePos
    BY <1>1, <1>2, <1>3, EvalAtStep DEF IInv, GarbPlace, EvalPlace
  <2>3. EvalDid("gates")' = g
    BY <1>1, <1>4, <2>2 DEF EvalDoes, EvalMoves, StepName
  <2>4. Ands(g) = Ands(ePos)
    BY <1>1, <1>4, <1>7, AndsCount
  <2>5. eId' = Ands(EvalDid("gates")')
    BY <1>2, <2>2, <2>3, <2>4 DEF IInv, EvalPlace
  <2> QED  BY <1>1, <1>2, <1>4, <2>1, <2>5, EvalPlaceMakes
<1>12. InputLabels' /\ Transferred'
  BY <1>1, <1>3, <1>4, <1>5, <1>6, InputLabelsMore, EvalTransferredStays DEF EvalDoes
<1>13. Learned'
  <2>1. \A v \in 1 .. mInputA_size : ~(v > Len(active))
    BY <1>1, <1>4, <1>5, Counts
  <2> QED  BY <1>3, <1>4, <1>5, <1>6, <2>1, LearnedMore DEF EvalDoes
<1>14. \A h \in DOMAIN Gates : NumInputs + h > Len(active) /\ NumInputs + h <= Len(active)' => h = g
  BY <1>1, <1>4, <1>5, Counts
<1>15. Evaluated'
  BY <1>1, <1>2, <1>5, <1>6, <1>14, EvaluatedMore
<1>16. LabelsEncode'
  <2>1. ASSUME NEW v \in 1 .. Len(label0), v > Len(active), v <= Len(active)', NEW i \in Lane
        PROVE  active'[v][i] = Xor(label0[v][i], When(value[i][v], R))
    <3>1. v = w /\ w <= Len(label0) /\ Len(label0) \in Nat
      BY <1>5, <2>1, SeqIs DEF IInv, Sequences
    <3>2. PICK a, b : a = Gates[g].a /\ b = Gates[g].b
      OBVIOUS
    <3>3. /\ a \in 1 .. NumWires /\ b \in 1 .. NumWires
          /\ a \in 1 .. Len(active) /\ b \in 1 .. Len(active)
          /\ a <= Len(label0) /\ b <= Len(label0)
      BY <1>1, <1>4, <1>5, <3>1, <3>2, GateWires, Counts
    <3>4. /\ active[a][i] = Xor(label0[a][i], When(value[i][a], R))
          /\ active[b][i] = Xor(label0[b][i], When(value[i][b], R))
      BY <2>1, <3>3 DEF IInv, LabelsEncode
    <3>5. PICK va \in BOOLEAN, vb \in BOOLEAN : va = value[i][a] /\ vb = value[i][b]
      BY <3>3, Values DEF IInv
    <3>6. CASE Gates[g].op = "NOT"
      <4>1. active'[v][i] = active[a][i]
        BY <1>2, <1>5, <3>1, <3>2, <3>6
      <4>2. value[i][v] = ~va
        BY <1>1, <1>4, <3>1, <3>2, <3>5, <3>6, Values DEF IInv
      <4>3. label0[v] = XorAll(label0[a], Same(R))
        BY <1>1, <1>4, <3>1, <3>2, <3>6 DEF IInv, Garbled
      <4>4. label0[v][i] = Xor(label0[a][i], R)
        BY <4>3 DEF XorAll, Same
      <4>5. Xor(label0[a][i], When(va, R)) = Xor(Xor(label0[a][i], R), When(~va, R))
        BY NotCorrect DEF LabelOf
      <4> QED  BY <3>4, <3>5, <4>1, <4>2, <4>4, <4>5
    <3>7. CASE Gates[g].op = "XOR"
      <4>1. active'[v][i] = Xor(active[a][i], active[b][i])
        BY <1>2, <1>5, <3>1, <3>2, <3>7 DEF XorAll
      <4>2. value[i][v] = (va # vb)
        BY <1>1, <1>4, <3>1, <3>2, <3>5, <3>7, Values DEF IInv
      <4>3. label0[v] = XorAll(label0[a], label0[b])
        BY <1>1, <1>4, <3>1, <3>2, <3>7 DEF IInv, Garbled
      <4>4. label0[v][i] = Xor(label0[a][i], label0[b][i])
        BY <4>3 DEF XorAll
      <4>5. Xor(Xor(label0[a][i], When(va, R)), Xor(label0[b][i], When(vb, R)))
              = Xor(Xor(label0[a][i], label0[b][i]), When(va # vb, R))
        BY XorCorrect DEF LabelOf
      <4> QED  BY <3>4, <3>5, <4>1, <4>2, <4>4, <4>5
    <3> QED  BY <1>2, <3>6, <3>7
  <2> QED  BY <1>5, <1>6, <2>1, LabelsEncodeMore
<1> QED  BY <1>5, <1>9, <1>10, <1>11, <1>12, <1>13, <1>15, <1>16 DEF IInv, Sequences

LEMMA EvalAndKeeps == IInv /\ EvalAnd => IInv'
<1> SUFFICES ASSUME IInv, EvalAnd PROVE IInv'
  OBVIOUS
<1>1. PICK step, g, w : step = "gates" /\ g = ePos + 1 /\ w = NumInputs + g
  OBVIOUS
<1>2. PICK label :
         label = EvaluatedAndAll(active[Gates[g].a], active[Gates[g].b], eId,
                                 Circuit[1].body, Circuit[2].body)
  OBVIOUS
<1>3. /\ EvalAt(step) /\ ePos < Count[step] /\ ReadCircuit(2) /\ EvalMore /\ IsAnd(g)
      /\ active' = Append(active, label) /\ eId' = eId + 1
      /\ UNCHANGED <<mode, value, garbler, randChoices, eOTs, result, toGarb>>
  BY <1>1, <1>2 DEF EvalAnd, EvalMake, EvalGate, EvalA, EvalB, IsAnd
<1>4. step \in StepName \ {"bob", "u", "offset", "gcs"} /\ step \in DOMAIN Count
  BY <1>1, Counts DEF StepName
<1>5. /\ EvalDoes(step, 1) /\ g \in 1 .. NumGates /\ g \in DOMAIN Gates /\ ePos \in Nat
      /\ EvalPast("gcs")' <=> EvalPast("gcs")
  BY <1>1, <1>3, <1>4, Counts, EvalDoesRound DEF EvalDoes
<1>6. /\ IsSeq(active)' /\ Len(active)' = w /\ Len(active) + 1 = w /\ w \in Nat
      /\ Begins(active, active') /\ active'[w] = label /\ Len(active) \in Nat
  <2>1. Len(active) = NumInputs + ePos
    BY <1>1, <1>5, EvalMade DEF EvalDoes, IInv
  <2>2. Len(active) + 1 = w /\ w \in Nat
    BY <1>1, <1>5, <2>1, Counts
  <2> QED  BY <1>3, <2>2, OneMoreActive
<1>7. EvalFrame
  BY <1>3, <1>5, <1>6 DEF EvalFrame, EvalDoes
<1>8. /\ EvalLink' = EvalLink /\ EvalCircuit' = EvalCircuit + 2 /\ EvalBack' = EvalBack
      /\ GarbLink' = GarbLink /\ GarbCircuit' = GarbCircuit /\ GarbBack' = GarbBack
  BY <1>1, <1>3, <1>5 DEF EvalDoes, LinkSteps, CircuitSteps, BackSteps
<1>9. phased => EvalPast("gcs")
  BY <1>1, <1>5 DEF EvalDoes, EvalPast, EvalIndex, EvalPhases
<1>10. /\ ToEval' /\ Buffers' /\ IsSeq(toEval)' /\ IsSeq(bufE)'
       /\ CircuitRight(CircuitTaken + 1, Circuit[1]) /\ CircuitRight(CircuitTaken + 2, Circuit[2])
  <2>1. PICK n \in Nat : n = 2
    OBVIOUS
  <2>2. /\ ToEval' /\ Buffers' /\ IsSeq(toEval)' /\ IsSeq(bufE)'
        /\ \A k \in 1 .. n : CircuitRight(CircuitTaken + k, Circuit[k])
    BY <1>3, <1>5, <1>7, <1>8, <1>9, <2>1, CircuitShrinks
  <2> QED  BY <2>1, <2>2
<1>11. /\ EvalDid("gates") = ePos /\ eId = Ands(g - 1) /\ g - 1 = ePos
       /\ Ands(g) = Ands(g - 1) + 1
  <2>1. EvalDid("gates") = ePos
    BY <1>1, <1>3, <1>4, EvalAtStep DEF IInv, GarbPlace, EvalPlace
  <2>2. g - 1 = ePos
    BY <1>1, <1>5
  <2>3. Ands(ePos + 1) = Ands(ePos) + 1
    BY <1>1, <1>3, <1>5, AndsCount
  <2> QED  BY <1>1, <2>1, <2>2, <2>3 DEF IInv, EvalPlace
<1>12. w <= Len(label0) /\ Circuit[1].body = TG(g) /\ Circuit[2].body = TE(g)
  <2>1. PICK p : p = CircuitTaken
    OBVIOUS
  <2>2. p \in Nat /\ p + 1 = TableAt(g)
    <3>1. p \in Nat /\ p + 1 = TablesFrom + 2 * Ands(ePos) + 1
      BY <1>1, <1>5, <2>1, Places DEF EvalDoes, PlacesAre, IInv, GarbPlace, EvalPlace
    <3> QED  BY <1>11, <3>1 DEF TableAt
  <2>3. p + 2 = TableAt(g) + 1
    BY <2>2
  <2>4. w <= Len(label0) /\ Circuit[1] = Message("TG", TG(g))
    BY <1>1, <1>3, <1>5, <1>10, <2>1, <2>2 DEF CircuitRight
  <2>5. Circuit[2] = Message("TE", TE(g))
    BY <1>1, <1>3, <1>5, <1>10, <2>1, <2>3 DEF CircuitRight
  <2> QED  BY <2>4, <2>5 DEF Message
<1>13. ToGarb' /\ IsSeq(toGarb)'
  BY <1>3, <1>7, <1>8, EvalAnswersNothing
<1>14. GarbPlace' /\ Garbled' /\ IsSeq(label0)' /\ IsSeq(bufG)' /\ Types'
  BY <1>3, <1>7, EvalStepIs, TypesKept
<1>15. EvalPlace' /\ IsSeq(result)' /\ OutputsCorrect'
  <2>1. Len(active)' = Len(active) + 1
    BY <1>6
  <2>2. EvalDid("gates")' = g
    BY <1>1, <1>5, <1>11 DEF EvalDoes, EvalMoves, StepName
  <2>3. eId' = Ands(EvalDid("gates")')
    BY <1>3, <1>11, <2>2
  <2> QED  BY <1>1, <1>3, <1>5, <2>1, <2>3, EvalPlaceMakes
<1>16. InputLabels' /\ Transferred'
  BY <1>1, <1>4, <1>5, <1>6, <1>7, InputLabelsMore, EvalTransferredStays DEF EvalDoes
<1>17. Learned'
  <2>1. \A v \in 1 .. mInputA_size : ~(v > Len(active))
    BY <1>1, <1>5, <1>6, Counts
  <2> QED  BY <1>4, <1>5, <1>6, <1>7, <2>1, LearnedMore DEF EvalDoes
<1>18. \A h \in DOMAIN Gates : NumInputs + h > Len(active) /\ NumInputs + h <= Len(active)' => h = g
  BY <1>1, <1>5, <1>6, Counts
<1>19. Evaluated'
  BY <1>1, <1>3, <1>6, <1>7, <1>12, <1>18, EvaluatedMore DEF IsAnd
<1>20. LabelsEncode'
  <2>1. ASSUME NEW v \in 1 .. Len(label0), v > Len(active), v <= Len(active)', NEW i \in Lane
        PROVE  active'[v][i] = Xor(label0[v][i], When(value[i][v], R))
    <3>1. v = w /\ w <= Len(label0) /\ Len(label0) \in Nat
      BY <1>6, <2>1, SeqIs DEF IInv, Sequences
    <3>2. PICK a, b, id : a = Gates[g].a /\ b = Gates[g].b /\ id = Ands(g - 1)
      OBVIOUS
    <3>3. /\ a \in 1 .. NumWires /\ b \in 1 .. NumWires
          /\ a \in 1 .. Len(active) /\ b \in 1 .. Len(active)
          /\ a <= Len(label0) /\ b <= Len(label0)
      <4>1. PICK l, m : l = Len(active) /\ m = Len(label0)
        OBVIOUS
      <4>2. a \in 1 .. NumWires /\ b \in 1 .. NumWires /\ a < NumInputs + g /\ b < NumInputs + g
        BY <1>5, <3>2, GateWires
      <4>3. /\ NumInputs \in Nat /\ NumWires \in Nat /\ g \in Nat /\ l \in Nat /\ m \in Nat
            /\ l + 1 = NumInputs + g /\ NumInputs + g <= m
        BY <1>1, <1>5, <1>6, <3>1, <4>1, Counts
      <4>4. a \in 1 .. l /\ b \in 1 .. l /\ a <= m /\ b <= m
        BY ONLY <4>2, <4>3
      <4> QED  BY <4>1, <4>2, <4>4
    <3>4. /\ active[a][i] = Xor(label0[a][i], When(value[i][a], R))
          /\ active[b][i] = Xor(label0[b][i], When(value[i][b], R))
      BY <2>1, <3>3 DEF IInv, LabelsEncode
    <3>5. PICK va \in BOOLEAN, vb \in BOOLEAN : va = value[i][a] /\ vb = value[i][b]
      BY <3>3, Values DEF IInv
    <3>6. TG(g)[i] = TableG(R, label0[a][i], label0[b][i], id)
          /\ TE(g)[i] = TableE(R, label0[a][i], label0[b][i], id)
      BY <3>2 DEF TG, TE, TableGAll, TableEAll
    <3>7. active'[v][i] = EvaluatedAnd(active[a][i], active[b][i], id, TG(g)[i], TE(g)[i])
      BY <1>2, <1>6, <1>11, <1>12, <3>1, <3>2 DEF EvaluatedAndAll
    <3>8. label0[v][i] = GarbledAnd(R, label0[a][i], label0[b][i], id)
      BY <1>1, <1>3, <1>5, <3>1, <3>2 DEF IInv, Garbled, IsAnd, GarbledAndAll
    <3>9. value[i][v] = (va /\ vb)
      BY <1>1, <1>3, <1>5, <3>1, <3>2, <3>5, Values DEF IInv, IsAnd
    <3>10. PICK x, y : x = label0[a][i] /\ y = label0[b][i]
      OBVIOUS
    <3>11. EvaluatedAnd(LabelOf(x, va, R), LabelOf(y, vb, R), id, TableG(R, x, y, id), TableE(R, x, y, id))
             = LabelOf(GarbledAnd(R, x, y, id), va /\ vb, R)
      BY AndCorrect DEF IInv, Types
    <3>12. active[a][i] = LabelOf(x, va, R) /\ active[b][i] = LabelOf(y, vb, R)
      BY <3>4, <3>5, <3>10 DEF LabelOf
    <3> QED  BY <3>6, <3>7, <3>8, <3>9, <3>10, <3>11, <3>12 DEF LabelOf
  <2> QED  BY <1>6, <1>7, <2>1, LabelsEncodeMore
<1> QED  BY <1>6, <1>10, <1>13, <1>14, <1>15, <1>16, <1>17, <1>19, <1>20 DEF IInv, Sequences

\* The select bits of a wire's two labels differ, so they decode its value.
LEMMA DecodeCorrect ==
    ASSUME NEW l, NEW delta, LSB(delta), NEW bit \in BOOLEAN
    PROVE  (LSB(l) # LSB(Xor(l, When(bit, delta)))) = bit
<1>1. CASE bit
  BY <1>1, XorMember DEF LSB, When
<1>2. CASE ~bit
  BY <1>2, XorZero DEF LSB, When
<1> QED  BY <1>1, <1>2

LEMMA EvalOutputKeeps == IInv /\ EvalOutput => IInv'
<1> SUFFICES ASSUME IInv, EvalOutput PROVE IInv'
  OBVIOUS
<1>1. PICK step, o, w, bits :
         /\ step = "outputs" /\ o = ePos + 1 /\ w = Outputs[o]
         /\ bits = [i \in Lane |-> Head(Circuit).body[i] # SelectBits(active[w])[i]]
  OBVIOUS
<1>2. /\ EvalAt(step) /\ ePos < Count[step] /\ ReadCircuit(1) /\ EvalMore
      /\ result' = Append(result, bits)
      /\ UNCHANGED <<mode, value, garbler, randChoices, eOTs, active, eId, toGarb>>
  BY <1>1 DEF EvalOutput
<1>3. step \in StepName \ {"bob", "u", "offset", "gcs"} /\ step \in DOMAIN Count
  BY <1>1, Counts DEF StepName
<1>4. /\ EvalDoes(step, 1) /\ o \in DOMAIN Outputs /\ ePos \in Nat
      /\ EvalPast("gcs")' <=> EvalPast("gcs")
  BY <1>1, <1>2, <1>3, Counts, EvalDoesRound DEF EvalDoes
<1>5. /\ IsSeq(result)' /\ Len(result)' = o /\ Len(result) = ePos
      /\ Begins(result, result') /\ result'[o] = bits
  <2>1. Len(result) = ePos
    BY <1>1, <1>4, EvalMade DEF EvalDoes, IInv
  <2> QED  BY <1>1, <1>2, <2>1, Appended DEF IInv, Sequences
<1>6. EvalFrame
  BY <1>2, <1>4, EvalFrameOf DEF EvalDoes
<1>7. /\ EvalLink' = EvalLink /\ EvalCircuit' = EvalCircuit + 1 /\ EvalBack' = EvalBack
      /\ GarbLink' = GarbLink /\ GarbCircuit' = GarbCircuit /\ GarbBack' = GarbBack
  BY <1>1, <1>4 DEF EvalDoes, LinkSteps, CircuitSteps, BackSteps
<1>8. (phased => EvalPast("gcs")) /\ EvalPast("gates")
  BY <1>1, <1>4 DEF EvalDoes, EvalPast, EvalIndex, EvalPhases, Direct
<1>9. /\ ToEval' /\ Buffers' /\ IsSeq(toEval)' /\ IsSeq(bufE)'
      /\ CircuitRight(CircuitTaken + 1, Circuit[1]) /\ Head(Circuit) = Circuit[1]
  <2>1. PICK n \in Nat : n = 1
    OBVIOUS
  <2>2. /\ ToEval' /\ Buffers' /\ IsSeq(toEval)' /\ IsSeq(bufE)'
        /\ \A k \in 1 .. n : CircuitRight(CircuitTaken + k, Circuit[k])
        /\ Len(Circuit) >= n /\ IsSeq(Circuit)
    BY <1>2, <1>4, <1>6, <1>7, <1>8, <2>1, CircuitShrinks
  <2> QED  BY <2>1, <2>2, TailIs
<1>10. NumWires <= Len(label0) /\ Head(Circuit).body = SelectBits(label0[w])
  <2>1. CircuitTaken + 1 = OutputAt(o)
    BY <1>1, <1>4, Places DEF EvalDoes, PlacesAre, IInv, GarbPlace, EvalPlace
  <2>2. NumWires <= Len(label0) /\ Circuit[1] = Message("output", SelectBits(label0[w]))
    BY <1>1, <1>4, <1>9, <2>1 DEF CircuitRight
  <2> QED  BY <1>9, <2>2 DEF Message
<1>11. ToGarb' /\ IsSeq(toGarb)'
  BY <1>2, <1>6, <1>7, EvalAnswersNothing
<1>12. GarbPlace' /\ Garbled' /\ IsSeq(label0)' /\ IsSeq(bufG)' /\ Types'
  BY <1>2, <1>6, EvalStepIs, TypesKept
<1>13. InputLabels' /\ Evaluated' /\ LabelsEncode' /\ IsSeq(active)' /\ Transferred' /\ Learned'
  BY <1>2, <1>3, <1>4, <1>6, EvalLabelsStay, EvalTransferredStays, EvalLearnedStays,
     <1>1 DEF EvalDoes
<1>14. EvalPlace'
  <2>1. /\ EvalDid("alice")' = EvalDid("alice") /\ EvalDid("bob")' = EvalDid("bob")
        /\ EvalDid("labels")' = EvalDid("labels") /\ EvalDid("gates")' = EvalDid("gates")
        /\ EvalDid("outputs")' = EvalDid("outputs") + 1
    BY <1>1, <1>4 DEF EvalDoes, EvalMoves, StepName
  <2>2. EvalDid("outputs") = ePos
    BY <1>1, <1>2, <1>3, EvalAtStep DEF IInv, GarbPlace, EvalPlace
  <2>3. Len(result)' = EvalDid("outputs")'
    BY <1>1, <1>5, <2>1, <2>2
  <2> QED  BY <1>2, <1>4, <2>1, <2>3 DEF IInv, EvalPlace, EvalDoes
<1>15. OutputsCorrect'
  <2>1. ASSUME NEW n \in DOMAIN result', NEW i \in Lane
        PROVE  result'[n][i] = value[i][Outputs[n]]
    <3>1. n \in 1 .. o /\ o \in Nat
      BY <1>1, <1>4, <1>5, SeqIs
    <3>2. CASE n # o
      <4>1. n \in DOMAIN result /\ result'[n] = result[n]
        BY <1>1, <1>4, <1>5, <3>1, <3>2, SeqIs DEF IInv, Sequences, Begins
      <4> QED  BY <4>1 DEF IInv, OutputsCorrect
    <3>3. CASE n = o
      <4>1. w \in 1 .. NumWires /\ w \in 1 .. Len(active) /\ w <= Len(label0)
        <5>1. w \in 1 .. NumWires /\ Len(active) = NumWires
          BY <1>1, <1>4, <1>8, GateWires, EvalMade DEF IInv
        <5>2. Len(label0) \in Nat
          BY SeqIs DEF IInv, Sequences
        <5> QED  BY <1>10, <5>1, <5>2, Counts
      <4>2. active[w][i] = Xor(label0[w][i], When(value[i][w], R))
        BY <4>1 DEF IInv, LabelsEncode
      <4>3. PICK bit \in BOOLEAN : bit = value[i][w]
        BY <4>1, Values DEF IInv
      <4>4. result'[n][i] = (LSB(label0[w][i]) # LSB(active[w][i]))
        BY <1>1, <1>5, <1>10, <3>3 DEF SelectBits
      <4>5. (LSB(label0[w][i]) # LSB(Xor(label0[w][i], When(bit, R)))) = bit
        BY DecodeCorrect DEF IInv, Types
      <4>6. result'[n][i] = bit
        BY <4>2, <4>3, <4>4, <4>5
      <4> QED  BY <1>1, <3>3, <4>3, <4>6
    <3> QED  BY <3>2, <3>3
  <2> QED  BY <1>2, <2>1 DEF OutputsCorrect
<1> QED  BY <1>5, <1>9, <1>11, <1>12, <1>13, <1>14, <1>15 DEF IInv, Sequences

-----------------------------------------------------------------------------
(* The beginning *)

LEMMA NothingDone ==
    ASSUME NEW index \in Indices
    PROVE  /\ \A s \in StepName : Did(1, 0, index, s) = 0 /\ ~(1 > index[s])
           /\ Links(1, 0, index) = 0 /\ Circuits(1, 0, index) = 0 /\ Backs(1, 0, index) = 0
<1>1. \A s \in StepName : Did(1, 0, index, s) = 0 /\ ~(1 > index[s])
  BY Distinct DEF Did, Never
<1>2. Links(1, 0, index) = 0 /\ Backs(1, 0, index) = 0
  BY <1>1 DEF Links, Backs, StepName
<1>3. Circuits(1, 0, index) = 0
  BY <1>1, AndsCount DEF Circuits, StepName
<1> QED  BY <1>1, <1>2, <1>3

LEMMA InitInv == Init => IInv
<1> SUFFICES ASSUME Init PROVE IInv
  OBVIOUS
<1>1. /\ gStep = 1 /\ gPos = 0 /\ gId = 0 /\ eStep = 1 /\ ePos = 0 /\ eId = 0
      /\ bufG = <<>> /\ bufE = <<>> /\ result = <<>> /\ label0 = <<>> /\ active = <<>>
      /\ toEval = <<>> /\ toGarb = <<>>
  BY DEF Init
<1>2. /\ \A s \in StepName : /\ GarbDid(s) = 0 /\ ~GarbPast(s)
                             /\ EvalDid(s) = 0 /\ ~EvalPast(s)
      /\ GarbLink = 0 /\ GarbCircuit = 0 /\ GarbBack = 0
      /\ EvalLink = 0 /\ EvalCircuit = 0 /\ EvalBack = 0
  BY <1>1, Scripts, NothingDone
     DEF GarbDid, GarbPast, EvalDid, EvalPast, GarbLink, GarbCircuit, GarbBack, EvalLink,
         EvalCircuit, EvalBack
<1>3. Types
  BY DEF Init, Types, Deltas
<1>4. Len(<<>>) = 0 /\ IsSeq(<<>>) /\ DOMAIN <<>> = 1 .. 0
  BY EmptyIs, SeqIs
<1>5. GarbPlace /\ EvalPlace
  <2>1. GarbWithin /\ EvalWithin
    BY <1>1, Scripts DEF GarbWithin, EvalWithin, Within
  <2>2. /\ GarbDid("alice") = 0 /\ GarbDid("bob") = 0 /\ GarbDid("gates") = 0
        /\ EvalDid("alice") = 0 /\ EvalDid("bob") = 0 /\ EvalDid("labels") = 0
        /\ EvalDid("gates") = 0 /\ EvalDid("outputs") = 0
    BY <1>2 DEF StepName
  <2>3. Ands(GarbDid("gates")) = 0 /\ Ands(EvalDid("gates")) = 0
    BY <2>2, AndsCount
  <2>4. Len(label0) = 0 /\ Len(active) = 0 /\ Len(result) = 0
    BY <1>1, <1>4
  <2>5. GarbPlace
    BY <1>1, <2>1, <2>2, <2>3, <2>4 DEF GarbPlace
  <2>6. EvalPlace
    BY <1>1, <2>1, <2>2, <2>3, <2>4 DEF EvalPlace
  <2> QED  BY <2>5, <2>6
<1>6. Sequences
  BY <1>1, <1>4 DEF Sequences
<1>7. ToEval /\ ToGarb
  BY <1>1, <1>2, <1>4 DEF ToEval, ToGarb, Sent, Taken, ConnectionFrom, AnswersFrom
<1>8. Buffers
  BY <1>1, <1>2, <1>4 DEF Buffers, CircuitFrom, StepName
<1>9. Learned
  BY <1>1, <1>2, <1>4, Counts DEF Learned, StepName
<1>10. Transferred /\ InputLabels
  BY <1>2 DEF Transferred, InputLabels, StepName
<1>11. Garbled /\ Evaluated
  <2>1. \A g \in DOMAIN Gates : ~(NumInputs + g <= 0)
    BY Counts
  <2> QED  BY <1>1, <1>4, <2>1 DEF Garbled, Evaluated
<1>12. LabelsEncode /\ OutputsCorrect
  BY <1>1, <1>4 DEF LabelsEncode, OutputsCorrect
<1> QED  BY <1>3, <1>5, <1>6, <1>7, <1>8, <1>9, <1>10, <1>11, <1>12 DEF IInv

-----------------------------------------------------------------------------
(* Lockstep *)

LEMMA HeadOfCircuit ==
    ASSUME IInv, phased => EvalPast("gcs"), Circuit # <<>>
    PROVE  CircuitRight(CircuitTaken + 1, Head(Circuit))
<1>1. IsSeq(Circuit) /\ \A k \in 1 .. Len(Circuit) : CircuitRight(CircuitTaken + k, Circuit[k])
  <2>1. CASE phased
    BY <2>1 DEF IInv, Sequences, Buffers, CircuitFrom, Circuit, CircuitTaken, phased
  <2>2. CASE ~phased
    <3>1. Circuit = toEval /\ CircuitTaken = Taken
      BY <2>2 DEF Circuit, CircuitTaken, phased
    <3> QED  BY <2>2, <3>1 DEF IInv, Sequences, ToEval, ConnectionFrom, ConnectionRight
  <2> QED  BY <2>1, <2>2
<1>2. Len(Circuit) >= 1 /\ 1 \in 1 .. Len(Circuit)
  BY <1>1, SeqIs
<1>3. Head(Circuit) = Circuit[1]
  BY <1>1, <1>2, TailIs
<1> QED  BY <1>1, <1>2, <1>3

LEMMA HeadOfLink ==
    ASSUME IInv, toEval # <<>>
    PROVE  LinkRight(Taken + 1, Head(toEval))
<1>1. IsSeq(toEval) /\ \A k \in 1 .. Len(toEval) : LinkRight(Taken + k, toEval[k])
  BY DEF IInv, Sequences, ToEval, ConnectionFrom, ConnectionRight
<1>2. Len(toEval) >= 1 /\ 1 \in 1 .. Len(toEval)
  BY <1>1, SeqIs
<1>3. Head(toEval) = toEval[1]
  BY <1>1, <1>2, TailIs
<1> QED  BY <1>1, <1>2, <1>3

LEMMA HeadOfAnswers ==
    ASSUME IInv, toGarb # <<>>
    PROVE  AnswerRight(GarbBack + 1, Head(toGarb))
<1>1. IsSeq(toGarb) /\ \A k \in 1 .. Len(toGarb) : AnswerRight(GarbBack + k, toGarb[k])
  BY DEF IInv, Sequences, ToGarb, AnswersFrom
<1>2. Len(toGarb) >= 1 /\ 1 \in 1 .. Len(toGarb)
  BY <1>1, SeqIs
<1>3. Head(toGarb) = toGarb[1]
  BY <1>1, <1>2, TailIs
<1> QED  BY <1>1, <1>2, <1>3

\* What the evaluator expects of the circuit, by the step it is at.
LEMMA ExpectsOfCircuit ==
    ASSUME NEW kind \in EvalExpects(TRUE)
    PROVE  \/ kind = AliceKind /\ EvalAt("alice") /\ ePos < Count.alice
           \/ kind = "TG" /\ EvalAt("gates") /\ ePos < Count.gates /\ EvalGate.op = "AND"
           \/ kind = "output" /\ EvalAt("outputs") /\ ePos < Count.outputs
<1>1. /\ kind \in {"alice", "aliceSIMD", "TG", "output"}
      /\ CASE kind = "alice" -> Shared /\ EvalAt("alice") /\ ePos < Count.alice
           [] kind = "aliceSIMD" -> ~Shared /\ EvalAt("alice") /\ ePos < Count.alice
           [] kind = "TG" -> EvalAt("gates") /\ ePos < Count.gates /\ EvalGate.op = "AND"
           [] kind = "output" -> EvalAt("outputs") /\ ePos < Count.outputs
  BY DEF EvalExpects
<1>2. CASE kind = "alice"
  BY <1>1, <1>2 DEF AliceKind
<1>3. CASE kind = "aliceSIMD"
  BY <1>1, <1>3 DEF AliceKind
<1>4. CASE kind = "TG"
  BY <1>1, <1>4
<1>5. CASE kind = "output"
  BY <1>1, <1>5
<1> QED  BY <1>1, <1>2, <1>3, <1>4, <1>5

LEMMA CircuitInStep ==
    ASSUME IInv, NEW kind \in EvalExpects(TRUE)
    PROVE  /\ Circuit # <<>> => Head(Circuit).kind = kind
           /\ mode = "phases" => bufE # <<>>
<1>1. PICK step, w : /\ w = ePos + 1
                     /\ \/ kind = AliceKind /\ step = "alice"
                        \/ kind = "TG" /\ step = "gates" /\ IsAnd(w)
                        \/ kind = "output" /\ step = "outputs"
                     /\ EvalAt(step) /\ ePos < Count[step] /\ step \in StepName
  BY ExpectsOfCircuit DEF StepName, EvalGate, IsAnd
<1>2. eStep = EvalIndex[step] /\ ePos \in Nat /\ eStep \in 1 .. 19
  <2>1. GarbWithin /\ EvalWithin
    BY DEF IInv, GarbPlace, EvalPlace
  <2>2. eStep = EvalIndex[step] /\ ePos \in Nat
    BY <1>1, <2>1, EvalAtStep
  <2>3. EvalLastStep \in 16 .. 18 /\ eStep \in 1 .. EvalLastStep + 1
    BY <2>1, Scripts
  <2> QED  BY <2>2, <2>3
<1>3. phased => EvalPast("gcs")
  BY <1>1, <1>2 DEF EvalPast, EvalIndex, EvalPhases
<1>4. /\ step = "alice" => w \in 1 .. mInputA_size /\ CircuitTaken + 1 = AliceAt(w)
      /\ step = "gates" => /\ w \in DOMAIN Gates /\ w \in 1 .. NumGates
                           /\ CircuitTaken + 1 = TableAt(w)
      /\ step = "outputs" => w \in DOMAIN Outputs /\ CircuitTaken + 1 = OutputAt(w)
  <2>1. PlacesAre(eStep, ePos, EvalIndex) /\ NextCircuit(eStep, ePos, EvalIndex) = CircuitTaken + 1
    BY Places DEF IInv, GarbPlace, EvalPlace
  <2>2. CASE step = "alice"
    BY <1>1, <1>2, <2>1, <2>2, Counts DEF PlacesAre
  <2>3. CASE step = "gates"
    <3>1. CircuitTaken + 1 = TablesFrom + 2 * Ands(ePos) + 1
      BY <1>2, <2>1, <2>3 DEF PlacesAre
    <3>2. w - 1 = ePos /\ w \in 1 .. NumGates /\ w \in DOMAIN Gates
      BY <1>1, <1>2, <2>3, Counts
    <3> QED  BY <2>3, <3>1, <3>2 DEF TableAt
  <2>4. CASE step = "outputs"
    BY <1>1, <1>2, <2>1, <2>4, Counts DEF PlacesAre
  <2> QED  BY <1>1, <2>2, <2>3, <2>4
<1>5. ASSUME Circuit # <<>> PROVE Head(Circuit).kind = kind
  <2>1. CircuitRight(CircuitTaken + 1, Head(Circuit))
    BY <1>3, <1>5, HeadOfCircuit
  <2>2. CASE step = "alice"
    <3>1. Head(Circuit) = Message(AliceKind, Encoding(w))
      BY <1>4, <2>1, <2>2 DEF CircuitRight
    <3> QED  BY <1>1, <2>2, <3>1 DEF Message
  <2>3. CASE step = "gates"
    <3>1. Head(Circuit) = Message("TG", TG(w))
      BY <1>1, <1>4, <2>1, <2>3 DEF CircuitRight
    <3> QED  BY <1>1, <2>3, <3>1 DEF Message
  <2>4. CASE step = "outputs"
    <3>1. Head(Circuit) = Message("output", SelectBits(label0[Outputs[w]]))
      BY <1>4, <2>1, <2>4 DEF CircuitRight
    <3> QED  BY <1>1, <2>4, <3>1 DEF Message
  <2> QED  BY <1>1, <2>2, <2>3, <2>4
<1>6. ASSUME phased PROVE bufE # <<>>
  <2>1. EvalPast("gcs") /\ GarbPast("gcs")
    BY <1>3, <1>6 DEF IInv, Learned
  <2>2. GarbCircuit = mInputA_size + 2 * NumAnds + NumOutputs
    <3>1. gStep \in 1 .. 19 /\ gStep > 16 /\ gPos \in Nat /\ GarbIndex = GarbPhases
      <4>1. GarbWithin /\ GarbIndex = GarbPhases /\ LastStep = 18
        BY <1>6 DEF IInv, GarbPlace, GarbIndex, LastStep
      <4>2. gStep \in 1 .. LastStep + 1 /\ gPos \in Nat
        BY ONLY <4>1, Scripts
      <4>3. gStep > GarbPhases["gcs"]
        BY ONLY <2>1, <4>1 DEF GarbPast
      <4>4. GarbPhases["gcs"] = 16
        BY DEF GarbPhases
      <4> QED  BY ONLY <4>1, <4>2, <4>3, <4>4
    <3> QED  BY <1>6, <3>1, GarbPhasesCounts DEF GarbCircuit
  <2>3. /\ EvalCircuit + 1 = CircuitTaken + 1 /\ EvalCircuit \in Nat
        /\ TablesFrom = mInputA_size
    BY <1>6, Places DEF CircuitTaken, TablesFrom, IInv, GarbPlace, EvalPlace
  <2>4. EvalCircuit + 1 <= mInputA_size + 2 * NumAnds + NumOutputs
    <3>1. CASE step = "alice"
      <4>1. EvalCircuit + 1 = w /\ w \in 1 .. mInputA_size
        BY <1>4, <1>6, <2>3, <3>1 DEF AliceAt
      <4> QED  BY <4>1, Counts, AndsBound
    <3>2. CASE step = "gates"
      <4>1. EvalCircuit + 1 <= TablesFrom + 2 * NumAnds
        <5>1. PICK p : p = TableAt(w)
          OBVIOUS
        <5>2. p \in Nat /\ p + 1 <= TablesFrom + 2 * NumAnds /\ EvalCircuit + 1 = p
          BY <1>1, <1>4, <2>3, <3>2, <5>1, PlacesApart
        <5> QED  BY <2>3, <5>2, Counts, AndsBound
      <4> QED  BY <2>3, <4>1, Counts, AndsBound
    <3>3. CASE step = "outputs"
      <4>1. EvalCircuit + 1 = TablesFrom + 2 * NumAnds + w /\ w \in 1 .. NumOutputs
        BY <1>4, <2>3, <3>3, Counts DEF OutputAt
      <4> QED  BY <2>3, <4>1, Counts, AndsBound
    <3> QED  BY <1>1, <3>1, <3>2, <3>3
  <2>5. Len(bufE) = GarbCircuit - EvalCircuit
    BY <1>6, <2>1 DEF IInv, Buffers
  <2>6. Len(bufE) # 0
    BY <2>2, <2>3, <2>4, <2>5, Counts, AndsBound
  <2> QED  BY <2>6, SeqIs DEF IInv, Sequences
<1> QED  BY <1>5, <1>6 DEF phased

LEMMA LinkInStep ==
    ASSUME IInv, NEW kind \in EvalExpects(FALSE), toEval # <<>>
    PROVE  Head(toEval).kind = kind
<1>1. /\ kind \in {"SIMDvalues", "basePoints", "answer", "seed", "offset", "gcs", "labels"}
      /\ EvalAt(kind) /\ (kind = "labels" => ePos < Count.labels) /\ kind \in StepName
  BY DEF EvalExpects, StepName
<1>2. /\ eStep = EvalIndex[kind] /\ ePos \in Nat /\ (kind # "labels" => ePos = 0)
  <2>1. kind \notin DOMAIN Count \/ kind = "labels"
    BY <1>1, Counts
  <2> QED  BY <1>1, <2>1, EvalAtStep DEF IInv, GarbPlace, EvalPlace
<1>3. PICK p, m : p = Taken + 1 /\ m = Head(toEval)
  OBVIOUS
<1>4. LinkRight(p, m)
  BY <1>3, HeadOfLink
<1>5. PlacesAre(eStep, ePos, EvalIndex) /\ NextLink(eStep, ePos, EvalIndex) = p
  BY <1>3, Places DEF IInv, GarbPlace, EvalPlace
<1>6. PointsAt \in Nat /\ AnswerAt \in Nat /\ SeedAt \in Nat /\ OffsetAt \in Nat
  BY Counts DEF PointsAt, AnswerAt, SeedAt, OffsetAt
<1>7. CASE kind = "SIMDvalues"
  <2>1. ~phased /\ p = 1
    BY <1>2, <1>5, <1>7 DEF PlacesAre
  <2> QED  BY <1>3, <1>4, <1>7, <2>1 DEF LinkRight
<1>8. CASE kind = "basePoints"
  <2>1. p = PointsAt
    BY <1>2, <1>5, <1>6, <1>8 DEF PlacesAre
  <2> QED  BY <1>3, <1>4, <1>8, <2>1 DEF LinkRight
<1>9. CASE kind = "seed"
  <2>1. p = SeedAt
    BY <1>2, <1>5, <1>6, <1>9 DEF PlacesAre
  <2> QED  BY <1>3, <1>4, <1>9, <2>1 DEF LinkRight
<1>10. CASE kind = "offset"
  <2>1. p = OffsetAt
    BY <1>2, <1>5, <1>6, <1>10 DEF PlacesAre
  <2> QED  BY <1>3, <1>4, <1>10, <2>1 DEF LinkRight, Message
<1>11. CASE kind = "gcs"
  <2>1. phased /\ p = 5
    BY <1>2, <1>5, <1>11 DEF PlacesAre
  <2> QED  BY <1>3, <1>4, <1>11, <2>1 DEF LinkRight, Message
<1>12. CASE kind = "labels"
  <2>1. phased /\ p = LabelsAt(ePos + 1)
    BY <1>2, <1>5, <1>12 DEF PlacesAre
  <2>2. ePos + 1 \in 1 .. mInputB_size
    BY <1>1, <1>2, <1>12, Counts
  <2>3. m = Message("labels", Hidden(ePos + 1))
    BY <1>4, <2>1, <2>2 DEF LinkRight
  <2> QED  BY <1>3, <1>12, <2>3 DEF Message
<1>13. CASE kind = "answer"
  <2>1. p = AnswerAt
    BY <1>2, <1>5, <1>6, <1>13 DEF PlacesAre
  <2> QED  BY <1>3, <1>4, <1>13, <2>1 DEF LinkRight
<1> QED  BY <1>1, <1>7, <1>8, <1>9, <1>10, <1>11, <1>12, <1>13

LEMMA AnswerInStep ==
    ASSUME IInv, NEW kind \in GarbExpects, toGarb # <<>>
    PROVE  Head(toGarb).kind = kind
<1>1. /\ kind \in {"baseKeys", "challenge", "opening", "commit", "u", "theirSeed", "check",
                "choices"}
      /\ GarbAt(kind) /\ kind \in StepName
  BY DEF GarbExpects, StepName
<1>2. gStep = GarbIndex[kind] /\ gPos = 0
  <2>1. kind \notin DOMAIN Count
    BY <1>1, Counts
  <2> QED  BY <1>1, <2>1, GarbAtStep DEF IInv, GarbPlace, EvalPlace
<1>3. PICK p, m : p = GarbBack + 1 /\ m = Head(toGarb)
  OBVIOUS
<1>4. AnswerRight(p, m)
  BY <1>3, HeadOfAnswers
<1>5. PlacesAre(gStep, gPos, GarbIndex) /\ NextBack(gStep, gPos, GarbIndex) = p
  BY <1>3, Places DEF IInv, GarbPlace, EvalPlace
<1>6. CASE kind = "baseKeys"
  <2>1. p = 1
    BY <1>2, <1>5, <1>6 DEF PlacesAre
  <2> QED  BY <1>3, <1>4, <1>6, <2>1 DEF AnswerRight
<1>7. CASE kind = "challenge"
  <2>1. p = 2
    BY <1>2, <1>5, <1>7 DEF PlacesAre
  <2> QED  BY <1>3, <1>4, <1>7, <2>1 DEF AnswerRight
<1>8. CASE kind = "opening"
  <2>1. p = 3
    BY <1>2, <1>5, <1>8 DEF PlacesAre
  <2> QED  BY <1>3, <1>4, <1>8, <2>1 DEF AnswerRight
<1>9. CASE kind = "commit"
  <2>1. p = 4
    BY <1>2, <1>5, <1>9 DEF PlacesAre
  <2> QED  BY <1>3, <1>4, <1>9, <2>1 DEF AnswerRight
<1>10. CASE kind = "u"
  <2>1. p = 5
    BY <1>2, <1>5, <1>10 DEF PlacesAre
  <2> QED  BY <1>3, <1>4, <1>10, <2>1 DEF AnswerRight
<1>11. CASE kind = "theirSeed"
  <2>1. p = 6
    BY <1>2, <1>5, <1>11 DEF PlacesAre
  <2> QED  BY <1>3, <1>4, <1>11, <2>1 DEF AnswerRight
<1>12. CASE kind = "check"
  <2>1. p = 7
    BY <1>2, <1>5, <1>12 DEF PlacesAre
  <2> QED  BY <1>3, <1>4, <1>12, <2>1 DEF AnswerRight
<1>13. CASE kind = "choices"
  <2>1. p = 8
    BY <1>2, <1>5, <1>13 DEF PlacesAre
  <2> QED  BY <1>3, <1>4, <1>13, <2>1 DEF AnswerRight, Message
<1> QED  BY <1>1, <1>6, <1>7, <1>8, <1>9, <1>10, <1>11, <1>12, <1>13

LEMMA NothingLeft ==
    ASSUME IInv, EvalDone, GarbDone
    PROVE  toEval = <<>> /\ toGarb = <<>> /\ bufE = <<>>
<1>1. AllSent(gStep, gPos, GarbIndex) /\ AllSent(eStep, ePos, EvalIndex)
  BY Places DEF IInv, GarbPlace, EvalPlace
<1>2. Sent = Taken /\ GarbBack = EvalBack /\ CircuitSent = CircuitTaken
  <2>1. Sent + 1 = Taken + 1 /\ GarbBack + 1 = EvalBack + 1 /\ CircuitSent + 1 = CircuitTaken + 1
    BY <1>1, Places DEF AllSent, IInv, GarbPlace, EvalPlace
  <2>2. /\ Sent \in Nat /\ Taken \in Nat /\ GarbBack \in Nat /\ EvalBack \in Nat
        /\ CircuitSent \in Nat /\ CircuitTaken \in Nat
    BY Places DEF IInv, GarbPlace, EvalPlace
  <2> QED  BY ONLY <2>1, <2>2
<1>3. Len(toEval) = 0 /\ Len(toGarb) = 0
  BY <1>2, Places DEF IInv, ToEval, ToGarb, GarbPlace, EvalPlace
<1>4. phased => Len(bufE) = 0
  <2>1. ASSUME phased PROVE EvalPast("gcs")
    BY <2>1, AtStep, Scripts
       DEF IInv, GarbPlace, EvalPlace, EvalPast, EvalIndex, EvalPhases, EvalLastStep
  <2>2. phased => GarbCircuit = EvalCircuit /\ GarbCircuit \in Nat
    BY <1>2, Places DEF CircuitSent, CircuitTaken, IInv, GarbPlace, EvalPlace
  <2> QED  BY <2>1, <2>2 DEF IInv, Buffers
<1>5. bufE = <<>>
  BY <1>4, SeqIs DEF IInv, Buffers, Sequences
<1> QED  BY <1>3, <1>5, SeqIs DEF IInv, Sequences

LEMMA InvLockstep == IInv => Lockstep
<1> SUFFICES ASSUME IInv PROVE Lockstep
  OBVIOUS
<1>1. \A kind \in EvalExpects(TRUE) : Circuit # <<>> => Head(Circuit).kind = kind
  BY CircuitInStep
<1>2. mode = "phases" /\ EvalExpects(TRUE) # {} => bufE # <<>>
  BY CircuitInStep
<1>3. \A kind \in EvalExpects(FALSE) : toEval # <<>> => Head(toEval).kind = kind
  BY LinkInStep
<1>4. \A kind \in GarbExpects : toGarb # <<>> => Head(toGarb).kind = kind
  BY AnswerInStep
<1>5. EvalDone /\ GarbDone => toEval = <<>> /\ toGarb = <<>> /\ bufE = <<>>
  BY NothingLeft
<1> QED  BY <1>1, <1>2, <1>3, <1>4, <1>5 DEF Lockstep

LEMMA StutterKeeps == IInv /\ UNCHANGED vars => IInv'
<1> SUFFICES ASSUME IInv, UNCHANGED vars PROVE IInv'
  OBVIOUS
<1>1. UNCHANGED <<mode, value, R, curDelta, gOTs, label0, corrected, gStep, gPos, gId, bufG,
                  evaluator, toEval, toGarb>>
  BY DEF vars, garbler
<1>2. mode' = mode /\ GarbIndex' = GarbIndex /\ EvalIndex' = EvalIndex /\ phased' = phased
  BY <1>1, ModeKept
<1>3. /\ eStep' = eStep /\ ePos' = ePos /\ randChoices' = randChoices /\ eOTs' = eOTs
      /\ active' = active
  BY <1>1 DEF evaluator
<1>4. /\ \A s \in StepName : GarbPast(s)' <=> GarbPast(s)
      /\ \A s \in StepName : EvalPast(s)' <=> EvalPast(s)
  BY <1>1, <1>2, <1>3 DEF GarbPast, EvalPast
<1>5. GarbFrame
  BY <1>1, <1>4, GarbFrameOf
<1>6. EvalFrame
  <2>1. Begins(active, active')
    BY <1>3, SeqIs DEF IInv, Sequences, Begins
  <2> QED  BY <1>1, <1>3, <1>4, <2>1 DEF EvalFrame, garbler
<1>7. /\ Types' /\ EvalPlace' /\ OutputsCorrect'
      /\ IsSeq(active)' /\ IsSeq(result)' /\ IsSeq(bufE)'
  BY <1>5, GarbStep
<1>8. GarbPlace' /\ Garbled' /\ IsSeq(label0)'
  BY <1>6, EvalStepIs
<1>9. \A s \in StepName : GarbDid(s)' = GarbDid(s) /\ EvalDid(s)' = EvalDid(s)
  BY <1>1, <1>2, <1>3, ModeKept DEF GarbDid, EvalDid, Did
<1>10. /\ GarbLink' = GarbLink /\ GarbCircuit' = GarbCircuit /\ GarbBack' = GarbBack
       /\ EvalLink' = EvalLink /\ EvalCircuit' = EvalCircuit /\ EvalBack' = EvalBack
  BY <1>9 DEF GarbDid, EvalDid, GarbLink, GarbCircuit, GarbBack, EvalLink, EvalCircuit,
              EvalBack, Links, Circuits, Backs, StepName
<1>11. ToEval' /\ Buffers' /\ IsSeq(toEval)' /\ IsSeq(bufG)'
  BY <1>1, <1>5, <1>10, GarbWritesNothing
<1>12. ToGarb' /\ IsSeq(toGarb)'
  BY <1>1, <1>5, <1>10, GarbReadsNothing
<1>13. PICK step \in StepName : step = "labels"
  BY DEF StepName
<1>14. GarbPassed(step)
  BY <1>4 DEF GarbPassed
<1>15. InputLabels' /\ Evaluated' /\ LabelsEncode' /\ Transferred' /\ Learned'
  BY <1>1, <1>5, <1>13, <1>14, GarbLabelsStay, GarbTransferredStays, GarbLearnedStays
<1> QED  BY <1>7, <1>8, <1>11, <1>12, <1>15 DEF IInv, Sequences

-----------------------------------------------------------------------------
(* Results *)

LEMMA ModeStays == [Next]_vars => mode' = mode
<1>1. GarbRead \/ GarbSend \/ GarbAlice \/ GarbU \/ GarbOffset \/ GarbBob => mode' = mode
  BY DEF GarbRead, GarbSend, GarbAlice, GarbU, GarbOffset, GarbBob
<1>2. GarbFree \/ GarbAnd => mode' = mode
  BY DEF GarbFree, GarbAnd, GarbMake
<1>3. GarbOutput \/ GarbBuffer \/ GarbChoices \/ GarbLabels \/ GarbNextStep => mode' = mode
  BY DEF GarbOutput, GarbBuffer, GarbChoices, GarbLabels, GarbNextStep
<1>4. EvalSend \/ EvalRead \/ EvalAlice \/ EvalU \/ EvalOffset \/ EvalBob => mode' = mode
  BY DEF EvalSend, EvalRead, EvalAlice, EvalU, EvalOffset, EvalBob
<1>5. EvalFree \/ EvalAnd => mode' = mode
  BY DEF EvalFree, EvalAnd, EvalMake
<1>6. EvalBuffer \/ EvalChoices \/ EvalLabels \/ EvalOutput \/ EvalNextStep => mode' = mode
  BY DEF EvalBuffer, EvalChoices, EvalLabels, EvalOutput, EvalNextStep
<1>7. UNCHANGED vars => mode' = mode
  BY DEF vars
<1> QED  BY <1>1, <1>2, <1>3, <1>4, <1>5, <1>6, <1>7 DEF Next, Garbler, Evaluator

\* What every step keeps, unless the choices of the phases leave part of a byte:
\* the messages on their way are right for their places, and the labels on both
\* sides follow from the inputs.
THEOREM Invariance == Spec => [](WholeBytes => IInv)
<1>1. IInv /\ WholeBytes /\ [Next]_vars => IInv'
  <2>1. IInv /\ WholeBytes /\ Next => IInv'
    BY GarbReadKeeps, GarbSendKeeps, GarbAliceKeeps, GarbUKeeps, GarbOffsetKeeps,
       GarbBobKeeps, GarbFreeKeeps, GarbAndKeeps, GarbOutputKeeps, GarbBufferKeeps,
       GarbChoicesKeeps, GarbLabelsKeeps, GarbNextStepKeeps, EvalSendKeeps, EvalReadKeeps,
       EvalAliceKeeps, EvalUKeeps, EvalOffsetKeeps, EvalBobKeeps, EvalBufferKeeps,
       EvalChoicesKeeps, EvalLabelsKeeps, EvalFreeKeeps, EvalAndKeeps, EvalOutputKeeps,
       EvalNextStepKeeps DEF Next, Garbler, Evaluator
  <2> QED  BY <2>1, StutterKeeps
<1>2. [Next]_vars => WholeBytes' = WholeBytes
  BY ModeStays DEF WholeBytes, phased, ChoicesFillBytes, NumOTs
<1>3. (WholeBytes => IInv) /\ [Next]_vars => (WholeBytes => IInv)'
  BY <1>1, <1>2
<1>4. Init => (WholeBytes => IInv)
  BY InitInv
<1> QED  BY <1>3, <1>4, PTL DEF Spec

\* The two sides agree on every byte of the connection and of bufChan, with any
\* number of lanes: always in garble and garbleSIMD, and in the phases if the
\* evaluator's inputs of all lanes fill whole bytes.
THEOREM AlwaysLockstep ==
    Spec => []((mode = "phases" => ChoicesFillBytes) => Lockstep)
<1>1. (WholeBytes => IInv) => ((mode = "phases" => ChoicesFillBytes) => Lockstep)
  BY InvLockstep DEF WholeBytes, phased
<1> QED  BY <1>1, Invariance, PTL

\* In every lane of every wire both sides have made, the evaluator holds the
\* label of the plain value, in the phases if the choices fill whole bytes.
THEOREM LabelsAlwaysEncode ==
    Spec => []((mode = "phases" => ChoicesFillBytes) => LabelsEncode)
<1>1. (WholeBytes => IInv) => ((mode = "phases" => ChoicesFillBytes) => LabelsEncode)
  BY DEF IInv, WholeBytes, phased
<1> QED  BY <1>1, Invariance, PTL

\* The evaluator decodes, in every lane, what the circuit computes in the clear,
\* in the phases if the choices fill whole bytes.
THEOREM OutputsAlwaysCorrect ==
    Spec => []((mode = "phases" => ChoicesFillBytes) => OutputsCorrect)
<1>1. (WholeBytes => IInv) => ((mode = "phases" => ChoicesFillBytes) => OutputsCorrect)
  BY DEF IInv, WholeBytes, phased
<1> QED  BY <1>1, Invariance, PTL
=============================================================================
