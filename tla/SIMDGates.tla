----------------------------- MODULE SIMDGates -----------------------------
(***************************************************************************)
(* One garbled circuit over several inputs of the evaluator at once: a     *)
(* label of SIMDWireLabel has a block in every lane, and a gate works on   *)
(* all lanes with one gate id.  There are three ways to run it:            *)
(*   garble      the garbler's input is the same in all lanes;             *)
(*   garbleSIMD  it has an input for every lane;                           *)
(*   phases      as garble, but the circuit is garbled into a buffer       *)
(*               (bufChan) before the evaluator has its inputs; oblivious  *)
(*               transfers of random choices are corrected afterwards.     *)
(*                                                                         *)
(* Wires are numbered from 1: the garbler's inputs, the evaluator's and    *)
(* the gates.  Both sides make their labels in this order.                 *)
(***************************************************************************)
EXTENDS WireLabels, Sequences, FiniteSets

CONSTANTS
    SIMDInputs,               \* lanes
    mInputA_size, mInputB_size,
    Gates, Outputs,           \* sequences of gates and of output wires
    Draws,                    \* labels rnd.randBlocks may give
    Rows,                     \* rows the OT extension may give the evaluator
    CodeDeltas,               \* base OT choices under the code
    RandChoices,              \* choices randChoices_.randomize may give
    ByteBits,                 \* bits of a byte of BitVector: 8
    Capacity                  \* messages the connection buffers towards the evaluator

Lane == 0 .. SIMDInputs - 1
SIMDLabel == [Lane -> Labels]
NumInputs == mInputA_size + mInputB_size
NumWires == NumInputs + Len(Gates)
Wire == 1 .. NumWires
NumOTs == mInputB_size * SIMDInputs
OT == 0 .. NumOTs - 1
Mode == {"garble", "garbleSIMD", "phases"}
Gate == [op : {"NOT", "XOR", "AND"}, a : Wire, b : Wire]

ASSUME SIMDAssumption ==
    /\ SIMDInputs \in Nat \ {0} /\ mInputA_size \in Nat /\ mInputB_size \in Nat \ {0}
    /\ ByteBits \in Nat \ {0}
    /\ Gates \in Seq(Gate) /\ Outputs \in Seq(Wire)
    /\ \A g \in DOMAIN Gates : Gates[g].a < NumInputs + g /\ Gates[g].b < NumInputs + g
    /\ Draws \subseteq SIMDLabel /\ Rows \subseteq [OT -> Labels]
    /\ CodeDeltas \subseteq Labels /\ RandChoices \subseteq [OT -> BOOLEAN]
    /\ Capacity \in Nat \ {0, 1}
    /\ \A label \in Labels, id \in 0 .. Len(Gates) : Hash(label, id) \in Labels

-----------------------------------------------------------------------------
(* SIMDWireLabel: the operators of WireLabels in every lane *)

Same(label) == [i \in Lane |-> label]
XorAll(x, y) == [i \in Lane |-> Xor(x[i], y[i])]
WhenAll(bits, label) == [i \in Lane |-> When(bits[i], label)]
SelectBits(x) == [i \in Lane |-> LSB(x[i])]

TableGAll(R, a, b, id) == [i \in Lane |-> TableG(R, a[i], b[i], id)]
TableEAll(R, a, b, id) == [i \in Lane |-> TableE(R, a[i], b[i], id)]
GarbledAndAll(R, a, b, id) == [i \in Lane |-> GarbledAnd(R, a[i], b[i], id)]
EvaluatedAndAll(a, b, id, tg, te) ==
    [i \in Lane |-> EvaluatedAnd(a[i], b[i], id, tg[i], te[i])]

\* The inputs of all lanes are one row of choices, lane after lane.
OTIndex_ByWire(b, i) == b * SIMDInputs + i
OTIndex(b, i) == i * mInputB_size + b

(***************************************************************************)
(* The corrected choices travel in bytes.  BitVector::sizeBytes, which the *)
(* evaluator sends, rounds up; the buffer the garbler receives rounds      *)
(* down.  The 128 inputs of both circuits fill whole bytes.                *)
(***************************************************************************)
ByteOf(k) == k \div ByteBits
BytesSent == (NumOTs + ByteBits - 1) \div ByteBits
BytesRead == NumOTs \div ByteBits
ChoicesFillBytes == NumOTs % ByteBits = 0

\* A byte as the choices that are set in it.
Bytes(bits) == [j \in 0 .. BytesSent-1 |-> {k \in OT : ByteOf(k) = j /\ bits[k]}]

-----------------------------------------------------------------------------
VARIABLES
    mode,
    value,       \* plain value of every wire in every lane
    R,           \* the garbler's offset
    curDelta,    \* its base OT choices under the code of this OT
    gOTs,        \* its first message of every OT
    label0,      \* its labels so far
    corrected,   \* the choices it got: inputs ^ randChoices
    gStep, gPos, gId,
    bufG,        \* SIMDGarblerPhases::bufChan
    randChoices, eOTs, active, eStep, ePos, eId, bufE, result,    \* the evaluator's
    toEval, toGarb

garbler == <<R, curDelta, gOTs, label0, corrected, gStep, gPos, gId, bufG>>
evaluator == <<randChoices, eOTs, active, eStep, ePos, eId, bufE, result>>
vars == <<mode, value, garbler, evaluator, toEval, toGarb>>

Operation(gate, v) ==
    CASE gate.op = "NOT" -> ~v[gate.a]
      [] gate.op = "XOR" -> v[gate.a] # v[gate.b]
      [] gate.op = "AND" -> v[gate.a] /\ v[gate.b]
Computes(v) == \A g \in DOMAIN Gates : v[NumInputs + g] = Operation(Gates[g], v)

\* Only garbleSIMD has a garbler's input for every lane.
Shared == mode # "garbleSIMD"
Plain == {v \in [Wire -> BOOLEAN] : Computes(v)}

Init ==
    /\ mode \in Mode
    /\ value \in [Lane -> Plain]
    /\ Shared => \A i \in Lane, w \in 1 .. mInputA_size : value[i][w] = value[0][w]
    /\ R \in Deltas /\ curDelta = Zero
    /\ gOTs = [k \in OT |-> Zero] /\ eOTs = [k \in OT |-> Zero]
    /\ label0 = <<>> /\ active = <<>>
    /\ corrected = [k \in OT |-> FALSE] /\ randChoices = [k \in OT |-> FALSE]
    /\ gStep = 1 /\ gPos = 0 /\ gId = 0 /\ eStep = 1 /\ ePos = 0 /\ eId = 0
    /\ bufG = <<>> /\ bufE = <<>> /\ result = <<>>
    /\ toEval = <<>> /\ toGarb = <<>>

(***************************************************************************)
(* The steps of garble or garbleSIMD, or of garbleBase and garbleOnline,   *)
(* and of the evaluate functions.                                          *)
(***************************************************************************)
BaseOTs == <<"baseKeys", "basePoints", "challenge", "answer", "opening">>
OTPhase == <<"commit", "u", "seed", "theirSeed", "offset", "check">>

GarblerSteps ==
    IF mode = "phases"
    THEN BaseOTs \o OTPhase \o <<"alice", "bob", "gates", "outputs", "gcs", "choices", "labels">>
    ELSE <<"SIMDvalues">> \o BaseOTs \o <<"alice">> \o OTPhase \o <<"bob", "gates", "outputs">>

EvaluatorSteps_LabelsFirst ==
    IF mode = "phases"
    THEN BaseOTs \o OTPhase \o <<"gcs", "alice", "labels", "choices", "gates", "outputs">>
    ELSE <<"SIMDvalues">> \o BaseOTs \o <<"alice">> \o OTPhase \o <<"bob", "gates", "outputs">>
EvaluatorSteps ==
    IF mode = "phases"
    THEN BaseOTs \o OTPhase \o <<"gcs", "alice", "choices", "labels", "gates", "outputs">>
    ELSE <<"SIMDvalues">> \o BaseOTs \o <<"alice">> \o OTPhase \o <<"bob", "gates", "outputs">>

GarbDone == gStep > Len(GarblerSteps)
EvalDone == eStep > Len(EvaluatorSteps)
GarbAt(step) == ~GarbDone /\ GarblerSteps[gStep] = step
EvalAt(step) == ~EvalDone /\ EvaluatorSteps[eStep] = step
GarbAdvance == gStep' = gStep + 1 /\ gPos' = 0
EvalAdvance == eStep' = eStep + 1 /\ ePos' = 0
GarbMore == gPos' = gPos + 1 /\ UNCHANGED gStep
EvalMore == ePos' = ePos + 1 /\ UNCHANGED eStep

\* How often a step is repeated.
Count == [alice |-> mInputA_size, gates |-> Len(Gates), outputs |-> Len(Outputs),
          labels |-> mInputB_size]

Message(kind, body) == [kind |-> kind, body |-> body]
Signal(kind) == Message(kind, Same(Zero))
SendToEval(messages) ==
    /\ Len(toEval) + Len(messages) <= Capacity
    /\ toEval' = toEval \o messages
SendToGarb(message) == toGarb' = Append(toGarb, message)
FromEval == toGarb # <<>> /\ toGarb' = Tail(toGarb)

-----------------------------------------------------------------------------
(* Garbler *)

\* What belongs to the circuit goes to bufChan in the phases.
ToCircuit_Connection(messages) == SendToEval(messages) /\ UNCHANGED bufG
ToCircuit(messages) ==
    IF mode = "phases"
    THEN bufG' = bufG \o messages /\ UNCHANGED toEval
    ELSE SendToEval(messages) /\ UNCHANGED bufG

\* VerifiedSimplestOT and the OT extension, as in HalfGates.
GarbRead ==
    /\ \E step \in {"baseKeys", "challenge", "opening", "commit", "theirSeed", "check"} :
          GarbAt(step)
    /\ FromEval
    /\ GarbAdvance
    /\ UNCHANGED <<mode, value, R, curDelta, gOTs, label0, corrected, gId, bufG,
                   evaluator, toEval>>

GarbSend ==
    /\ \E step \in {"SIMDvalues", "basePoints", "answer", "seed"} :
          GarbAt(step) /\ SendToEval(<<Signal(step)>>)
    /\ GarbAdvance
    /\ UNCHANGED <<mode, value, R, curDelta, gOTs, label0, corrected, gId, bufG,
                   evaluator, toGarb>>

\* inputOfAlice: one label for all lanes, or one for each.
GarbAlice ==
    /\ GarbAt("alice") /\ gPos < Count.alice
    /\ \E draw \in Draws :
          LET label == IF Shared THEN Same(draw[0]) ELSE draw
              bits == [i \in Lane |-> value[i][gPos + 1]]
          IN  /\ label0' = Append(label0, label)
              /\ ToCircuit(<<Message(IF Shared THEN "alice" ELSE "aliceSIMD",
                                     XorAll(label, WhenAll(bits, R)))>>)
    /\ GarbMore
    /\ UNCHANGED <<mode, value, R, curDelta, gOTs, corrected, gId, evaluator, toGarb>>

\* KosDotExtSender::send, as in HalfGates.
GarbU ==
    /\ GarbAt("u") /\ FromEval
    /\ curDelta' \in CodeDeltas
    /\ LET u == Head(toGarb).body
       IN  gOTs' = [k \in OT |-> Xor(u.row[k], When(u.choice[k], curDelta'))]
    /\ GarbAdvance
    /\ UNCHANGED <<mode, value, R, label0, corrected, gId, bufG, evaluator, toEval>>

GarbOffset ==
    /\ GarbAt("offset")
    /\ SendToEval(<<Message("offset", Xor(curDelta, R))>>)
    /\ GarbAdvance
    /\ UNCHANGED <<mode, value, R, curDelta, gOTs, label0, corrected, gId, bufG,
                   evaluator, toGarb>>

\* inputOfBob takes the labels the OTs gave, inputOfBobOffline draws new ones.
GarbBob ==
    /\ GarbAt("bob")
    /\ \E labels \in [1 .. mInputB_size -> Draws] :
          label0' = label0 \o
             IF mode = "phases" THEN labels
             ELSE [b \in 1 .. mInputB_size |-> [i \in Lane |-> gOTs[OTIndex(b-1, i)]]]
    /\ GarbAdvance
    /\ UNCHANGED <<mode, value, R, curDelta, gOTs, corrected, gId, bufG,
                   evaluator, toEval, toGarb>>

GarbGate == Gates[gPos + 1]
GarbA == label0[GarbGate.a]
GarbB == label0[GarbGate.b]
GarbMake(label) ==
    /\ label0' = Append(label0, label)
    /\ GarbMore
    /\ UNCHANGED <<mode, value, R, curDelta, gOTs, corrected, evaluator, toGarb>>

GarbFree ==
    /\ GarbAt("gates") /\ gPos < Count.gates
    /\ \/ GarbGate.op = "NOT" /\ GarbMake(XorAll(GarbA, Same(R)))
       \/ GarbGate.op = "XOR" /\ GarbMake(XorAll(GarbA, GarbB))
    /\ UNCHANGED <<gId, bufG, toEval>>

GarbAnd ==
    /\ GarbAt("gates") /\ gPos < Count.gates /\ GarbGate.op = "AND"
    /\ GarbMake(GarbledAndAll(R, GarbA, GarbB, gId))
    /\ ToCircuit(<<Message("TG", TableGAll(R, GarbA, GarbB, gId)),
                   Message("TE", TableEAll(R, GarbA, GarbB, gId))>>)
    /\ gId' = gId + 1

GarbOutput ==
    /\ GarbAt("outputs") /\ gPos < Count.outputs
    /\ ToCircuit(<<Message("output", SelectBits(label0[Outputs[gPos + 1]]))>>)
    /\ GarbMore
    /\ UNCHANGED <<mode, value, R, curDelta, gOTs, label0, corrected, gId, evaluator, toGarb>>

\* garbleBase sends the buffer, and its size.
GarbBuffer ==
    /\ GarbAt("gcs")
    /\ SendToEval(<<Message("gcs", bufG)>>)
    /\ GarbAdvance
    /\ UNCHANGED <<mode, value, R, curDelta, gOTs, label0, corrected, gId, bufG,
                   evaluator, toGarb>>

\* inputOfBobOnline: the choices, then for every input wire the 0-labels hidden
\* by the OT message the evaluator has if its bit is 0.  The copy of the choices
\* is of all bits: without a byte it is from a null pointer and ends the process,
\* past the bytes received it takes whatever is there.
GarbChoices ==
    /\ GarbAt("choices") /\ BytesRead > 0 /\ toGarb # <<>>
    /\ LET bytes == Head(toGarb).body
           rest == [j \in BytesRead .. BytesSent-1 |-> bytes[j]]
       IN  /\ corrected' \in
                 {bits \in [OT -> BOOLEAN] :
                     \A k \in OT : ByteOf(k) < BytesRead =>
                         bits[k] = (k \in bytes[ByteOf(k)])}
           /\ toGarb' = (IF BytesRead < BytesSent THEN <<Message("choices", rest)>> ELSE <<>>)
                           \o Tail(toGarb)
    /\ GarbAdvance
    /\ UNCHANGED <<mode, value, R, curDelta, gOTs, label0, gId, bufG, evaluator, toEval>>

OTMessage_Swapped(k, bit) == Xor(gOTs[k], When(~bit, R))
OTMessage(k, bit) == Xor(gOTs[k], When(bit, R))
GarbLabels ==
    /\ GarbAt("labels") /\ gPos < Count.labels
    /\ SendToEval(<<Message("labels",
                            [i \in Lane |-> LET k == OTIndex(gPos, i)
                                            IN  Xor(label0[mInputA_size + gPos + 1][i],
                                                    OTMessage(k, corrected[k]))])>>)
    /\ GarbMore
    /\ UNCHANGED <<mode, value, R, curDelta, gOTs, label0, corrected, gId, bufG,
                   evaluator, toGarb>>

GarbNextStep ==
    /\ \E step \in DOMAIN Count : GarbAt(step) /\ gPos = Count[step]
    /\ GarbAdvance
    /\ UNCHANGED <<mode, value, R, curDelta, gOTs, label0, corrected, gId, bufG,
                   evaluator, toEval, toGarb>>

-----------------------------------------------------------------------------
(* Evaluator *)

\* What it reads of the circuit, from the connection or from bufChan.
Circuit == IF mode = "phases" THEN bufE ELSE toEval
Has(stream, n) == Len(stream) >= n
ReadCircuit(n) ==
    /\ Has(Circuit, n)
    /\ IF mode = "phases"
       THEN bufE' = SubSeq(bufE, n + 1, Len(bufE)) /\ UNCHANGED toEval
       ELSE toEval' = SubSeq(toEval, n + 1, Len(toEval)) /\ UNCHANGED bufE
FromGarb == Has(toEval, 1) /\ toEval' = Tail(toEval)

EvalSend ==
    /\ \E step \in {"baseKeys", "challenge", "opening", "commit", "theirSeed", "check"} :
          EvalAt(step) /\ SendToGarb(Signal(step))
    /\ EvalAdvance
    /\ UNCHANGED <<mode, value, garbler, randChoices, eOTs, active, eId, bufE, result, toEval>>

EvalRead ==
    /\ \E step \in {"SIMDvalues", "basePoints", "answer", "seed"} : EvalAt(step)
    /\ FromGarb
    /\ EvalAdvance
    /\ UNCHANGED <<mode, value, garbler, randChoices, eOTs, active, eId, bufE, result, toGarb>>

EvalAlice ==
    /\ EvalAt("alice") /\ ePos < Count.alice
    /\ ReadCircuit(1)
    /\ active' = Append(active, Head(Circuit).body)
    /\ EvalMore
    /\ UNCHANGED <<mode, value, garbler, randChoices, eOTs, eId, result, toGarb>>

\* KosDotExtReceiver::receive, with the inputs as choices or with random ones.
All == [k \in OT |-> value[k \div mInputB_size][mInputA_size + (k % mInputB_size) + 1]]
EvalU ==
    /\ EvalAt("u")
    /\ \E row \in Rows, random \in RandChoices :
          /\ randChoices' = IF mode = "phases" THEN random ELSE All
          /\ eOTs' = row
          /\ SendToGarb(Message("u", [row |-> row, choice |-> randChoices']))
    /\ EvalAdvance
    /\ UNCHANGED <<mode, value, garbler, active, eId, bufE, result, toEval>>

EvalOffset ==
    /\ EvalAt("offset") /\ FromGarb
    /\ LET offset == Head(toEval).body
       IN  eOTs' = [k \in OT |-> Xor(eOTs[k], When(randChoices[k], offset))]
    /\ EvalAdvance
    /\ UNCHANGED <<mode, value, garbler, randChoices, active, eId, bufE, result, toGarb>>

EvalBob ==
    /\ EvalAt("bob")
    /\ active' = active \o
          [b \in 1 .. mInputB_size |-> [i \in Lane |-> eOTs[OTIndex(b-1, i)]]]
    /\ EvalAdvance
    /\ UNCHANGED <<mode, value, garbler, randChoices, eOTs, eId, bufE, result, toEval, toGarb>>

\* evaluateBase puts the buffer into bufChan.
EvalBuffer ==
    /\ EvalAt("gcs") /\ FromGarb
    /\ bufE' = Head(toEval).body
    /\ EvalAdvance
    /\ UNCHANGED <<mode, value, garbler, randChoices, eOTs, active, eId, result, toGarb>>

EvalChoices ==
    /\ EvalAt("choices")
    /\ SendToGarb(Message("choices", Bytes([k \in OT |-> All[k] # randChoices[k]])))
    /\ EvalAdvance
    /\ UNCHANGED <<mode, value, garbler, randChoices, eOTs, active, eId, bufE, result, toEval>>

EvalLabels ==
    /\ EvalAt("labels") /\ ePos < Count.labels
    /\ FromGarb
    /\ active' = Append(active, [i \in Lane |-> Xor(Head(toEval).body[i],
                                                    eOTs[OTIndex(ePos, i)])])
    /\ EvalMore
    /\ UNCHANGED <<mode, value, garbler, randChoices, eOTs, eId, bufE, result, toGarb>>

EvalGate == Gates[ePos + 1]
EvalA == active[EvalGate.a]
EvalB == active[EvalGate.b]
EvalMake(label) ==
    /\ active' = Append(active, label)
    /\ EvalMore
    /\ UNCHANGED <<mode, value, garbler, randChoices, eOTs, result, toGarb>>

EvalFree ==
    /\ EvalAt("gates") /\ ePos < Count.gates
    /\ \/ EvalGate.op = "NOT" /\ EvalMake(EvalA)      \* NOT happens at the garbler
       \/ EvalGate.op = "XOR" /\ EvalMake(XorAll(EvalA, EvalB))
    /\ UNCHANGED <<eId, bufE, toEval>>

EvalAnd ==
    /\ EvalAt("gates") /\ ePos < Count.gates /\ EvalGate.op = "AND"
    /\ ReadCircuit(2)
    /\ EvalMake(EvaluatedAndAll(EvalA, EvalB, eId, Circuit[1].body, Circuit[2].body))
    /\ eId' = eId + 1

\* outputToBob: result[o] has a bit for every lane.
EvalOutput ==
    /\ EvalAt("outputs") /\ ePos < Count.outputs
    /\ ReadCircuit(1)
    /\ LET mine == SelectBits(active[Outputs[ePos + 1]])
       IN  result' = Append(result, [i \in Lane |-> Head(Circuit).body[i] # mine[i]])
    /\ EvalMore
    /\ UNCHANGED <<mode, value, garbler, randChoices, eOTs, active, eId, toGarb>>

EvalNextStep ==
    /\ \E step \in DOMAIN Count : EvalAt(step) /\ ePos = Count[step]
    /\ EvalAdvance
    /\ UNCHANGED <<mode, value, garbler, randChoices, eOTs, active, eId, bufE, result,
                   toEval, toGarb>>

-----------------------------------------------------------------------------
Garbler == \/ GarbRead \/ GarbSend \/ GarbAlice \/ GarbU \/ GarbOffset \/ GarbBob
           \/ GarbFree \/ GarbAnd \/ GarbOutput \/ GarbBuffer \/ GarbChoices
           \/ GarbLabels \/ GarbNextStep
Evaluator == \/ EvalSend \/ EvalRead \/ EvalAlice \/ EvalU \/ EvalOffset \/ EvalBob
             \/ EvalBuffer \/ EvalChoices \/ EvalLabels
             \/ EvalFree \/ EvalAnd \/ EvalOutput \/ EvalNextStep

Next == Garbler \/ Evaluator

Spec == Init /\ [][Next]_vars

\* Each party is one thread that blocks only in send and recv.
FairSpec == Spec /\ WF_vars(Garbler) /\ WF_vars(Evaluator)

-----------------------------------------------------------------------------
(* Properties *)

\* What a side takes the next bytes for: of the circuit, and of the connection.
EvalExpects(circuit) ==
    {kind \in {"alice", "aliceSIMD", "TG", "output"} :
        /\ circuit
        /\ CASE kind = "alice" -> Shared /\ EvalAt("alice") /\ ePos < Count.alice
             [] kind = "aliceSIMD" -> ~Shared /\ EvalAt("alice") /\ ePos < Count.alice
             [] kind = "TG" -> EvalAt("gates") /\ ePos < Count.gates /\ EvalGate.op = "AND"
             [] kind = "output" -> EvalAt("outputs") /\ ePos < Count.outputs}
    \cup {kind \in {"SIMDvalues", "basePoints", "answer", "seed", "offset", "gcs", "labels"} :
             ~circuit /\ EvalAt(kind) /\ (kind = "labels" => ePos < Count.labels)}
GarbExpects ==
    {kind \in {"baseKeys", "challenge", "opening", "commit", "u", "theirSeed", "check",
               "choices"} : GarbAt(kind)}

\* The two sides agree on every byte of the connection; bufChan never runs short
\* (its recv asserts it) and is used up at the end, like the connection.
Lockstep ==
    /\ \A kind \in EvalExpects(TRUE) : Circuit # <<>> => Head(Circuit).kind = kind
    /\ \A kind \in EvalExpects(FALSE) : toEval # <<>> => Head(toEval).kind = kind
    /\ \A kind \in GarbExpects : toGarb # <<>> => Head(toGarb).kind = kind
    /\ mode = "phases" /\ EvalExpects(TRUE) # {} => bufE # <<>>
    /\ EvalDone /\ GarbDone => toEval = <<>> /\ toGarb = <<>> /\ bufE = <<>>

\* In every lane of every wire both sides have made, the evaluator holds the
\* label of the plain value: the lanes of inputs, of transfers and of tables
\* are the same ones, also when the circuit was garbled before the transfers
\* were corrected.
LabelsEncode ==
    \A w \in 1 .. Len(active), i \in Lane :
        w <= Len(label0) => active[w][i] = Xor(label0[w][i], When(value[i][w], R))

\* The evaluator decodes, in every lane, what the circuit computes in the clear.
OutputsCorrect ==
    \A o \in DOMAIN result, i \in Lane : result[o][i] = value[i][Outputs[o]]

\* Both sides get to the end, in the phases as well: no side waits for a message
\* that the other one sends only later.
Termination == <>(EvalDone /\ GarbDone)
=============================================================================
