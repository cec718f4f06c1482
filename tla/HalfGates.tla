----------------------------- MODULE HalfGates -----------------------------
(***************************************************************************)
(* The garbled-circuit phase: Circuit::garble on the server (the garbler)  *)
(* and Circuit::evaluate on the phone (the evaluator) run the same circuit *)
(* over half gates.  Nothing but the order of the bytes tells the two what *)
(* a message is for: base OTs, the labels of the server's inputs, a        *)
(* correlated OT for the phone's inputs, two table rows for every AND gate *)
(* and the decoding bits of every output vector.                           *)
(*                                                                         *)
(* toEval and toGarb hold all that was ever written to a direction of the  *)
(* connection; a reader keeps the number of messages it has read.          *)
(***************************************************************************)
EXTENDS WireLabels, Sequences, FiniteSets

CONSTANTS
    NumAlice,     \* input wires of the server, over all database rows
    NumBob,       \* input wires of the phone
    Gates,        \* the circuit: 0..n-1 -> gates, in the order both run it
    Outputs,      \* 0..o-1 -> vectors of output wires
    Capacity      \* messages the connection buffers towards the evaluator

NumInputs == NumAlice + NumBob
NumGates == Cardinality(DOMAIN Gates)
NumWires == NumInputs + NumGates
NumOutputs == Cardinality(DOMAIN Outputs)
Wires == 0 .. NumWires - 1
AliceWires == 0 .. NumAlice - 1
BobWires == NumAlice .. NumInputs - 1

Gate == [op : {"ZERO", "NOT", "XOR", "AND"}, a : Wires, b : Wires]

ASSUME ParameterAssumption ==
    /\ NumAlice \in Nat /\ NumBob \in Nat /\ Capacity \in Nat \ {0, 1}
    /\ NumGates \in Nat /\ NumOutputs \in Nat
    /\ Gates \in [0 .. NumGates-1 -> Gate]
    /\ Outputs \in [0 .. NumOutputs-1 -> Seq(Wires)]

\* A gate only reads wires that exist when it is run.
ASSUME CircuitAssumption ==
    \A g \in DOMAIN Gates : Gates[g].a < NumInputs + g /\ Gates[g].b < NumInputs + g

ASSUME HashAssumption ==
    \A label \in Labels, id \in 0 .. NumGates : Hash(label, id) \in Labels

-----------------------------------------------------------------------------
VARIABLES
    value,      \* plain value of every wire: the inputs, and what they imply
    R,          \* the garbler's offset between the two labels of a wire
    curDelta,   \* its base OT choices, encoded by the code of this OT
    label0,     \* its 0-label of every wire made so far
    active,     \* the evaluator's label of every wire made so far
    gWire, eWire,       \* wires made by the garbler, by the evaluator
    gId, eId,           \* gid of the two environments
    gStage, eStage,     \* where Circuit::garble and Circuit::evaluate are
    gOut,               \* output vectors sent
    result,             \* output vectors decoded by the evaluator
    toEval, toGarb,     \* messages written so far
    eRead, gRead        \* messages read so far

garbler == <<R, curDelta, label0, gWire, gId, gStage, gOut, gRead>>
evaluator == <<active, eWire, eId, eStage, result, eRead>>
vars == <<value, garbler, evaluator, toEval, toGarb>>

Operation(gate, v) ==
    CASE gate.op = "ZERO" -> FALSE
      [] gate.op = "NOT" -> ~v[gate.a]
      [] gate.op = "XOR" -> v[gate.a] # v[gate.b]
      [] gate.op = "AND" -> v[gate.a] /\ v[gate.b]

\* v is what the circuit computes in the clear.
Computes(v) ==
    \A g \in DOMAIN Gates : v[NumInputs + g] = Operation(Gates[g], v)

Init ==
    /\ value \in {v \in [Wires -> BOOLEAN] : Computes(v)}
    /\ R \in Deltas /\ curDelta = Zero
    /\ label0 = [w \in Wires |-> Zero] /\ active = [w \in Wires |-> Zero]
    /\ gWire = 0 /\ eWire = 0 /\ gId = 0 /\ eId = 0
    /\ gStage = "baseKeys" /\ eStage = "baseKeys"
    /\ gOut = 0 /\ result = <<>>
    /\ toEval = <<>> /\ toGarb = <<>> /\ eRead = 0 /\ gRead = 0

Message(kind, body) == [kind |-> kind, body |-> body]
Signal(kind) == Message(kind, Zero)
SendToEval(messages) ==
    /\ Len(toEval) - eRead + Len(messages) <= Capacity
    /\ toEval' = toEval \o messages
SendToGarb(message) == toGarb' = Append(toGarb, message)

\* The k-th message the evaluator has not read; the next one for the garbler.
EvalHas(k) == eRead + k <= Len(toEval)
EvalNext(k) == toEval[eRead + k].body
GarbHas == gRead < Len(toGarb)
GarbNext == toGarb[gRead + 1].body

(***************************************************************************)
(* The stages of Circuit::garble and of Circuit::evaluate, up to the       *)
(* gates.  In each stage one side writes and the other one reads.  The     *)
(* first five are VerifiedSimplestOT: the evaluator, its sender, has to    *)
(* see an answer to its challenge before it opens it.                      *)
(***************************************************************************)
GarbleAfter ==
    [baseKeys |-> "basePoints", basePoints |-> "challenge", challenge |-> "answer",
     answer |-> "opening", opening |-> "alice", alice |-> "commit",
     commit |-> "u", u |-> "seed", seed |-> "theirSeed", theirSeed |-> "offset",
     offset |-> "check", check |-> "gates"]

EvaluateAfter_OTFirst ==
    [baseKeys |-> "basePoints", basePoints |-> "challenge", challenge |-> "answer",
     answer |-> "opening", opening |-> "commit", alice |-> "gates",
     commit |-> "u", u |-> "seed", seed |-> "theirSeed", theirSeed |-> "offset",
     offset |-> "check", check |-> "alice"]
EvaluateAfter ==
    [baseKeys |-> "basePoints", basePoints |-> "challenge", challenge |-> "answer",
     answer |-> "opening", opening |-> "alice", alice |-> "commit",
     commit |-> "u", u |-> "seed", seed |-> "theirSeed", theirSeed |-> "offset",
     offset |-> "check", check |-> "gates"]

-----------------------------------------------------------------------------
(* Garbler *)

GarbAdvance == gStage' = GarbleAfter[gStage]

\* What the garbler only reads: the keys, the challenge and the opening of
\* performBaseOTs, and of the OT extension the commitment, the seed and the
\* correlation check.  The other side's keys, opening and check are right.
GarbRead ==
    /\ gStage \in {"baseKeys", "challenge", "opening", "commit", "theirSeed", "check"}
    /\ GarbHas /\ gRead' = gRead + 1
    /\ GarbAdvance
    /\ UNCHANGED <<value, R, curDelta, label0, gWire, gId, gOut,
                   evaluator, toEval, toGarb>>

\* What it only writes: the base OT points, the answer and the seed of the code.
GarbSend ==
    /\ gStage \in {"basePoints", "answer", "seed"}
    /\ SendToEval(<<Signal(gStage)>>)
    /\ GarbAdvance
    /\ UNCHANGED <<value, R, curDelta, label0, gWire, gId, gOut, gRead,
                   evaluator, toGarb>>

\* inputOfAlice: a random 0-label; the label of the actual bit is sent.
GarbAlice ==
    /\ gStage = "alice" /\ gWire < NumAlice
    /\ \E fresh \in Labels :
          /\ label0' = [label0 EXCEPT ![gWire] = fresh]
          /\ SendToEval(<<Message("alice", Xor(fresh, When(value[gWire], R)))>>)
    /\ gWire' = gWire + 1
    /\ UNCHANGED <<value, R, curDelta, gId, gStage, gOut, gRead, evaluator, toGarb>>

GarbAliceDone ==
    /\ gStage = "alice" /\ gWire = NumAlice
    /\ GarbAdvance
    /\ UNCHANGED <<value, R, curDelta, label0, gWire, gId, gOut, gRead,
                   evaluator, toEval, toGarb>>

\* KosDotExtSender::send reads the columns and draws the code.  The row it keeps
\* for an input wire, its 0-label, is the evaluator's row, plus the garbler's
\* own choices where the evaluator chose 1.
GarbU ==
    /\ gStage = "u"
    /\ GarbHas /\ gRead' = gRead + 1
    /\ curDelta' \in Labels
    /\ label0' = [w \in Wires |->
                     IF w \in BobWires
                     THEN Xor(GarbNext.row[w], When(GarbNext.choice[w], curDelta'))
                     ELSE label0[w]]
    /\ gWire' = NumInputs
    /\ GarbAdvance
    /\ UNCHANGED <<value, R, gId, gOut, evaluator, toEval, toGarb>>

\* offset = curDelta ^ mDelta, where setDelta has made mDelta the garbler's R.
Offset_WithoutR == curDelta
Offset == Xor(curDelta, R)

GarbOffset ==
    /\ gStage = "offset"
    /\ SendToEval(<<Message("offset", Offset)>>)
    /\ GarbAdvance
    /\ UNCHANGED <<value, R, curDelta, label0, gWire, gId, gOut, gRead,
                   evaluator, toGarb>>

Garbling == gStage = "gates" /\ gWire < NumWires
GarbGate == Gates[gWire - NumInputs]
GarbA == label0[GarbGate.a]
GarbB == label0[GarbGate.b]
GarbMake(label) ==
    /\ label0' = [label0 EXCEPT ![gWire] = label]
    /\ gWire' = gWire + 1
    /\ UNCHANGED <<value, R, curDelta, gStage, gOut, gRead, evaluator, toGarb>>

GarbFree ==
    /\ Garbling
    /\ \/ GarbGate.op = "ZERO" /\ GarbMake(Zero)
       \/ GarbGate.op = "NOT" /\ GarbMake(Xor(GarbA, R))
       \/ GarbGate.op = "XOR" /\ GarbMake(Xor(GarbA, GarbB))
    /\ UNCHANGED <<gId, toEval>>

GarbAnd ==
    /\ Garbling /\ GarbGate.op = "AND"
    /\ GarbMake(GarbledAnd(R, GarbA, GarbB, gId))
    /\ SendToEval(<<Message("TG", TableG(R, GarbA, GarbB, gId)),
                    Message("TE", TableE(R, GarbA, GarbB, gId))>>)
    /\ gId' = gId + 1

GarbGatesDone ==
    /\ gStage = "gates" /\ gWire = NumWires
    /\ gStage' = "outputs"
    /\ UNCHANGED <<value, R, curDelta, label0, gWire, gId, gOut, gRead,
                   evaluator, toEval, toGarb>>

SelectBits(labels, vector) == [x \in DOMAIN vector |-> LSB(labels[vector[x]])]

\* Garbler::outputToBob for one output vector; garble loops over all of them.
VectorsToSend_DropLast == NumOutputs - 1
VectorsToSend == NumOutputs

GarbOutput ==
    /\ gStage = "outputs" /\ gOut < VectorsToSend
    /\ SendToEval(<<Message("output", SelectBits(label0, Outputs[gOut]))>>)
    /\ gOut' = gOut + 1
    /\ UNCHANGED <<value, R, curDelta, label0, gWire, gId, gStage, gRead,
                   evaluator, toGarb>>

-----------------------------------------------------------------------------
(* Evaluator *)

EvalAdvance == eStage' = EvaluateAfter[eStage]
EvalReads(k) == EvalHas(k) /\ eRead' = eRead + k

EvalSend ==
    /\ eStage \in {"baseKeys", "challenge", "opening", "commit", "theirSeed", "check"}
    /\ SendToGarb(Signal(eStage))
    /\ EvalAdvance
    /\ UNCHANGED <<value, garbler, active, eWire, eId, result, eRead, toEval>>

\* An answer is the hash of the first key, whichever of the two the garbler has.
EvalRead ==
    /\ eStage \in {"basePoints", "answer", "seed"}
    /\ EvalReads(1)
    /\ EvalAdvance
    /\ UNCHANGED <<value, garbler, active, eWire, eId, result, toEval, toGarb>>

\* Evaluator::inputOfAlice.
EvalAlice ==
    /\ eStage = "alice" /\ eWire < NumAlice
    /\ EvalReads(1)
    /\ active' = [active EXCEPT ![eWire] = EvalNext(1)]
    /\ eWire' = eWire + 1
    /\ UNCHANGED <<value, garbler, eId, eStage, result, toEval, toGarb>>

EvalAliceDone ==
    /\ eStage = "alice" /\ eWire = NumAlice
    /\ EvalAdvance
    /\ UNCHANGED <<value, garbler, active, eWire, eId, result, eRead, toEval, toGarb>>

\* KosDotExtReceiver::receive: the columns sent hold a random row for every
\* input bit, and the bit.
EvalU ==
    /\ eStage = "u"
    /\ \E row \in [BobWires -> Labels] :
          /\ active' = [w \in Wires |-> IF w \in BobWires THEN row[w] ELSE active[w]]
          /\ SendToGarb(Message("u", [row |-> row,
                                      choice |-> [w \in BobWires |-> value[w]]]))
    /\ EvalAdvance
    /\ UNCHANGED <<value, garbler, eWire, eId, result, eRead, toEval>>

\* messages[w] = row ^ (choice & offset): the label of the input bit.
EvalOffset ==
    /\ eStage = "offset"
    /\ EvalReads(1)
    /\ active' = [w \in Wires |->
                     IF w \in BobWires
                     THEN Xor(active[w], When(value[w], EvalNext(1))) ELSE active[w]]
    /\ eWire' = NumInputs
    /\ EvalAdvance
    /\ UNCHANGED <<value, garbler, eId, result, toEval, toGarb>>

Evaluating == eStage = "gates" /\ eWire < NumWires
EvalGate == Gates[eWire - NumInputs]
EvalA == active[EvalGate.a]
EvalB == active[EvalGate.b]
EvalMake(label) ==
    /\ active' = [active EXCEPT ![eWire] = label]
    /\ eWire' = eWire + 1
    /\ UNCHANGED <<value, garbler, eStage, result, toEval, toGarb>>

EvalFree ==
    /\ Evaluating
    /\ \/ EvalGate.op = "ZERO" /\ EvalMake(Zero)
       \/ EvalGate.op = "NOT" /\ EvalMake(EvalA)      \* NOT happens at the garbler
       \/ EvalGate.op = "XOR" /\ EvalMake(Xor(EvalA, EvalB))
    /\ UNCHANGED <<eId, eRead>>

EvalAnd_SameId ==
    /\ Evaluating /\ EvalGate.op = "AND"
    /\ EvalReads(2)
    /\ EvalMake(EvaluatedAnd(EvalA, EvalB, eId, EvalNext(1), EvalNext(2)))
    /\ UNCHANGED eId

EvalAnd ==
    /\ Evaluating /\ EvalGate.op = "AND"
    /\ EvalReads(2)
    /\ EvalMake(EvaluatedAnd(EvalA, EvalB, eId, EvalNext(1), EvalNext(2)))
    /\ eId' = eId + 1

EvalGatesDone ==
    /\ eStage = "gates" /\ eWire = NumWires
    /\ eStage' = "outputs"
    /\ UNCHANGED <<value, garbler, active, eWire, eId, result, eRead, toEval, toGarb>>

\* Evaluator::outputToBob: the two select bits of a wire differ iff it is 1.
EvalOutput ==
    /\ eStage = "outputs" /\ Len(result) < NumOutputs
    /\ EvalReads(1)
    /\ LET mine == SelectBits(active, Outputs[Len(result)])
       IN  result' = Append(result, [x \in DOMAIN mine |-> EvalNext(1)[x] # mine[x]])
    /\ UNCHANGED <<value, garbler, active, eWire, eId, eStage, toEval, toGarb>>

Garbler == \/ GarbRead \/ GarbSend \/ GarbAlice \/ GarbAliceDone \/ GarbU \/ GarbOffset
           \/ GarbFree \/ GarbAnd \/ GarbGatesDone \/ GarbOutput
Evaluator == \/ EvalSend \/ EvalRead \/ EvalAlice \/ EvalAliceDone \/ EvalU \/ EvalOffset
             \/ EvalFree \/ EvalAnd \/ EvalGatesDone \/ EvalOutput

Next == Garbler \/ Evaluator

Spec == Init /\ [][Next]_vars

\* Each party is one thread that blocks only in send and recv.
FairSpec == Spec /\ WF_vars(Garbler) /\ WF_vars(Evaluator)

-----------------------------------------------------------------------------
(* Properties *)

Stages == DOMAIN GarbleAfter \cup {"gates", "outputs"}

\* Labels stay labels, counters stay within the circuit and the buffer.
TypeOK ==
    /\ value \in [Wires -> BOOLEAN]
    /\ R \in Labels /\ LSB(R) /\ curDelta \in Labels
    /\ label0 \in [Wires -> Labels] /\ active \in [Wires -> Labels]
    /\ gWire \in 0 .. NumWires /\ eWire \in 0 .. NumWires
    /\ gId \in Nat /\ eId \in Nat
    /\ gStage \in Stages /\ eStage \in Stages
    /\ gOut \in 0 .. NumOutputs /\ Len(result) <= NumOutputs
    /\ eRead \in 0 .. Len(toEval) /\ gRead \in 0 .. Len(toGarb)

EvalDone == eStage = "outputs" /\ Len(result) = NumOutputs
GarbDone == gStage = "outputs" /\ gOut = VectorsToSend

\* What each side is about to take the next unread message for, if it reads.
EvalExpects ==
    {kind \in {"basePoints", "answer", "alice", "seed", "offset", "TG", "output"} :
        CASE kind = "alice"  -> eStage = "alice" /\ eWire < NumAlice
          [] kind = "TG"     -> Evaluating /\ EvalGate.op = "AND"
          [] kind = "output" -> eStage = "outputs" /\ ~EvalDone
          [] OTHER           -> eStage = kind}
GarbExpects ==
    {gStage} \cap {"baseKeys", "challenge", "opening", "commit", "u", "theirSeed", "check"}

\* The two programs agree on every byte: what a side is about to read is what
\* the other one wrote for that step, and nothing is left over at the end.
Lockstep ==
    /\ \A kind \in EvalExpects : EvalHas(1) => toEval[eRead + 1].kind = kind
    /\ \A kind \in GarbExpects : GarbHas => toGarb[gRead + 1].kind = kind
    /\ EvalDone /\ GarbDone => ~EvalHas(1) /\ ~GarbHas

\* The half-gates invariant: on every wire both sides have made, the evaluator
\* holds the label of the wire's plain value, so neither side's gate counter,
\* nor the table it reads, has slipped.
LabelsEncode ==
    \A w \in Wires :
        (w < eWire /\ w < gWire) => active[w] = Xor(label0[w], When(value[w], R))

\* Every decoded output vector is what the circuit computes in the clear on
\* both parties' inputs.
OutputsCorrect ==
    \A o \in 1 .. Len(result) : \A x \in DOMAIN Outputs[o-1] :
        result[o][x] = value[Outputs[o-1][x]]

\* The garbler, which runs ahead as far as the buffer lets it, and the evaluator
\* both get to the end.
Termination == <>(EvalDone /\ GarbDone)
=============================================================================
