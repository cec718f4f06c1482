----------------------------- MODULE WireLabels -----------------------------
(***************************************************************************)
(* The labels of a garbled circuit's wires and the two half gates of an    *)
(* AND.  A label (a 128-bit block) is the set of its one-bits, so that XOR *)
(* is the symmetric difference.  R is the garbler's offset between the     *)
(* 0-label and the 1-label of every wire.                                  *)
(***************************************************************************)
EXTENDS Integers

CONSTANTS
    LabelBits,    \* bit positions of a label; 0 is the select bit
    Hash(_, _)    \* Hasher::hash: fixed-key AES of a label and a gate id

ASSUME LabelAssumption == 0 \in LabelBits

Labels == SUBSET LabelBits

Zero == {}
Xor(a, b) == (a \ b) \cup (b \ a)
LSB(label) == 0 \in label
When(bit, label) == IF bit THEN label ELSE Zero

\* R.setLSB(): the two labels of a wire differ in the select bit.
Deltas_AnyBlock == Labels
Deltas == {r \in Labels : LSB(r)}

\* AND at the garbler: the two rows and the 0-label of the output wire.
TableG(R, a, b, id) ==
    Xor(Xor(Hash(a, id), Hash(Xor(a, R), id)), When(LSB(b), R))
TableE(R, a, b, id) == Xor(Xor(Hash(b, id), Hash(Xor(b, R), id)), a)
GarbledAnd(R, a, b, id) ==
    Xor(Xor(Hash(a, id), When(LSB(a), TableG(R, a, b, id))),
        Xor(Hash(b, id), When(LSB(b), Xor(TableE(R, a, b, id), a))))

\* AND at the evaluator.
EvaluatedAnd(a, b, id, tg, te) ==
    Xor(Xor(Hash(a, id), When(LSB(a), tg)),
        Xor(Hash(b, id), When(LSB(b), Xor(te, a))))
=============================================================================
