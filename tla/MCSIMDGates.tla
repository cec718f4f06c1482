---------------------------- MODULE MCSIMDGates ----------------------------
(***************************************************************************)
(* Two lanes, two-bit labels, one input wire of the garbler and two of the *)
(* evaluator, so that lanes and wires of the transfers can be told apart.  *)
(* The second AND reads the output of the first one.                       *)
(***************************************************************************)
EXTENDS SIMDGates

Number(label) == (IF 0 \in label THEN 1 ELSE 0) + (IF 1 \in label THEN 2 ELSE 0)
HashTable ==
    [label \in Labels, id \in 0 .. Len(Gates) |->
        LET n == Number(label)
            h == (3 * n * n + n * (id + 2) + 5 * id + 1) % 4
        IN  {b \in LabelBits : (h \div 2^b) % 2 = 1}]
MCHash(label, id) == HashTable[label, id]

\* Wire 1 is the garbler's, 2 and 3 are the evaluator's, gate g makes 3 + g.
MCGates ==
    <<[op |-> "XOR", a |-> 2, b |-> 1],
      [op |-> "NOT", a |-> 1, b |-> 1],
      [op |-> "AND", a |-> 4, b |-> 3],
      [op |-> "AND", a |-> 6, b |-> 4],
      [op |-> "XOR", a |-> 7, b |-> 5]>>
MCOutputs == <<8, 6>>

MCDraws == {[i \in Lane |-> {i}], [i \in Lane |-> IF i = 0 THEN {0, 1} ELSE {}]}
MCRows == {[k \in OT |-> {b \in LabelBits : ((k + 1) \div 2^b) % 2 = 1}]}
MCCodeDeltas == {{1}, {0, 1}}
MCRandChoices == {[k \in OT |-> k % 2 = 0], [k \in OT |-> k \in {0, 3}]}
=============================================================================
