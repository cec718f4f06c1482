---------------------------- MODULE MCHalfGates ----------------------------
(***************************************************************************)
(* A small instance of HalfGates: two-bit labels and a hash that tells     *)
(* most labels and gate ids apart.  The circuit is PPILCircuit's full      *)
(* adder, whose carry is ANDed once more: it has every kind of gate, a     *)
(* constant one, and an AND that reads the output of another.              *)
(***************************************************************************)
EXTENDS HalfGates

\* Some polynomial in the label, read as a number, and the id.
Number(label) == (IF 0 \in label THEN 1 ELSE 0) + (IF 1 \in label THEN 2 ELSE 0)
HashTable ==
    [label \in Labels, id \in 0 .. NumGates |->
        LET n == Number(label)
            h == (3 * n * n + n * (id + 2) + 5 * id + 1) % 4
        IN  {b \in LabelBits : (h \div 2^b) % 2 = 1}]
MCHash(label, id) == HashTable[label, id]

\* Wires 0 and 1 are the server's, 2 is the phone's, gate g makes wire 3 + g.
MCGates ==
    [g \in 0 .. 6 |->
        CASE g = 0 -> [op |-> "ZERO", a |-> 0, b |-> 0]
          [] g = 1 -> [op |-> "NOT", a |-> 3, b |-> 0]      \* constant one
          [] g = 2 -> [op |-> "XOR", a |-> 0, b |-> 2]
          [] g = 3 -> [op |-> "XOR", a |-> 0, b |-> 4]
          [] g = 4 -> [op |-> "AND", a |-> 5, b |-> 6]
          [] g = 5 -> [op |-> "XOR", a |-> 7, b |-> 0]      \* the carry
          [] g = 6 -> [op |-> "AND", a |-> 8, b |-> 1]]

MCOutputs == [o \in 0 .. 1 |-> IF o = 0 THEN <<8, 4>> ELSE <<9>>]
=============================================================================
