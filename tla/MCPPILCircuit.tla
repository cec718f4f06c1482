--------------------------- MODULE MCPPILCircuit ---------------------------
(***************************************************************************)
(* A small instance of PPILCircuit with inputs of both protocols.           *)
(***************************************************************************)
EXTENDS PPILCircuit

\* Database rows with ones at the front, none to all; any fingerprint.
FrontOnes == {[k \in 1 .. N |-> k <= ones] : ones \in {0, 1, 3, N}}
MCHammingInputs ==
    [protNum : {0}, server : [Rows -> FrontOnes], client : Vectors(N)]

\* Any two shares of any distances.
MCShareInputs ==
    [protNum : {1}, server : [Rows -> Vectors(L)], client : [Rows -> Vectors(L)]]

MCInputs == MCHammingInputs \cup MCShareInputs
=============================================================================
