----------------------------- MODULE MCSession -----------------------------
(***************************************************************************)
(* Small instances of Session with one phone or two.                       *)
(***************************************************************************)
EXTENDS Session

CONSTANTS a, b

OnePhone == {a}
TwoPhones == {a, b}
MCTasks == [p \in Phones |-> IF p = a THEN 2 ELSE 1]
MCLaunches == [p \in Phones |-> 2]
NoTasks == [p \in Phones |-> 0]
AllFaults == {"kill", "log", "restart"}
=============================================================================
