----------------------------- MODULE MCExecution -----------------------------
(* Instances of Execution for TLC.                                         *)
EXTENDS Execution, TLC

CONSTANTS c1, c2, c3, p1, p2

(* Two threads of one process and one of another.                          *)
TwoProcesses == [c \in Callers |-> IF c = c3 THEN p2 ELSE p1]

LateExpiry == [x \in Executions |-> MaxTime + 1]

Threads == Permutations({c1, c2})
=============================================================================
