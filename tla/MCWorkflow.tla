----------------------------- MODULE MCWorkflow -----------------------------
(***************************************************************************)
(* Instances of WorkflowScheduler for TLC.                                 *)
(***************************************************************************)
EXTENDS WorkflowScheduler

CONSTANTS d, s, c  \* the daemon, a `status --tick --no-dispatch`, another command

(* Two tasks, of which the second may fail, and a gate: the smallest       *)
(* manifest in which every verdict is possible.                            *)
JoinKind == [n \in Node |-> IF n = 3 THEN "gate" ELSE "task"]
JoinDeps == [n \in Node |-> IF n = 3 THEN {1, 2} ELSE {}]

(* The last two nodes of a fanout, one behind the other.                   *)
SynthesisKind == [n \in Node |-> IF n = 1 THEN "synthesis" ELSE "gate"]
OneAfterTheOther == [n \in Node |-> IF n = 1 THEN {} ELSE {n - 1}]

NoRetries == [n \in Node |-> 0]
OneRetry == [n \in Node |-> IF Kind[n] = "gate" THEN 0 ELSE 1]
=============================================================================
