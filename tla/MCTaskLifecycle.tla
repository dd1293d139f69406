-------------------------- MODULE MCTaskLifecycle --------------------------
(***************************************************************************)
(* Instances of TaskLifecycle for TLC: one or two tasks, one or two        *)
(* command line processes and the daemon.                                  *)
(***************************************************************************)
EXTENDS TaskLifecycle, TLC

CONSTANTS a, b, c1, c2  \* tasks a and b, command lines c1 and c2

NoDeps == [t \in Task |-> << >>]

(* b was started with --depends-on a.                                      *)
Chain == [t \in Task |-> IF t = b THEN <<a>> ELSE << >>]

(* Command lines differ in nothing, and no liveness is checked with them.  *)
Processes == Permutations(Cli)
=============================================================================
