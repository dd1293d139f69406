---------------------------- MODULE MCDelegation ----------------------------
(* One task sent, sent again and a second task that preempts it.           *)
EXTENDS Delegation

CONSTANTS a, b, m1, m2, m3

Tasks == {a, b}
Messages == {m1, m2, m3}
TaskOfMessage == [m \in Messages |-> IF m = m3 THEN b ELSE a]

(* One message while polls overlap; one whose handlers overlap, with a     *)
(* fault; a task that is superseded, and one that is preempted, while a    *)
(* poll waits.                                                             *)
TwoPolls == [inbox |-> {m1}, handlers |-> {1}, polls |-> {1, 2}, faults |-> 0]
TwoHandlers == [inbox |-> {m1}, handlers |-> {1, 2}, polls |-> {1}, faults |-> 1]
Again == [inbox |-> {m1, m2}, handlers |-> {1}, polls |-> {1}, faults |-> 0]
Other == [inbox |-> {m1, m3}, handlers |-> {1}, polls |-> {1}, faults |-> 0]
AllScenarios == {TwoPolls, TwoHandlers, Again, Other}
=============================================================================
