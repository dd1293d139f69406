---------------------- MODULE WorkflowScheduler_proofs ----------------------
(***************************************************************************)
(* Proofs about WorkflowScheduler, for every manifest, every number of     *)
(* processes and every bound: types whoever runs; the order, the limits    *)
(* and the verdict while one process ticks, with any number of cancels and *)
(* crashes; one dispatch per attempt while one process dispatches and one  *)
(* resets nodes.                                                           *)
(***************************************************************************)
EXTENDS WorkflowScheduler, FiniteSetTheorems, TLAPS

Results == {"none", "paths", "gate", "synthesis"}
Nodes == [Node -> NodeRow]
ProcRow == [pc : Pcs, round : {1, 2}, rows : Nodes, at : Node, running : Nat, attempt : Nat,
            verdict : WorkflowPhases]
Procs == [Proc -> ProcRow]
TasksOK == DOMAIN tasks \subseteq TaskId /\ \A id \in DOMAIN tasks : tasks[id] \in Child
Counts == [Node \X (0 .. MaxAttempts + 1) -> Nat]

LEMMA Manifest ==
  /\ NodeCount \in Nat /\ NodeCount >= 1
  /\ \A n \in Node : n \in Nat /\ 1 <= n /\ n <= NodeCount
  /\ \A n \in Nat : 1 <= n /\ n <= NodeCount => n \in Node
  /\ NoChild \notin TaskId
  /\ MaxParallel \in Nat /\ MaxRetries \in [Node -> Nat] /\ Deps \in [Node -> SUBSET Node]
  /\ MaxAttempts \in Nat /\ \A n \in Node : MaxRetries[n] <= MaxAttempts
  /\ DryTickers \subseteq Tickers /\ Tickers \cap Retriers = {}
  BY ManifestAssumption, InstanceAssumption DEF Node, TaskId, NoChild

LEMMA IdleOK == FreshNode \in NodeRow /\ FreshNodes \in Nodes /\ Idle \in ProcRow
<1>1. FreshNode \in NodeRow
  BY DEF FreshNode, NodeRow, NodePhases
<1>2. FreshNodes \in Nodes
  BY <1>1 DEF FreshNodes, Nodes
<1>3. 1 \in Node
  BY Manifest
<1> QED
  BY <1>1, <1>2, <1>3 DEF Idle, ProcRow, Pcs, WorkflowPhases

\* The type invariant in the names of this module.
LEMMA TypesAre ==
  TypeOK <=> /\ workflow \in WorkflowPhases /\ nodes \in Nodes /\ TasksOK
             /\ launched \in Counts /\ proc \in Procs /\ crashes \in 0 .. MaxCrashes
  BY DEF TypeOK, Nodes, TasksOK, Counts, Procs, ProcRow

-----------------------------------------------------------------------------
(* What the statements of the store and of the scheduler do.               *)

\* Every node but n is as it was, and n keeps its attempt.
Marked(n, phase, task) ==
  /\ nodes' \in Nodes
  /\ \A m \in Node : m # n => nodes'[m] = nodes[m]
  /\ nodes'[n].phase = phase /\ nodes'[n].attempt = nodes[n].attempt
  /\ nodes'[n].task = IF task = NoChild THEN nodes[n].task ELSE task

LEMMA MarkNodeIs ==
  ASSUME nodes \in Nodes, NEW n \in Node, NEW phase \in NodePhases,
         NEW task \in TaskId \cup {NoChild}, NEW result \in Results,
         MarkNode(n, phase, task, result)
  PROVE  Marked(n, phase, task)
<1> DEFINE new == [nodes[n] EXCEPT !.phase = phase,
                                   !.task = IF task = NoChild THEN nodes[n].task ELSE task,
                                   !.result = IF result = "none" THEN nodes[n].result ELSE result]
<1>1. nodes[n] \in NodeRow
  BY DEF Nodes
<1>2. /\ new \in NodeRow /\ new.phase = phase /\ new.attempt = nodes[n].attempt
      /\ new.task = IF task = NoChild THEN nodes[n].task ELSE task
  BY <1>1 DEF NodeRow, Results
<1>3. nodes' = [nodes EXCEPT ![n] = new]
  BY DEF MarkNode
<1> HIDE DEF new
<1>4. nodes' \in Nodes /\ nodes'[n] = new /\ \A m \in Node : m # n => nodes'[m] = nodes[m]
  BY <1>2, <1>3 DEF Nodes
<1> QED
  BY <1>2, <1>4 DEF Marked

\* A process has gone on to the place pc and kept everything else.
Gone(p, pc) ==
  /\ proc' \in Procs
  /\ \A q \in Proc : q # p => proc'[q] = proc[q]
  /\ proc'[p].pc = pc /\ proc'[p].rows = proc[p].rows /\ proc'[p].at = proc[p].at
  /\ proc'[p].running = proc[p].running /\ proc'[p].attempt = proc[p].attempt

LEMMA GotoIs ==
  ASSUME proc \in Procs, NEW p \in Proc, NEW pc \in Pcs, Goto(p, pc)
  PROVE  Gone(p, pc)
<1>1. proc[p] \in ProcRow
  BY DEF Procs
<1>2. [proc[p] EXCEPT !.pc = pc] \in ProcRow
  BY <1>1 DEF ProcRow
<1>3. proc' = [proc EXCEPT ![p] = [proc[p] EXCEPT !.pc = pc]]
  BY DEF Goto
<1>4. proc' \in Procs
  BY <1>2, <1>3 DEF Procs
<1>5. proc'[p] = [proc[p] EXCEPT !.pc = pc] /\ \A q \in Proc : q # p => proc'[q] = proc[q]
  BY <1>3 DEF Procs
<1> QED
  BY <1>1, <1>4, <1>5 DEF Gone, ProcRow

\* A process has become another record.
LEMMA ProcSet ==
  ASSUME proc \in Procs, NEW p \in Proc, NEW r \in ProcRow, proc' = [proc EXCEPT ![p] = r]
  PROVE  proc' \in Procs /\ proc'[p] = r /\ \A q \in Proc : q # p => proc'[q] = proc[q]
  BY DEF Procs

\* The nodes under way.
Busy == {n \in Node : nodes[n].phase \in {"dispatching", "running"}}

\* A process has dealt with the node it was at, in one of the stages.
Advanced(p, stage, started) ==
  /\ proc' \in Procs
  /\ \A q \in Proc : q # p => proc'[q] = proc[q]
  /\ \/ /\ proc[p].at < NodeCount
        /\ proc'[p].pc = stage /\ proc'[p].at = proc[p].at + 1
        /\ proc'[p].rows = proc[p].rows /\ proc'[p].running = proc[p].running + started
     \/ /\ proc[p].at = NodeCount /\ stage = "schedule"
        /\ proc'[p].pc = "reconcile" /\ proc'[p].rows = nodes' /\ proc'[p].at = 1
     \/ /\ proc[p].at = NodeCount /\ stage = "reconcile"
        /\ proc'[p].pc = "schedule" /\ proc'[p].rows = nodes' /\ proc'[p].at = 1
        /\ proc'[p].running = Cardinality(Busy')
     \/ /\ proc[p].at = NodeCount /\ stage = "reconcile"
        /\ proc'[p].pc = "decide"

LEMMA BusyFinite ==
  ASSUME NEW S \in SUBSET Node
  PROVE  IsFiniteSet(S) /\ Cardinality(S) \in Nat
<1>1. IsFiniteSet(Node)
  BY Manifest, FS_Interval DEF Node
<1>2. IsFiniteSet(S)
  BY <1>1, FS_Subset
<1> QED
  BY <1>2, FS_CardinalityType

LEMMA ResumeIs ==
  ASSUME proc \in Procs, NEW p \in Proc, NEW stage \in {"reconcile", "schedule"},
         NEW started \in {0, 1}, nodes' \in Nodes, Resume(p, stage, started)
  PROVE  Advanced(p, stage, started)
<1> DEFINE r == [proc[p] EXCEPT !.pc = stage, !.running = proc[p].running + started, !.attempt = 0]
           new == Onward(r, nodes')
<1>1. proc[p] \in ProcRow
  BY DEF Procs
<1>2. proc[p].running + started \in Nat
  BY <1>1 DEF ProcRow
<1>3. /\ r \in ProcRow /\ r.pc = stage /\ r.at = proc[p].at /\ r.rows = proc[p].rows
      /\ r.running = proc[p].running + started
  BY <1>1, <1>2 DEF ProcRow, Pcs
<1>4. proc' = [proc EXCEPT ![p] = new]
  BY DEF Resume, r, new
<1> HIDE DEF r, new
<1>5. r.at \in Node /\ r.round \in {1, 2}
  BY <1>3 DEF ProcRow
<1>6. CASE r.at < NodeCount
  <2>1. new = [r EXCEPT !.at = r.at + 1]
    BY <1>6 DEF new, Onward
  <2>2. r.at + 1 \in Node
    BY <1>5, <1>6, Manifest
  <2>3. /\ new \in ProcRow /\ new.pc = r.pc /\ new.at = r.at + 1 /\ new.rows = r.rows
        /\ new.running = r.running
    BY <1>3, <2>1, <2>2 DEF ProcRow
  <2> QED
    BY <1>3, <1>4, <1>6, <2>3, ProcSet DEF Advanced
<1>7. CASE r.at >= NodeCount
  <2>1. r.at = NodeCount /\ ~(r.at < NodeCount) /\ 1 \in Node
    BY <1>5, <1>7, Manifest
  <2>2. CASE stage = "schedule"
    <3>1. new = [Restart(r, "reconcile", nodes') EXCEPT !.round = 2, !.running = 0]
      BY <1>3, <2>1, <2>2 DEF new, Onward
    <3>2. new \in ProcRow /\ new.pc = "reconcile" /\ new.rows = nodes' /\ new.at = 1
      <4>1. PICK ns \in Nodes : ns = nodes'
        OBVIOUS
      <4>2. new = [r EXCEPT !.pc = "reconcile", !.rows = ns, !.at = 1, !.round = 2, !.running = 0]
        BY <3>1, <4>1 DEF Restart
      <4>3. /\ new \in ProcRow /\ new.pc = "reconcile" /\ new.rows = ns /\ new.at = 1
        BY <1>3, <2>1, <4>2 DEF ProcRow, Pcs
      <4> QED
        BY <4>1, <4>3
    <3> QED
      BY <1>3, <1>4, <2>1, <2>2, <3>2, ProcSet DEF Advanced
  <2>3. CASE stage = "reconcile" /\ r.round = 1
    <3>1. new = [Restart(r, "schedule", nodes') EXCEPT !.running = InFlight(nodes')]
      BY <1>3, <2>1, <2>3 DEF new, Onward
    <3>2. InFlight(nodes') = Cardinality(Busy')
      BY DEF InFlight, Busy
    <3>3. Busy' \in SUBSET Node
      BY DEF Busy
    <3>4. Cardinality(Busy') \in Nat
      BY <3>3, BusyFinite
    <3>5. /\ new \in ProcRow /\ new.pc = "schedule" /\ new.rows = nodes' /\ new.at = 1
          /\ new.running = Cardinality(Busy')
      BY <1>3, <2>1, <3>1, <3>2, <3>4 DEF ProcRow, Restart, Pcs
    <3> QED
      BY <1>3, <1>4, <2>1, <2>3, <3>5, ProcSet DEF Advanced
  <2>4. CASE stage = "reconcile" /\ r.round = 2
    <3>1. new = [Idle EXCEPT !.pc = "decide"]
      BY <1>3, <2>1, <2>4 DEF new, Onward
    <3>2. new \in ProcRow /\ new.pc = "decide"
      BY <3>1, IdleOK DEF ProcRow, Pcs
    <3> QED
      BY <1>3, <1>4, <2>1, <2>4, <3>2, ProcSet DEF Advanced
  <2> QED
    BY <1>5, <2>2, <2>3, <2>4
<1> QED
  BY <1>5, <1>6, <1>7, Manifest

\* What a process works with.
LEMMA ProcTypes ==
  ASSUME proc \in Procs, NEW p \in Proc
  PROVE  /\ proc[p] \in ProcRow /\ proc[p].pc \in Pcs /\ proc[p].at \in Node
         /\ proc[p].rows \in Nodes /\ proc[p].running \in Nat /\ proc[p].attempt \in Nat
         /\ proc[p].verdict \in WorkflowPhases
         /\ \A m \in Node : /\ proc[p].rows[m].task \in TaskId \cup {NoChild}
                            /\ proc[p].rows[m].attempt \in Nat
         /\ Dispatching(p) \in TaskId /\ Dispatching(p) # NoChild
<1>1. proc[p] \in ProcRow
  BY DEF Procs
<1>2. proc[p].at \in Node /\ proc[p].rows \in Nodes
  BY <1>1 DEF ProcRow
<1>3. \A m \in Node : proc[p].rows[m] \in NodeRow
  BY <1>2 DEF Nodes
<1>4. \A m \in Node : /\ proc[p].rows[m].task \in TaskId \cup {NoChild}
                      /\ proc[p].rows[m].attempt \in Nat
  BY <1>3 DEF NodeRow
<1>5. Dispatching(p) \in TaskId
  BY <1>2, <1>4 DEF Dispatching, ChildId, Attempt, Current, TaskId
<1> QED
  BY <1>1, <1>2, <1>4, <1>5, Manifest DEF ProcRow

\* A process is somewhere else, or in nothing.
LEMMA ProcIdle ==
  ASSUME proc \in Procs, NEW p \in Proc, NEW pc \in Pcs,
         proc' = [proc EXCEPT ![p] = [Idle EXCEPT !.pc = pc]]
  PROVE  /\ proc' \in Procs /\ proc'[p].pc = pc
         /\ \A q \in Proc : q # p => proc'[q] = proc[q]
<1>1. [Idle EXCEPT !.pc = pc] \in ProcRow /\ [Idle EXCEPT !.pc = pc].pc = pc
  BY IdleOK DEF ProcRow
<1> QED
  BY <1>1, ProcSet

LEMMA ProcEnds ==
  ASSUME proc \in Procs, NEW p \in Proc, proc' = [proc EXCEPT ![p] = Idle]
  PROVE  /\ proc' \in Procs /\ proc'[p].pc = "idle"
         /\ \A q \in Proc : q # p => proc'[q] = proc[q]
<1>1. Idle \in ProcRow /\ Idle.pc = "idle"
  BY IdleOK DEF Idle
<1> QED
  BY <1>1, ProcSet

\* A process has read the nodes for a stage.
LEMMA ProcRestarts ==
  ASSUME proc \in Procs, nodes \in Nodes, NEW p \in Proc, NEW stage \in Pcs,
         proc' = [proc EXCEPT ![p] = Restart(@, stage, nodes)]
  PROVE  /\ proc' \in Procs /\ proc'[p].pc = stage /\ proc'[p].rows = nodes /\ proc'[p].at = 1
         /\ \A q \in Proc : q # p => proc'[q] = proc[q]
<1> DEFINE new == [proc[p] EXCEPT !.pc = stage, !.rows = nodes, !.at = 1]
<1>1. 1 \in Node
  BY Manifest
<1>2. new \in ProcRow /\ new.pc = stage /\ new.rows = nodes /\ new.at = 1
  BY <1>1, ProcTypes DEF ProcRow
<1>3. proc' = [proc EXCEPT ![p] = new]
  BY DEF Restart
<1> HIDE DEF new
<1> QED
  BY <1>2, <1>3, ProcSet

\* A node has become another row.
NodeSet(n, row) ==
  /\ nodes' \in Nodes /\ nodes'[n] = row
  /\ \A m \in Node : m # n => nodes'[m] = nodes[m]

LEMMA ResetIs ==
  ASSUME nodes \in Nodes, NEW n \in Node, NEW a \in Nat,
         nodes' = [nodes EXCEPT ![n] = NextAttempt(n, a)]
  PROVE  /\ NodeSet(n, NextAttempt(n, a))
         /\ NextAttempt(n, a).phase = "pending" /\ NextAttempt(n, a).attempt = a + 1
         /\ NextAttempt(n, a).task = NoChild
<1>1. a + 1 \in Nat
  OBVIOUS
<1>2. /\ NextAttempt(n, a) \in NodeRow
      /\ NextAttempt(n, a).phase = "pending" /\ NextAttempt(n, a).attempt = a + 1
      /\ NextAttempt(n, a).task = NoChild
  BY <1>1, IdleOK DEF NextAttempt, NodeRow, FreshNode
<1> QED
  BY <1>2 DEF NodeSet, Nodes

\* Every child keeps its id, its key and its receipt, and only one its phase.
Moved(id, target) ==
  /\ TasksOK' /\ DOMAIN tasks' = DOMAIN tasks
  /\ \A i \in DOMAIN tasks : /\ tasks'[i].key = tasks[i].key
                             /\ i # id => tasks'[i] = tasks[i]
  /\ tasks'[id].phase = target

LEMMA MoveTaskIs ==
  ASSUME TasksOK, NEW id \in DOMAIN tasks, NEW target \in Store!Phases, MoveTask(id, target)
  PROVE  Moved(id, target)
<1> DEFINE new == [tasks[id] EXCEPT !.phase = target]
<1>1. tasks[id] \in Child
  BY DEF TasksOK
<1>2. new \in Child /\ new.phase = target /\ new.key = tasks[id].key
  BY <1>1 DEF Child
<1>3. tasks' = [tasks EXCEPT ![id] = new]
  BY DEF MoveTask
<1> HIDE DEF new
<1> QED
  BY <1>2, <1>3 DEF Moved, TasksOK

-----------------------------------------------------------------------------
(* What the steps of a tick do, in these terms.                            *)

Rest == UNCHANGED <<workflow, tasks, launched, crashes>>

\* The node a process is at has been marked, and the process has gone on.
Settled(p, phase, task, stage, started) ==
  /\ Marked(proc[p].at, phase, task)
  /\ Advanced(p, stage, started)

\* The node has been left as it is.
Skipped(p, stage) == nodes' = nodes /\ Advanced(p, stage, 0)

LEMMA SettledIs ==
  ASSUME TypeOK, NEW p \in Proc, NEW phase \in NodePhases, NEW task \in TaskId \cup {NoChild},
         NEW result \in Results, NEW stage \in {"reconcile", "schedule"}, NEW started \in {0, 1},
         MarkNode(Current(p), phase, task, result), Resume(p, stage, started)
  PROVE  Settled(p, phase, task, stage, started)
<1>1. nodes \in Nodes /\ proc \in Procs
  BY TypesAre
<1>2. proc[p].at \in Node
  BY <1>1, ProcTypes
<1>3. Marked(proc[p].at, phase, task)
  BY <1>1, <1>2, MarkNodeIs DEF Current
<1>4. nodes' \in Nodes
  BY <1>3 DEF Marked
<1>5. Advanced(p, stage, started)
  BY <1>1, <1>4, ResumeIs
<1> QED
  BY <1>3, <1>5 DEF Settled

LEMMA SkippedIs ==
  ASSUME TypeOK, NEW p \in Proc, NEW stage \in {"reconcile", "schedule"},
         UNCHANGED nodes, Resume(p, stage, 0)
  PROVE  Skipped(p, stage)
<1>1. nodes \in Nodes /\ proc \in Procs /\ nodes' \in Nodes
  BY TypesAre
<1>2. Advanced(p, stage, 0)
  BY <1>1, ResumeIs
<1> QED
  BY <1>2 DEF Skipped

\* The child of a listed node, as one row of the reconciliation finds it.
ListedChild(p) == proc[p].rows[proc[p].at].task
Reconciled(p, phase) ==
  /\ Exists(ListedChild(p)) /\ Settled(p, phase, ListedChild(p), "reconcile", 0)
  /\ \/ phase = "ready_for_review" /\ tasks[ListedChild(p)].phase \in Store!SuccessPhases
     \/ phase \in {"skipped", "blocked"} /\ tasks[ListedChild(p)].phase = "blocked"
        /\ (phase = "skipped" => proc[p].at \in Partial)
     \/ phase = "abandoned" /\ tasks[ListedChild(p)].phase = "abandoned"
     \/ phase = "stuck" /\ tasks[ListedChild(p)].phase = "stuck"
        /\ proc[p].rows[proc[p].at].attempt >= MaxRetries[proc[p].at]

\* A child is stuck and its node has retries left.
ToReset(p) ==
  /\ Exists(ListedChild(p)) /\ tasks[ListedChild(p)].phase = "stuck"
  /\ proc[p].rows[proc[p].at].attempt < MaxRetries[proc[p].at]
  /\ nodes' = nodes /\ proc' \in Procs
  /\ \A q \in Proc : q # p => proc'[q] = proc[q]
  /\ proc'[p].pc = "reset" /\ proc'[p].rows = proc[p].rows /\ proc'[p].at = proc[p].at
  /\ proc'[p].attempt = nodes[proc[p].at].attempt

LEMMA ReconcileIs ==
  ASSUME TypeOK, NEW p \in Proc, ReconcileNode(p)
  PROVE  /\ proc[p].pc = "reconcile" /\ Rest
         /\ \/ Skipped(p, "reconcile") \/ ToReset(p)
            \/ \E phase \in NodePhases : Reconciled(p, phase)
<1> DEFINE n == proc[p].at
           id == proc[p].rows[n].task
<1>1. proc[p].pc = "reconcile" /\ Rest
  BY DEF ReconcileNode, At, Rest
<1>2. /\ nodes \in Nodes /\ proc \in Procs /\ n \in Node /\ id \in TaskId \cup {NoChild}
      /\ id = ListedChild(p)
  BY TypesAre, ProcTypes DEF ListedChild
<1>3. ChildPhase(id) # "none" => Exists(id) /\ tasks[id].phase = ChildPhase(id)
  BY DEF ChildPhase
<1>4. /\ proc[p].rows[n].attempt \in Nat /\ nodes[n].attempt \in Nat /\ MaxRetries[n] \in Nat
  <2>1. nodes[n] \in NodeRow
    BY <1>2 DEF Nodes
  <2> QED
    BY <1>2, <2>1, ProcTypes, Manifest DEF NodeRow
<1> HIDE DEF n, id
<1>5. CASE UNCHANGED nodes /\ Resume(p, "reconcile", 0)
  BY <1>1, <1>5, SkippedIs
<1>6. CASE /\ ChildPhase(id) \in Store!SuccessPhases
           /\ MarkNode(n, "ready_for_review", id, "paths") /\ Resume(p, "reconcile", 0)
  <2>1. Settled(p, "ready_for_review", id, "reconcile", 0)
    BY <1>2, <1>6, SettledIs DEF NodePhases, Results, n, Current
  <2>2. ChildPhase(id) # "none"
    BY <1>6 DEF Store!SuccessPhases
  <2> QED
    BY <1>1, <1>2, <1>3, <1>6, <2>1, <2>2 DEF Reconciled, NodePhases
<1>7. CASE /\ ChildPhase(id) = "blocked"
           /\ MarkNode(n, IF n \in Partial THEN "skipped" ELSE "blocked", id, "none")
           /\ Resume(p, "reconcile", 0)
  <2>1. CASE n \in Partial
    <3>1. Settled(p, "skipped", id, "reconcile", 0)
      BY <1>2, <1>7, <2>1, SettledIs DEF NodePhases, Results, n, Current
    <3> QED
      BY <1>1, <1>2, <1>3, <1>7, <2>1, <3>1 DEF Reconciled, NodePhases, n
  <2>2. CASE n \notin Partial
    <3>1. Settled(p, "blocked", id, "reconcile", 0)
      BY <1>2, <1>7, <2>2, SettledIs DEF NodePhases, Results, n, Current
    <3> QED
      BY <1>1, <1>2, <1>3, <1>7, <3>1 DEF Reconciled, NodePhases
  <2> QED
    BY <2>1, <2>2
<1>8. CASE /\ ChildPhase(id) = "stuck" /\ RetriesLeft(n, proc[p].rows[n])
           /\ proc' = [proc EXCEPT ![p] = [@ EXCEPT !.pc = "reset", !.attempt = nodes[n].attempt]]
           /\ UNCHANGED nodes
  <2> DEFINE new == [proc[p] EXCEPT !.pc = "reset", !.attempt = nodes[n].attempt]
  <2>1. /\ new \in ProcRow /\ new.pc = "reset" /\ new.rows = proc[p].rows /\ new.at = proc[p].at
        /\ new.attempt = nodes[n].attempt
    BY <1>2, <1>4, ProcTypes DEF ProcRow, Pcs
  <2>2. proc' = [proc EXCEPT ![p] = new]
    BY <1>8
  <2> HIDE DEF new
  <2>3. proc' \in Procs /\ proc'[p] = new /\ \A q \in Proc : q # p => proc'[q] = proc[q]
    BY <1>2, <2>1, <2>2, ProcSet
  <2> QED
    BY <1>1, <1>2, <1>3, <1>8, <2>1, <2>3 DEF ToReset, RetriesLeft, n
<1>9. CASE /\ ChildPhase(id) = "stuck" /\ ~RetriesLeft(n, proc[p].rows[n])
           /\ MarkNode(n, "stuck", id, "none") /\ Resume(p, "reconcile", 0)
  <2>1. Settled(p, "stuck", id, "reconcile", 0)
    BY <1>2, <1>9, SettledIs DEF NodePhases, Results, n, Current
  <2>2. proc[p].rows[n].attempt >= MaxRetries[n]
    BY <1>4, <1>9 DEF RetriesLeft
  <2> QED
    BY <1>1, <1>2, <1>3, <1>9, <2>1, <2>2 DEF Reconciled, NodePhases, n
<1>10. CASE /\ ChildPhase(id) = "abandoned"
            /\ MarkNode(n, "abandoned", id, "none") /\ Resume(p, "reconcile", 0)
  <2>1. Settled(p, "abandoned", id, "reconcile", 0)
    BY <1>2, <1>10, SettledIs DEF NodePhases, Results, n, Current
  <2> QED
    BY <1>1, <1>2, <1>3, <1>10, <2>1 DEF Reconciled, NodePhases
<1> QED
  BY <1>5, <1>6, <1>7, <1>8, <1>9, <1>10 DEF ReconcileNode, n, id, Current

\* A row that is not passed over is pending, and when it is to get a child
\* there is room for one more.
LEMMA NotPassedOver ==
  ASSUME NEW p \in Proc, ~PassedOver(p)
  PROVE  /\ proc[p].rows[proc[p].at].phase = "pending"
         /\ DependenciesReady(proc[p].at, proc[p].rows) /\ Kind[proc[p].at] # "gate"
              => ~(proc[p].running >= MaxParallel)
  BY DEF PassedOver, Current

Listed(p) == proc[p].rows[proc[p].at].phase = "pending"
Ready(p) == DependenciesReady(proc[p].at, proc[p].rows)

LEMMA ScheduleIs ==
  ASSUME TypeOK, NEW p \in Proc,
         PassOver(p) \/ BlockOnDependency(p) \/ RunGate(p) \/ MarkOnly(p) \/ NoExecutor(p)
  PROVE  /\ proc[p].pc = "schedule" /\ Rest
         /\ \/ Skipped(p, "schedule")
            \/ Listed(p) /\ \E s \in {0, 1} : Settled(p, "blocked", NoChild, "schedule", s)
            \/ Listed(p) /\ Ready(p) /\ Settled(p, "ready_for_review", NoChild, "schedule", 0)
            \/ /\ Listed(p) /\ Ready(p) /\ ~(proc[p].running >= MaxParallel)
               /\ Settled(p, "dispatching", NoChild, "schedule", 1)
<1>1. proc[p].pc = "schedule" /\ Rest
  BY DEF PassOver, BlockOnDependency, RunGate, MarkOnly, NoExecutor, Runnable, At, Rest
<1>2. ASSUME NEW s \in {0, 1}, MarkNode(Current(p), "blocked", NoChild, "none"),
             Resume(p, "schedule", s)
      PROVE  Settled(p, "blocked", NoChild, "schedule", s)
  BY <1>2, SettledIs DEF NodePhases, Results
<1>3. CASE PassOver(p)
  BY <1>1, <1>3, SkippedIs DEF PassOver
<1>4. CASE BlockOnDependency(p)
  BY <1>1, <1>2, <1>4, NotPassedOver DEF BlockOnDependency, Listed
<1>5. CASE RunGate(p)
  <2>1. Resume(p, "schedule", 0) /\ Listed(p) /\ Ready(p)
    BY <1>5, NotPassedOver DEF RunGate, Listed, Ready, Current
  <2>2. \/ UNCHANGED nodes
        \/ MarkNode(Current(p), "blocked", NoChild, "none")
        \/ MarkNode(Current(p), "ready_for_review", NoChild, "gate")
    BY <1>5 DEF RunGate
  <2>3. CASE UNCHANGED nodes
    BY <1>1, <2>1, <2>3, SkippedIs
  <2>4. CASE MarkNode(Current(p), "blocked", NoChild, "none")
    BY <1>1, <1>2, <2>1, <2>4
  <2>5. CASE MarkNode(Current(p), "ready_for_review", NoChild, "gate")
    <3>1. Settled(p, "ready_for_review", NoChild, "schedule", 0)
      BY <2>1, <2>5, SettledIs DEF NodePhases, Results
    <3> QED
      BY <1>1, <2>1, <3>1
  <2> QED
    BY <2>2, <2>3, <2>4, <2>5
<1>6. CASE MarkOnly(p)
  <2>1. MarkNode(Current(p), "dispatching", NoChild, "none") /\ Resume(p, "schedule", 1)
    BY <1>6 DEF MarkOnly
  <2>2. Settled(p, "dispatching", NoChild, "schedule", 1)
    BY <2>1, SettledIs DEF NodePhases, Results
  <2>3. Listed(p) /\ Ready(p) /\ ~(proc[p].running >= MaxParallel)
    BY <1>6, NotPassedOver DEF MarkOnly, Runnable, Listed, Ready, Current
  <2> QED
    BY <1>1, <2>2, <2>3
<1>7. CASE NoExecutor(p)
  BY <1>1, <1>2, <1>7, NotPassedOver DEF NoExecutor, Runnable, Listed
<1> QED
  BY <1>3, <1>4, <1>5, <1>6, <1>7

LEMMA MarkDispatchingIs ==
  ASSUME TypeOK, NEW p \in Proc, MarkDispatching(p)
  PROVE  /\ proc[p].pc = "schedule" /\ Rest /\ p \notin DryTickers
         /\ Listed(p) /\ Ready(p) /\ ~(proc[p].running >= MaxParallel)
         /\ Marked(proc[p].at, "dispatching", NoChild) /\ Gone(p, "create")
<1>1. /\ MarkNode(Current(p), "dispatching", NoChild, "none") /\ Goto(p, "create")
      /\ Rest /\ p \notin DryTickers /\ Runnable(p)
  BY DEF MarkDispatching, Rest
<1>2. /\ proc[p].pc = "schedule" /\ Listed(p) /\ Ready(p)
      /\ ~(proc[p].running >= MaxParallel)
  BY <1>1, NotPassedOver DEF Runnable, At, Listed, Ready, Current
<1>3. proc \in Procs /\ nodes \in Nodes /\ proc[p].at \in Node
  BY TypesAre, ProcTypes
<1>4. Marked(proc[p].at, "dispatching", NoChild)
  BY <1>1, <1>3, MarkNodeIs DEF NodePhases, Results, Current
<1>5. Gone(p, "create")
  BY <1>1, <1>3, GotoIs DEF Pcs
<1> QED
  BY <1>1, <1>2, <1>4, <1>5

\* A child has been created for the attempt.
Created(p) ==
  /\ ~Exists(Dispatching(p)) /\ ChildrenByKey(proc[p].at, Attempt(p)) = {}
  /\ TasksOK' /\ DOMAIN tasks' = DOMAIN tasks \cup {Dispatching(p)}
  /\ \A id \in DOMAIN tasks : tasks'[id] = tasks[id]
  /\ tasks'[Dispatching(p)].key = Attempt(p) /\ tasks'[Dispatching(p)].phase = "new"

LEMMA CreateTaskIs ==
  ASSUME TypeOK, NEW p \in Proc, CreateTask(p)
  PROVE  /\ proc[p].pc = "create" /\ UNCHANGED <<workflow, launched, crashes>>
         /\ \/ /\ UNCHANGED <<nodes, tasks>> /\ (Gone(p, "launch") \/ Gone(p, "link"))
               /\ \E id \in DOMAIN tasks : id[1] = proc[p].at /\ tasks[id].key = Attempt(p)
            \/ Settled(p, "blocked", NoChild, "schedule", 1) /\ UNCHANGED tasks
            \/ UNCHANGED nodes /\ Gone(p, "launch") /\ Created(p)
<1> DEFINE found == ChildrenByKey(proc[p].at, Attempt(p))
<1>1. proc[p].pc = "create" /\ UNCHANGED <<workflow, launched, crashes>>
  BY DEF CreateTask, At
<1>2. proc \in Procs /\ TasksOK
  BY TypesAre
<1>3. CASE /\ found # {} /\ UNCHANGED <<nodes, tasks>>
           /\ Goto(p, IF \E id \in found : tasks[id].phase = "new" THEN "launch" ELSE "link")
  <2>1. Gone(p, "launch") \/ Gone(p, "link")
    <3>1. CASE \E id \in found : tasks[id].phase = "new"
      BY <1>2, <1>3, <3>1, GotoIs DEF Pcs
    <3>2. CASE ~\E id \in found : tasks[id].phase = "new"
      BY <1>2, <1>3, <3>2, GotoIs DEF Pcs
    <3> QED
      BY <3>1, <3>2
  <2>2. \E id \in DOMAIN tasks : id[1] = proc[p].at /\ tasks[id].key = Attempt(p)
    BY <1>3 DEF ChildrenByKey
  <2> QED
    BY <1>1, <1>3, <2>1, <2>2
<1>4. CASE /\ MarkNode(Current(p), "blocked", NoChild, "none")
           /\ Resume(p, "schedule", 1) /\ UNCHANGED tasks
  BY <1>1, <1>4, SettledIs DEF NodePhases, Results
<1>5. CASE /\ found = {} /\ ~Exists(Dispatching(p)) /\ Goto(p, "launch") /\ UNCHANGED nodes
           /\ tasks' = [id \in DOMAIN tasks \cup {Dispatching(p)} |->
                          IF Exists(id) THEN tasks[id]
                          ELSE [phase |-> "new", key |-> Attempt(p), receipt |-> FALSE]]
  <2>1. Dispatching(p) \in TaskId /\ Attempt(p) \in Nat
    BY <1>2, ProcTypes DEF Attempt, Current
  <2>2. [phase |-> "new", key |-> Attempt(p), receipt |-> FALSE] \in Child
    BY <2>1 DEF Child, Store!Phases
  <2>3. /\ DOMAIN tasks' = DOMAIN tasks \cup {Dispatching(p)}
        /\ \A id \in DOMAIN tasks : tasks'[id] = tasks[id]
        /\ tasks'[Dispatching(p)] = [phase |-> "new", key |-> Attempt(p), receipt |-> FALSE]
    BY <1>5 DEF Exists
  <2>4. TasksOK'
    BY <1>2, <2>1, <2>2, <2>3 DEF TasksOK
  <2>5. Gone(p, "launch")
    BY <1>2, <1>5, GotoIs DEF Pcs
  <2> QED
    BY <1>1, <1>5, <2>3, <2>4, <2>5 DEF Created
<1> QED
  BY <1>3, <1>4, <1>5 DEF CreateTask, Current

LEMMA LaunchIs ==
  ASSUME TypeOK, NEW p \in Proc, Launch(p)
  PROVE  /\ proc[p].pc = "launch" /\ UNCHANGED <<workflow, nodes, tasks, crashes>>
         /\ \/ /\ Gone(p, "ack")
               /\ launched' = [launched EXCEPT ![<<proc[p].at, Attempt(p)>>] = @ + 1]
            \/ Gone(p, "fail") /\ UNCHANGED launched
<1>1. proc \in Procs
  BY TypesAre
<1>2. Goto(p, "ack") => Gone(p, "ack")
  BY <1>1, GotoIs DEF Pcs
<1>3. Goto(p, "fail") => Gone(p, "fail")
  BY <1>1, GotoIs DEF Pcs
<1> QED
  BY <1>2, <1>3 DEF Launch, At, Current

LEMMA AckTaskIs ==
  ASSUME TypeOK, NEW p \in Proc, AckTask(p)
  PROVE  /\ proc[p].pc = "ack" /\ UNCHANGED <<workflow, nodes, launched, crashes>>
         /\ \/ Exists(Dispatching(p)) /\ Moved(Dispatching(p), "acked") /\ Gone(p, "link")
            \/ UNCHANGED tasks /\ Gone(p, "fail")
<1>1. proc \in Procs /\ TasksOK
  BY TypesAre
<1>2. Goto(p, "link") => Gone(p, "link")
  BY <1>1, GotoIs DEF Pcs
<1>3. Goto(p, "fail") => Gone(p, "fail")
  BY <1>1, GotoIs DEF Pcs
<1>4. /\ proc[p].pc = "ack" /\ UNCHANGED <<workflow, nodes, launched, crashes>>
      /\ \/ /\ Exists(Dispatching(p)) /\ MoveTask(Dispatching(p), "acked") /\ Goto(p, "link")
         \/ UNCHANGED tasks /\ Goto(p, "fail")
  BY DEF AckTask, At, Legal
<1>5. Exists(Dispatching(p)) /\ MoveTask(Dispatching(p), "acked") => Moved(Dispatching(p), "acked")
  BY <1>1, MoveTaskIs DEF Exists, Store!Phases
<1> QED
  BY <1>2, <1>3, <1>4, <1>5

LEMMA FailTaskIs ==
  ASSUME TypeOK, NEW p \in Proc, FailTask(p)
  PROVE  /\ proc[p].pc = "fail" /\ UNCHANGED <<workflow, nodes, launched, crashes>>
         /\ \/ Exists(Dispatching(p)) /\ Moved(Dispatching(p), "blocked") /\ Gone(p, "failed")
            \/ UNCHANGED tasks /\ proc' = [proc EXCEPT ![p] = Idle]
<1>1. proc \in Procs /\ TasksOK
  BY TypesAre
<1>2. Goto(p, "failed") => Gone(p, "failed")
  BY <1>1, GotoIs DEF Pcs
<1>3. /\ proc[p].pc = "fail" /\ UNCHANGED <<workflow, nodes, launched, crashes>>
      /\ \/ /\ Exists(Dispatching(p)) /\ MoveTask(Dispatching(p), "blocked") /\ Goto(p, "failed")
         \/ UNCHANGED tasks /\ proc' = [proc EXCEPT ![p] = Idle]
  BY DEF FailTask, At, Legal
<1>4. Exists(Dispatching(p)) /\ MoveTask(Dispatching(p), "blocked") => Moved(Dispatching(p), "blocked")
  BY <1>1, MoveTaskIs DEF Exists, Store!Phases, Store!TerminalPhases
<1> QED
  BY <1>2, <1>3, <1>4

LEMMA DispatchEndsIs ==
  ASSUME TypeOK, NEW p \in Proc, FailNode(p) \/ LinkNode(p)
  PROVE  /\ Rest
         /\ \/ proc[p].pc = "failed" /\ Settled(p, "blocked", Dispatching(p), "schedule", 1)
            \/ proc[p].pc = "link" /\ Settled(p, "running", Dispatching(p), "schedule", 1)
<1>1. Dispatching(p) \in TaskId
  BY TypesAre, ProcTypes
<1>2. CASE FailNode(p)
  <2>1. /\ proc[p].pc = "failed" /\ Rest /\ Resume(p, "schedule", 1)
        /\ MarkNode(Current(p), "blocked", Dispatching(p), "none")
    BY <1>2 DEF FailNode, At, Rest
  <2>2. Settled(p, "blocked", Dispatching(p), "schedule", 1)
    BY <1>1, <2>1, SettledIs DEF NodePhases, Results
  <2> QED
    BY <2>1, <2>2
<1>3. CASE LinkNode(p)
  <2>1. /\ proc[p].pc = "link" /\ Rest /\ Resume(p, "schedule", 1)
        /\ MarkNode(Current(p), "running", Dispatching(p), "none")
    BY <1>3 DEF LinkNode, At, Rest
  <2>2. Settled(p, "running", Dispatching(p), "schedule", 1)
    BY <1>1, <2>1, SettledIs DEF NodePhases, Results
  <2> QED
    BY <2>1, <2>2
<1> QED
  BY <1>2, <1>3

LEMMA ResetNodeIs ==
  ASSUME TypeOK, NEW p \in Proc, ResetNode(p)
  PROVE  /\ proc[p].pc = "reset" /\ p \in Tickers /\ proc[p].attempt <= MaxAttempts /\ Rest
         /\ NodeSet(proc[p].at, NextAttempt(proc[p].at, proc[p].attempt))
         /\ Advanced(p, "reconcile", 0)
<1>1. nodes \in Nodes /\ proc \in Procs /\ proc[p].at \in Node /\ proc[p].attempt \in Nat
  BY TypesAre, ProcTypes
<1>2. /\ proc[p].pc = "reset" /\ p \in Tickers /\ proc[p].attempt <= MaxAttempts /\ Rest
      /\ nodes' = [nodes EXCEPT ![proc[p].at] = NextAttempt(proc[p].at, proc[p].attempt)]
      /\ Resume(p, "reconcile", 0)
  BY DEF ResetNode, At, Current, Rest
<1>3. NodeSet(proc[p].at, NextAttempt(proc[p].at, proc[p].attempt))
  BY <1>1, <1>2, ResetIs
<1>4. Advanced(p, "reconcile", 0)
  BY <1>1, <1>2, <1>3, ResumeIs DEF NodeSet
<1> QED
  BY <1>2, <1>3, <1>4

-----------------------------------------------------------------------------
(* The other commands, and the children.                                   *)

LEMMA AbandonChildIs ==
  ASSUME TypeOK, NEW p \in Proc, AbandonChild(p)
  PROVE  /\ UNCHANGED <<workflow, nodes, launched, crashes>>
         /\ proc' \in Procs /\ proc'[p].pc \in {"abandon", "sweep"}
         /\ \A q \in Proc : q # p => proc'[q] = proc[q]
         /\ \/ UNCHANGED tasks
            \/ \E id \in DOMAIN tasks : tasks[id].phase \in {"new", "acked"} /\ Moved(id, "abandoned")
<1> DEFINE r == proc[p]
           id == r.rows[r.at].task
<1>1. proc \in Procs /\ TasksOK /\ r.at \in Node /\ r.pc = "abandon"
  BY TypesAre, ProcTypes DEF AbandonChild, At
<1>2. UNCHANGED <<workflow, nodes, launched, crashes>>
  BY DEF AbandonChild
<1>3. \/ UNCHANGED tasks
      \/ ChildPhase(id) \in {"new", "acked"} /\ MoveTask(id, "abandoned")
  BY DEF AbandonChild
<1>4. ASSUME ChildPhase(id) \in {"new", "acked"}, MoveTask(id, "abandoned")
      PROVE  id \in DOMAIN tasks /\ tasks[id].phase \in {"new", "acked"} /\ Moved(id, "abandoned")
  <2>1. id \in DOMAIN tasks /\ tasks[id].phase \in {"new", "acked"}
    BY <1>4 DEF ChildPhase, Exists
  <2>2. Moved(id, "abandoned")
    BY <1>1, <1>4, <2>1, MoveTaskIs DEF Store!Phases, Store!TerminalPhases
  <2> QED
    BY <2>1, <2>2
<1>5. /\ proc' \in Procs /\ proc'[p].pc \in {"abandon", "sweep"}
      /\ \A q \in Proc : q # p => proc'[q] = proc[q]
  <2>1. proc' = [proc EXCEPT ![p] = IF r.at < NodeCount THEN [r EXCEPT !.at = r.at + 1]
                                    ELSE [Idle EXCEPT !.pc = "sweep"]]
    BY DEF AbandonChild
  <2>2. CASE r.at < NodeCount
    <3> DEFINE new == [r EXCEPT !.at = r.at + 1]
    <3>1. r.at + 1 \in Node
      BY <1>1, <2>2, Manifest
    <3>2. new \in ProcRow /\ new.pc = r.pc
      BY <1>1, <3>1, ProcTypes DEF ProcRow
    <3>3. proc' = [proc EXCEPT ![p] = new]
      BY <2>1, <2>2
    <3> HIDE DEF new
    <3> QED
      BY <1>1, <3>2, <3>3, ProcSet
  <2>3. CASE ~(r.at < NodeCount)
    BY <1>1, <2>1, <2>3, ProcIdle DEF Pcs
  <2> QED
    BY <2>2, <2>3
<1> HIDE DEF id
<1> QED
  BY <1>2, <1>3, <1>4, <1>5

\* What is pending or under way is abandoned, and nothing else.
Swept ==
  /\ nodes' \in Nodes
  /\ \A m \in Node :
       /\ nodes'[m].task = nodes[m].task /\ nodes'[m].attempt = nodes[m].attempt
       /\ nodes'[m].phase = IF nodes[m].phase \in ActiveNodePhases THEN "abandoned"
                            ELSE nodes[m].phase

LEMMA SweepIs ==
  ASSUME TypeOK, NEW p \in Proc, CancelActiveNodes(p)
  PROVE  Rest /\ Swept /\ Gone(p, "seal")
<1>1. nodes \in Nodes /\ proc \in Procs
  BY TypesAre
<1>2. /\ Rest /\ Goto(p, "seal")
      /\ nodes' = [n \in Node |-> IF nodes[n].phase \in ActiveNodePhases
                                  THEN [nodes[n] EXCEPT !.phase = "abandoned"] ELSE nodes[n]]
  BY DEF CancelActiveNodes, Rest
<1>3. Gone(p, "seal")
  BY <1>1, <1>2, GotoIs DEF Pcs
<1>4. ASSUME NEW m \in Node
      PROVE  /\ nodes'[m] \in NodeRow
             /\ nodes'[m].task = nodes[m].task /\ nodes'[m].attempt = nodes[m].attempt
             /\ nodes'[m].phase = IF nodes[m].phase \in ActiveNodePhases THEN "abandoned"
                                  ELSE nodes[m].phase
  <2>1. nodes[m] \in NodeRow
    BY <1>1 DEF Nodes
  <2>2. nodes'[m] = IF nodes[m].phase \in ActiveNodePhases
                    THEN [nodes[m] EXCEPT !.phase = "abandoned"] ELSE nodes[m]
    BY <1>2
  <2> QED
    BY <2>1, <2>2 DEF NodeRow, NodePhases
<1>5. nodes' \in Nodes
  BY <1>2, <1>4 DEF Nodes
<1> QED
  BY <1>2, <1>3, <1>4, <1>5 DEF Swept

\* A child that was acked has ended.
Ended(id) ==
  /\ TasksOK' /\ DOMAIN tasks' = DOMAIN tasks
  /\ id \in DOMAIN tasks /\ tasks[id].phase = "acked"
  /\ \A i \in DOMAIN tasks : /\ tasks'[i].key = tasks[i].key
                             /\ i # id => tasks'[i] = tasks[i]
  /\ tasks'[id].phase \notin {"evidence_ready", "committed"}

LEMMA ChildEndsIs ==
  ASSUME TypeOK, NEW id, ChildEnds(id)
  PROVE  Ended(id) /\ UNCHANGED <<workflow, nodes, launched, proc, crashes>>
<1>1. TasksOK /\ id \in DOMAIN tasks /\ tasks[id].phase = "acked" /\ tasks[id] \in Child
  BY TypesAre DEF ChildEnds, Exists, TasksOK
<1>2. PICK o \in Outcomes :
        tasks' = [tasks EXCEPT ![id] = IF o \in {"receipt", "no_receipt"}
                    THEN [@ EXCEPT !.phase = "ready_for_review", !.receipt = (o = "receipt")]
                    ELSE [@ EXCEPT !.phase = o]]
  BY DEF ChildEnds
<1>3. o \in {"receipt", "no_receipt", "blocked", "stuck", "abandoned"}
  BY InstanceAssumption
<1> DEFINE good == [tasks[id] EXCEPT !.phase = "ready_for_review", !.receipt = (o = "receipt")]
           bad == [tasks[id] EXCEPT !.phase = o]
           new == IF o \in {"receipt", "no_receipt"} THEN good ELSE bad
<1>4. good \in Child /\ good.key = tasks[id].key /\ good.phase = "ready_for_review"
  BY <1>1 DEF Child, Store!Phases, Store!TerminalPhases, Store!SuccessPhases
<1>5. o \notin {"receipt", "no_receipt"} => bad \in Child /\ bad.key = tasks[id].key /\ bad.phase = o
  BY <1>1, <1>3 DEF Child, Store!Phases, Store!TerminalPhases
<1>6. tasks' = [tasks EXCEPT ![id] = new]
  BY <1>2
<1> HIDE DEF good, bad
<1>7. /\ new \in Child /\ new.key = tasks[id].key
      /\ new.phase \notin {"evidence_ready", "committed"}
  BY <1>3, <1>4, <1>5
<1> HIDE DEF new
<1>8. /\ DOMAIN tasks' = DOMAIN tasks /\ tasks'[id] = new
      /\ \A i \in DOMAIN tasks : i # id => tasks'[i] = tasks[i]
  BY <1>1, <1>6
<1>9. TasksOK'
  BY <1>1, <1>7, <1>8 DEF TasksOK
<1> QED
  BY <1>1, <1>7, <1>8, <1>9 DEF Ended, ChildEnds

LEMMA BeginRetryIs ==
  ASSUME TypeOK, NEW p \in Proc, BeginRetry(p)
  PROVE  /\ p \in Retriers /\ proc[p].pc = "idle" /\ Rest /\ UNCHANGED nodes
         /\ proc' \in Procs /\ proc'[p].pc = "reset"
         /\ proc'[p].attempt = nodes[proc'[p].at].attempt /\ proc'[p].attempt < MaxAttempts
         /\ \A q \in Proc : q # p => proc'[q] = proc[q]
<1>1. /\ p \in Retriers /\ proc[p].pc = "idle" /\ Rest /\ UNCHANGED nodes
  BY DEF BeginRetry, At, Rest
<1>2. PICK n \in Node :
        /\ nodes[n].attempt < MaxAttempts
        /\ proc' = [proc EXCEPT ![p] = [Idle EXCEPT !.pc = "reset", !.at = n,
                                                    !.attempt = nodes[n].attempt]]
  BY DEF BeginRetry
<1> DEFINE new == [Idle EXCEPT !.pc = "reset", !.at = n, !.attempt = nodes[n].attempt]
<1>3. nodes[n] \in NodeRow /\ proc \in Procs
  BY TypesAre DEF Nodes
<1>4. nodes[n].attempt \in Nat
  BY <1>3 DEF NodeRow
<1>5. new \in ProcRow /\ new.pc = "reset" /\ new.at = n /\ new.attempt = nodes[n].attempt
  BY <1>4, IdleOK DEF ProcRow, Pcs
<1>6. proc' = [proc EXCEPT ![p] = new]
  BY <1>2
<1> HIDE DEF new
<1>7. proc' \in Procs /\ proc'[p] = new /\ \A q \in Proc : q # p => proc'[q] = proc[q]
  BY <1>3, <1>5, <1>6, ProcSet
<1> QED
  BY <1>1, <1>2, <1>5, <1>7

LEMMA RetryResetIs ==
  ASSUME TypeOK, NEW p \in Proc, RetryReset(p)
  PROVE  /\ proc[p].pc = "reset" /\ p \in Retriers /\ Rest
         /\ NodeSet(proc[p].at, NextAttempt(proc[p].at, proc[p].attempt))
         /\ proc' \in Procs /\ proc'[p].pc = "reopen"
         /\ \A q \in Proc : q # p => proc'[q] = proc[q]
<1>1. nodes \in Nodes /\ proc \in Procs /\ proc[p].at \in Node /\ proc[p].attempt \in Nat
  BY TypesAre, ProcTypes
<1>2. /\ proc[p].pc = "reset" /\ p \in Retriers /\ Rest
      /\ nodes' = [nodes EXCEPT ![proc[p].at] = NextAttempt(proc[p].at, proc[p].attempt)]
      /\ proc' = [proc EXCEPT ![p] = [Idle EXCEPT !.pc = "reopen"]]
  BY DEF RetryReset, At, Current, Rest
<1>3. NodeSet(proc[p].at, NextAttempt(proc[p].at, proc[p].attempt))
  BY <1>1, <1>2, ResetIs
<1>4. /\ proc' \in Procs /\ proc'[p].pc = "reopen"
      /\ \A q \in Proc : q # p => proc'[q] = proc[q]
  BY <1>1, <1>2, ProcIdle DEF Pcs
<1> QED
  BY <1>2, <1>3, <1>4

LEMMA DecideIs ==
  ASSUME TypeOK, NEW p \in Proc, Decide(p)
  PROVE  /\ proc[p].pc = "decide" /\ Rest /\ UNCHANGED nodes
         /\ proc' \in Procs /\ proc'[p].pc = "close" /\ proc'[p].verdict = Verdict(nodes)
         /\ \A q \in Proc : q # p => proc'[q] = proc[q]
<1> DEFINE new == [Idle EXCEPT !.pc = "close", !.verdict = Verdict(nodes)]
<1>1. /\ proc[p].pc = "decide" /\ Rest /\ UNCHANGED nodes
      /\ proc' = [proc EXCEPT ![p] = new] /\ proc \in Procs
  BY TypesAre DEF Decide, At, Rest
<1>2. Verdict(nodes) \in WorkflowPhases
  BY DEF Verdict, WorkflowPhases
<1>3. new \in ProcRow /\ new.pc = "close" /\ new.verdict = Verdict(nodes)
  BY <1>2, IdleOK DEF ProcRow, Pcs
<1> HIDE DEF new
<1>4. proc' \in Procs /\ proc'[p] = new /\ \A q \in Proc : q # p => proc'[q] = proc[q]
  BY <1>1, <1>3, ProcSet
<1> QED
  BY <1>1, <1>3, <1>4

\* Steps that change the row of the workflow and the place of one process.
Elsewhere(p, pc) ==
  /\ proc' \in Procs /\ proc'[p].pc = pc
  /\ \A q \in Proc : q # p => proc'[q] = proc[q]

LEMMA CloseIs ==
  ASSUME TypeOK, NEW p \in Proc, Close(p)
  PROVE  /\ proc[p].pc = "close" /\ UNCHANGED <<nodes, tasks, launched, crashes>>
         /\ workflow' = proc[p].verdict /\ Elsewhere(p, "idle")
  BY TypesAre, ProcEnds DEF Close, At, Elsewhere

LEMMA BeginTickIs ==
  ASSUME TypeOK, NEW p \in Proc, BeginTick(p)
  PROVE  /\ proc[p].pc = "idle" /\ p \in Tickers /\ workflow \notin TerminalWorkflowPhases
         /\ Rest /\ UNCHANGED nodes /\ Gone(p, "mark")
  BY TypesAre, GotoIs DEF BeginTick, At, Rest, Pcs

LEMMA MarkRunningIs ==
  ASSUME TypeOK, NEW p \in Proc, MarkRunning(p)
  PROVE  /\ proc[p].pc = "mark" /\ UNCHANGED <<nodes, tasks, launched, crashes>>
         /\ workflow' = "running" /\ Elsewhere(p, "reconcile")
         /\ proc'[p].rows = nodes /\ proc'[p].at = 1
<1>1. /\ proc[p].pc = "mark" /\ UNCHANGED <<nodes, tasks, launched, crashes>>
      /\ workflow' = "running" /\ proc' = [proc EXCEPT ![p] = Restart(@, "reconcile", nodes)]
      /\ proc \in Procs /\ nodes \in Nodes
  BY TypesAre DEF MarkRunning, At
<1> QED
  BY <1>1, ProcRestarts DEF Elsewhere, Pcs

LEMMA BeginCancelIs ==
  ASSUME TypeOK, NEW p \in Proc, BeginCancel(p)
  PROVE  Rest /\ UNCHANGED nodes /\ Elsewhere(p, "abandon")
<1>1. /\ Rest /\ UNCHANGED nodes /\ proc' = [proc EXCEPT ![p] = Restart(@, "abandon", nodes)]
      /\ proc \in Procs /\ nodes \in Nodes
  BY TypesAre DEF BeginCancel, Rest
<1> QED
  BY <1>1, ProcRestarts DEF Elsewhere, Pcs

LEMMA SealIs ==
  ASSUME TypeOK, NEW p \in Proc, SealCancel(p)
  PROVE  /\ UNCHANGED <<nodes, tasks, launched, crashes>>
         /\ workflow' = "abandoned" /\ Elsewhere(p, "idle")
  BY TypesAre, ProcEnds DEF SealCancel, Elsewhere

LEMMA ReopenIs ==
  ASSUME TypeOK, NEW p \in Proc, Reopen(p)
  PROVE  /\ p \in Retriers /\ UNCHANGED <<nodes, tasks, launched, crashes>>
         /\ workflow' = "running" /\ Elsewhere(p, "idle")
  BY TypesAre, ProcEnds DEF Reopen, At, Elsewhere

LEMMA CrashIs ==
  ASSUME TypeOK, NEW p \in Proc, Crash(p)
  PROVE  /\ UNCHANGED <<workflow, nodes, tasks, launched>>
         /\ crashes' \in 0 .. MaxCrashes /\ Elsewhere(p, "idle")
<1>1. crashes' \in 0 .. MaxCrashes
  BY TypesAre, InstanceAssumption DEF Crash
<1> QED
  BY <1>1, TypesAre, ProcEnds DEF Crash, Elsewhere

-----------------------------------------------------------------------------
(* Types. *)

LEMMA TypesNext ==
  ASSUME workflow' \in WorkflowPhases, nodes' \in Nodes, TasksOK', launched' \in Counts,
         proc' \in Procs, crashes' \in 0 .. MaxCrashes
  PROVE  TypeOK'
  BY DEF TypeOK, Nodes, TasksOK, Counts, Procs, ProcRow

\* The next theorems' one starting point: a step of the scheduler is one of
\* the steps described above.
LEMMA TypeStep ==
  ASSUME TypeOK, Next
  PROVE  TypeOK'
<1>1. /\ workflow \in WorkflowPhases /\ nodes \in Nodes /\ TasksOK
      /\ launched \in Counts /\ proc \in Procs /\ crashes \in 0 .. MaxCrashes
  BY TypesAre
<1>2. UNCHANGED tasks => TasksOK'
  BY <1>1 DEF TasksOK
<1> USE TypesNext
<1>3. ASSUME NEW p \in Proc, TickStep(p)
      PROVE  TypeOK'
  <2>1. ASSUME Rest, \/ \E stage \in {"reconcile", "schedule"} : Skipped(p, stage)
                     \/ \E phase, task, stage, s : Settled(p, phase, task, stage, s)
        PROVE  TypeOK'
    BY <1>1, <1>2, <2>1 DEF Rest, Skipped, Settled, Marked, Advanced
  <2>2. CASE BeginTick(p)
    BY <1>1, <1>2, <2>2, BeginTickIs DEF Rest, Gone
  <2>3. CASE MarkRunning(p)
    BY <1>1, <1>2, <2>3, MarkRunningIs DEF Elsewhere, WorkflowPhases
  <2>4. CASE ReconcileNode(p)
    <3>1. CASE Rest /\ ToReset(p)
      BY <1>1, <1>2, <3>1 DEF Rest, ToReset
    <3>2. CASE Rest /\ \E phase \in NodePhases : Reconciled(p, phase)
      BY <2>1, <3>2 DEF Reconciled
    <3> QED
      BY <2>1, <2>4, <3>1, <3>2, ReconcileIs
  <2>5. CASE ResetNode(p)
    BY <1>1, <1>2, <2>5, ResetNodeIs DEF Rest, NodeSet, Advanced
  <2>6. CASE PassOver(p) \/ BlockOnDependency(p) \/ RunGate(p) \/ MarkOnly(p) \/ NoExecutor(p)
    BY <2>1, <2>6, ScheduleIs
  <2>7. CASE MarkDispatching(p)
    BY <1>1, <1>2, <2>7, MarkDispatchingIs DEF Rest, Marked, Gone
  <2>8. CASE CreateTask(p)
    <3>1. CASE Settled(p, "blocked", NoChild, "schedule", 1) /\ UNCHANGED tasks
      BY <2>1, <2>8, <3>1, CreateTaskIs DEF Rest
    <3>2. CASE UNCHANGED <<nodes, tasks>> /\ (Gone(p, "launch") \/ Gone(p, "link"))
      BY <1>1, <1>2, <2>8, <3>2, CreateTaskIs DEF Gone
    <3>3. CASE UNCHANGED nodes /\ Gone(p, "launch") /\ Created(p)
      <4>1. nodes' \in Nodes /\ TasksOK' /\ proc' \in Procs
        BY <1>1, <3>3 DEF Gone, Created
      <4>2. UNCHANGED <<workflow, launched, crashes>>
        BY <2>8, CreateTaskIs
      <4> QED
        BY <1>1, <4>1, <4>2
    <3> QED
      BY <2>8, <3>1, <3>2, <3>3, CreateTaskIs
  <2>9. CASE Launch(p)
    <3>1. launched' \in Counts
      <4> DEFINE e == <<proc[p].at, Attempt(p)>>
      <4>1. launched' = [launched EXCEPT ![e] = launched[e] + 1] \/ UNCHANGED launched
        BY <2>9, LaunchIs
      <4> HIDE DEF e
      <4>2. \A x \in DOMAIN launched : launched[x] \in Nat /\ launched[x] + 1 \in Nat
        BY <1>1 DEF Counts
      <4> QED
        BY <1>1, <4>1, <4>2 DEF Counts
    <3> QED
      BY <1>1, <1>2, <2>9, <3>1, LaunchIs DEF Gone
  <2>10. CASE AckTask(p)
    BY <1>1, <1>2, <2>10, AckTaskIs DEF Gone, Moved
  <2>11. CASE FailTask(p)
    BY <1>1, <1>2, <2>11, FailTaskIs, ProcEnds DEF Gone, Moved
  <2>12. CASE FailNode(p) \/ LinkNode(p)
    BY <2>1, <2>12, DispatchEndsIs
  <2>13. CASE Decide(p)
    BY <1>1, <1>2, <2>13, DecideIs DEF Rest
  <2>14. CASE Close(p)
    BY <1>1, <1>2, <2>14, CloseIs, ProcTypes DEF Elsewhere
  <2> QED
    BY <1>3, <2>2, <2>3, <2>4, <2>5, <2>6, <2>7, <2>8, <2>9, <2>10, <2>11, <2>12, <2>13, <2>14
       DEF TickStep
<1>4. ASSUME NEW p \in Proc, CancelStep(p)
      PROVE  TypeOK'
  <2>1. CASE BeginCancel(p)
    BY <1>1, <1>2, <2>1, BeginCancelIs DEF Rest, Elsewhere
  <2>2. CASE AbandonChild(p)
    BY <1>1, <1>2, <2>2, AbandonChildIs DEF Moved
  <2>3. CASE CancelActiveNodes(p)
    BY <1>1, <1>2, <2>3, SweepIs DEF Rest, Swept, Gone
  <2>4. CASE SealCancel(p)
    BY <1>1, <1>2, <2>4, SealIs DEF Elsewhere, WorkflowPhases
  <2> QED
    BY <1>4, <2>1, <2>2, <2>3, <2>4 DEF CancelStep
<1>5. ASSUME NEW p \in Proc, RetryStep(p)
      PROVE  TypeOK'
  <2>1. CASE BeginRetry(p)
    BY <1>1, <1>2, <2>1, BeginRetryIs DEF Rest
  <2>2. CASE RetryReset(p)
    BY <1>1, <1>2, <2>2, RetryResetIs DEF Rest, NodeSet
  <2>3. CASE Reopen(p)
    BY <1>1, <1>2, <2>3, ReopenIs DEF Elsewhere, WorkflowPhases
  <2> QED
    BY <1>5, <2>1, <2>2, <2>3 DEF RetryStep
<1>6. ASSUME NEW p \in Proc, Crash(p)
      PROVE  TypeOK'
  BY <1>1, <1>2, <1>6, CrashIs DEF Elsewhere
<1>7. ASSUME SomeChildEnds
      PROVE  TypeOK'
  BY <1>1, <1>7, ChildEndsIs DEF SomeChildEnds, Ended
<1> QED
  BY <1>3, <1>4, <1>5, <1>6, <1>7 DEF Next

LEMMA InitTypes == Init => TypeOK
<1> SUFFICES ASSUME Init PROVE TypeOK
  OBVIOUS
<1>1. workflow \in WorkflowPhases /\ nodes \in Nodes /\ proc \in Procs /\ crashes \in 0 .. MaxCrashes
  BY IdleOK, InstanceAssumption DEF Init, WorkflowPhases, Procs
<1>2. TasksOK
  BY DEF Init, TasksOK
<1>3. launched \in Counts
  BY DEF Init, Counts
<1> QED
  BY <1>1, <1>2, <1>3, TypesAre

LEMMA TypeStutter == TypeOK /\ UNCHANGED vars => TypeOK'
  BY DEF TypeOK, vars

\* For every manifest and any number of processes of every kind: the rows of
\* the workflow, of its nodes and of the children, and what the processes
\* carry along, are what the code takes them for.
THEOREM WorkflowTypes == Spec => []TypeOK
<1>1. TypeOK /\ [Next]_vars => TypeOK'
  BY TypeStep, TypeStutter
<1> QED
  BY InitTypes, <1>1, PTL DEF Spec

-----------------------------------------------------------------------------
(* One dispatch per attempt.                                               *)

DispatchPcs == {"create", "launch", "ack", "fail", "failed", "link"}
ListPcs == {"reconcile", "schedule"} \cup DispatchPcs

(* At most one process may reset nodes: the one that runs retry-node, or,  *)
(* when nodes are retried automatically, the only one that ticks.  At most *)
(* one dispatches.                                                         *)
MayReset(p) == p \in Retriers \/ (p \in Tickers /\ \E n \in Node : MaxRetries[n] > 0)
MayDispatch(p) == p \in Tickers \ DryTickers
OneOfEach ==
  \A p, q \in Proc : (MayReset(p) /\ MayReset(q)) \/ (MayDispatch(p) /\ MayDispatch(q)) => p = q

\* A node has gone past attempt a, or is under way in it.
Past(n, a) == nodes[n].attempt > a \/ (nodes[n].attempt = a /\ nodes[n].phase # "pending")

\* Only attempts that began were launched.
LaunchedOK ==
  \A n \in Node :
    /\ nodes[n].attempt <= MaxAttempts + 1
    /\ \A a \in 0 .. MaxAttempts + 1 : launched[<<n, a>>] # 0 => Past(n, a)

\* What a process is about to reset or to launch.
StepOK(p) ==
  /\ proc[p].pc \in ListPcs \cup {"mark", "decide", "close"} => p \in Tickers
  /\ proc[p].pc = "reset" =>
       /\ MayReset(p) /\ proc[p].attempt = nodes[proc[p].at].attempt
       /\ p \in Retriers => proc[p].attempt < MaxAttempts
  /\ proc[p].pc \in DispatchPcs => MayDispatch(p)
  /\ proc[p].pc \in {"create", "launch"} =>
       launched[<<proc[p].at, Attempt(p)>>] = 0 /\ Past(proc[p].at, Attempt(p))

\* The rows that a dispatching process has not come to yet.
RowsOK(p) ==
  MayDispatch(p) /\ proc[p].pc \in {"schedule"} \cup DispatchPcs =>
    \A m \in Node :
      /\ proc[p].rows[m].attempt <= nodes[m].attempt
      /\ /\ m > proc[p].at \/ (m = proc[p].at /\ proc[p].pc = "schedule")
         /\ proc[p].rows[m].phase = "pending"
         => launched[<<m, proc[p].rows[m].attempt>>] = 0

LaunchInv ==
  /\ LaunchedOK /\ OneDispatchPerAttempt
  /\ \A p \in Proc : StepOK(p) /\ RowsOK(p)

\* Nodes keep their attempt and do not become pending, or go on to another one.
SameAttempts == \A n \in Node : nodes'[n].attempt = nodes[n].attempt
Forward ==
  \A n \in Node :
    /\ nodes'[n].attempt >= nodes[n].attempt
    /\ nodes'[n].attempt = nodes[n].attempt /\ nodes[n].phase # "pending"
         => nodes'[n].phase # "pending"

\* The attempts are numbers.
LEMMA AttemptsAre ==
  ASSUME TypeOK, NEW n \in Node
  PROVE  /\ nodes[n].attempt \in Nat
         /\ \A p \in Proc : proc[p].rows[n].attempt \in Nat
         /\ \A a \in 0 .. MaxAttempts + 1 : launched[<<n, a>>] \in Nat
<1>1. nodes[n] \in NodeRow /\ launched \in Counts /\ proc \in Procs
  BY TypesAre DEF Nodes
<1> QED
  BY <1>1, ProcTypes DEF NodeRow, Counts

LEMMA LaunchedStays ==
  ASSUME TypeOK, TypeOK', LaunchInv, Forward, UNCHANGED launched,
         \A n \in Node : nodes'[n].attempt <= MaxAttempts + 1
  PROVE  LaunchedOK' /\ OneDispatchPerAttempt'
<1>1. \A n \in Node : nodes[n].attempt \in Nat /\ nodes'[n].attempt \in Nat
  BY AttemptsAre DEF TypeOK, NodeRow
<1>2. OneDispatchPerAttempt'
  BY DEF LaunchInv, OneDispatchPerAttempt
<1>3. ASSUME NEW n \in Node, NEW a \in 0 .. MaxAttempts + 1, launched'[<<n, a>>] # 0
      PROVE  Past(n, a)'
  <2>1. Past(n, a) /\ a \in Nat
    BY <1>3, Manifest DEF LaunchInv, LaunchedOK
  <2> QED
    BY <1>1, <2>1 DEF Past, Forward
<1> QED
  BY <1>2, <1>3 DEF LaunchedOK

\* A process that does nothing.
LEMMA BystanderStays ==
  ASSUME TypeOK, TypeOK', LaunchInv, Forward, UNCHANGED launched,
         NEW q \in Proc, proc'[q] = proc[q], proc[q].pc = "reset" => SameAttempts
  PROVE  StepOK(q)' /\ RowsOK(q)'
<1>1. /\ proc[q].at \in Node
      /\ \A n \in Node : /\ nodes[n].attempt \in Nat /\ nodes'[n].attempt \in Nat
                         /\ proc[q].rows[n].attempt \in Nat
  BY AttemptsAre, TypesAre, ProcTypes DEF TypeOK, NodeRow
<1>2. StepOK(q) /\ RowsOK(q)
  BY DEF LaunchInv
<1>3. StepOK(q)'
  BY <1>1, <1>2 DEF StepOK, Forward, SameAttempts, Past, Attempt, Current, MayReset, MayDispatch
<1>4. RowsOK(q)'
  BY <1>1, <1>2 DEF RowsOK, Forward, MayDispatch
<1> QED
  BY <1>3, <1>4

\* A process that has dealt with the node it was at.
LEMMA AdvancerStays ==
  ASSUME TypeOK, TypeOK', LaunchInv, Forward, UNCHANGED launched, LaunchedOK',
         NEW p \in Proc, NEW stage \in {"reconcile", "schedule"}, NEW s, Advanced(p, stage, s),
         p \in Tickers, stage = "schedule" => proc[p].pc \in {"schedule"} \cup DispatchPcs
  PROVE  StepOK(p)' /\ RowsOK(p)'
<1>1. /\ proc[p].at \in Node
      /\ \A n \in Node : /\ nodes[n].attempt \in Nat /\ nodes'[n].attempt \in Nat
                         /\ proc[p].rows[n].attempt \in Nat
  BY AttemptsAre, TypesAre, ProcTypes DEF TypeOK, NodeRow
<1>2. StepOK(p)'
  BY DEF StepOK, Advanced, ListPcs, DispatchPcs
<1>3. CASE proc'[p].pc # "schedule"
  <2>1. proc'[p].pc \in {"reconcile", "decide"}
    BY <1>3 DEF Advanced
  <2> QED
    BY <1>2, <2>1 DEF RowsOK, DispatchPcs
<1>4. CASE proc'[p].pc = "schedule" /\ proc'[p].rows = nodes'
  <2> SUFFICES ASSUME NEW m \in Node, nodes'[m].phase = "pending"
               PROVE  launched'[<<m, nodes'[m].attempt>>] = 0
    BY <1>1, <1>2, <1>4 DEF RowsOK
  <2>1. nodes'[m].attempt \in 0 .. MaxAttempts + 1
    BY <1>1, Manifest DEF LaunchedOK
  <2> QED
    BY <1>1, <2>1 DEF LaunchedOK, Past
<1>5. CASE proc'[p].pc = "schedule" /\ proc'[p].rows # nodes'
  <2>1. /\ stage = "schedule" /\ proc'[p].at = proc[p].at + 1 /\ proc'[p].rows = proc[p].rows
    BY <1>5 DEF Advanced
  <2>2. RowsOK(p)
    BY DEF LaunchInv
  <2>3. ASSUME NEW m \in Node, MayDispatch(p)
        PROVE  /\ proc[p].rows[m].attempt <= nodes'[m].attempt
               /\ m >= proc[p].at + 1 /\ proc[p].rows[m].phase = "pending"
                    => launched[<<m, proc[p].rows[m].attempt>>] = 0
    <3>1. /\ proc[p].rows[m].attempt <= nodes[m].attempt
          /\ m > proc[p].at /\ proc[p].rows[m].phase = "pending"
               => launched[<<m, proc[p].rows[m].attempt>>] = 0
      BY <2>1, <2>2, <2>3 DEF RowsOK
    <3>2. nodes[m].attempt <= nodes'[m].attempt
      BY <1>1 DEF Forward
    <3>3. m \in Nat /\ proc[p].at \in Nat
      BY <1>1, Manifest
    <3> QED
      BY <1>1, <3>1, <3>2, <3>3
  <2>4. \A m \in Node : m > proc'[p].at \/ m = proc'[p].at => m >= proc[p].at + 1
    BY <1>1, <2>1, Manifest
  <2>5. MayDispatch(p)' <=> MayDispatch(p)
    BY DEF MayDispatch
  <2>6. RowsOK(p)'
    BY <1>5, <2>1, <2>3, <2>4, <2>5 DEF RowsOK
  <2> QED
    BY <1>2, <2>6
<1> QED
  BY <1>3, <1>4, <1>5

\* A process that went to a place without a list.
LEMMA LeaverStays ==
  ASSUME NEW p \in Proc, proc'[p].pc \notin ListPcs \cup {"reset"},
         proc'[p].pc \in {"mark", "decide", "close"} => p \in Tickers
  PROVE  StepOK(p)' /\ RowsOK(p)'
  BY DEF StepOK, RowsOK, ListPcs, DispatchPcs

\* A step that launches nothing keeps the invariant, if its process does.
LEMMA QuietStep ==
  ASSUME OneOfEach, TypeOK, TypeOK', LaunchInv, Forward, UNCHANGED launched,
         \A n \in Node : nodes'[n].attempt <= MaxAttempts + 1,
         NEW p \in Proc, StepOK(p)' /\ RowsOK(p)', SameAttempts \/ MayReset(p),
         \A q \in Proc : q # p => proc'[q] = proc[q]
  PROVE  LaunchInv'
<1>1. LaunchedOK' /\ OneDispatchPerAttempt'
  BY LaunchedStays
<1>2. ASSUME NEW q \in Proc
      PROVE  StepOK(q)' /\ RowsOK(q)'
  <2>1. CASE q = p
    BY <2>1
  <2>2. CASE q # p
    <3>1. proc[q].pc = "reset" => SameAttempts
      BY <2>2 DEF LaunchInv, StepOK, OneOfEach
    <3> QED
      BY <2>2, <3>1, BystanderStays
  <2> QED
    BY <2>1, <2>2
<1> QED
  BY <1>1, <1>2 DEF LaunchInv

\* Nothing happens to the nodes.
LEMMA NodesRest ==
  ASSUME TypeOK, LaunchInv, nodes' = nodes
  PROVE  Forward /\ SameAttempts /\ \A n \in Node : nodes'[n].attempt <= MaxAttempts + 1
  BY AttemptsAre DEF Forward, SameAttempts, LaunchInv, LaunchedOK

\* A node is marked, but not as pending.
LEMMA NodesMarked ==
  ASSUME TypeOK, LaunchInv, NEW n \in Node, NEW phase, NEW task, Marked(n, phase, task),
         phase # "pending"
  PROVE  Forward /\ SameAttempts /\ \A m \in Node : nodes'[m].attempt <= MaxAttempts + 1
<1>1. \A m \in Node : nodes[m].attempt \in Nat
  BY AttemptsAre
<1> QED
  BY <1>1 DEF Marked, Forward, SameAttempts, LaunchInv, LaunchedOK

\* A step of a tick that deals with the node it is at.
LEMMA DealingStep ==
  ASSUME OneOfEach, TypeOK, TypeOK', LaunchInv, UNCHANGED launched, NEW p \in Proc,
         NEW stage \in {"reconcile", "schedule"}, NEW s, Advanced(p, stage, s), p \in Tickers,
         stage = "schedule" => proc[p].pc \in {"schedule"} \cup DispatchPcs,
         \/ nodes' = nodes
         \/ \E phase, task : phase # "pending" /\ Marked(proc[p].at, phase, task)
  PROVE  LaunchInv'
<1>1. proc[p].at \in Node
  BY TypesAre, ProcTypes
<1>2. Forward /\ SameAttempts /\ \A m \in Node : nodes'[m].attempt <= MaxAttempts + 1
  BY <1>1, NodesRest, NodesMarked
<1>3. LaunchedOK'
  BY <1>2, LaunchedStays
<1>4. StepOK(p)' /\ RowsOK(p)'
  BY <1>2, <1>3, AdvancerStays
<1> QED
  BY <1>2, <1>4, QuietStep DEF Advanced

\* A step of a process that goes to a place without a list.
LEMMA LeavingStep ==
  ASSUME OneOfEach, TypeOK, TypeOK', LaunchInv, UNCHANGED <<nodes, launched>>, NEW p \in Proc,
         proc'[p].pc \notin ListPcs \cup {"reset"},
         proc'[p].pc \in {"mark", "decide", "close"} => p \in Tickers,
         \A q \in Proc : q # p => proc'[q] = proc[q]
  PROVE  LaunchInv'
  BY NodesRest, LeaverStays, QuietStep

\* A node goes on to the next attempt.
LEMMA NodesReset ==
  ASSUME TypeOK, TypeOK', LaunchInv, NEW n \in Node,
         nodes[n].attempt <= MaxAttempts,
         NodeSet(n, NextAttempt(n, nodes[n].attempt))
  PROVE  Forward /\ \A m \in Node : nodes'[m].attempt <= MaxAttempts + 1
<1>1. /\ \A m \in Node : nodes[m].attempt \in Nat /\ nodes'[m].attempt \in Nat
      /\ MaxAttempts \in Nat
  BY AttemptsAre, Manifest DEF TypeOK, NodeRow
<1>2. NextAttempt(n, nodes[n].attempt).attempt = nodes[n].attempt + 1
  BY DEF NextAttempt, FreshNode
<1> QED
  BY <1>1, <1>2 DEF NodeSet, Forward, LaunchInv, LaunchedOK
\* The steps of a dispatch that change no node: CreateTask, AckTask, FailTask
\* go from one place of it to another.
LEMMA DispatchingStep ==
  ASSUME OneOfEach, TypeOK, TypeOK', LaunchInv, UNCHANGED <<nodes, launched>>, NEW p \in Proc,
         proc[p].pc \in DispatchPcs, NEW pc \in DispatchPcs, Gone(p, pc),
         pc \in {"create", "launch"} => proc[p].pc \in {"create", "launch"}
  PROVE  LaunchInv'
<1>1. Forward /\ SameAttempts /\ \A m \in Node : nodes'[m].attempt <= MaxAttempts + 1
  BY NodesRest
<1>2. StepOK(p) /\ RowsOK(p)
  BY DEF LaunchInv
<1>3. StepOK(p)'
  BY <1>2 DEF StepOK, Gone, ListPcs, DispatchPcs, Past, Attempt, Current, MayDispatch
<1>4. RowsOK(p)'
  BY <1>2 DEF RowsOK, Gone, DispatchPcs
<1> QED
  BY <1>1, <1>3, <1>4, QuietStep DEF Gone

\* The first launch of the attempt that was found not to be launched.
LEMMA LaunchingStep ==
  ASSUME OneOfEach, TypeOK, TypeOK', LaunchInv, UNCHANGED nodes, NEW p \in Proc,
         proc[p].pc = "launch", Gone(p, "ack"),
         launched' = [launched EXCEPT ![<<proc[p].at, Attempt(p)>>] = @ + 1]
  PROVE  LaunchInv'
<1> DEFINE e == <<proc[p].at, Attempt(p)>>
<1>1. /\ proc[p].at \in Node /\ Attempt(p) \in Nat /\ launched \in Counts /\ MaxAttempts \in Nat
      /\ nodes[proc[p].at].attempt \in Nat
  BY TypesAre, ProcTypes, AttemptsAre, Manifest DEF Attempt, Current
<1>2. MayDispatch(p) /\ launched[e] = 0 /\ Past(proc[p].at, Attempt(p))
  BY DEF LaunchInv, StepOK, DispatchPcs
<1>3. Attempt(p) \in 0 .. MaxAttempts + 1
  <2>1. nodes[proc[p].at].attempt <= MaxAttempts + 1
    BY <1>1 DEF LaunchInv, LaunchedOK
  <2>2. Attempt(p) <= nodes[proc[p].at].attempt
    BY <1>1, <1>2 DEF Past
  <2> QED
    BY <1>1, <2>1, <2>2
<1>4. /\ DOMAIN launched' = DOMAIN launched /\ launched'[e] = 1
      /\ \A x \in DOMAIN launched : x # e => launched'[x] = launched[x]
  BY <1>1, <1>2, <1>3 DEF Counts
<1>5. OneDispatchPerAttempt'
  BY <1>4 DEF LaunchInv, OneDispatchPerAttempt
<1>6. LaunchedOK'
  <2>1. ASSUME NEW n \in Node, NEW a \in 0 .. MaxAttempts + 1, launched'[<<n, a>>] # 0
        PROVE  Past(n, a)
    <3>1. CASE <<n, a>> = e
      BY <1>2, <3>1
    <3>2. CASE <<n, a>> # e
      <4>1. <<n, a>> \in DOMAIN launched
        BY <1>1 DEF Counts
      <4>2. launched[<<n, a>>] # 0
        BY <1>4, <2>1, <3>2, <4>1
      <4> QED
        BY <4>2 DEF LaunchInv, LaunchedOK
    <3> QED
      BY <3>1, <3>2
  <2> QED
    BY <2>1 DEF LaunchInv, LaunchedOK, Past
<1>7. StepOK(p)' /\ RowsOK(p)'
  <2>1. StepOK(p)'
    BY <1>2 DEF StepOK, Gone, ListPcs, DispatchPcs, MayDispatch, LaunchInv
  <2>2. ASSUME NEW m \in Node, m > proc[p].at, proc[p].rows[m].phase = "pending"
        PROVE  launched'[<<m, proc[p].rows[m].attempt>>] = 0
    <3>1. /\ proc[p].rows[m].attempt <= nodes[m].attempt
          /\ launched[<<m, proc[p].rows[m].attempt>>] = 0
      BY <1>2, <2>2 DEF LaunchInv, RowsOK, DispatchPcs
    <3>2. /\ proc[p].rows[m].attempt \in Nat /\ nodes[m].attempt \in Nat
          /\ nodes[m].attempt <= MaxAttempts + 1
      BY AttemptsAre DEF LaunchInv, LaunchedOK
    <3>3. proc[p].rows[m].attempt \in 0 .. MaxAttempts + 1
      BY <1>1, <3>1, <3>2
    <3>4. <<m, proc[p].rows[m].attempt>> \in DOMAIN launched
      BY <1>1, <3>3 DEF Counts
    <3>5. m # proc[p].at
      BY <1>1, <2>2, Manifest
    <3> QED
      BY <1>4, <3>1, <3>4, <3>5
  <2>3. RowsOK(p)'
    <3>1. RowsOK(p)
      BY DEF LaunchInv
    <3> QED
      BY <1>2, <2>2, <3>1 DEF RowsOK, Gone, DispatchPcs
  <2> QED
    BY <2>1, <2>3
<1>8. ASSUME NEW q \in Proc, q # p
      PROVE  StepOK(q)' /\ RowsOK(q)'
  <2>1. ~MayDispatch(q)
    BY <1>2, <1>8 DEF OneOfEach
  <2>2. StepOK(q)
    BY DEF LaunchInv
  <2>3. StepOK(q)'
    BY <1>8, <2>1, <2>2 DEF StepOK, Gone, MayReset, MayDispatch, ListPcs, DispatchPcs
  <2>4. RowsOK(q)'
    BY <2>1 DEF RowsOK, MayDispatch
  <2> QED
    BY <2>3, <2>4
<1> QED
  BY <1>5, <1>6, <1>7, <1>8 DEF LaunchInv

\* A ticking process starts to dispatch the node it is at.
LEMMA MarkingStep ==
  ASSUME OneOfEach, TypeOK, TypeOK', LaunchInv, NEW p \in Proc, MarkDispatching(p)
  PROVE  LaunchInv'
<1>1. /\ proc[p].pc = "schedule" /\ UNCHANGED launched /\ p \notin DryTickers /\ Listed(p)
      /\ Marked(proc[p].at, "dispatching", NoChild) /\ Gone(p, "create")
  BY MarkDispatchingIs DEF Rest
<1>2. proc[p].at \in Node /\ nodes[proc[p].at].attempt \in Nat /\ Attempt(p) \in Nat
  BY TypesAre, ProcTypes, AttemptsAre DEF Attempt, Current
<1>3. Forward /\ SameAttempts /\ \A m \in Node : nodes'[m].attempt <= MaxAttempts + 1
  BY <1>1, <1>2, NodesMarked
<1>4. StepOK(p) /\ RowsOK(p)
  BY DEF LaunchInv
<1>5. MayDispatch(p) /\ p \in Tickers
  BY <1>1, <1>4 DEF StepOK, ListPcs, MayDispatch
<1>6. /\ launched[<<proc[p].at, Attempt(p)>>] = 0 /\ Attempt(p) <= nodes[proc[p].at].attempt
  BY <1>1, <1>2, <1>4, <1>5 DEF RowsOK, Listed, Attempt, Current
<1>7. Attempt(p)' = Attempt(p) /\ proc'[p].at = proc[p].at
  BY <1>1 DEF Gone, Attempt, Current
<1>8. Past(proc[p].at, Attempt(p))'
  BY <1>1, <1>2, <1>6, <1>7 DEF Past, Marked
<1>9. StepOK(p)'
  BY <1>1, <1>5, <1>6, <1>7, <1>8 DEF StepOK, Gone, ListPcs, DispatchPcs, MayDispatch
<1>10. RowsOK(p)'
  BY <1>1, <1>3, <1>4, <1>5 DEF RowsOK, Gone, DispatchPcs, SameAttempts
<1> QED
  BY <1>1, <1>3, <1>9, <1>10, QuietStep DEF Gone

\* A node is reset, by a tick or by retry-node.
LEMMA ResettingStep ==
  ASSUME OneOfEach, TypeOK, TypeOK', LaunchInv, NEW p \in Proc, ResetNode(p) \/ RetryReset(p)
  PROVE  LaunchInv'
<1>1. /\ proc[p].pc = "reset" /\ UNCHANGED launched
      /\ NodeSet(proc[p].at, NextAttempt(proc[p].at, proc[p].attempt))
      /\ \/ p \in Tickers /\ proc[p].attempt <= MaxAttempts /\ Advanced(p, "reconcile", 0)
         \/ /\ p \in Retriers /\ proc'[p].pc = "reopen"
            /\ \A q \in Proc : q # p => proc'[q] = proc[q]
  BY ResetNodeIs, RetryResetIs DEF Rest
<1>2. /\ MayReset(p) /\ proc[p].attempt = nodes[proc[p].at].attempt
      /\ p \in Retriers => proc[p].attempt < MaxAttempts
  BY <1>1 DEF LaunchInv, StepOK
<1>3. proc[p].at \in Node /\ proc[p].attempt \in Nat /\ MaxAttempts \in Nat
  BY TypesAre, ProcTypes, Manifest
<1>4. proc[p].attempt <= MaxAttempts
  BY <1>1, <1>2, <1>3
<1>5. Forward /\ \A m \in Node : nodes'[m].attempt <= MaxAttempts + 1
  BY <1>1, <1>2, <1>3, <1>4, NodesReset
<1>6. CASE p \in Tickers /\ Advanced(p, "reconcile", 0)
  <2>1. LaunchedOK'
    BY <1>1, <1>5, LaunchedStays
  <2>2. StepOK(p)' /\ RowsOK(p)'
    BY <1>1, <1>5, <1>6, <2>1, AdvancerStays
  <2> QED
    BY <1>1, <1>2, <1>5, <1>6, <2>2, QuietStep DEF Advanced
<1>7. CASE proc'[p].pc = "reopen" /\ \A q \in Proc : q # p => proc'[q] = proc[q]
  <2>1. StepOK(p)' /\ RowsOK(p)'
    BY <1>7, LeaverStays DEF ListPcs, DispatchPcs
  <2> QED
    BY <1>1, <1>2, <1>5, <1>7, <2>1, QuietStep
<1> QED
  BY <1>1, <1>6, <1>7

LEMMA LaunchStep ==
  ASSUME OneOfEach, TypeOK, TypeOK', LaunchInv, Next
  PROVE  LaunchInv'
<1>1. nodes \in Nodes /\ proc \in Procs
  BY TypesAre
<1>2. ASSUME NEW p \in Proc, TickStep(p)
      PROVE  LaunchInv'
  <2>1. StepOK(p)
    BY DEF LaunchInv
  <2>2. proc[p].pc \in ListPcs \cup {"mark", "decide", "close"} => p \in Tickers
    BY <2>1 DEF StepOK
  <2>3. ASSUME NEW stage \in {"reconcile", "schedule"}, Rest, p \in Tickers,
               Skipped(p, stage) \/ \E phase, task, s : phase # "pending" /\ Settled(p, phase, task, stage, s),
               stage = "schedule" => proc[p].pc \in {"schedule"} \cup DispatchPcs
        PROVE  LaunchInv'
    BY <2>3, DealingStep DEF Rest, Skipped, Settled
  <2>4. CASE BeginTick(p)
    BY <2>4, BeginTickIs, LeavingStep DEF Rest, Gone, ListPcs, DispatchPcs
  <2>5. CASE MarkRunning(p)
    <3>1. /\ proc[p].pc = "mark" /\ UNCHANGED <<nodes, launched>> /\ proc'[p].pc = "reconcile"
          /\ \A q \in Proc : q # p => proc'[q] = proc[q]
      BY <2>5, MarkRunningIs DEF Elsewhere
    <3>2. StepOK(p)' /\ RowsOK(p)'
      BY <2>2, <3>1 DEF StepOK, RowsOK, ListPcs, DispatchPcs
    <3> QED
      BY <3>1, <3>2, NodesRest, QuietStep
  <2>6. CASE ReconcileNode(p)
    <3>1. proc[p].pc = "reconcile" /\ Rest /\ p \in Tickers
      BY <2>2, <2>6, ReconcileIs DEF ListPcs
    <3>2. CASE Skipped(p, "reconcile")
      BY <2>3, <3>1, <3>2
    <3>3. CASE \E phase \in NodePhases : Reconciled(p, phase)
      BY <2>3, <3>1, <3>3 DEF Reconciled
    <3>4. CASE ToReset(p)
      <4>1. proc[p].at \in Node /\ proc[p].rows[proc[p].at].attempt \in Nat
        BY <1>1, ProcTypes
      <4>2. MaxRetries[proc[p].at] > 0 /\ MayReset(p) /\ p \notin Retriers
        BY <3>1, <3>4, <4>1, Manifest DEF ToReset, MayReset
      <4>3. StepOK(p)' /\ RowsOK(p)'
        BY <3>1, <3>4, <4>2 DEF ToReset, StepOK, RowsOK, ListPcs, DispatchPcs, MayReset
      <4> QED
        BY <3>1, <3>4, <4>3, NodesRest, QuietStep DEF ToReset, Rest
    <3> QED
      BY <2>6, <3>2, <3>3, <3>4, ReconcileIs
  <2>7. CASE ResetNode(p)
    BY <2>7, ResettingStep
  <2>8. CASE PassOver(p) \/ BlockOnDependency(p) \/ RunGate(p) \/ MarkOnly(p) \/ NoExecutor(p)
    <3>1. proc[p].pc = "schedule" /\ Rest /\ p \in Tickers
      BY <2>2, <2>8, ScheduleIs DEF ListPcs
    <3> QED
      BY <2>3, <2>8, <3>1, ScheduleIs
  <2>9. CASE MarkDispatching(p)
    BY <2>9, MarkingStep
  <2>10. CASE CreateTask(p)
    <3>1. proc[p].pc = "create" /\ UNCHANGED launched /\ p \in Tickers
      BY <2>2, <2>10, CreateTaskIs DEF ListPcs, DispatchPcs
    <3>2. CASE Settled(p, "blocked", NoChild, "schedule", 1)
      BY <3>1, <3>2, DealingStep DEF Settled, DispatchPcs
    <3>3. CASE UNCHANGED nodes /\ (Gone(p, "launch") \/ Gone(p, "link"))
      BY <3>1, <3>3, DispatchingStep DEF DispatchPcs
    <3> QED
      BY <2>10, <3>2, <3>3, CreateTaskIs
  <2>11. CASE Launch(p)
    <3>1. proc[p].pc = "launch" /\ UNCHANGED nodes
      BY <2>11, LaunchIs
    <3>2. CASE /\ Gone(p, "ack")
               /\ launched' = [launched EXCEPT ![<<proc[p].at, Attempt(p)>>] = @ + 1]
      BY <3>1, <3>2, LaunchingStep
    <3>3. CASE Gone(p, "fail") /\ UNCHANGED launched
      BY <3>1, <3>3, DispatchingStep DEF DispatchPcs
    <3> QED
      BY <2>11, <3>2, <3>3, LaunchIs
  <2>12. CASE AckTask(p)
    <3>1. proc[p].pc = "ack" /\ UNCHANGED <<nodes, launched>> /\ (Gone(p, "link") \/ Gone(p, "fail"))
      BY <2>12, AckTaskIs
    <3> QED
      BY <3>1, DispatchingStep DEF DispatchPcs
  <2>13. CASE FailTask(p)
    <3>1. /\ proc[p].pc = "fail" /\ UNCHANGED <<nodes, launched>>
          /\ Gone(p, "failed") \/ proc' = [proc EXCEPT ![p] = Idle]
      BY <2>13, FailTaskIs
    <3>2. CASE Gone(p, "failed")
      BY <3>1, <3>2, DispatchingStep DEF DispatchPcs
    <3>3. CASE proc' = [proc EXCEPT ![p] = Idle]
      BY <1>1, <3>1, <3>3, ProcEnds, LeavingStep DEF ListPcs, DispatchPcs
    <3> QED
      BY <3>1, <3>2, <3>3
  <2>14. CASE FailNode(p) \/ LinkNode(p)
    <3>1. /\ Rest /\ proc[p].pc \in {"failed", "link"}
          /\ \E phase \in {"blocked", "running"} : Settled(p, phase, Dispatching(p), "schedule", 1)
      BY <2>14, DispatchEndsIs
    <3>2. p \in Tickers /\ proc[p].pc \in DispatchPcs
      BY <2>2, <3>1 DEF ListPcs, DispatchPcs
    <3> QED
      BY <2>3, <3>1, <3>2
  <2>15. CASE Decide(p)
    <3>1. proc[p].pc = "decide" /\ Rest /\ UNCHANGED nodes /\ proc'[p].pc = "close"
          /\ \A q \in Proc : q # p => proc'[q] = proc[q]
      BY <2>15, DecideIs
    <3> QED
      BY <2>2, <3>1, LeavingStep DEF Rest, ListPcs, DispatchPcs
  <2>16. CASE Close(p)
    BY <2>16, CloseIs, LeavingStep DEF Elsewhere, ListPcs, DispatchPcs
  <2> QED
    BY <1>2, <2>4, <2>5, <2>6, <2>7, <2>8, <2>9, <2>10, <2>11, <2>12, <2>13, <2>14, <2>15, <2>16
       DEF TickStep
<1>3. ASSUME NEW p \in Proc, CancelStep(p)
      PROVE  LaunchInv'
  <2>1. CASE BeginCancel(p)
    BY <2>1, BeginCancelIs, LeavingStep DEF Rest, Elsewhere, ListPcs, DispatchPcs
  <2>2. CASE AbandonChild(p)
    BY <2>2, AbandonChildIs, LeavingStep DEF ListPcs, DispatchPcs
  <2>3. CASE CancelActiveNodes(p)
    <3>1. Rest /\ Swept /\ Gone(p, "seal")
      BY <2>3, SweepIs
    <3>2. Forward /\ SameAttempts /\ \A m \in Node : nodes'[m].attempt <= MaxAttempts + 1
      BY <3>1, AttemptsAre DEF Swept, Forward, SameAttempts, LaunchInv, LaunchedOK
    <3>3. StepOK(p)' /\ RowsOK(p)'
      BY <3>1, LeaverStays DEF Gone, ListPcs, DispatchPcs
    <3> QED
      BY <3>1, <3>2, <3>3, QuietStep DEF Rest, Gone
  <2>4. CASE SealCancel(p)
    BY <2>4, SealIs, LeavingStep DEF Elsewhere, ListPcs, DispatchPcs
  <2> QED
    BY <1>3, <2>1, <2>2, <2>3, <2>4 DEF CancelStep
<1>4. ASSUME NEW p \in Proc, RetryStep(p)
      PROVE  LaunchInv'
  <2>1. CASE BeginRetry(p)
    <3>1. /\ p \in Retriers /\ Rest /\ UNCHANGED nodes /\ proc'[p].pc = "reset"
          /\ proc'[p].attempt = nodes'[proc'[p].at].attempt /\ proc'[p].attempt < MaxAttempts
          /\ \A q \in Proc : q # p => proc'[q] = proc[q]
      BY <2>1, BeginRetryIs
    <3>2. StepOK(p)' /\ RowsOK(p)'
      BY <3>1 DEF StepOK, RowsOK, ListPcs, DispatchPcs, MayReset
    <3> QED
      BY <3>1, <3>2, NodesRest, QuietStep DEF Rest
  <2>2. CASE RetryReset(p)
    BY <2>2, ResettingStep
  <2>3. CASE Reopen(p)
    BY <2>3, ReopenIs, LeavingStep DEF Elsewhere, ListPcs, DispatchPcs
  <2> QED
    BY <1>4, <2>1, <2>2, <2>3 DEF RetryStep
<1>5. ASSUME NEW p \in Proc, Crash(p)
      PROVE  LaunchInv'
  BY <1>5, CrashIs, LeavingStep DEF Elsewhere, ListPcs, DispatchPcs
<1>6. ASSUME SomeChildEnds
      PROVE  LaunchInv'
  <2>1. UNCHANGED <<nodes, launched, proc>>
    BY <1>6, ChildEndsIs DEF SomeChildEnds
  <2>2. Forward /\ SameAttempts /\ \A m \in Node : nodes'[m].attempt <= MaxAttempts + 1
    BY <2>1, NodesRest
  <2>3. \A q \in Proc : StepOK(q)' /\ RowsOK(q)'
    BY <2>1, <2>2, BystanderStays
  <2> QED
    BY <2>1, <2>2, <2>3, LaunchedStays DEF LaunchInv
<1> QED
  BY <1>2, <1>3, <1>4, <1>5, <1>6 DEF Next

\* No attempt of a node has two executor sessions, whoever ticks without
\* dispatching, cancels and crashes meanwhile, for every manifest: the key of
\* workflow, node and attempt makes dispatching again harmless.  The
\* hypothesis is needed: a reset that read the attempt before somebody else's
\* reset and dispatch names that attempt again, and of two dispatchers both
\* may find that the child is new.
THEOREM AttemptsLaunchOnce ==
  ASSUME OneOfEach
  PROVE  Spec => []OneDispatchPerAttempt
<1>1. ASSUME Init
      PROVE  LaunchInv
  <2>1. /\ \A n \in Node : nodes[n].attempt = 0
        /\ \A p \in Proc : proc[p].pc = "idle"
        /\ \A a \in DOMAIN launched : launched[a] = 0
    BY <1>1 DEF Init, FreshNodes, FreshNode, Idle
  <2>2. DOMAIN launched = Node \X (0 .. MaxAttempts + 1)
    BY <1>1 DEF Init
  <2>3. OneDispatchPerAttempt
    BY <2>1 DEF OneDispatchPerAttempt
  <2>4. LaunchedOK
    BY <2>1, <2>2, Manifest DEF LaunchedOK
  <2>5. \A p \in Proc : StepOK(p) /\ RowsOK(p)
    BY <2>1 DEF StepOK, RowsOK, ListPcs, DispatchPcs
  <2> QED
    BY <2>3, <2>4, <2>5 DEF LaunchInv
<1>2. ASSUME TypeOK, LaunchInv, UNCHANGED vars
      PROVE  LaunchInv'
  <2>1. UNCHANGED <<nodes, launched, proc>> /\ TypeOK'
    BY <1>2, TypeStutter DEF vars
  <2>2. Forward /\ SameAttempts /\ \A m \in Node : nodes'[m].attempt <= MaxAttempts + 1
    BY <1>2, <2>1, NodesRest
  <2>3. \A q \in Proc : StepOK(q)' /\ RowsOK(q)'
    BY <1>2, <2>1, <2>2, BystanderStays
  <2> QED
    BY <1>2, <2>1, <2>2, <2>3, LaunchedStays DEF LaunchInv
<1>3. TypeOK /\ LaunchInv /\ [Next]_vars => TypeOK' /\ LaunchInv'
  BY <1>2, TypeStep, TypeStutter, LaunchStep
<1>4. LaunchInv => OneDispatchPerAttempt
  BY DEF LaunchInv
<1> QED
  BY InitTypes, <1>1, <1>3, <1>4, PTL DEF Spec

-----------------------------------------------------------------------------
(* One process ticks.                                                      *)

(* The daemon alone ticks, and no node is retried by hand.                 *)
OneTicker == (\A p, q \in Tickers : p = q) /\ Retriers = {}

ListedPcs == {"reset"} \cup ListPcs
TickPcs == ListedPcs \cup {"mark", "decide", "close"}

Done(n) == nodes[n].phase = "ready_for_review"

\* Only tickers tick, and not once the workflow is ready for review.
PlaceOK(p) ==
  proc[p].pc \in TickPcs => p \in Tickers /\ workflow # "ready_for_review"

\* The id of a child names its node and, unless it was cut, its attempt.
ChildrenOK ==
  \A id \in DOMAIN tasks :
    /\ id = ChildId(id[1], tasks[id].key)
    /\ tasks[id].phase \notin {"evidence_ready", "committed"}

\* What a node points to is the child of its attempt.
LinkOK(n) ==
  /\ nodes[n].task # NoChild =>
       /\ Exists(nodes[n].task)
       /\ nodes[n].task[1] = n
       /\ tasks[nodes[n].task].key = nodes[n].attempt
       /\ Done(n) => tasks[nodes[n].task].phase = "ready_for_review"
  /\ nodes[n].phase = "pending" => nodes[n].task = NoChild
  /\ nodes[n].phase = "skipped" => n \in Partial

\* A node that was started at all was started after its dependencies.
Started(n) ==
  \/ nodes[n].task # NoChild
  \/ nodes[n].phase \in {"dispatching", "running", "ready_for_review", "skipped", "stuck"}
StartOK(n) == Started(n) => \A k \in Deps[n] : Done(k)

\* RetryBudget, of one node.
BudgetOK(n) ==
  /\ nodes[n].attempt <= MaxRetries[n]
  /\ nodes[n].phase = "stuck" => nodes[n].attempt = MaxRetries[n]

NodesOK == \A n \in Node : LinkOK(n) /\ StartOK(n) /\ BudgetOK(n)

\* The list a tick works from is as old as the nodes it has not come to yet.
ListOK(p) ==
  LET r == proc[p] IN
  /\ r.pc \in ListedPcs =>
       \A m \in Node :
         /\ r.rows[m].phase = "pending" => r.rows[m].task = NoChild
         /\ m >= r.at => r.rows[m].attempt = nodes[m].attempt
         /\ m > r.at \/ (m = r.at /\ r.pc \notin DispatchPcs) =>
              /\ r.rows[m].task = nodes[m].task
              /\ r.rows[m].phase = nodes[m].phase \/ nodes[m].phase = "abandoned"
  /\ r.pc \in {"schedule"} \cup DispatchPcs =>
       \A m \in Node : r.rows[m].phase = "ready_for_review" => Done(m)

\* The node that is being reset has not succeeded, and has retries left.
ResetOK(p) ==
  LET r == proc[p] IN
  r.pc = "reset" =>
    /\ r.attempt = nodes[r.at].attempt
    /\ r.attempt < MaxRetries[r.at]
    /\ ~Done(r.at)

\* The node that is being dispatched, and its child.
DispatchOK(p) ==
  LET r == proc[p] IN
  r.pc \in DispatchPcs =>
    /\ nodes[r.at].task = NoChild
    /\ nodes[r.at].phase \in {"dispatching", "abandoned"}
    /\ \A k \in Deps[r.at] : Done(k)
    /\ r.pc # "create" => Exists(Dispatching(p)) /\ tasks[Dispatching(p)].key = Attempt(p)

\* The count of the nodes under way is never too low.
CountOK(p) ==
  LET r == proc[p] IN
  /\ r.pc = "schedule" => Cardinality(Busy) <= r.running
  /\ r.pc \in DispatchPcs => Cardinality(Busy \ {r.at}) <= r.running /\ r.running < MaxParallel

\* The verdict that is about to be written.
Complete ==
  \A n \in Node :
    /\ nodes[n].phase = "ready_for_review" \/ (nodes[n].phase = "skipped" /\ n \in Partial)
    /\ nodes[n].phase = "ready_for_review" /\ Kind[n] # "gate" =>
         /\ Exists(nodes[n].task)
         /\ tasks[nodes[n].task] = [phase |-> "ready_for_review", key |-> nodes[n].attempt,
                                    receipt |-> TRUE]
VerdictOK(p) == proc[p].pc = "close" /\ proc[p].verdict = "ready_for_review" => Complete

ProcOK(p) ==
  PlaceOK(p) /\ ListOK(p) /\ ResetOK(p) /\ DispatchOK(p) /\ CountOK(p) /\ VerdictOK(p)

TickInv ==
  /\ ChildrenOK /\ NodesOK /\ ParallelLimit
  /\ \A p \in Proc : ProcOK(p)
  /\ workflow = "ready_for_review" => Complete

\* A process that does not tick.
LEMMA LeaverKeeps ==
  ASSUME NEW q \in Proc, proc'[q].pc \notin TickPcs
  PROVE  ProcOK(q)'
  BY DEF ProcOK, PlaceOK, ListOK, ResetOK, DispatchOK, CountOK, VerdictOK, TickPcs, ListedPcs,
         ListPcs, DispatchPcs

\* While one process ticks, no other one does.
LEMMA OthersElsewhere ==
  ASSUME OneTicker, TickInv, NEW p \in Proc, p \in Tickers, NEW q \in Proc, q # p
  PROVE  proc[q].pc \notin TickPcs
  BY DEF OneTicker, TickInv, ProcOK, PlaceOK

\* What happens to the nodes and to the children behind a process.
NodesAlmostSame ==
  \A m \in Node :
    /\ nodes'[m].attempt = nodes[m].attempt /\ nodes'[m].task = nodes[m].task
    /\ nodes'[m].phase = IF nodes[m].phase \in ActiveNodePhases /\ nodes'[m].phase = "abandoned"
                         THEN "abandoned" ELSE nodes[m].phase
TasksGrow ==
  /\ DOMAIN tasks \subseteq DOMAIN tasks'
  /\ \A i \in DOMAIN tasks : tasks'[i].key = tasks[i].key

LEMMA BusyShrinks ==
  ASSUME NodesAlmostSame
  PROVE  /\ Busy' \subseteq Busy
         /\ Cardinality(Busy') <= Cardinality(Busy)
         /\ \A n \in Node : Cardinality(Busy' \ {n}) <= Cardinality(Busy \ {n})
         /\ ParallelLimit => ParallelLimit'
<1>1. Busy' \subseteq Busy
  BY DEF NodesAlmostSame, Busy
<1>2. /\ IsFiniteSet(Busy) /\ Cardinality(Busy) \in Nat
      /\ \A n \in Node : IsFiniteSet(Busy \ {n})
  BY BusyFinite DEF Busy
<1>3. Cardinality(Busy') <= Cardinality(Busy)
  BY <1>1, <1>2, FS_Subset
<1>4. \A n \in Node : Cardinality(Busy' \ {n}) <= Cardinality(Busy \ {n})
  <2>1. \A n \in Node : Busy' \ {n} \subseteq Busy \ {n}
    BY <1>1
  <2> QED
    BY <1>2, <2>1, FS_Subset
<1>5. Busy' \in SUBSET Node
  BY DEF Busy
<1>6. Cardinality(Busy') \in Nat
  BY <1>5, BusyFinite
<1>7. ParallelLimit => ParallelLimit'
  BY <1>2, <1>3, <1>6, Manifest DEF ParallelLimit, Busy
<1> QED
  BY <1>1, <1>3, <1>4, <1>7

LEMMA BystanderKeeps ==
  ASSUME TypeOK, TypeOK', TickInv, NodesAlmostSame, TasksGrow, Complete => Complete',
         workflow' = "ready_for_review" => workflow = "ready_for_review",
         NEW q \in Proc, proc'[q] = proc[q]
  PROVE  ProcOK(q)'
<1>1. ProcOK(q) /\ proc[q].at \in Node /\ Dispatching(q)' = Dispatching(q) /\ Attempt(q)' = Attempt(q)
  BY TypesAre, ProcTypes DEF TickInv, Dispatching, Attempt, Current
<1>2. \A m \in Node : /\ Done(m)' <=> Done(m)
                      /\ nodes[m].phase = "abandoned" => nodes'[m].phase = "abandoned"
  BY DEF NodesAlmostSame, Done, ActiveNodePhases
<1>3. PlaceOK(q)' /\ VerdictOK(q)'
  BY <1>1 DEF ProcOK, PlaceOK, VerdictOK
<1>4. ListOK(q)'
  BY <1>1, <1>2 DEF ProcOK, ListOK, NodesAlmostSame
<1>5. ResetOK(q)'
  BY <1>1, <1>2 DEF ProcOK, ResetOK, NodesAlmostSame
<1>6. DispatchOK(q)'
  <2>1. \A k \in Deps[proc[q].at] : k \in Node
    BY <1>1, Manifest
  <2>2. nodes[proc[q].at].phase \in {"dispatching", "abandoned"}
        => nodes'[proc[q].at].phase \in {"dispatching", "abandoned"}
    BY <1>1 DEF NodesAlmostSame
  <2>3. Exists(Dispatching(q)) => Exists(Dispatching(q))' /\ tasks'[Dispatching(q)].key = tasks[Dispatching(q)].key
    BY <1>1 DEF TasksGrow, Exists
  <2> QED
    BY <1>1, <1>2, <2>1, <2>2, <2>3 DEF ProcOK, DispatchOK, NodesAlmostSame
<1>7. CountOK(q)'
  <2>1. /\ Cardinality(Busy) \in Nat /\ Cardinality(Busy') \in Nat /\ proc[q].running \in Nat
        /\ Cardinality(Busy \ {proc[q].at}) \in Nat /\ Cardinality(Busy' \ {proc[q].at}) \in Nat
    BY BusyFinite, TypesAre, ProcTypes DEF Busy
  <2>2. /\ Cardinality(Busy') <= Cardinality(Busy)
        /\ Cardinality(Busy' \ {proc[q].at}) <= Cardinality(Busy \ {proc[q].at})
    BY <1>1, BusyShrinks
  <2> QED
    BY <1>1, <2>1, <2>2 DEF ProcOK, CountOK
<1> QED
  BY <1>3, <1>4, <1>5, <1>6, <1>7 DEF ProcOK

\* The nodes stay as they are, or are abandoned while they are active; the
\* children of those that succeeded stay as they are.
SuccessesStand ==
  \A n \in Node :
    Done(n) /\ Exists(nodes[n].task) /\ tasks[nodes[n].task].phase = "ready_for_review"
      => tasks'[nodes[n].task] = tasks[nodes[n].task]

LEMMA NodesKeep ==
  ASSUME TickInv, NodesAlmostSame, TasksGrow, SuccessesStand
  PROVE  NodesOK' /\ ParallelLimit' /\ (Complete => Complete')
<1>1. \A m \in Node : Done(m)' <=> Done(m)
  BY DEF NodesAlmostSame, Done, ActiveNodePhases
<1>2. ASSUME NEW n \in Node
      PROVE  LinkOK(n)' /\ StartOK(n)' /\ BudgetOK(n)'
  <2>1. LinkOK(n) /\ StartOK(n) /\ BudgetOK(n)
    BY DEF TickInv, NodesOK
  <2>2. LinkOK(n)'
    BY <1>1, <2>1 DEF LinkOK, NodesAlmostSame, TasksGrow, SuccessesStand, Exists
  <2>3. StartOK(n)'
    <3>1. \A k \in Deps[n] : k \in Node
      BY Manifest
    <3>2. Started(n)' => Started(n)
      BY DEF NodesAlmostSame, Started
    <3> QED
      BY <1>1, <2>1, <3>1, <3>2 DEF StartOK
  <2>4. BudgetOK(n)'
    BY <2>1 DEF BudgetOK, NodesAlmostSame
  <2> QED
    BY <2>2, <2>3, <2>4
<1>3. ParallelLimit'
  BY BusyShrinks DEF TickInv
<1>4. ASSUME Complete
      PROVE  Complete'
  <2>1. \A n \in Node : nodes[n].phase \notin ActiveNodePhases
    BY <1>4 DEF Complete, ActiveNodePhases
  <2>2. \A n \in Node : /\ nodes'[n].phase = nodes[n].phase /\ nodes'[n].task = nodes[n].task
                        /\ nodes'[n].attempt = nodes[n].attempt
    BY <2>1 DEF NodesAlmostSame
  <2>3. ASSUME NEW n \in Node, nodes[n].phase = "ready_for_review", Kind[n] # "gate"
        PROVE  /\ Exists(nodes[n].task)'
               /\ tasks'[nodes[n].task] = [phase |-> "ready_for_review", key |-> nodes[n].attempt,
                                           receipt |-> TRUE]
    <3>1. /\ Exists(nodes[n].task)
          /\ tasks[nodes[n].task] = [phase |-> "ready_for_review", key |-> nodes[n].attempt,
                                     receipt |-> TRUE]
      BY <1>4, <2>3 DEF Complete
    <3>2. tasks[nodes[n].task].phase = "ready_for_review"
      BY <3>1
    <3>3. tasks'[nodes[n].task] = tasks[nodes[n].task]
      BY <2>3, <3>1, <3>2 DEF SuccessesStand, Done
    <3> QED
      BY <2>2, <3>1, <3>3 DEF TasksGrow, Exists
  <2> QED
    BY <1>4, <2>2, <2>3 DEF Complete
<1> QED
  BY <1>2, <1>3, <1>4 DEF NodesOK

\* A step that touches no node, but perhaps for a cancel.
LEMMA OutsideStep ==
  ASSUME TypeOK, TypeOK', TickInv, NodesAlmostSame, TasksGrow, SuccessesStand, ChildrenOK',
         workflow' = "ready_for_review" => workflow = "ready_for_review" \/ Complete,
         NEW p \in Proc, ProcOK(p)',
         \A q \in Proc : q # p => /\ proc'[q] = proc[q]
                                  /\ workflow' = "ready_for_review" => workflow = "ready_for_review"
                                                                       \/ proc[q].pc \notin TickPcs
  PROVE  TickInv'
<1>1. NodesOK' /\ ParallelLimit' /\ (Complete => Complete')
  BY NodesKeep
<1>2. ASSUME NEW q \in Proc
      PROVE  ProcOK(q)'
  <2>1. CASE q = p
    BY <2>1
  <2>2. CASE q # p /\ (workflow' = "ready_for_review" => workflow = "ready_for_review")
    BY <1>1, <2>2, BystanderKeeps
  <2>3. CASE q # p /\ proc[q].pc \notin TickPcs
    BY <2>3, LeaverKeeps
  <2> QED
    BY <2>1, <2>2, <2>3
<1>3. workflow' = "ready_for_review" => Complete'
  BY <1>1 DEF TickInv
<1> QED
  BY <1>1, <1>2, <1>3 DEF TickInv

\* The same when the children are left alone as well.
LEMMA TasksStand ==
  ASSUME TickInv, UNCHANGED tasks
  PROVE  TasksGrow /\ SuccessesStand /\ ChildrenOK'
<1>1. ChildrenOK
  BY DEF TickInv
<1> QED
  BY <1>1 DEF TasksGrow, SuccessesStand, ChildrenOK, Exists

LEMMA NodesStand ==
  ASSUME nodes' = nodes
  PROVE  NodesAlmostSame
  BY DEF NodesAlmostSame

\* One child moves, which no node that succeeded points to.
LEMMA ChildMoves ==
  ASSUME TickInv, NEW id \in DOMAIN tasks,
         DOMAIN tasks' = DOMAIN tasks,
         \A i \in DOMAIN tasks : tasks'[i].key = tasks[i].key /\ (i # id => tasks'[i] = tasks[i]),
         tasks'[id].phase \notin {"evidence_ready", "committed"},
         \A n \in Node : nodes[n].task = id => tasks[id].phase # "ready_for_review"
  PROVE  TasksGrow /\ SuccessesStand /\ ChildrenOK'
<1>1. TasksGrow /\ SuccessesStand
  BY DEF TasksGrow, SuccessesStand, Exists
<1>2. ASSUME NEW i \in DOMAIN tasks'
      PROVE  /\ i = ChildId(i[1], tasks'[i].key)
             /\ tasks'[i].phase \notin {"evidence_ready", "committed"}
  <2>1. i = ChildId(i[1], tasks[i].key) /\ tasks[i].phase \notin {"evidence_ready", "committed"}
    BY DEF TickInv, ChildrenOK
  <2> QED
    BY <2>1
<1>3. ChildrenOK'
  BY <1>2 DEF ChildrenOK
<1> QED
  BY <1>1, <1>3

\* A cancel, a crash, the end of a child.
LEMMA CancelKeeps ==
  ASSUME TypeOK, TypeOK', TickInv, OneTicker, NEW p \in Proc, CancelStep(p) \/ Crash(p)
  PROVE  TickInv'
<1>1. CASE BeginCancel(p) \/ SealCancel(p) \/ Crash(p)
  <2>1. /\ UNCHANGED <<nodes, tasks>> /\ (workflow' = workflow \/ workflow' = "abandoned")
        /\ proc'[p].pc \notin TickPcs /\ \A q \in Proc : q # p => proc'[q] = proc[q]
    BY <1>1, BeginCancelIs, SealIs, CrashIs
       DEF Rest, Elsewhere, TickPcs, ListedPcs, ListPcs, DispatchPcs
  <2> QED
    BY <2>1, TasksStand, NodesStand, LeaverKeeps, OutsideStep
<1>2. CASE CancelActiveNodes(p)
  <2>1. /\ UNCHANGED <<workflow, tasks>> /\ Swept
        /\ proc'[p].pc \notin TickPcs /\ \A q \in Proc : q # p => proc'[q] = proc[q]
    BY <1>2, SweepIs DEF Rest, Gone, TickPcs, ListedPcs, ListPcs, DispatchPcs
  <2>2. NodesAlmostSame
    BY <2>1 DEF Swept, NodesAlmostSame
  <2> QED
    BY <2>1, <2>2, TasksStand, LeaverKeeps, OutsideStep
<1>3. CASE AbandonChild(p)
  <2>1. /\ UNCHANGED <<workflow, nodes>> /\ proc'[p].pc \notin TickPcs
        /\ \A q \in Proc : q # p => proc'[q] = proc[q]
        /\ \/ UNCHANGED tasks
           \/ \E id \in DOMAIN tasks : tasks[id].phase \in {"new", "acked"} /\ Moved(id, "abandoned")
    BY <1>3, AbandonChildIs DEF TickPcs, ListedPcs, ListPcs, DispatchPcs
  <2>2. TasksGrow /\ SuccessesStand /\ ChildrenOK'
    <3>1. ASSUME NEW id \in DOMAIN tasks, tasks[id].phase \in {"new", "acked"}, Moved(id, "abandoned")
          PROVE  TasksGrow /\ SuccessesStand /\ ChildrenOK'
      BY <3>1, ChildMoves DEF Moved
    <3> QED
      BY <2>1, <3>1, TasksStand
  <2> QED
    BY <2>1, <2>2, NodesStand, LeaverKeeps, OutsideStep
<1> QED
  BY <1>1, <1>2, <1>3 DEF CancelStep

LEMMA ChildEndKeeps ==
  ASSUME TypeOK, TypeOK', TickInv, SomeChildEnds
  PROVE  TickInv'
<1>1. PICK id : Ended(id) /\ UNCHANGED <<workflow, nodes, proc>>
  BY ChildEndsIs DEF SomeChildEnds
<1>2. TasksGrow /\ SuccessesStand /\ ChildrenOK'
  BY <1>1, ChildMoves DEF Ended
<1>3. NodesAlmostSame
  BY <1>1, NodesStand
<1>4. NodesOK' /\ ParallelLimit' /\ (Complete => Complete')
  BY <1>2, <1>3, NodesKeep
<1>5. \A q \in Proc : ProcOK(q)'
  BY <1>1, <1>2, <1>3, <1>4, BystanderKeeps
<1> QED
  BY <1>1, <1>2, <1>4, <1>5 DEF TickInv

-----------------------------------------------------------------------------
(* The steps of the one tick that runs.                                    *)

\* One node changes; it is still successful if it was, and keeps its
\* invariants.
OneNodeChanges(n) ==
  \E k \in Node :
    /\ k = n
    /\ \A m \in Node : m # k => nodes'[m] = nodes[m]
    /\ Done(k) => Done(k)'
    /\ LinkOK(k)' /\ StartOK(k)' /\ BudgetOK(k)'

LEMMA NodesChange ==
  ASSUME TickInv, UNCHANGED tasks, NEW n \in Node, OneNodeChanges(n)
  PROVE  NodesOK' /\ \A m \in Node : Done(m) => Done(m)'
<1>1. \A m \in Node : Done(m) => Done(m)'
  BY DEF OneNodeChanges, Done
<1>2. ASSUME NEW m \in Node
      PROVE  LinkOK(m)' /\ StartOK(m)' /\ BudgetOK(m)'
  <2>1. CASE m = n
    BY <2>1 DEF OneNodeChanges
  <2>2. CASE m # n
    <3>1. LinkOK(m) /\ StartOK(m) /\ BudgetOK(m) /\ nodes'[m] = nodes[m]
      BY <2>2 DEF TickInv, NodesOK, OneNodeChanges
    <3>2. LinkOK(m)'
      BY <3>1 DEF LinkOK, Exists, Done
    <3>3. \A k \in Deps[m] : k \in Node
      BY Manifest
    <3>4. StartOK(m)'
      BY <1>1, <3>1, <3>3 DEF StartOK, Started
    <3>5. BudgetOK(m)'
      BY <3>1 DEF BudgetOK
    <3> QED
      BY <3>2, <3>4, <3>5
  <2> QED
    BY <2>1, <2>2
<1> QED
  BY <1>1, <1>2 DEF NodesOK

\* The ticking process has dealt with its node.
LEMMA DealingKeeps ==
  ASSUME OneTicker, TypeOK, TypeOK', TickInv, UNCHANGED <<workflow, tasks>>,
         NEW p \in Proc, proc[p].pc \in ListedPcs,
         NEW stage \in {"reconcile", "schedule"}, NEW s, Advanced(p, stage, s),
         stage = "schedule" => proc[p].pc \in {"schedule"} \cup DispatchPcs,
         stage = "reconcile" => proc[p].pc \notin DispatchPcs,
         OneNodeChanges(proc[p].at), ParallelLimit',
         stage = "schedule" => Cardinality(Busy') <= proc[p].running + s
  PROVE  TickInv'
<1>1. /\ proc[p].at \in Node /\ NodeCount \in Nat /\ \A m \in Node : m \in Nat
  BY TypesAre, ProcTypes, Manifest
<1>2. NodesOK' /\ \A m \in Node : Done(m) => Done(m)'
  BY <1>1, NodesChange
<1>3. ProcOK(p) /\ p \in Tickers /\ workflow # "ready_for_review"
  BY DEF TickInv, ProcOK, PlaceOK, TickPcs
<1>4. \A q \in Proc : q # p => ProcOK(q)'
  BY <1>3, OthersElsewhere, LeaverKeeps DEF Advanced
<1>5. \A m \in Node : nodes'[m].phase = "pending" => nodes'[m].task = NoChild
  BY <1>2 DEF NodesOK, LinkOK
<1>6. proc'[p].pc \in {"reconcile", "schedule", "decide"} /\ ListOK(p)'
  <2>1. CASE proc'[p].rows = nodes' /\ proc'[p].pc \in {"reconcile", "schedule", "decide"}
    BY <1>5, <2>1 DEF ListOK, Done, ListedPcs, ListPcs, DispatchPcs
  <2>2. CASE proc'[p].pc = "decide"
    BY <2>2 DEF ListOK, ListedPcs, ListPcs, DispatchPcs
  <2>3. CASE proc'[p].pc = stage /\ proc'[p].at = proc[p].at + 1 /\ proc'[p].rows = proc[p].rows
    <3>1. \A m \in Node : m >= proc[p].at + 1 => m > proc[p].at /\ nodes'[m] = nodes[m]
      BY <1>1 DEF OneNodeChanges
    <3>2. \A m \in Node :
            /\ proc[p].rows[m].phase = "pending" => proc[p].rows[m].task = NoChild
            /\ m >= proc[p].at + 1 =>
                 /\ proc[p].rows[m].attempt = nodes'[m].attempt
                 /\ proc[p].rows[m].task = nodes'[m].task
                 /\ proc[p].rows[m].phase = nodes'[m].phase \/ nodes'[m].phase = "abandoned"
      <4>1. ASSUME NEW m \in Node, m >= proc[p].at + 1
            PROVE  /\ proc[p].rows[m].attempt = nodes[m].attempt
                   /\ proc[p].rows[m].task = nodes[m].task
                   /\ proc[p].rows[m].phase = nodes[m].phase \/ nodes[m].phase = "abandoned"
        <5>1. m > proc[p].at /\ m >= proc[p].at
          BY <1>1, <4>1
        <5> QED
          BY <1>3, <5>1 DEF ProcOK, ListOK
      <4> QED
        BY <1>3, <3>1, <4>1 DEF ProcOK, ListOK
    <3>3. stage = "schedule" => \A m \in Node : proc[p].rows[m].phase = "ready_for_review" => Done(m)'
      BY <1>2, <1>3 DEF ProcOK, ListOK
    <3>4. \A m \in Node : m > proc[p].at + 1 => m >= proc[p].at + 1
      BY <1>1
    <3>5. proc'[p].pc \in {"reconcile", "schedule"}
      BY <2>3
    <3>6. \A m \in Node :
            /\ proc'[p].rows[m].phase = "pending" => proc'[p].rows[m].task = NoChild
            /\ m >= proc'[p].at => proc'[p].rows[m].attempt = nodes'[m].attempt
            /\ m > proc'[p].at \/ m = proc'[p].at =>
                 /\ proc'[p].rows[m].task = nodes'[m].task
                 /\ proc'[p].rows[m].phase = nodes'[m].phase \/ nodes'[m].phase = "abandoned"
      <4>1. \A m \in Node : m = proc[p].at + 1 => m >= proc[p].at + 1
        BY <1>1
      <4> QED
        BY <2>3, <3>2, <3>4, <4>1
    <3>7. proc'[p].pc \in {"schedule"} \cup DispatchPcs =>
            \A m \in Node : proc'[p].rows[m].phase = "ready_for_review" => Done(m)'
      BY <2>3, <3>3, <3>5 DEF DispatchPcs
    <3>8. ListOK(p)'
      BY <3>6, <3>7 DEF ListOK
    <3> QED
      BY <3>5, <3>8
  <2> QED
    BY <2>1, <2>2, <2>3 DEF Advanced
<1>7. CountOK(p)'
  <2>1. Busy' \in SUBSET Node
    BY DEF Busy
  <2>2. Cardinality(Busy') \in Nat
    BY <2>1, BusyFinite
  <2>3. proc'[p].pc = "schedule" => Cardinality(Busy') <= proc'[p].running
    BY <2>2 DEF Advanced
  <2> QED
    BY <1>6, <2>3 DEF CountOK, DispatchPcs
<1>8. ProcOK(p)'
  BY <1>3, <1>6, <1>7
     DEF ProcOK, PlaceOK, ResetOK, DispatchOK, VerdictOK, DispatchPcs
<1>9. ChildrenOK'
  BY DEF TickInv, ChildrenOK
<1> QED
  BY <1>2, <1>3, <1>4, <1>8, <1>9 DEF TickInv

\* How many nodes are under way when one node changes.
LEMMA BusyIs ==
  ASSUME NEW n \in Node, \A m \in Node : m # n => nodes'[m] = nodes[m]
  PROVE  /\ IsFiniteSet(Busy) /\ Cardinality(Busy) \in Nat /\ Cardinality(Busy \ {n}) \in Nat
         /\ Cardinality(Busy') \in Nat
         /\ Cardinality(Busy \ {n}) <= Cardinality(Busy)
         /\ Busy' \ {n} = Busy \ {n}
         /\ Cardinality(Busy') <= Cardinality(Busy \ {n}) + 1
         /\ nodes'[n].phase \notin {"dispatching", "running"} => Cardinality(Busy') <= Cardinality(Busy \ {n})
<1>1. /\ IsFiniteSet(Busy) /\ Cardinality(Busy) \in Nat
      /\ IsFiniteSet(Busy \ {n}) /\ Cardinality(Busy \ {n}) \in Nat
  BY BusyFinite DEF Busy
<1>2. Busy' \in SUBSET Node
  BY DEF Busy
<1>3. Cardinality(Busy') \in Nat
  BY <1>2, BusyFinite
<1>4. Busy' \ {n} = Busy \ {n}
  BY DEF Busy
<1>5. Cardinality(Busy \ {n}) <= Cardinality(Busy)
  BY <1>1, FS_Subset
<1>6. /\ IsFiniteSet((Busy \ {n}) \cup {n})
      /\ Cardinality((Busy \ {n}) \cup {n}) = Cardinality(Busy \ {n}) + 1
  <2>1. n \notin Busy \ {n}
    OBVIOUS
  <2> HIDE DEF Busy
  <2>2. PICK S : S = Busy \ {n}
    OBVIOUS
  <2>3. IsFiniteSet(S \cup {n}) /\ Cardinality(S \cup {n}) = Cardinality(S) + 1
    BY <1>1, <2>1, <2>2, FS_AddElement
  <2> QED
    BY <2>2, <2>3
<1>7. Busy' \subseteq (Busy \ {n}) \cup {n}
  BY <1>4
<1>8. Cardinality(Busy') <= Cardinality(Busy \ {n}) + 1
  BY <1>6, <1>7, FS_Subset
<1>9. nodes'[n].phase \notin {"dispatching", "running"} => Busy' = Busy \ {n}
  BY <1>4 DEF Busy
<1> QED
  BY <1>1, <1>3, <1>4, <1>5, <1>8, <1>9

\* What the list says of the node the process is at.
LEMMA AtNode ==
  ASSUME TypeOK, TickInv, NEW p \in Proc
  PROVE  /\ proc[p].at \in Node
         /\ LinkOK(proc[p].at) /\ StartOK(proc[p].at) /\ BudgetOK(proc[p].at)
         /\ nodes[proc[p].at].attempt \in Nat /\ MaxRetries[proc[p].at] \in Nat
         /\ proc[p].running \in Nat /\ MaxParallel \in Nat
         /\ proc[p].pc \in ListedPcs =>
              /\ proc[p].rows[proc[p].at].attempt = nodes[proc[p].at].attempt
              /\ Listed(p) => proc[p].rows[proc[p].at].task = NoChild
              /\ proc[p].pc \notin DispatchPcs =>
                   /\ ListedChild(p) = nodes[proc[p].at].task
                   /\ Listed(p) => nodes[proc[p].at].phase \in {"pending", "abandoned"}
<1>1. proc[p].at \in Node /\ proc[p].at \in Nat /\ proc[p].running \in Nat /\ MaxParallel \in Nat
  BY TypesAre, ProcTypes, Manifest
<1>2. proc[p].at >= proc[p].at
  BY <1>1
<1>3. ListOK(p) /\ LinkOK(proc[p].at) /\ StartOK(proc[p].at) /\ BudgetOK(proc[p].at)
  BY <1>1 DEF TickInv, NodesOK, ProcOK
<1>4. nodes[proc[p].at].attempt \in Nat /\ MaxRetries[proc[p].at] \in Nat
  BY <1>1, AttemptsAre, Manifest
<1> QED
  BY <1>1, <1>2, <1>3, <1>4 DEF ListOK, Listed, ListedChild

\* A node whose dependencies the list shows as successful may start.
LEMMA ReadyIs ==
  ASSUME TickInv, NEW p \in Proc, proc[p].at \in Node, proc[p].pc = "schedule", Ready(p)
  PROVE  \A k \in Deps[proc[p].at] : Done(k)
<1>1. \A k \in Deps[proc[p].at] : k \in Node
  BY Manifest
<1>2. ListOK(p)
  BY DEF TickInv, ProcOK
<1> QED
  BY <1>1, <1>2 DEF Ready, DependenciesReady, SuccessNodePhases, ListOK

\* The node a process is at has been marked.
LEMMA MarkedKeeps ==
  ASSUME TypeOK, TickInv, UNCHANGED tasks, NEW n \in Node, NEW phase \in NodePhases \ {"pending"},
         NEW task, Marked(n, phase, task),
         Done(n) => phase = "ready_for_review",
         phase = "skipped" => n \in Partial,
         phase = "stuck" => nodes[n].attempt = MaxRetries[n],
         \/ task = NoChild /\ (phase = "ready_for_review" => nodes[n].task = NoChild)
         \/ /\ task # NoChild /\ Exists(task) /\ task[1] = n
            /\ tasks[task].key = nodes[n].attempt
            /\ phase = "ready_for_review" => tasks[task].phase = "ready_for_review",
         \/ \A k \in Deps[n] : Done(k)
         \/ task = NoChild /\ phase \in {"blocked", "abandoned"}
  PROVE  OneNodeChanges(n)
<1>1. LinkOK(n) /\ StartOK(n) /\ BudgetOK(n)
  BY DEF TickInv, NodesOK
<1>2. /\ nodes'[n].phase = phase /\ nodes'[n].attempt = nodes[n].attempt
      /\ nodes'[n].task = IF task = NoChild THEN nodes[n].task ELSE task
      /\ \A m \in Node : m # n => nodes'[m] = nodes[m]
  BY DEF Marked
<1>3. Done(n) => Done(n)'
  BY <1>2 DEF Done
<1>4. LinkOK(n)'
  <2>1. CASE task = NoChild
    BY <1>1, <1>2, <2>1 DEF LinkOK, Done, Exists
  <2>2. CASE task # NoChild
    BY <1>2, <2>2 DEF LinkOK, Done, Exists
  <2> QED
    BY <2>1, <2>2
<1>5. StartOK(n)'
  <2>1. Started(n)' => \A k \in Deps[n] : Done(k)
    BY <1>1, <1>2 DEF StartOK, Started
  <2>2. \A k \in Deps[n] : k \in Node /\ (Done(k) => Done(k)')
    BY <1>2, <1>3, Manifest DEF Done
  <2> QED
    BY <2>1, <2>2 DEF StartOK
<1>6. BudgetOK(n)'
  BY <1>1, <1>2 DEF BudgetOK
<1> QED
  BY <1>2, <1>3, <1>4, <1>5, <1>6 DEF OneNodeChanges

\* Nothing has been done about the node.
LEMMA SkippedKeeps ==
  ASSUME OneTicker, TypeOK, TypeOK', TickInv, Rest, NEW p \in Proc,
         NEW stage \in {"reconcile", "schedule"}, proc[p].pc = stage, Skipped(p, stage)
  PROVE  TickInv'
<1>1. nodes' = nodes /\ Advanced(p, stage, 0) /\ UNCHANGED <<workflow, tasks>>
  BY DEF Skipped, Rest
<1>2. OneNodeChanges(proc[p].at)
  <2>1. LinkOK(proc[p].at) /\ StartOK(proc[p].at) /\ BudgetOK(proc[p].at)
    BY AtNode
  <2>2. PICK n \in Node : n = proc[p].at
    BY AtNode
  <2>3. LinkOK(n)' /\ StartOK(n)' /\ BudgetOK(n)'
    BY <1>1, <2>1, <2>2 DEF LinkOK, StartOK, BudgetOK, Done, Started, Exists
  <2>4. OneNodeChanges(n)
    BY <1>1, <2>3 DEF OneNodeChanges, Done
  <2> QED
    BY <2>2, <2>4
<1>3. ParallelLimit' /\ Busy' = Busy
  BY <1>1 DEF TickInv, ParallelLimit, Busy
<1>4. stage = "schedule" => Cardinality(Busy') <= proc[p].running + 0
  <2>1. Busy \in SUBSET Node
    BY DEF Busy
  <2>2. Cardinality(Busy) \in Nat /\ proc[p].running \in Nat
    BY <2>1, BusyFinite, AtNode
  <2>3. stage = "schedule" => Cardinality(Busy) <= proc[p].running
    BY DEF TickInv, ProcOK, CountOK
  <2> QED
    BY <1>3, <2>2, <2>3
<1>5. proc[p].pc \in ListedPcs \ DispatchPcs
  BY DEF ListedPcs, ListPcs, DispatchPcs
<1> QED
  BY <1>1, <1>2, <1>3, <1>4, <1>5, DealingKeeps

\* A node has been marked with a phase that takes no room.
LEMMA IdleMarkKeeps ==
  ASSUME OneTicker, TypeOK, TypeOK', TickInv, Rest, NEW p \in Proc,
         NEW stage \in {"reconcile", "schedule"}, NEW s \in {0, 1}, NEW phase, NEW task,
         Settled(p, phase, task, stage, s), phase \notin {"dispatching", "running"},
         proc[p].pc \in {stage} \/ (stage = "schedule" /\ proc[p].pc \in DispatchPcs),
         OneNodeChanges(proc[p].at)
  PROVE  TickInv'
<1>1. /\ Advanced(p, stage, s) /\ UNCHANGED <<workflow, tasks>> /\ proc[p].at \in Node
      /\ nodes'[proc[p].at].phase = phase
  BY AtNode DEF Settled, Marked, Rest
<1>2. /\ Cardinality(Busy') <= Cardinality(Busy \ {proc[p].at})
      /\ Cardinality(Busy \ {proc[p].at}) <= Cardinality(Busy)
      /\ Cardinality(Busy) \in Nat /\ Cardinality(Busy') \in Nat
      /\ Cardinality(Busy \ {proc[p].at}) \in Nat
  BY <1>1, BusyIs DEF OneNodeChanges
<1>3. ParallelLimit'
  BY <1>2, Manifest DEF TickInv, ParallelLimit, Busy
<1>4. stage = "schedule" => Cardinality(Busy') <= proc[p].running + s
  <2>1. ASSUME stage = "schedule"
        PROVE  Cardinality(Busy \ {proc[p].at}) <= proc[p].running
    BY <1>2, <2>1, AtNode DEF TickInv, ProcOK, CountOK
  <2> QED
    BY <1>2, <2>1, AtNode
<1>5. proc[p].pc \in ListedPcs /\ (stage = "reconcile" => proc[p].pc \notin DispatchPcs)
  BY DEF ListedPcs, ListPcs, DispatchPcs
<1> QED
  BY <1>1, <1>3, <1>4, <1>5, DealingKeeps

\* A node has been marked with a phase that takes room, and there was some.
LEMMA BusyMarkKeeps ==
  ASSUME OneTicker, TypeOK, TypeOK', TickInv, Rest, NEW p \in Proc,
         NEW phase, NEW task, Settled(p, phase, task, "schedule", 1),
         proc[p].pc \in {"schedule"} \cup DispatchPcs, ~(proc[p].running >= MaxParallel),
         OneNodeChanges(proc[p].at)
  PROVE  TickInv'
<1>1. /\ Advanced(p, "schedule", 1) /\ UNCHANGED <<workflow, tasks>> /\ proc[p].at \in Node
  BY AtNode DEF Settled, Rest
<1>2. /\ Cardinality(Busy') <= Cardinality(Busy \ {proc[p].at}) + 1
      /\ Cardinality(Busy \ {proc[p].at}) <= Cardinality(Busy)
      /\ Cardinality(Busy) \in Nat /\ Cardinality(Busy') \in Nat
      /\ Cardinality(Busy \ {proc[p].at}) \in Nat
  BY <1>1, BusyIs DEF OneNodeChanges
<1>3. Cardinality(Busy \ {proc[p].at}) <= proc[p].running
  BY <1>2, AtNode DEF TickInv, ProcOK, CountOK
<1>4. Cardinality(Busy') <= proc[p].running + 1 /\ Cardinality(Busy') <= MaxParallel
  BY <1>2, <1>3, AtNode
<1>5. ParallelLimit'
  BY <1>4 DEF ParallelLimit, Busy
<1>6. proc[p].pc \in ListedPcs
  BY DEF ListedPcs, ListPcs
<1> QED
  BY <1>1, <1>4, <1>5, <1>6, DealingKeeps

LEMMA ReconcileKeeps ==
  ASSUME OneTicker, TypeOK, TypeOK', TickInv, NEW p \in Proc, ReconcileNode(p)
  PROVE  TickInv'
<1> DEFINE n == proc[p].at
<1>1. proc[p].pc = "reconcile" /\ Rest
  BY ReconcileIs
<1>2. /\ n \in Node /\ LinkOK(n) /\ StartOK(n) /\ BudgetOK(n)
      /\ nodes[n].attempt \in Nat /\ MaxRetries[n] \in Nat
      /\ proc[p].rows[n].attempt = nodes[n].attempt /\ ListedChild(p) = nodes[n].task
  BY <1>1, AtNode DEF ListedPcs, ListPcs, DispatchPcs
<1>3. Exists(ListedChild(p)) =>
        /\ ListedChild(p) # NoChild /\ ListedChild(p)[1] = n
        /\ tasks[ListedChild(p)].key = nodes[n].attempt
        /\ Done(n) => tasks[ListedChild(p)].phase = "ready_for_review"
        /\ tasks[ListedChild(p)].phase \notin {"evidence_ready", "committed"}
        /\ \A k \in Deps[n] : Done(k)
  <2>1. Exists(ListedChild(p)) => ListedChild(p) \in TaskId
    BY TypesAre DEF Exists, TasksOK
  <2>2. Exists(ListedChild(p)) => tasks[ListedChild(p)].phase \notin {"evidence_ready", "committed"}
    BY DEF TickInv, ChildrenOK, Exists
  <2>3. Exists(ListedChild(p)) => ListedChild(p) # NoChild
    BY <2>1, Manifest
  <2> QED
    BY <1>2, <2>2, <2>3 DEF LinkOK, StartOK, Started
<1>4. CASE Skipped(p, "reconcile")
  BY <1>1, <1>4, SkippedKeeps
<1>5. CASE ToReset(p)
  <2>1. /\ UNCHANGED <<workflow, nodes, tasks>> /\ proc'[p].pc = "reset"
        /\ \A q \in Proc : q # p => proc'[q] = proc[q]
        /\ proc'[p].at = n /\ proc'[p].rows = proc[p].rows /\ proc'[p].attempt = nodes[n].attempt
    BY <1>1, <1>5 DEF ToReset, Rest
  <2>2. ProcOK(p)
    BY DEF TickInv
  <2>3. nodes[n].attempt < MaxRetries[n] /\ ~Done(n)
    BY <1>2, <1>3, <1>5 DEF ToReset
  <2>4. ListOK(p)'
    BY <1>1, <2>1, <2>2 DEF ProcOK, ListOK, ListedPcs, ListPcs, DispatchPcs, Done
  <2>5. ResetOK(p)'
    BY <2>1, <2>3 DEF ResetOK, Done
  <2>6. PlaceOK(p)' /\ DispatchOK(p)' /\ CountOK(p)' /\ VerdictOK(p)'
    BY <1>1, <2>1, <2>2
       DEF ProcOK, PlaceOK, DispatchOK, CountOK, VerdictOK, TickPcs, ListedPcs, ListPcs, DispatchPcs
  <2>7. ProcOK(p)'
    BY <2>4, <2>5, <2>6 DEF ProcOK
  <2> QED
    BY <2>1, <2>7, TasksStand, NodesStand, OutsideStep
<1>6. ASSUME NEW phase \in NodePhases, Reconciled(p, phase)
      PROVE  TickInv'
  <2>1. /\ Exists(ListedChild(p)) /\ Settled(p, phase, ListedChild(p), "reconcile", 0)
        /\ Marked(n, phase, ListedChild(p)) /\ UNCHANGED tasks
        /\ phase \in {"ready_for_review", "skipped", "blocked", "abandoned", "stuck"}
    BY <1>1, <1>6 DEF Reconciled, Settled, Rest
  <2>2. phase = "ready_for_review" => tasks[ListedChild(p)].phase = "ready_for_review"
    BY <1>3, <1>6 DEF Reconciled, Store!SuccessPhases
  <2>3. phase = "skipped" => n \in Partial
    BY <1>6 DEF Reconciled
  <2>4. phase = "stuck" => nodes[n].attempt = MaxRetries[n]
    BY <1>2, <1>6 DEF Reconciled, BudgetOK
  <2>5. Done(n) => phase = "ready_for_review"
    BY <1>3, <1>6, <2>1 DEF Reconciled
  <2>6. OneNodeChanges(n)
    BY <1>2, <1>3, <2>1, <2>2, <2>3, <2>4, <2>5, MarkedKeeps
  <2> QED
    BY <1>1, <2>1, <2>6, IdleMarkKeeps
<1> QED
  BY <1>4, <1>5, <1>6, ReconcileIs

LEMMA ResetKeeps ==
  ASSUME OneTicker, TypeOK, TypeOK', TickInv, NEW p \in Proc, ResetNode(p)
  PROVE  TickInv'
<1> DEFINE n == proc[p].at
<1>1. /\ proc[p].pc = "reset" /\ Rest /\ NodeSet(n, NextAttempt(n, proc[p].attempt))
      /\ Advanced(p, "reconcile", 0)
  BY ResetNodeIs
<1>2. /\ n \in Node /\ nodes[n].attempt \in Nat /\ MaxRetries[n] \in Nat
  BY AtNode
<1>3. proc[p].attempt = nodes[n].attempt /\ nodes[n].attempt < MaxRetries[n] /\ ~Done(n)
  BY <1>1 DEF TickInv, ProcOK, ResetOK
<1>4. /\ NextAttempt(n, nodes[n].attempt).phase = "pending"
      /\ NextAttempt(n, nodes[n].attempt).attempt = nodes[n].attempt + 1
      /\ NextAttempt(n, nodes[n].attempt).task = NoChild
  BY DEF NextAttempt, FreshNode
<1>5. OneNodeChanges(n)
  <2>1. /\ nodes'[n].phase = "pending" /\ nodes'[n].task = NoChild
        /\ nodes'[n].attempt = nodes[n].attempt + 1
        /\ \A m \in Node : m # n => nodes'[m] = nodes[m]
    BY <1>1, <1>3, <1>4 DEF NodeSet
  <2>2. PICK k \in Node : k = n
    BY <1>2
  <2>3. LinkOK(k)' /\ StartOK(k)'
    BY <2>1, <2>2 DEF LinkOK, StartOK, Started
  <2>4. BudgetOK(k)'
    BY <1>2, <1>3, <2>1, <2>2 DEF BudgetOK
  <2>5. OneNodeChanges(k)
    BY <1>3, <2>1, <2>2, <2>3, <2>4 DEF OneNodeChanges
  <2> QED
    BY <2>2, <2>5
<1>6. /\ Cardinality(Busy') <= Cardinality(Busy \ {n}) /\ Cardinality(Busy \ {n}) <= Cardinality(Busy)
      /\ Cardinality(Busy) \in Nat /\ Cardinality(Busy') \in Nat /\ Cardinality(Busy \ {n}) \in Nat
  BY <1>1, <1>2, <1>3, <1>4, <1>5, BusyIs DEF OneNodeChanges, NodeSet
<1>7. ParallelLimit'
  BY <1>6, Manifest DEF TickInv, ParallelLimit, Busy
<1> QED
  BY <1>1, <1>5, <1>7, DealingKeeps DEF Rest, ListedPcs, ListPcs, DispatchPcs

LEMMA ScheduleKeeps ==
  ASSUME OneTicker, TypeOK, TypeOK', TickInv, NEW p \in Proc,
         PassOver(p) \/ BlockOnDependency(p) \/ RunGate(p) \/ MarkOnly(p) \/ NoExecutor(p)
  PROVE  TickInv'
<1> DEFINE n == proc[p].at
<1>1. proc[p].pc = "schedule" /\ Rest
  BY ScheduleIs
<1>2. /\ n \in Node /\ LinkOK(n)
      /\ Listed(p) => nodes[n].phase \in {"pending", "abandoned"} /\ nodes[n].task = NoChild
  <2>1. proc[p].pc \in ListedPcs \ DispatchPcs
    BY <1>1 DEF ListedPcs, ListPcs, DispatchPcs
  <2> QED
    BY <2>1, AtNode DEF ListedChild
<1>3. Ready(p) => \A k \in Deps[n] : Done(k)
  BY <1>1, <1>2, ReadyIs
<1>4. CASE Skipped(p, "schedule")
  BY <1>1, <1>4, SkippedKeeps
<1>5. ASSUME Listed(p), NEW s \in {0, 1}, Settled(p, "blocked", NoChild, "schedule", s)
      PROVE  TickInv'
  <2>1. ~Done(n) /\ "blocked" \in NodePhases /\ UNCHANGED tasks
        /\ Marked(n, "blocked", NoChild)
    BY <1>1, <1>2, <1>5 DEF Settled, Rest, Done, NodePhases
  <2>2. OneNodeChanges(n)
    BY <1>2, <2>1, MarkedKeeps
  <2> QED
    BY <1>1, <1>5, <2>2, IdleMarkKeeps
<1>6. CASE Listed(p) /\ Ready(p) /\ Settled(p, "ready_for_review", NoChild, "schedule", 0)
  <2>1. OneNodeChanges(n)
    BY <1>1, <1>2, <1>3, <1>6, MarkedKeeps DEF Settled, Rest, NodePhases
  <2> QED
    BY <1>1, <1>6, <2>1, IdleMarkKeeps
<1>7. CASE /\ Listed(p) /\ Ready(p) /\ ~(proc[p].running >= MaxParallel)
           /\ Settled(p, "dispatching", NoChild, "schedule", 1)
  <2>1. ~Done(n) /\ "dispatching" \in NodePhases /\ UNCHANGED tasks
        /\ Marked(n, "dispatching", NoChild)
    BY <1>1, <1>2, <1>7 DEF Settled, Rest, Done, NodePhases
  <2>2. OneNodeChanges(n)
    BY <1>2, <1>3, <1>7, <2>1, MarkedKeeps
  <2> QED
    BY <1>1, <1>7, <2>2, BusyMarkKeeps
<1> QED
  BY <1>4, <1>5, <1>6, <1>7, ScheduleIs

LEMMA MarkDispatchingKeeps ==
  ASSUME OneTicker, TypeOK, TypeOK', TickInv, NEW p \in Proc, MarkDispatching(p)
  PROVE  TickInv'
<1> DEFINE n == proc[p].at
<1>1. /\ proc[p].pc = "schedule" /\ Rest /\ Listed(p) /\ Ready(p)
      /\ ~(proc[p].running >= MaxParallel)
      /\ Marked(n, "dispatching", NoChild) /\ Gone(p, "create")
  BY MarkDispatchingIs
<1>2. /\ n \in Node /\ nodes[n].phase \in {"pending", "abandoned"} /\ nodes[n].task = NoChild
      /\ proc[p].running \in Nat /\ MaxParallel \in Nat
  <2>1. proc[p].pc \in ListedPcs \ DispatchPcs
    BY <1>1 DEF ListedPcs, ListPcs, DispatchPcs
  <2> QED
    BY <1>1, <2>1, AtNode DEF ListedChild
<1>3. \A k \in Deps[n] : Done(k) /\ k \in Node
  BY <1>1, <1>2, ReadyIs, Manifest
<1>4. OneNodeChanges(n)
  <2>1. ~Done(n) /\ "dispatching" \in NodePhases /\ UNCHANGED tasks
    BY <1>1, <1>2 DEF Rest, Done, NodePhases
  <2> QED
    BY <1>1, <1>2, <1>3, <2>1, MarkedKeeps
<1>5. NodesOK' /\ \A m \in Node : Done(m) => Done(m)'
  BY <1>1, <1>2, <1>4, NodesChange DEF Rest
<1>6. ProcOK(p)
  BY DEF TickInv
<1>7. /\ Busy' \ {n} = Busy \ {n} /\ Cardinality(Busy') <= Cardinality(Busy \ {n}) + 1
      /\ Cardinality(Busy \ {n}) <= Cardinality(Busy)
      /\ Cardinality(Busy) \in Nat /\ Cardinality(Busy') \in Nat /\ Cardinality(Busy \ {n}) \in Nat
  BY <1>2, <1>4, BusyIs DEF OneNodeChanges
<1>8. Cardinality(Busy) <= proc[p].running
  BY <1>1, <1>6 DEF ProcOK, CountOK
<1>9. ParallelLimit' /\ Cardinality(Busy \ {n}) <= proc[p].running /\ proc[p].running < MaxParallel
  <2>1. Cardinality(Busy') <= MaxParallel /\ Cardinality(Busy \ {n}) <= proc[p].running
    BY <1>1, <1>2, <1>7, <1>8
  <2> QED
    BY <1>1, <1>2, <2>1 DEF ParallelLimit, Busy
<1>10. /\ proc'[p].pc = "create" /\ proc'[p].at = n /\ proc'[p].rows = proc[p].rows
       /\ proc'[p].running = proc[p].running
  BY <1>1 DEF Gone
<1>11. ListOK(p)'
  <2>1. \A m \in Node : m # n => nodes'[m] = nodes[m]
    BY <1>1 DEF Marked
  <2>2. nodes'[n].attempt = nodes[n].attempt /\ n \in Nat /\ \A m \in Node : m > n => m # n
    BY <1>1, <1>2, Manifest DEF Marked
  <2>3. ListOK(p)
    BY <1>6 DEF ProcOK
  <2> QED
    BY <1>1, <1>5, <1>10, <2>1, <2>2, <2>3 DEF ListOK, ListedPcs, ListPcs, DispatchPcs
<1>12. DispatchOK(p)'
  <2>1. nodes'[n].task = NoChild /\ nodes'[n].phase = "dispatching"
    BY <1>1, <1>2 DEF Marked
  <2> QED
    BY <1>3, <1>5, <1>10, <2>1 DEF DispatchOK
<1>13. CountOK(p)'
  BY <1>7, <1>9, <1>10 DEF CountOK
<1>14. PlaceOK(p)' /\ ResetOK(p)' /\ VerdictOK(p)'
  BY <1>1, <1>6, <1>10
     DEF ProcOK, PlaceOK, ResetOK, VerdictOK, Rest, TickPcs, ListedPcs, ListPcs, DispatchPcs
<1>15. p \in Tickers /\ workflow # "ready_for_review"
  BY <1>1, <1>6 DEF ProcOK, PlaceOK, TickPcs, ListedPcs, ListPcs
<1>16. \A q \in Proc : q # p => ProcOK(q)'
  BY <1>1, <1>15, OthersElsewhere, LeaverKeeps DEF Gone
<1>17. ProcOK(p)'
  BY <1>11, <1>12, <1>13, <1>14 DEF ProcOK
<1>18. ChildrenOK' /\ workflow' # "ready_for_review"
  BY <1>1, <1>15 DEF TickInv, ChildrenOK, Rest
<1> QED
  BY <1>5, <1>9, <1>16, <1>17, <1>18 DEF TickInv

\* A step of a dispatch that changes no node, and leaves it a child.
LEMMA DispatchGoesOn ==
  ASSUME OneTicker, TypeOK, TypeOK', TickInv, UNCHANGED <<workflow, nodes>>, NEW p \in Proc,
         proc[p].pc \in DispatchPcs, NEW pc \in DispatchPcs \ {"create"}, Gone(p, pc),
         TasksGrow, SuccessesStand, ChildrenOK',
         Exists(Dispatching(p))', tasks'[Dispatching(p)].key = Attempt(p)
  PROVE  TickInv'
<1>1. NodesAlmostSame
  BY NodesStand
<1>2. /\ proc'[p].pc = pc /\ proc'[p].at = proc[p].at /\ proc'[p].rows = proc[p].rows
      /\ proc'[p].running = proc[p].running
      /\ Dispatching(p)' = Dispatching(p) /\ Attempt(p)' = Attempt(p)
  BY DEF Gone, Dispatching, Attempt, Current
<1>3. ProcOK(p)
  BY DEF TickInv
<1>4. PlaceOK(p)'
  BY <1>2, <1>3 DEF ProcOK, PlaceOK, TickPcs, ListedPcs, ListPcs
<1>5. ListOK(p)'
  BY <1>2, <1>3 DEF ProcOK, ListOK, ListedPcs, ListPcs, DispatchPcs, Done
<1>6. DispatchOK(p)'
  BY <1>2, <1>3 DEF ProcOK, DispatchOK, Done
<1>7. CountOK(p)'
  BY <1>2, <1>3 DEF ProcOK, CountOK, DispatchPcs, Busy
<1>8. ResetOK(p)' /\ VerdictOK(p)'
  BY <1>2 DEF ResetOK, VerdictOK, DispatchPcs
<1>9. ProcOK(p)'
  BY <1>4, <1>5, <1>6, <1>7, <1>8 DEF ProcOK
<1> QED
  BY <1>1, <1>9, OutsideStep DEF Gone

LEMMA CreateKeeps ==
  ASSUME OneTicker, TypeOK, TypeOK', TickInv, NEW p \in Proc, CreateTask(p)
  PROVE  TickInv'
<1> DEFINE n == proc[p].at
<1>1. proc[p].pc = "create" /\ UNCHANGED <<workflow, launched, crashes>>
  BY CreateTaskIs
<1>2. n \in Node /\ Attempt(p) \in Nat /\ Dispatching(p) = ChildId(n, Attempt(p))
  BY TypesAre, ProcTypes DEF Attempt, Current, Dispatching
<1>3. nodes[n].task = NoChild /\ nodes[n].phase \in {"dispatching", "abandoned"}
  BY <1>1 DEF TickInv, ProcOK, DispatchOK, DispatchPcs
<1>4. CASE /\ UNCHANGED <<nodes, tasks>> /\ (Gone(p, "launch") \/ Gone(p, "link"))
           /\ \E id \in DOMAIN tasks : id[1] = n /\ tasks[id].key = Attempt(p)
  <2>1. PICK id \in DOMAIN tasks : id[1] = n /\ tasks[id].key = Attempt(p)
    BY <1>4
  <2>2. id = ChildId(id[1], tasks[id].key)
    BY DEF TickInv, ChildrenOK
  <2>3. id = Dispatching(p)
    BY <1>2, <2>1, <2>2
  <2>4. Dispatching(p)' = Dispatching(p)
    BY <1>4 DEF Gone, Dispatching, Attempt, Current
  <2>5. Exists(Dispatching(p))' /\ tasks'[Dispatching(p)].key = Attempt(p)
    BY <1>4, <2>1, <2>3, <2>4 DEF Exists
  <2> QED
    BY <1>1, <1>4, <2>5, TasksStand, DispatchGoesOn DEF DispatchPcs
<1>5. CASE Settled(p, "blocked", NoChild, "schedule", 1) /\ UNCHANGED tasks
  <2>1. Rest
    BY <1>1, <1>5 DEF Rest
  <2>2. ~Done(n) /\ "blocked" \in NodePhases /\ Marked(n, "blocked", NoChild)
    BY <1>3, <1>5 DEF Settled, Done, NodePhases
  <2>3. OneNodeChanges(n)
    BY <1>2, <1>3, <1>5, <2>2, MarkedKeeps
  <2> QED
    BY <1>1, <1>5, <2>1, <2>3, IdleMarkKeeps DEF DispatchPcs
<1>6. CASE UNCHANGED nodes /\ Gone(p, "launch") /\ Created(p)
  <2>1. /\ Dispatching(p) \notin DOMAIN tasks
        /\ DOMAIN tasks' = DOMAIN tasks \cup {Dispatching(p)}
        /\ \A id \in DOMAIN tasks : tasks'[id] = tasks[id]
        /\ tasks'[Dispatching(p)].key = Attempt(p) /\ tasks'[Dispatching(p)].phase = "new"
    BY <1>6 DEF Created, Exists
  <2>2. TasksGrow /\ SuccessesStand
    BY <2>1 DEF TasksGrow, SuccessesStand, Exists
  <2>3. ChildrenOK'
    <3>1. ChildrenOK
      BY DEF TickInv
    <3>2. Dispatching(p)[1] = n
      BY <1>2 DEF ChildId
    <3>3. ASSUME NEW id \in DOMAIN tasks'
          PROVE  /\ id = ChildId(id[1], tasks'[id].key)
                 /\ tasks'[id].phase \notin {"evidence_ready", "committed"}
      <4>1. CASE id \in DOMAIN tasks
        BY <2>1, <3>1, <4>1 DEF ChildrenOK
      <4>2. CASE id = Dispatching(p)
        BY <1>2, <2>1, <3>2, <4>2
      <4> QED
        BY <2>1, <4>1, <4>2
    <3> QED
      BY <3>3 DEF ChildrenOK
  <2>4. Dispatching(p)' = Dispatching(p)
    BY <1>6 DEF Gone, Dispatching, Attempt, Current
  <2>5. Exists(Dispatching(p))'
    BY <2>1, <2>4 DEF Exists
  <2> QED
    BY <1>1, <1>6, <2>1, <2>2, <2>3, <2>5, DispatchGoesOn DEF DispatchPcs
<1> QED
  BY <1>4, <1>5, <1>6, CreateTaskIs

\* No node points to the child that is being dispatched.
LEMMA NobodysChild ==
  ASSUME TypeOK, TickInv, NEW p \in Proc, proc[p].pc \in DispatchPcs
  PROVE  \A m \in Node : nodes[m].task # Dispatching(p)
<1>1. /\ proc[p].at \in Node /\ Dispatching(p) # NoChild /\ Dispatching(p)[1] = proc[p].at
  BY TypesAre, ProcTypes DEF Dispatching, ChildId, Current
<1>2. nodes[proc[p].at].task = NoChild
  BY DEF TickInv, ProcOK, DispatchOK
<1> QED
  BY <1>1, <1>2 DEF TickInv, NodesOK, LinkOK

LEMMA DispatchKeeps ==
  ASSUME OneTicker, TypeOK, TypeOK', TickInv, NEW p \in Proc,
         Launch(p) \/ AckTask(p) \/ FailTask(p)
  PROVE  TickInv'
<1>1. /\ proc[p].pc \in {"launch", "ack", "fail"} /\ UNCHANGED <<workflow, nodes>>
      /\ \/ /\ UNCHANGED tasks \/ \E target \in {"acked", "blocked"} :
                                    Exists(Dispatching(p)) /\ Moved(Dispatching(p), target)
            /\ \E pc \in {"ack", "fail", "link", "failed"} : Gone(p, pc)
         \/ UNCHANGED tasks /\ proc' = [proc EXCEPT ![p] = Idle]
  BY LaunchIs, AckTaskIs, FailTaskIs
<1>2. Exists(Dispatching(p)) /\ tasks[Dispatching(p)].key = Attempt(p)
  BY <1>1 DEF TickInv, ProcOK, DispatchOK, DispatchPcs
<1>3. CASE UNCHANGED tasks /\ proc' = [proc EXCEPT ![p] = Idle]
  <2>1. proc'[p].pc = "idle" /\ \A q \in Proc : q # p => proc'[q] = proc[q]
    BY <1>3, TypesAre, ProcEnds
  <2> QED
    BY <1>1, <1>3, <2>1, TasksStand, NodesStand, LeaverKeeps, OutsideStep
       DEF TickPcs, ListedPcs, ListPcs, DispatchPcs
<1>4. ASSUME NEW pc \in {"ack", "fail", "link", "failed"}, Gone(p, pc),
             UNCHANGED tasks \/ \E target \in {"acked", "blocked"} : Moved(Dispatching(p), target)
      PROVE  TickInv'
  <2>1. TasksGrow /\ SuccessesStand /\ ChildrenOK' /\ DOMAIN tasks' = DOMAIN tasks
    <3>1. CASE UNCHANGED tasks
      BY <3>1, TasksStand
    <3>2. ASSUME NEW target \in {"acked", "blocked"}, Moved(Dispatching(p), target)
          PROVE  TasksGrow /\ SuccessesStand /\ ChildrenOK' /\ DOMAIN tasks' = DOMAIN tasks
      <4>1. PICK id \in DOMAIN tasks : id = Dispatching(p)
        BY <1>2 DEF Exists
      <4>2. \A m \in Node : nodes[m].task # id
        BY <1>1, <4>1, NobodysChild DEF DispatchPcs
      <4>3. /\ DOMAIN tasks' = DOMAIN tasks
            /\ \A i \in DOMAIN tasks : tasks'[i].key = tasks[i].key /\ (i # id => tasks'[i] = tasks[i])
            /\ tasks'[id].phase \notin {"evidence_ready", "committed"}
        BY <3>2, <4>1 DEF Moved
      <4> QED
        BY <4>2, <4>3, ChildMoves
    <3> QED
      BY <1>4, <3>1, <3>2
  <2>2. Dispatching(p)' = Dispatching(p)
    BY <1>4 DEF Gone, Dispatching, Attempt, Current
  <2>3. Exists(Dispatching(p))' /\ tasks'[Dispatching(p)].key = Attempt(p)
    BY <1>2, <2>1, <2>2 DEF Exists, TasksGrow
  <2> QED
    BY <1>1, <1>4, <2>1, <2>3, DispatchGoesOn DEF DispatchPcs
<1> QED
  BY <1>1, <1>3, <1>4

LEMMA DispatchEndKeeps ==
  ASSUME OneTicker, TypeOK, TypeOK', TickInv, NEW p \in Proc, FailNode(p) \/ LinkNode(p)
  PROVE  TickInv'
<1> DEFINE n == proc[p].at
<1>1. /\ Rest
      /\ \/ proc[p].pc = "failed" /\ Settled(p, "blocked", Dispatching(p), "schedule", 1)
         \/ proc[p].pc = "link" /\ Settled(p, "running", Dispatching(p), "schedule", 1)
  BY DispatchEndsIs
<1>2. /\ n \in Node /\ proc[p].rows[n].attempt = nodes[n].attempt
      /\ Dispatching(p) # NoChild /\ Dispatching(p)[1] = n
      /\ proc[p].running \in Nat /\ MaxParallel \in Nat
  BY <1>1, AtNode, TypesAre, ProcTypes
     DEF Dispatching, ChildId, Current, ListedPcs, ListPcs, DispatchPcs
<1>3. /\ nodes[n].phase \in {"dispatching", "abandoned"} /\ \A k \in Deps[n] : Done(k)
      /\ Exists(Dispatching(p)) /\ tasks[Dispatching(p)].key = nodes[n].attempt
      /\ proc[p].running < MaxParallel
  BY <1>1, <1>2 DEF TickInv, ProcOK, DispatchOK, CountOK, DispatchPcs, Attempt, Current
<1>4. ASSUME NEW phase \in {"blocked", "running"},
             Settled(p, phase, Dispatching(p), "schedule", 1)
      PROVE  OneNodeChanges(n)
  <2>1. /\ ~Done(n) /\ phase \in NodePhases \ {"pending"} /\ UNCHANGED tasks
        /\ Marked(n, phase, Dispatching(p))
    BY <1>1, <1>3, <1>4 DEF Settled, Rest, Done, NodePhases
  <2> QED
    BY <1>2, <1>3, <1>4, <2>1, MarkedKeeps
<1>5. CASE Settled(p, "blocked", Dispatching(p), "schedule", 1)
  BY <1>1, <1>4, <1>5, IdleMarkKeeps DEF DispatchPcs
<1>6. CASE Settled(p, "running", Dispatching(p), "schedule", 1)
  <2>1. ~(proc[p].running >= MaxParallel)
    BY <1>2, <1>3
  <2> QED
    BY <1>1, <1>4, <1>6, <2>1, BusyMarkKeeps DEF DispatchPcs
<1> QED
  BY <1>1, <1>5, <1>6

\* The verdict is "ready for review" only when the workflow is complete.
LEMMA VerdictIs ==
  ASSUME TypeOK, TickInv, Verdict(nodes) = "ready_for_review"
  PROVE  Complete
<1>1. /\ \A n \in Node : nodes[n].phase \in {"ready_for_review", "skipped"}
      /\ ~ResidualRisks(nodes)
  BY DEF Verdict, SuccessNodePhases
<1>2. ASSUME NEW n \in Node, nodes[n].phase = "ready_for_review", Kind[n] # "gate"
      PROVE  /\ Exists(nodes[n].task)
             /\ tasks[nodes[n].task] = [phase |-> "ready_for_review", key |-> nodes[n].attempt,
                                        receipt |-> TRUE]
  <2>1. LinkOK(n) /\ Done(n)
    BY <1>2 DEF TickInv, NodesOK, Done
  <2>2. IF Exists(nodes[n].task) THEN tasks[nodes[n].task].receipt
        ELSE ~(nodes[n].task = NoChild /\ Kind[n] # "gate")
    BY <1>1, <1>2 DEF ResidualRisks, SuccessNodePhases
  <2>3. Exists(nodes[n].task) /\ nodes[n].task # NoChild
    <3>1. Exists(nodes[n].task)
      BY <1>2, <2>1, <2>2 DEF LinkOK
    <3>2. nodes[n].task \in TaskId
      BY <3>1, TypesAre DEF Exists, TasksOK
    <3> QED
      BY <3>1, <3>2, Manifest
  <2>4. /\ tasks[nodes[n].task] \in Child
        /\ tasks[nodes[n].task].phase = "ready_for_review"
        /\ tasks[nodes[n].task].key = nodes[n].attempt
        /\ tasks[nodes[n].task].receipt
    BY <2>1, <2>2, <2>3, TypesAre DEF LinkOK, TasksOK, Exists
  <2>5. tasks[nodes[n].task].receipt = TRUE
    BY <2>4, Zenon DEF Child
  <2>6. tasks[nodes[n].task] = [phase |-> tasks[nodes[n].task].phase,
                                key |-> tasks[nodes[n].task].key,
                                receipt |-> tasks[nodes[n].task].receipt]
    BY <2>4, Zenon DEF Child
  <2> QED
    BY <2>3, <2>4, <2>5, <2>6, Zenon
<1>3. \A n \in Node : nodes[n].phase = "skipped" => n \in Partial
  BY DEF TickInv, NodesOK, LinkOK
<1> QED
  BY <1>1, <1>2, <1>3 DEF Complete

LEMMA OtherTickKeeps ==
  ASSUME OneTicker, TypeOK, TypeOK', TickInv, NEW p \in Proc,
         BeginTick(p) \/ MarkRunning(p) \/ Decide(p) \/ Close(p)
  PROVE  TickInv'
<1>1. ProcOK(p)
  BY DEF TickInv
<1> USE DEF TickPcs, ListedPcs, ListPcs, DispatchPcs
<1>2. CASE BeginTick(p)
  <2>1. /\ p \in Tickers /\ workflow \notin TerminalWorkflowPhases /\ UNCHANGED <<workflow, nodes, tasks>>
        /\ proc'[p].pc = "mark" /\ \A q \in Proc : q # p => proc'[q] = proc[q]
    BY <1>2, BeginTickIs DEF Rest, Gone
  <2>2. ProcOK(p)'
    BY <2>1 DEF ProcOK, PlaceOK, ListOK, ResetOK, DispatchOK, CountOK, VerdictOK,
                TerminalWorkflowPhases
  <2> QED
    BY <2>1, <2>2, TasksStand, NodesStand, OutsideStep
<1>3. CASE MarkRunning(p)
  <2>1. /\ proc[p].pc = "mark" /\ UNCHANGED <<nodes, tasks>> /\ workflow' = "running"
        /\ proc'[p].pc = "reconcile" /\ proc'[p].rows = nodes /\ proc'[p].at = 1
        /\ \A q \in Proc : q # p => proc'[q] = proc[q]
    BY <1>3, MarkRunningIs DEF Elsewhere
  <2>2. \A m \in Node : nodes[m].phase = "pending" => nodes[m].task = NoChild
    BY DEF TickInv, NodesOK, LinkOK
  <2>3. ProcOK(p)'
    BY <1>1, <2>1, <2>2 DEF ProcOK, PlaceOK, ListOK, ResetOK, DispatchOK, CountOK, VerdictOK
  <2> QED
    BY <2>1, <2>3, TasksStand, NodesStand, OutsideStep
<1>4. CASE Decide(p)
  <2>1. /\ proc[p].pc = "decide" /\ UNCHANGED <<workflow, nodes, tasks>>
        /\ proc'[p].pc = "close" /\ proc'[p].verdict = Verdict(nodes)
        /\ \A q \in Proc : q # p => proc'[q] = proc[q]
    BY <1>4, DecideIs DEF Rest
  <2>2. Verdict(nodes) = "ready_for_review" => Complete'
    BY <2>1, VerdictIs DEF Complete, Exists
  <2>3. ProcOK(p)'
    BY <1>1, <2>1, <2>2 DEF ProcOK, PlaceOK, ListOK, ResetOK, DispatchOK, CountOK, VerdictOK
  <2> QED
    BY <2>1, <2>3, TasksStand, NodesStand, OutsideStep
<1>5. CASE Close(p)
  <2>1. /\ proc[p].pc = "close" /\ UNCHANGED <<nodes, tasks>> /\ workflow' = proc[p].verdict
        /\ proc'[p].pc = "idle" /\ \A q \in Proc : q # p => proc'[q] = proc[q]
    BY <1>5, CloseIs DEF Elsewhere
  <2>2. workflow' = "ready_for_review" => Complete
    BY <1>1, <2>1 DEF ProcOK, VerdictOK
  <2>3. p \in Tickers
    BY <1>1, <2>1 DEF ProcOK, PlaceOK
  <2>4. \A q \in Proc : q # p => proc[q].pc \notin TickPcs
    BY <2>3, OthersElsewhere
  <2>5. ProcOK(p)'
    BY <2>1, LeaverKeeps
  <2> QED
    BY <2>1, <2>2, <2>4, <2>5, TasksStand, NodesStand, OutsideStep
<1> QED
  BY <1>2, <1>3, <1>4, <1>5

LEMMA TickInvStep ==
  ASSUME OneTicker, TypeOK, TypeOK', TickInv, Next
  PROVE  TickInv'
<1>1. ASSUME NEW p \in Proc, TickStep(p)
      PROVE  TickInv'
  BY <1>1, OtherTickKeeps, ReconcileKeeps, ResetKeeps, ScheduleKeeps, MarkDispatchingKeeps,
     CreateKeeps, DispatchKeeps, DispatchEndKeeps DEF TickStep
<1>2. ASSUME NEW p \in Proc, CancelStep(p) \/ Crash(p)
      PROVE  TickInv'
  BY <1>2, CancelKeeps
<1>3. ASSUME NEW p \in Proc, RetryStep(p)
      PROVE  TickInv'
  BY <1>3, BeginRetryIs, RetryResetIs, ReopenIs DEF RetryStep, OneTicker
<1> QED
  BY <1>1, <1>2, <1>3, ChildEndKeeps DEF Next

LEMMA TickInvInit ==
  ASSUME Init
  PROVE  TickInv
<1>1. /\ \A n \in Node : nodes[n] = FreshNode
      /\ \A p \in Proc : proc[p].pc = "idle"
      /\ DOMAIN tasks = {} /\ workflow = "new"
  BY DEF Init, FreshNodes, Idle
<1>2. NodesOK
  BY <1>1, Manifest DEF NodesOK, LinkOK, StartOK, BudgetOK, Started, FreshNode
<1>3. ParallelLimit
  <2>1. Busy = {}
    BY <1>1 DEF Busy, FreshNode
  <2>2. Cardinality(Busy) = 0
    BY <2>1, FS_EmptySet
  <2> QED
    BY <2>2, Manifest DEF ParallelLimit, Busy
<1>4. \A p \in Proc : ProcOK(p)
  BY <1>1 DEF ProcOK, PlaceOK, ListOK, ResetOK, DispatchOK, CountOK, VerdictOK, TickPcs, ListedPcs,
              ListPcs, DispatchPcs
<1>5. ChildrenOK
  BY <1>1 DEF ChildrenOK
<1> QED
  BY <1>1, <1>2, <1>3, <1>4, <1>5 DEF TickInv

LEMMA TickInvStutter ==
  ASSUME TypeOK, TickInv, UNCHANGED vars
  PROVE  TickInv'
<1>1. UNCHANGED <<workflow, nodes, tasks, proc>> /\ TypeOK'
  BY TypeStutter DEF vars
<1>2. NodesAlmostSame /\ TasksGrow /\ SuccessesStand /\ ChildrenOK'
  BY <1>1, NodesStand, TasksStand
<1>3. NodesOK' /\ ParallelLimit' /\ (Complete => Complete')
  BY <1>2, NodesKeep
<1>4. \A q \in Proc : ProcOK(q)'
  BY <1>1, <1>2, <1>3, BystanderKeeps
<1> QED
  BY <1>1, <1>2, <1>3, <1>4 DEF TickInv

\* While one process ticks and no node is retried by hand, with any number of
\* cancels, crashes and children that end meanwhile: what a tick works from is
\* never so old that it matters.
THEOREM TickInvariant ==
  ASSUME OneTicker
  PROVE  Spec => [](TypeOK /\ TickInv)
<1>1. TypeOK /\ TickInv /\ [Next]_vars => TypeOK' /\ TickInv'
  BY TypeStep, TypeStutter, TickInvStep, TickInvStutter
<1> QED
  BY InitTypes, TickInvInit, <1>1, PTL DEF Spec

\* A node that has got a child, or succeeded, did so after everything it
\* depends on, for every manifest.
THEOREM DependenciesComeFirst ==
  ASSUME OneTicker
  PROVE  Spec => []DependenciesFirst
<1>1. TickInv => DependenciesFirst
  BY DEF TickInv, NodesOK, StartOK, Started, Done, DependenciesFirst
<1> QED
  BY TickInvariant, <1>1, PTL

\* No more nodes are under way than max_parallel_tasks allows, and no node is
\* retried more often than max_retries allows, although a tick counts the nodes
\* under way once and then dispatches from a list.
THEOREM LimitsHold ==
  ASSUME OneTicker
  PROVE  Spec => []WithinLimits
<1>1. TickInv => WithinLimits
  BY DEF TickInv, NodesOK, BudgetOK, WithinLimits, RetryBudget
<1> QED
  BY TickInvariant, <1>1, PTL

\* A workflow that is ready for review is complete, although the phases of its
\* nodes and children are read in several transactions before the verdict is
\* written.
THEOREM ReviewsAreComplete ==
  ASSUME OneTicker
  PROVE  Spec => []ReviewIsComplete
<1>1. TickInv => ReviewIsComplete
  BY DEF TickInv, Complete, ReviewIsComplete
<1> QED
  BY TickInvariant, <1>1, PTL
=============================================================================
