------------------------- MODULE WorkflowScheduler -------------------------
(***************************************************************************)
(* One agpair workflow: its row, the rows of its nodes, the child tasks of *)
(* the nodes, and the processes that work on them.  These are the daemon,  *)
(* `workflow start --wait` and `workflow status --tick`, which all run     *)
(* WorkflowScheduler.tick, `workflow retry-node`, and `workflow cancel`.   *)
(*                                                                         *)
(* Nothing serialises them.  A tick works from lists of rows it has read   *)
(* earlier and every UPDATE of src/agpair/workflows/store.py overwrites    *)
(* the phase without looking at it.  One action is one commit or one       *)
(* executor call, together with the reads that directly precede it;        *)
(* everything a process carries over to the next action may be stale.      *)
(*                                                                         *)
(* Children run on local CLI executors; a child that goes over the agent   *)
(* bus stays new until its ACK comes back.                                 *)
(***************************************************************************)
EXTENDS Integers, FiniteSets

CONSTANTS
  NodeCount,    \* the nodes are numbered in the order of their node_id
  Kind,         \* [Node -> NodeKinds]
  Deps,         \* [Node -> SUBSET Node], depends_on
  Partial,      \* the nodes with allow_partial
  MaxRetries,   \* [Node -> Nat], max_retries
  LongNames,    \* nodes whose id fills the 120 characters of a task id
  MaxParallel,  \* max_parallel_tasks
  Tickers,      \* processes that tick
  DryTickers,   \* those of them that run with --no-dispatch
  Cancelers,    \* `workflow cancel`
  Retriers,     \* `workflow retry-node`
  Outcomes,     \* how a child may end, see ChildEnds
  Events,       \* what may go wrong: dispatch_error, no_executor
  MaxAttempts,  \* bound: nobody runs retry-node past that attempt
  MaxCrashes    \* bound on the crashes

Node == 1 .. NodeCount
NodeKinds == {"task", "synthesis", "verification", "gate"}
Proc == Tickers \cup Cancelers \cup Retriers

(* What validate_manifest guarantees; the acyclicity is in the order.      *)
ASSUME ManifestAssumption ==
  /\ NodeCount \in Nat \ {0}
  /\ Kind \in [Node -> NodeKinds]
  /\ Deps \in [Node -> SUBSET Node]
  /\ Partial \subseteq Node /\ LongNames \subseteq Node
  /\ MaxRetries \in [Node -> Nat]
  /\ MaxParallel \in Nat \ {0}
(* Every process runs one command.                                         *)
ASSUME InstanceAssumption ==
  /\ DryTickers \subseteq Tickers
  /\ Tickers \cap Cancelers = {} /\ Tickers \cap Retriers = {} /\ Cancelers \cap Retriers = {}
  /\ Outcomes \subseteq {"receipt", "no_receipt", "blocked", "stuck", "abandoned"}
  /\ MaxCrashes \in Nat
  /\ MaxAttempts \in Nat /\ \A n \in Node : MaxRetries[n] <= MaxAttempts

WorkflowPhases == {"new", "running", "ready_for_review", "blocked", "stuck", "abandoned"}
TerminalWorkflowPhases == {"ready_for_review", "blocked", "stuck", "abandoned"}
NodePhases == {"pending", "dispatching", "running", "ready_for_review", "blocked", "stuck",
               "skipped", "abandoned"}
SuccessNodePhases == {"ready_for_review"}
FailedNodePhases == {"blocked", "stuck", "abandoned"}
ActiveNodePhases == {"pending", "dispatching", "running"}

(* The child task of an attempt: _child_task_id cuts the id at 120         *)
(* characters, so that a long name loses the attempt at its end.           *)
ChildId(n, a) == <<n, IF n \in LongNames THEN 0 ELSE a>>
TaskId == Node \X Nat
NoChild == <<0, 0>>

Store == INSTANCE TaskStore WITH Task <- TaskId

VARIABLES
  workflow, \* phase of the workflows row
  nodes,    \* the workflow_nodes rows
  tasks,    \* the child tasks: [task id -> Child], those that were created
  launched, \* how many executor sessions were started for each attempt (history)
  proc,     \* what each process is in the middle of
  crashes   \* how often a process was killed

vars == <<workflow, nodes, tasks, launched, proc, crashes>>

(* key is the attempt named by the idempotency key, receipt whether the    *)
(* task has a receipt artifact.                                            *)
Child == [phase : Store!Phases, key : Nat, receipt : BOOLEAN]

(* result is what kind of JSON result_json holds: the paths that           *)
(* reconciliation writes, what a gate writes, or a synthesis result.       *)
NodeRow == [phase : NodePhases, attempt : Nat, task : TaskId \cup {NoChild},
            result : {"none", "paths", "gate", "synthesis"}]

FreshNode == [phase |-> "pending", attempt |-> 0, task |-> NoChild, result |-> "none"]
FreshNodes == [n \in Node |-> FreshNode]

(* rows is the list of nodes the process works from, at the one it has got *)
(* to, round which of the two reconciliations of a tick it is in.          *)
Idle == [pc |-> "idle", round |-> 1, rows |-> FreshNodes, at |-> 1, running |-> 0,
         attempt |-> 0, verdict |-> "new"]

Pcs == {"idle", "mark", "reconcile", "reset", "schedule", "create", "launch", "ack", "fail",
        "failed", "link", "decide", "close", "abandon", "sweep", "seal", "reopen"}

TypeOK ==
  /\ workflow \in WorkflowPhases
  /\ nodes \in [Node -> NodeRow]
  /\ DOMAIN tasks \subseteq TaskId /\ \A id \in DOMAIN tasks : tasks[id] \in Child
  /\ launched \in [Node \X (0 .. MaxAttempts + 1) -> Nat]
  /\ proc \in [Proc -> [pc : Pcs, round : {1, 2}, rows : [Node -> NodeRow],
                        at : Node, running : Nat, attempt : Nat,
                        verdict : WorkflowPhases]]
  /\ crashes \in 0 .. MaxCrashes

(* create_workflow: all rows in one transaction.                           *)
Init ==
  /\ workflow = "new"
  /\ nodes = FreshNodes
  /\ tasks = [id \in {} |-> [phase |-> "new", key |-> 0, receipt |-> FALSE]]
  /\ launched = [a \in Node \X (0 .. MaxAttempts + 1) |-> 0]
  /\ proc = [p \in Proc |-> Idle]
  /\ crashes = 0

-----------------------------------------------------------------------------
(* The store.                                                              *)

At(p, pc) == proc[p].pc = pc
Current(p) == proc[p].at
Goto(p, pc) == proc' = [proc EXCEPT ![p].pc = pc]

(* mark_node_phase: COALESCE keeps the task and the result it is not given.*)
MarkNode(n, phase, task, result) ==
  LET row == nodes[n] IN
  nodes' = [nodes EXCEPT ![n] =
              [row EXCEPT !.phase = phase,
                          !.task = IF task = NoChild THEN row.task ELSE task,
                          !.result = IF result = "none" THEN row.result ELSE result]]

(* Mutant: the attempt is not counted, so the old child is found again.    *)
SameAttempt(n, attempt) == [FreshNode EXCEPT !.attempt = attempt]

(* reset_node_for_retry, after it has read the attempt.                    *)
NextAttempt(n, attempt) == [FreshNode EXCEPT !.attempt = attempt + 1]

(* get_task_by_idempotency_key.                                            *)
ChildrenByKey(n, a) == {id \in DOMAIN tasks : id[1] = n /\ tasks[id].key = a}

Exists(id) == id \in DOMAIN tasks
ChildPhase(id) == IF Exists(id) THEN tasks[id].phase ELSE "none"

(* A repository call that moves a task: its check, then its UPDATE.  What  *)
(* may happen between the two is the subject of TaskLifecycle.             *)
Legal(id, target) == Exists(id) /\ tasks[id].phase \in Store!ValidSources(target)
MoveTask(id, target) == tasks' = [tasks EXCEPT ![id].phase = target]

-----------------------------------------------------------------------------
(* The evidence pack: what build_workflow_evidence_pack finds in rows.     *)

(* _extract_synthesis_result reads the result_json of synthesis nodes.  No *)
(* action of the model writes one, because nothing in the code does.       *)
HasSynthesis(rows) ==
  \E n \in Node : Kind[n] = "synthesis" /\ rows[n].result = "synthesis"

(* Mutant: a node that has no receipt is no risk.                          *)
RisksOfSynthesisOnly(rows) ==
  (\E n \in Node : Kind[n] = "synthesis") /\ ~HasSynthesis(rows)

ResidualRisks(rows) ==
  \/ \E n \in Node :
       /\ rows[n].phase \in SuccessNodePhases
       /\ IF Exists(rows[n].task) THEN ~tasks[rows[n].task].receipt
          ELSE rows[n].task = NoChild /\ Kind[n] # "gate"
  \/ (\E n \in Node : Kind[n] = "synthesis") /\ ~HasSynthesis(rows)

-----------------------------------------------------------------------------
(* WorkflowScheduler.tick.                                                 *)

(* Mutant: a node that is being dispatched does not count.                 *)
InFlightLinked(rows) == Cardinality({n \in Node : rows[n].phase = "running"})

InFlight(rows) == Cardinality({n \in Node : rows[n].phase \in {"dispatching", "running"}})

Restart(r, stage, rows) == [r EXCEPT !.pc = stage, !.rows = rows, !.at = 1]

(* Mutant: one node more than there are.                                   *)
OnwardTooFar(r, rows) ==
  IF r.at <= NodeCount THEN [r EXCEPT !.at = @ + 1] ELSE [Idle EXCEPT !.pc = "decide"]

(* The process has dealt with the node it is at.  Behind the last node the *)
(* first reconciliation is followed by the scheduling of the nodes as they *)
(* are now, that by the second reconciliation, and that by the verdict.    *)
Onward(r, rows) ==
  IF r.at < NodeCount THEN [r EXCEPT !.at = @ + 1]
  ELSE CASE r.pc = "schedule" -> [Restart(r, "reconcile", rows) EXCEPT !.round = 2, !.running = 0]
         [] r.pc = "reconcile" /\ r.round = 1 ->
              [Restart(r, "schedule", rows) EXCEPT !.running = InFlight(rows)]
         [] r.pc = "reconcile" /\ r.round = 2 -> [Idle EXCEPT !.pc = "decide"]

(* The same after some steps at other places on behalf of the stage.       *)
Resume(p, stage, started) ==
  LET r == proc[p] IN
  proc' = [proc EXCEPT ![p] =
             Onward([r EXCEPT !.pc = stage, !.running = r.running + started, !.attempt = 0], nodes')]

BeginTick(p) ==
  /\ p \in Tickers /\ At(p, "idle")
  /\ workflow \notin TerminalWorkflowPhases
  /\ Goto(p, "mark")
  /\ UNCHANGED <<workflow, nodes, tasks, launched, crashes>>

(* mark_workflow_phase overwrites whatever the phase has become.           *)
MarkRunning(p) ==
  /\ At(p, "mark")
  /\ workflow' = "running"
  /\ proc' = [proc EXCEPT ![p] = Restart(@, "reconcile", nodes)]
  /\ UNCHANGED <<nodes, tasks, launched, crashes>>

RetriesLeft(n, row) == row.attempt < MaxRetries[n]

(* _reconcile_node_tasks, for one row of the list.                         *)
ReconcileNode(p) ==
  LET n == Current(p)
      row == proc[p].rows[n]
      id == row.task IN
  /\ At(p, "reconcile")
  /\ \/ /\ ChildPhase(id) \in {"none", "new", "acked"}
        /\ UNCHANGED nodes
        /\ Resume(p, "reconcile", 0)
     \/ /\ ChildPhase(id) \in Store!SuccessPhases
        /\ MarkNode(n, "ready_for_review", id, "paths")
        /\ Resume(p, "reconcile", 0)
     \/ /\ ChildPhase(id) = "blocked"
        /\ MarkNode(n, IF n \in Partial THEN "skipped" ELSE "blocked", id, "none")
        /\ Resume(p, "reconcile", 0)
     \/ /\ ChildPhase(id) = "stuck" /\ RetriesLeft(n, row)
        /\ proc' = [proc EXCEPT ![p] = [@ EXCEPT !.pc = "reset", !.attempt = nodes[n].attempt]]
        /\ UNCHANGED nodes
     \/ /\ ChildPhase(id) = "stuck" /\ ~RetriesLeft(n, row)
        /\ MarkNode(n, "stuck", id, "none")
        /\ Resume(p, "reconcile", 0)
     \/ /\ ChildPhase(id) = "abandoned"
        /\ MarkNode(n, "abandoned", id, "none")
        /\ Resume(p, "reconcile", 0)
  /\ UNCHANGED <<workflow, tasks, launched, crashes>>

ResetNode(p) ==
  /\ At(p, "reset") /\ p \in Tickers
  /\ proc[p].attempt <= MaxAttempts
  /\ nodes' = [nodes EXCEPT ![Current(p)] = NextAttempt(Current(p), proc[p].attempt)]
  /\ Resume(p, "reconcile", 0)
  /\ UNCHANGED <<workflow, tasks, launched, crashes>>

(* Mutant: one dependency that succeeded is enough.                        *)
SomeDependencyReady(n, rows) ==
  Deps[n] # {} => \E d \in Deps[n] : rows[d].phase \in SuccessNodePhases

DependenciesReady(n, rows) == \A d \in Deps[n] : rows[d].phase \in SuccessNodePhases

DependenciesFailed(n, rows) == \E d \in Deps[n] : rows[d].phase \in FailedNodePhases

(* Rows that are passed over: not pending, or the dependencies are neither *)
(* ready nor failed, or max_parallel_tasks are under way.                  *)
PassedOver(p) ==
  LET n == Current(p)
      rows == proc[p].rows IN
  \/ rows[n].phase # "pending"
  \/ ~DependenciesReady(n, rows) /\ ~DependenciesFailed(n, rows)
  \/ DependenciesReady(n, rows) /\ Kind[n] # "gate" /\ proc[p].running >= MaxParallel

PassOver(p) ==
  /\ At(p, "schedule") /\ PassedOver(p)
  /\ UNCHANGED nodes
  /\ Resume(p, "schedule", 0)
  /\ UNCHANGED <<workflow, tasks, launched, crashes>>

BlockOnDependency(p) ==
  /\ At(p, "schedule") /\ ~PassedOver(p)
  /\ ~DependenciesReady(Current(p), proc[p].rows)
  /\ MarkNode(Current(p), "blocked", NoChild, "none")
  /\ Resume(p, "schedule", 0)
  /\ UNCHANGED <<workflow, tasks, launched, crashes>>

(* _run_gate_node reads the nodes again.  A hard blocker of the panel is a *)
(* matter of what the lanes reported and may be there or not.              *)
RunGate(p) ==
  LET gate == Current(p)
      required == {n \in Node \ {gate} : n \notin Partial}
      synthesis == \E n \in required : Kind[n] = "synthesis" IN
  /\ At(p, "schedule") /\ ~PassedOver(p)
  /\ DependenciesReady(gate, proc[p].rows) /\ Kind[gate] = "gate"
  /\ \/ /\ \E n \in required : nodes[n].phase \in FailedNodePhases
        /\ MarkNode(gate, "blocked", NoChild, "none")
     \/ /\ \A n \in required : nodes[n].phase \notin FailedNodePhases
        /\ \E n \in required : nodes[n].phase \notin SuccessNodePhases
        /\ UNCHANGED nodes
     \/ /\ \A n \in required : nodes[n].phase \in SuccessNodePhases
        /\ synthesis   \* missing synthesis result, or panel hard blockers
        /\ MarkNode(gate, "blocked", NoChild, "none")
     \/ /\ \A n \in required : nodes[n].phase \in SuccessNodePhases
        /\ synthesis => HasSynthesis(nodes)
        /\ MarkNode(gate, "ready_for_review", NoChild, "gate")
  /\ Resume(p, "schedule", 0)
  /\ UNCHANGED <<workflow, tasks, launched, crashes>>

(* The node is to get a child.                                             *)
Runnable(p) ==
  /\ At(p, "schedule") /\ ~PassedOver(p)
  /\ DependenciesReady(Current(p), proc[p].rows) /\ Kind[Current(p)] # "gate"

MarkOnly(p) ==
  /\ Runnable(p) /\ p \in DryTickers
  /\ MarkNode(Current(p), "dispatching", NoChild, "none")
  /\ Resume(p, "schedule", 1)
  /\ UNCHANGED <<workflow, tasks, launched, crashes>>

(* _dispatch_node.  The policy may have no executor to offer.              *)
NoExecutor(p) ==
  /\ Runnable(p) /\ p \notin DryTickers /\ "no_executor" \in Events
  /\ MarkNode(Current(p), "blocked", NoChild, "none")
  /\ Resume(p, "schedule", 1)
  /\ UNCHANGED <<workflow, tasks, launched, crashes>>

MarkDispatching(p) ==
  /\ Runnable(p) /\ p \notin DryTickers
  /\ MarkNode(Current(p), "dispatching", NoChild, "none")
  /\ Goto(p, "create")
  /\ UNCHANGED <<workflow, tasks, launched, crashes>>

(* The attempt and the child the process is dispatching.                   *)
Attempt(p) == proc[p].rows[Current(p)].attempt
Dispatching(p) == ChildId(Current(p), Attempt(p))

(* A child that is there for this attempt is taken over; a child of        *)
(* another attempt that has the same id is a collision.                    *)
CreateTask(p) ==
  LET n == Current(p)
      found == ChildrenByKey(n, Attempt(p)) IN
  /\ At(p, "create")
  /\ \/ /\ found # {}
        /\ Goto(p, IF \E id \in found : tasks[id].phase = "new" THEN "launch" ELSE "link")
        /\ UNCHANGED <<nodes, tasks>>
     \/ /\ found = {} /\ Exists(Dispatching(p))
        /\ MarkNode(n, "blocked", NoChild, "none")
        /\ Resume(p, "schedule", 1)
        /\ UNCHANGED tasks
     \/ /\ found = {} /\ ~Exists(Dispatching(p))
        /\ tasks' = [id \in DOMAIN tasks \cup {Dispatching(p)} |->
                       IF Exists(id) THEN tasks[id]
                       ELSE [phase |-> "new", key |-> Attempt(p), receipt |-> FALSE]]
        /\ Goto(p, "launch")
        /\ UNCHANGED nodes
  /\ UNCHANGED <<workflow, launched, crashes>>

(* exec_instance.dispatch.                                                 *)
Launch(p) ==
  /\ At(p, "launch")
  /\ \/ /\ launched' = [launched EXCEPT ![<<Current(p), Attempt(p)>>] = @ + 1]
        /\ Goto(p, "ack")
     \/ /\ "dispatch_error" \in Events
        /\ Goto(p, "fail")
        /\ UNCHANGED launched
  /\ UNCHANGED <<workflow, nodes, tasks, crashes>>

(* An IllegalTransitionError is a RuntimeError and caught as a failure of  *)
(* the dispatch.                                                           *)
AckTask(p) ==
  /\ At(p, "ack")
  /\ \/ /\ Legal(Dispatching(p), "acked")
        /\ MoveTask(Dispatching(p), "acked")
        /\ Goto(p, "link")
     \/ /\ ~Legal(Dispatching(p), "acked")
        /\ Goto(p, "fail")
        /\ UNCHANGED tasks
  /\ UNCHANGED <<workflow, nodes, launched, crashes>>

(* mark_blocked in the handler; when that is illegal too, the tick ends.   *)
FailTask(p) ==
  /\ At(p, "fail")
  /\ \/ /\ Legal(Dispatching(p), "blocked")
        /\ MoveTask(Dispatching(p), "blocked")
        /\ Goto(p, "failed")
     \/ /\ ~Legal(Dispatching(p), "blocked")
        /\ proc' = [proc EXCEPT ![p] = Idle]
        /\ UNCHANGED tasks
  /\ UNCHANGED <<workflow, nodes, launched, crashes>>

FailNode(p) ==
  /\ At(p, "failed")
  /\ MarkNode(Current(p), "blocked", Dispatching(p), "none")
  /\ Resume(p, "schedule", 1)
  /\ UNCHANGED <<workflow, tasks, launched, crashes>>

LinkNode(p) ==
  /\ At(p, "link")
  /\ MarkNode(Current(p), "running", Dispatching(p), "none")
  /\ Resume(p, "schedule", 1)
  /\ UNCHANGED <<workflow, tasks, launched, crashes>>

(* _finalize_workflow_if_terminal: the verdict on a list of nodes.         *)
Verdict(rows) ==
  CASE \E n \in Node : rows[n].phase = "stuck" -> "stuck"
    [] \E n \in Node : rows[n].phase \in {"blocked", "abandoned"} -> "blocked"
    [] \A n \in Node : rows[n].phase \in SuccessNodePhases \cup {"skipped"} ->
         IF ResidualRisks(rows) THEN "blocked" ELSE "ready_for_review"
    [] OTHER -> "running"

Decide(p) ==
  /\ At(p, "decide")
  /\ proc' = [proc EXCEPT ![p] = [Idle EXCEPT !.pc = "close", !.verdict = Verdict(nodes)]]
  /\ UNCHANGED <<workflow, nodes, tasks, launched, crashes>>

(* persist_workflow_evidence_pack and mark_workflow_phase write the same   *)
(* phase one after the other, again over whatever is there.                *)
Close(p) ==
  /\ At(p, "close")
  /\ workflow' = proc[p].verdict
  /\ proc' = [proc EXCEPT ![p] = Idle]
  /\ UNCHANGED <<nodes, tasks, launched, crashes>>

-----------------------------------------------------------------------------
(* `workflow cancel`.                                                      *)

BeginCancel(p) ==
  /\ p \in Cancelers /\ At(p, "idle")
  /\ workflow \notin TerminalWorkflowPhases
  /\ proc' = [proc EXCEPT ![p] = Restart(@, "abandon", nodes)]
  /\ UNCHANGED <<workflow, nodes, tasks, launched, crashes>>

(* For a listed active node whose child is new or acked: the executor is   *)
(* told to stop and the child is abandoned.                                *)
AbandonChild(p) ==
  LET r == proc[p]
      row == r.rows[r.at] IN
  /\ At(p, "abandon")
  /\ IF /\ row.phase \in ActiveNodePhases
        /\ ChildPhase(row.task) \in {"new", "acked"}
     THEN MoveTask(row.task, "abandoned") ELSE UNCHANGED tasks
  /\ proc' = [proc EXCEPT ![p] = IF r.at < NodeCount THEN [r EXCEPT !.at = r.at + 1]
                                 ELSE [Idle EXCEPT !.pc = "sweep"]]
  /\ UNCHANGED <<workflow, nodes, launched, crashes>>

CancelActiveNodes(p) ==
  /\ At(p, "sweep")
  /\ nodes' = [n \in Node |-> IF nodes[n].phase \in ActiveNodePhases
                              THEN [nodes[n] EXCEPT !.phase = "abandoned"] ELSE nodes[n]]
  /\ Goto(p, "seal")
  /\ UNCHANGED <<workflow, tasks, launched, crashes>>

SealCancel(p) ==
  /\ At(p, "seal")
  /\ workflow' = "abandoned"
  /\ proc' = [proc EXCEPT ![p] = Idle]
  /\ UNCHANGED <<nodes, tasks, launched, crashes>>

-----------------------------------------------------------------------------
(* `workflow retry-node`, whatever the phase of the node: it reads the     *)
(* attempt, resets the node, and reopens the workflow.  The tick that      *)
(* follows is a tick of its own.                                           *)

BeginRetry(p) ==
  /\ p \in Retriers /\ At(p, "idle")
  /\ \E n \in Node :
       /\ nodes[n].attempt < MaxAttempts
       /\ proc' = [proc EXCEPT ![p] = [Idle EXCEPT !.pc = "reset", !.at = n,
                                                   !.attempt = nodes[n].attempt]]
  /\ UNCHANGED <<workflow, nodes, tasks, launched, crashes>>

RetryReset(p) ==
  /\ At(p, "reset") /\ p \in Retriers
  /\ nodes' = [nodes EXCEPT ![Current(p)] = NextAttempt(Current(p), proc[p].attempt)]
  /\ proc' = [proc EXCEPT ![p] = [Idle EXCEPT !.pc = "reopen"]]
  /\ UNCHANGED <<workflow, tasks, launched, crashes>>

Reopen(p) ==
  /\ At(p, "reopen") /\ p \in Retriers
  /\ workflow' = "running"
  /\ proc' = [proc EXCEPT ![p] = Idle]
  /\ UNCHANGED <<nodes, tasks, launched, crashes>>

-----------------------------------------------------------------------------
(* What goes on around the scheduler.                                      *)

(* The life of a child is the business of TaskLifecycle: an acked one ends *)
(* with or without a receipt artifact, or the user abandons it.            *)
ChildEnds(id) ==
  /\ Exists(id) /\ tasks[id].phase = "acked"
  /\ \E o \in Outcomes :
       tasks' = [tasks EXCEPT ![id] =
                   IF o \in {"receipt", "no_receipt"}
                   THEN [@ EXCEPT !.phase = "ready_for_review", !.receipt = (o = "receipt")]
                   ELSE [@ EXCEPT !.phase = o]]
  /\ UNCHANGED <<workflow, nodes, launched, proc, crashes>>

Crash(p) ==
  /\ crashes < MaxCrashes /\ ~At(p, "idle")
  /\ crashes' = crashes + 1
  /\ proc' = [proc EXCEPT ![p] = Idle]
  /\ UNCHANGED <<workflow, nodes, tasks, launched>>

TickStep(p) ==
  \/ BeginTick(p) \/ MarkRunning(p) \/ ReconcileNode(p) \/ ResetNode(p)
  \/ PassOver(p) \/ BlockOnDependency(p) \/ RunGate(p)
  \/ MarkOnly(p) \/ NoExecutor(p) \/ MarkDispatching(p) \/ CreateTask(p)
  \/ Launch(p) \/ AckTask(p) \/ FailTask(p) \/ FailNode(p) \/ LinkNode(p)
  \/ Decide(p) \/ Close(p)

CancelStep(p) ==
  BeginCancel(p) \/ AbandonChild(p) \/ CancelActiveNodes(p) \/ SealCancel(p)

RetryStep(p) == BeginRetry(p) \/ RetryReset(p) \/ Reopen(p)

SomeChildEnds == \E id \in DOMAIN tasks : ChildEnds(id)

Next ==
  \/ \E p \in Proc : TickStep(p) \/ CancelStep(p) \/ RetryStep(p) \/ Crash(p)
  \/ SomeChildEnds

Spec == Init /\ [][Next]_vars

(* The daemon ticks every running workflow in every round of its loop, and *)
(* an acked task ends (AckedEnds of TaskLifecycle).                        *)
FairSpec ==
  /\ Spec
  /\ \A p \in Tickers : WF_vars(TickStep(p))
  /\ WF_vars(SomeChildEnds)

-----------------------------------------------------------------------------
(* Properties.                                                             *)

(* No attempt of a node has two executor sessions, whoever crashes, ticks  *)
(* with --no-dispatch or retries nodes in between: the idempotency key of  *)
(* workflow, node and attempt is there to make dispatching again harmless. *)
(* It is so only as long as one process dispatches and one resets nodes: a *)
(* reset that read the attempt before somebody else's reset and dispatch   *)
(* names that attempt again.                                               *)
OneDispatchPerAttempt == \A a \in DOMAIN launched : launched[a] <= 1

(* A node that has got a child, or succeeded, did so after everything it   *)
(* depends on.                                                             *)
DependenciesFirst ==
  \A n \in Node :
    nodes[n].phase \in {"dispatching", "running", "ready_for_review", "skipped", "stuck"}
      => \A d \in Deps[n] : nodes[d].phase = "ready_for_review"

(* No more nodes are under way than max_parallel_tasks allows.             *)
ParallelLimit ==
  Cardinality({n \in Node : nodes[n].phase \in {"dispatching", "running"}}) <= MaxParallel

(* A node is retried no more than max_retries times, and when it is stuck  *)
(* it has used them up.                                                    *)
RetryBudget ==
  \A n \in Node :
    /\ nodes[n].attempt <= MaxRetries[n]
    /\ nodes[n].phase = "stuck" => nodes[n].attempt = MaxRetries[n]

(* Whoever ticks, cancels or crashes meanwhile, the limits of the manifest *)
(* hold.                                                                   *)
WithinLimits == ParallelLimit /\ RetryBudget

(* A workflow that is ready for review is complete: every node succeeded   *)
(* or was allowed to fail, and every child behind a success left a receipt *)
(* that is still the one the node points to.                               *)
ReviewIsComplete ==
  workflow = "ready_for_review" =>
    \A n \in Node :
      /\ nodes[n].phase = "ready_for_review" \/ (nodes[n].phase = "skipped" /\ n \in Partial)
      /\ nodes[n].phase = "ready_for_review" /\ Kind[n] # "gate" =>
           /\ Exists(nodes[n].task)
           /\ tasks[nodes[n].task] = [phase |-> "ready_for_review", key |-> nodes[n].attempt,
                                      receipt |-> TRUE]

(* Nodes that no tick will ever look at again: left in dispatching without *)
(* a task, or waiting for a node that was skipped.                         *)
Stranded(n) == nodes[n].phase = "dispatching" /\ nodes[n].task = NoChild
WaitsForSkipped(n) ==
  nodes[n].phase = "pending" /\ \E d \in Deps[n] : nodes[d].phase = "skipped"

(* A workflow ends, and the only things that can keep it from ending are a *)
(* node that a crash left in dispatching and a node that was skipped.      *)
WorkflowEnds ==
  <>[](\/ workflow \in TerminalWorkflowPhases
       \/ \E n \in Node : Stranded(n) \/ WaitsForSkipped(n))
=============================================================================
