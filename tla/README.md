# agpair: TLA+ models

agpair delegates coding tasks to command line agents. A controller runs `agpair
task start`, a local executor works in a session directory (and usually a git
worktree) of its own, and a daemon collects receipts, advances dependent tasks
and workflows and times silent tasks out. Tasks may also go over a relay
database to an editor, where a companion extension runs them. All of them are
separate operating system processes that meet in SQLite files, session
directories and a repository; nothing else serialises them.

This directory models that system in TLA+, checks small instances with TLC and
proves the invariants of its parts for every instance with TLAPS.

## Inventory

| component | state | operations | talks to | module |
|---|---|---|---|---|
| task store (`storage/`) | tables tasks, task_attempts, receipts, waiters | one `mark_*` per phase, `apply_retry_dispatch`, `record_attempt_terminal`, `recommend_retry`, `clear_session_id` | called by all; every writer is a read-and-check followed by an UPDATE on another connection | `TaskStore`, `TaskLifecycle` |
| task commands (`cli/task.py`, `cli/wait.py`) | none of their own | start, wait, retry, abandon, accept, adopt, diff, apply, status, watch | store, executor, repository | `TaskLifecycle`, `TaskOutcome`, `TaskWatch` |
| liveness and wait budgets (`runtime_liveness.py`, `wait_budget.py`) | ages in the tasks row | classify, recommend, resolve a budget | waits, guards of retry and abandon, status, watchdog | `TaskWatch` |
| daemon tick (`daemon/loop.py`) | what it listed this tick | ingest, scan, advance, auto-close, workflows, watchdog, budget, stuck, sweep, cleanup | store, executor, agent bus, git | `TaskLifecycle`, `AgentBus`, `WorkflowScheduler` |
| local CLI executor (`executors/local_cli.py`) | session directory: state.json, rc.txt, logs, receipt; worktree | dispatch, poll, cancel, cleanup | a detached runner process | `TaskLifecycle`, `TaskOutcome` |
| terminal receipts (`task_terminal.py`, `terminal_*.py`) | artifacts | finalize: validate, decide, archive, set the phase, set the attempt | store | order in `TaskLifecycle`, content in `OutcomeRules` |
| decisions (`completion.py`, `recovery.py`, `adoption.py`) | none | pure functions of receipts, policies and artifacts | finalize, status, apply | `OutcomeRules` |
| worktrees (`worktree_adoption.py`, `executors/local_cli.py`) | a checkout per task | create, snapshot, baseline, diff, apply, clean up | repository, user | `TaskOutcome` |
| workflow scheduler (`workflows/`) | workflows and nodes tables | tick, cancel, retry-node, gate, reconcile, finalize | store, executor, daemon | `WorkflowScheduler` |
| agent bus (`cli/agent_bus.py`) | table messages with read marks and claims | send, fetch, reserve, settle, pull, watch, ack | daemon and companion extension | `MessageQueue`, `AgentBus` |
| companion extension: delegation | tracker of tasks on disk, receipt files | take TASK, register, ACK and replay, poll, recover, deliver | agent bus, editor sessions | `Delegation` |
| companion extension: bridge, sessions, monitor | HTTP and editor state | start, inject, list | editor | not modelled |
| reader lock, daemon process | lock file, pid file | acquire, release, start, stop | daemon, bus watcher | not modelled |
| executor selection, policy, doctor, hooks, skills | configuration files | check, install, report | files | not modelled |

What is hard here is the same everywhere: a process reads something, does
something slow (a git command, an executor dispatch, a kill, an awaited call),
and then writes by id whatever the row or the object has become. Directories
disappear while others poll them, attempts change under receipts, editors,
daemons and command lines are stopped in the middle. `PROJECT.json` lists these
hazards line by line.

What must hold, component by component:

* store: attempts are a gapless chain that only grows; session ids are real;
  success rests on evidence;
* commands and daemon: an acked task can be polled, and ends; a deferred task
  is resolved; a dependent runs after what it depends on; directories are
  reclaimed; budgets bite;
* liveness: a wait gives a task up only when a retry is in order, is not retried
  under its feet, sleeps between its looks unless its lease is over, and ends;
* outcome: what is offered to the controller is the work of the executor and all
  of it, "adoptable: yes" is earned, a fatal blocker is never reused, and no
  edit of the user is lost;
* workflows: nodes start after their dependencies and within the limits, an
  attempt is dispatched once, a workflow offered for review is complete, and it
  ends;
* agent bus: a message is handled by somebody, and a settled one never again;
  the settle of a reader that lost its lease settles nothing of another's;
* delegation: ACK first, one delivery id per result, nothing is taken for sent
  that was not, recoveries are bounded, every task comes to an end.

## Modules

`TaskStore` holds the rows, the transition table (`ValidSources`, from
`_VALID_TRANSITIONS`) and one operator per SQL statement. `JoinedSession` is the
rule of `get_task`, which prefers the session of the current attempt, as opposed
to `list_tasks`, which shows the column of the tasks row: both are used, and the
difference matters after a retry.

`TaskLifecycle` puts the processes around it. Its variables:

| variable | in the code |
|---|---|
| `tasks`, `attempts`, `seen`, `waiter` | tables tasks, task_attempts, receipts (ids only), waiters (the active row of each task, `"orphan"` when its process died) |
| `sess` | session directories: `running`, `exited` (rc.txt is there), `gone`; `verdict` is what `_arbitrate` will make of the logs |
| `quiet` | age of the newest heartbeat or file change: fresh, silent, past the watchdog, past the hard timeout |
| `overrun`, `landed` | budget spent; a commit that names the task landed since `started_at` |
| `proc` | what each process holds in local variables between two accesses |
| `tick` | the daemon's stage of `run_once`, the rows it listed, the messages it polled, and the task ids later stages skip |

One action is one transaction, one executor call or one read of a directory;
reads that directly follow one another are one action. Each `mark_*` is two
actions, `MarkCheck` (`get_task` and `_check_transition`) and `WriteAcked` or
`WriteEnd` (the UPDATE), because they run on two connections. A finalize goes
check, write, attempt, cleanup, clear, and a crash may come between any two.

* Commands: `StartCreate`, `StartDeps`, `Dispatch` (start and retry share it
  with the daemon); `WaitBegin`, `WaitRead`, `WaitPoll`, `WaitTerminal`,
  `WaitGiveUp`; `RetryBegin`, `RetryRead`, `RetryWrite`; `AbandonBegin`,
  `AbandonCancel`; `AcceptBegin`, `AcceptWrite`.
* Daemon: `DaemonStage` runs the query of the next stage (`Selections`), then one
  action per item: `DaemonPoll`, `DaemonHeartbeat`, `DaemonReceipt`,
  `DaemonAdvance`, `DaemonSkip`, `DaemonClose`, `DaemonWatchdog`,
  `DaemonTimeout` (budget and stuck), `DaemonSweep`; `DaemonScan` for workspace
  activity. An illegal transition is swallowed by ingest, auto-close and the
  inline poll and kills the daemon elsewhere (`Raise`, stage `dead`).
* Around them: `SessionExit`, `SessionCommit`, `Elapse`, `SpendBudget`,
  `NextBucket`, `Crash`, `DaemonRestart`.

`MCTaskLifecycle` names the instances' tasks and processes.
`TaskLifecycle_proofs` holds the theorems.

`AgentBus` is one side of the relay database: the rows of `messages` with the
read mark, claim and lease of one reader (the columns of the two readers are
disjoint), and that side's consumers. Each consumer is a loop: a daemon tick
reserves once per task it lists and handles what it was given (`ingest_new_receipts`),
the editor's watcher reserves, hands over and settles message by message
(`cmd_watch`, `agentBusWatchService.ts`), a manual pull reserves, settles and
prints (`cmd_pull`; `_pull_messages` is not called by anything).

| variable | in the code |
|---|---|
| `sent`, `rows` | table messages: topic, kind, read mark, claim id, what is left of the lease |
| `pc`, `asks`, `ask`, `lag` | where a consumer is in its loop; how long ago its reserve read the clock |
| `batch`, `cur` | messages and claims it holds, and the one it works on |
| `receipts`, `last` | the daemon's table receipts, and `last_receipt_id` of its tasks |
| `applied`, `acked` | history: acted upon by whom, marked read by `agent-bus ack` |

Time is relative (`left` counts down with `Tick`), so the state space is finite
without a bound on the clock. `_reserve_messages` computes `now` and the end of
the lease before it waits for the write lock and keeps both over its lock
retries: `ReserveCall` reads the clock, `Reserve` commits up to `MaxLag` later,
with `NewLeft` of the lease left, which may be less than nothing.

* Statements: `Send`, `Reserve`, `Settle`, `PullSettle`, `Acknowledge`.
* Daemon: `BeginRound`, `ReserveCall`, `Record` (the receipt id and the staleness
  check), `Apply` or `Refuse`, `Settle`, `EndRound`; `Retry` clears the last receipt.
* Watcher and pull: `HandOver`, `HandOverThrows`, `PullSettle`, `PullPrint`.
* Failures: `ReserveFails`, `ReserveReplyLost` (claimed, but the answer was not
  read), `SettleFails`, `Crash`.

A task filter is a set of topics, because the filter is a LIKE and may match
more ids than one. Two messages with one delivery id, the text of messages and
the phases that make a daemon refuse one are left out: `Refuse` is always
possible. Tasks do not leave the daemon's list.

`MessageQueue` is what the bus promises: a message has at most one owner, only
the owner, or when it has none somebody who owned it, finishes it, and a finished
one is never given out again. The owner of a row is the client whose lease on it
lives (`Owner`), finished is read, and `IsAQueue` says `AgentBus` implements it.

`MCAgentBus` names the instances; `AgentBus_proofs` holds the theorems.

`WorkflowScheduler` is one workflow: its row, its nodes, the child tasks and the
processes that run `WorkflowScheduler.tick` (the daemon, `workflow start`,
`workflow status --tick`), cancel or retry a node. Nothing serialises them, and
every UPDATE of `workflows/store.py` overwrites a phase without looking at it.

| variable | in the code |
|---|---|
| `workflow`, `nodes` | tables workflows and workflow_nodes: phase, attempt, task id, which result |
| `tasks` | the child tasks: phase, idempotency key (the attempt it stands for), whether a receipt is on record |
| `proc` | the list of rows a process read, the node it is at, and what it holds |
| `launched` | history: executor sessions started for each attempt |

A tick goes `BeginTick`, `MarkRunning`, reconcile every node (`ReconcileNode`,
`ResetNode` for the automatic retry), schedule every node (`PassOver`,
`BlockOnDependency`, `RunGate`, or the dispatch `MarkDispatching`, `CreateTask`,
`Launch`, `AckTask`, `LinkNode` with its failure path `FailTask`, `FailNode`),
reconcile again, `Decide`, `Close`. Cancel is `BeginCancel`, `AbandonChild`,
`CancelActiveNodes`, `SealCancel`; retry-node is `BeginRetry`, `RetryReset`,
`Reopen`. `ChildId` cuts ids at 120 characters, so a long node name loses its
attempt. `MCWorkflow` names the instances; `WorkflowScheduler_proofs` holds the
theorems.

`TaskWatch` is the row of one task and all who judge whether it makes progress:
the waits of `cli/wait.py`, the guards of `task retry` and `task abandon`, the
daemon's heartbeats, scans and watchdog. Every time in it is an age, in units no
reader tells apart any finer, and grows with `Pass`.

| variable | in the code |
|---|---|
| `row` | the tasks row: phase, attempt, ages of its heartbeat, workspace activity, last activity and update, `retry_recommended`, profile, wait budget and execution budget |
| `out`, `noise`, `alive` | the logs of the session (`latest_useful_output`, bootstrap noise), and its process |
| `active` | who holds the active row of the waiters table |
| `wait` | each waiting process: how long it has waited, the budget it read when it began, and for which attempt |
| `daemon`, `cmd` | the write the daemon is about to make; a command between its guards and its write |

`BeginWait`, `Register`, `Look`, `Wake` are a wait; `Guards`, `RetryApplies`,
`RetryFails`, `RetryAcks`, `AbandonApplies` the commands; `DaemonReads` and
`DaemonWrites` are apart, because the daemon writes by id what it made of a row
it had read. `ResolveWaitBudget`, `RetryBudget`, `ClassifyLiveness`,
`WatchdogTriggered`, `ControllerAction` and `Outcome` are the functions of these
names. How a session ends is one step here, and no waiting process is killed: the
orphaned row of the waiters table that this leaves is in `TaskLifecycle`. Of the
execution budget, which begins with the task and not with its attempt, the row has
whether there is one (`exec`, every kind but generic has one) and whether it is
over (`over`, which `Pass` may set at any time); `rec`, the recommendation, is kept
with the attempt it was made for. `MCTaskWatch` names the instance,
`TaskWatch_proofs` holds the theorems.

`OutcomeRules` holds what the code decides about a finished attempt, as
operators: the effective policy and the required fields, the arbitration of a
verdict out of exit, log, claim, commit and report (`Arbitrate`, `_arbitrate` in
`local_cli.py`), scope validation, `EvaluateCompletion`, the artifacts and their
ranking, `Adoption` and `ChooseRecovery`. A receipt is the handful of its fields
that any rule looks at.

`TaskOutcome` puts one task around the rules, from dispatch to its result in the
controller's repository. The content of a file is the set of edits in it: 0 is
the user's, n that of attempt n; so "whose work is in this patch" is a question
about sets.

| variable | in the code |
|---|---|
| `config` | completion policy, output hint, execution profile, isolation, snapshot mode |
| `task`, `session` | task and attempt rows with receipt, adoption and decision; state.json with diff base, dirty files, ownership of the repository |
| `worker`, `run` | the executor and what it left: exit, log, claim, report |
| `repo`, `tree` | HEAD and working files of the controller and of the worktree; the worktree's index, its unmerged files, and (history) the files into which a dispatch that failed has spilled its snapshot |

Actions: `Start`, `Retry`, whose dispatch succeeds or fails. A dispatch that fails
rolls nothing back: the worktree stays where it got to (`LeftByFailure`), with
conflict markers of `git apply --3way`, with the staged half of the snapshot
applied, or with everything in the index or in a baseline commit, while `task
retry` leaves the task on its old attempt over it. Then `WorkerEdits`, `WorkerCommits`,
`WorkerEnds`; `UserEdits`; `Finalize` (poll, verdict and what it stores),
`Cleanup`, `Adopt`, `Apply`. Which process runs them and what it may overwrite is
the subject of `TaskLifecycle`, so poll and verdict are one action here. So are
the check of a patch and its application, because `git apply` checks once more
itself: an edit of the user between the two is not covered.
`MCTaskOutcome` names configurations and runs of executors;
`TaskOutcome_proofs` and `TaskVerdict_proofs` hold the theorems.

`Delegation` is the editor's side of the relay: one JavaScript process, where
what runs between two awaits is one action and everything else may happen at an
await. Handlers of different batches run side by side (`void
handleReservedMessages`), and `setInterval` starts a poll while another waits.

| variable | in the code |
|---|---|
| `rows`, `cur` | the objects of `delegationTaskTracker.ts`, and which of them the tracker holds for a task: `register` replaces the object, a poll may still hold the old one |
| `receipt` | the receipt file of each task: none, good, or bad, which the watcher cannot read |
| `handler`, `poll`, `replay` | what each flow awaits and what it keeps meanwhile |
| `sending`, `acking`, `tries` | `inFlightTerminalTaskIds`, `inFlightAckTaskIds`, `recoveryAttempts`: lost with the editor |
| `bus`, `settled` | what was stored for the desktop; TASK messages that do not come again |
| `cut`, `left`, `crashes` | history: terminals in flight at a crash; faults that may still happen |

Handler: `Reuse`, `ReplayAck`, `Supersede`, `TakeUp`, `Superseded`, `Preempted`,
`NoSession`, `Refused`, `Register`, `HandlerAckEnds`, `Settle`. Replay of ACKs:
`BeginReplay`, `ReplayNext`, `ReplayAckEnds`, `EndReplay`. Poll: `BeginPoll`,
`TakeForSent`, `Resend`, `BeginCheck`, `SendReceipt`, `AskForLoss`, `Fine`,
`DelayedReceipt`, `Recover`, `GiveUp`, `Recovered`, `RecoveryFails`,
`TerminalEnds`, `EndPoll`. Sessions write, leave a
file that is no receipt (`SpoilReceipt`), fall silent or vanish; `Crash` and
`CrashInRegister` stop the editor with any part of what is in the air stored.
A send is stored and says so, fails, or is stored and fails all the same. A bad
file is skipped by every poll, and keeps the check for lost and stale sessions from
being made. A replay whose listed object lost its ACK to a recovery prepares one
with no body (`blank`), which is never sent; that takes three objects of the
tracker, one more than the run has, so only the theorems cover it.
`AgentBus` has a single watcher that handles one batch after the other;
`Delegation` has the batches side by side. `MCDelegation` names four scenarios;
`Delegation_proofs` and `Delivery_proofs` hold the theorems.

Abstractions worth knowing. Creating a task and journalling its body are one
step. In `TaskLifecycle` receipt text, artifacts and policies are not there: a verdict is
nondeterministic, and whether the rules arrive at the right one is the business
of `OutcomeRules` and `TaskOutcome`. A receipt id is its task, attempt
and session, as in `loop.py:444`; a heartbeat id is the task and the current ten
seconds, and `NextBucket` forgets the ids of past ones. `is_stale_receipt`
compares numeric ids and never holds for local ones, so it is not there.
Which of the silent tasks the watchdog lists is left open, because its window
also excludes tasks acked before the hard timeout. A status command polls inline
like `WaitPoll`. The daily deletion of old rows and legacy bus dispatch are
not modelled.

In `TaskOutcome` a file is one hunk: a patch replaces the content at its base
and conflicts with any other. The repair of malformed JSON and the texts of
receipts are left out. In `WorkflowScheduler` the mutation checks of the
manifest and the text of prompts are left out; a hard blocker of a panel may or
may not be there. In `Delegation` there is one workspace, and heartbeats are left
out, as they move nothing.

## What the runs show

| run | instance | shows |
|---|---|---|
| `retry_race` | 1 task, 2 retrying command lines and the daemon, failing dispatches | attempts are a chain and only grow; stale receipts give no false evidence |
| `daemon_crash` | 1 task, 1 command line and the daemon, crashes, commits, activity | types; session ids are real; an acked task can be polled |
| `chain_live` | b depends on a and has a budget, dispatch errors, activity | b starts late enough, does not stay deferred, and its budget ends it |
| `single_live` | 1 task, daemon, commits, all timeouts | an acked task ends and its directory goes |
| `rollback` | wait and daemon | violated: `SuccessIsNotRolledBack` |
| `bus_desktop` | daemon and pull, 2 messages of 3 kinds, lease 1, lock wait 2, 1 fault | leases are exclusive and honoured, receipts in order, the table is a queue |
| `bus_watch` | watcher, batches of 2, 2 faults, manual acks | read means handled; every message is read |
| `workflow` | 2 tasks (one may be skipped) and a gate, 1 retry each, daemon, cancel, all outcomes, 1 crash | dependencies first, limits, a review is complete, the workflow ends |
| `workflow_retry` | synthesis node and gate, children that get stuck, dispatches that fail, daemon, a ticker without dispatch, retry-node, 1 crash | one dispatch per attempt |
| `outcome` | 5 configurations, 2 files, 26 runs of an executor, 2 attempts, dispatches that fail anywhere, user edits one file | the verdicts are earned; the diff is the worker's; no edit is lost |
| `watch` | 1 wait on a read-only review with an execution budget, strict retry, abandon, the daemon's signals, time that passes between any two steps | giving up is sound, retries spare waits, waits sleep and end |
| `delegation` | 2 overlapping polls; 2 overlapping handlers and a fault (a failed send, a crash, a bad receipt file); a task that is superseded; one that is preempted | ACK first, one delivery, delivered was sent, budget, every task returns that is not forgotten and whose receipt can be read |

Bounds. `MaxSessions` and `MaxAttempts` end dispatches and retries: two of each
are what a stale session or attempt needs to meet a current one. Two command
lines and the daemon are all three parties any listed race has. `MaxAge` is the
number of thresholds a signal's age can cross. `TicksPerBucket` says how many
ticks at least begin in the ten seconds of one heartbeat id (the daemon's
default interval is one second); with 0 the clock may outrun the daemon, and
then `BudgetEnds` fails: a task whose every tick sees a new heartbeat is always
skipped by the budget stage. That is why it is a constant and not an accident.
Symmetry is used for the command lines only, in runs without liveness.

For the bus, a lease of one tick and a lock wait of two are the smallest with
which a grant can be on time, late, and over when it is made; two messages are
what an order needs; `Serials` gives a client two claims on one message, one
expired and one live (no reserve is refused for want of a third in these
instances but that of a client that already holds two). Below `Floor` no reserve,
however late, can tell two expired leases apart, so `left` stops there.

For workflows, two nodes before a gate are the smallest manifest in which one
dependency may succeed, fail or be skipped while the other is under way, and one
retry gives each a second child; `MaxParallel` 1 makes the limit bite. The two
workflow runs divide the processes between them, because every process that
ticks carries a list of rows with it.

For waits, the windows are the smallest that are all different where the code's
are (report-only below default, default not above the watchdog's), and a lease
of one unit ends before the timeout of two. A second attempt is what advice for
the first can be mistaken for. One waiting process suffices for what a wait makes
of a row; a second one that waits without the waiters row is in the proofs, which
take any number.

For outcomes, the second file is what a claim can name too much or too little,
and the second attempt works in the worktree of the first. The user edits one
file, before, while or after the executor works, so a retry's snapshot may meet a
commit or an edit of the same file and fail on it. Each run of an executor differs
from a good one in a field that some rule looks at.

For delegation, each scenario brings the parties of one race together:
`TwoPolls` two polls of one task, `TwoHandlers` a redelivered message, a failed
send, a crash or a receipt file that cannot be read, `Again` a message that supersedes its task, `Other` one that
preempts it. Two rows are two registrations of a task or two tasks, and one
recovery is what a budget of one allows. A session is followed only while
somebody may still look at it (`Watched`).

Fairness. The daemon loops for ever (`WF(DaemonStep)`), a command that has begun
goes on (`WF(Goes(p))`, which leaves out beginning a command and giving up a
wait), time passes (`WF` of `Elapse` and `SpendBudget`). That executors return
is a separate assumption, `ExecutorsReturn`, and only about tasks without a
budget: `BudgetEnds` has none of it.
A daemon that died of an exception is not restarted fairly: launchd's KeepAlive
does that only where it was installed. Liveness of tasks is checked without
crashes. On the bus, consumers poll for ever and go on with what they began, and
time passes; crashes, throws and failed calls are bounded by `MaxFaults`, because
a handler that throws for ever on the first message of every batch does starve
the messages behind it. Workflows are ticked for ever (each process that ticks
does) and children end in some way: their own life cycle is `TaskLifecycle`'s.
A wait goes on (`WF` of `Register`, `Look` and `Wake`) and time passes (`WF(Pass)`);
nothing is assumed of the task, the daemon or the executor. In the editor awaited
calls return, timers fire, and a session writes its
receipt, is lost or falls silent; an editor that was stopped comes back.

`rollback` is a disagreement between a document and the code, described under
`findings` in `PROJECT.json`: docs/usage.md:660 says that stale receipts do not
roll a task back, and a late poll of a removed directory does.

Holes that properties name. Each is something the code does; outside them the
property holds:

* `WorkflowEnds` excuses a node that a crash left in dispatching without a task
  (`Stranded`) and one that waits for a skipped node (`WaitsForSkipped`);
* `WaitSleeps` excepts waits whose lease is over and does not end them: every wait
  that is not in the background, which for a smoke task is the default, and one in
  the background while its task is not acked. No time is left until the next
  deadline, so they poll without a pause (wait.py:403) until the task ends or is
  acked, or the timeout is over. What the property adds is that no other boundary
  of timeout and lease has that effect;
* `GiveUpIsSound` excepts advice the daemon wrote for another attempt; a
  report-only task, whose wait has a shorter window than the guard of retry; a wait
  that began with an earlier attempt; and a background task whose execution budget
  is over or whose logs hold only noise: `status` then says to retry or to switch
  the executor (runtime_liveness.py:340-346), while the wait says to go on in the
  background (a review that is silent and past its 900 seconds, with no daemon to
  declare it stuck). `RetrySparesWaits` excepts a wait that registered between the
  guard of a retry and its new attempt (`late`);
* `DiffIsTheWorkers` excepts files into which a dispatch that failed has put
  something of its snapshot (`spilled`): the old attempt then offers the user's
  edits, with or without conflict markers, as its own (local_cli.py:418-450,
  cli/task.py:3513-3517), until a later baseline takes them in;
* `YesIsEarned` and `BlockedIsNotYes` except `PollAsksLess`: poll asks less of a
  receipt than the verdict does when the executor is read-only, and when a claim
  has a report and no changed files before those of the worktree are merged;
* `AckFirst` excepts terminals sent for the object of an earlier registration
  (`late`), and is about terminals of polls: the BLOCKED replies of the handler
  itself, which it sends instead of an ACK, are not on the modelled bus;
  `DeliveredWasSent` excepts terminals that were in flight at a crash (`cut`),
  which a restart takes for delivered;
* `TaskReturns` excepts a task whose receipt file stays one that cannot be read
  (delegationReceiptWatcher.ts:221-230, the skip that delegationReceiptWatcher.test.ts:232-322
  exercises), and one whose ACK nothing will send (`Forgotten`): a recovery of its
  predecessor wiped it, a replay after that prepared it empty, or a crash came
  between `register` and `preparePendingAck` while another handler settled the
  message.

`AckedIsPollable` and `SessionsReclaimed` are claimed without retries,
`DependentsRunLater` without retries and for dependencies that have none
themselves, `OneDispatchPerAttempt` for one process that dispatches and one that
resets nodes, the other properties of workflows for one process that ticks and no
retry by hand, `ReadIsHandled` where watchers alone read. In each case the code
breaks the property without the hypothesis; the next section says how.

Other things the models reach:

* Tasks: retry leaves the old session running and its directory uncleaned;
  `clear_session_id` may clear the session of the next attempt; the waiter drops
  a session id whose directory is still there; an abandoned task comes back when
  its dispatch completes; start and the daemon can both dispatch one task, and a
  daemon that advances a task someone else just dispatched dies of the illegal
  transition when the dispatch fails; a dependent of a stuck task is blocked
  at once, though the docstring of `auto_advance_dependent_tasks` (loop.py:174)
  counts a stuck dependency as still in progress.
* Waits: a retry that is given no wait budget but only a read-only profile is not
  refused for a task that writes code, as start would.
* Bus: a LIKE filter also takes, and settles, messages of task ids that begin
  with the one asked for (agent_bus.py:282).
* Workflows: two processes that dispatch one node both find the child new and
  both start an executor, and the failure path of the slower one marks the
  running child blocked (scheduler.py:210); two processes that reset a node may
  give it the same attempt (store.py:240), which after a crash between launch and
  ack is then launched twice; no code
  writes the synthesis result that the evidence pack looks for, so a workflow
  with a synthesis node is never offered for review.
* Outcome: after the daemon's cleanup, `task apply` takes the HEAD of the
  worktree as diff base, so what the executor committed is missing
  (cli/task.py:936); the baseline commit of a retry takes the uncommitted work
  of the first attempt out of the diff; scope validation does not see further
  edits of files that were dirty at the start; any commit a receipt names passes
  the commit policy.
* Delegation: a recovery that waited reopens the task by its id, so it may wipe
  the pending ACK of a new registration or revive an abandoned task, which then
  returns a second terminal under another delivery id; a superseded or preempted
  task returns no terminal; a TASK whose settle failed is executed again after
  its terminal; the receipt file of an earlier session is not removed on
  registration, and a late send may remove the one of the next.

## What is proved

Every invariant and action property of a passing run is also a theorem, for
every value of the constants; where a theorem has a hypothesis, it is named below
with what goes wrong in the code without it. What is temporal beyond that is only
model-checked. No theorem assumes more of the constants than the named
assumptions of its module, which TLC evaluates in the runs. The hypotheses are
about constants only, and each run that checks such a property is an instance
that meets it (`daemon_crash` and `chain_live` have no retry command,
`chain_live` a chain of two, `bus_watch` a watcher alone, `workflow` one ticker,
`workflow_retry` one process that dispatches and one that resets).

| property | theorem | hypothesis |
|---|---|---|
| `TypeOK`, `SessionsKnown`, `AttemptsOnlyGrow`, `ReviewHasEvidence` of `TaskLifecycle` | `TypeCorrect`, `KnownSessions`, `AttemptsNeverShrink`, `ReviewsAreBacked` | none |
| `AckedIsPollable` | `AckedStaysPollable` | `NoRetries`, no dependencies |
| `DependentsRunLater` | `DependentsComeLater` | `NoRetries`, `FlatDeps` |
| `TypeOK`, `LeasesHold`, `TerminalsInOrder`, `IsAQueue` of `AgentBus` | `BusTypeCorrect`, `LeasesAreHeld`, `TerminalsAdvance`, `BusIsAQueue` | none |
| `ReadIsHandled` | `ReadsAreHandled` | `OnlyWatchers` |
| `TypeOK` of `WorkflowScheduler` | `WorkflowTypes` | none |
| `OneDispatchPerAttempt` | `AttemptsLaunchOnce` | `OneOfEach` |
| `DependenciesFirst`, `WithinLimits`, `ReviewIsComplete` | `DependenciesComeFirst`, `LimitsHold`, `ReviewsAreComplete` | `OneTicker` |
| `TypeOK`, `RetrySparesWaits`, `GiveUpIsSound`, `WaitSleeps` of `TaskWatch` | `WatchTypes`, `WaitsAreSpared`, `GivingUpIsSound`, `WaitsSleep` | none |
| `TypeOK`, `DiffIsTheWorkers`, `UserEditsAreKept` of `TaskOutcome` | `OutcomeTypes`, `DiffIsWhatWasDone`, `UserKeepsEdits` | none |
| `ReviewHasOutput`, `BlockedIsNotYes`, `YesIsEarned`, `RecoveryFits` | `ReviewIsEarned`, `BlockedHasNoYes`, `YesEarned`, `RecoveryAlwaysFits` | none |
| `TypeOK`, `AckFirst`, `OneDelivery`, `DeliveredWasSent`, `RecoveryBudget` of `Delegation` | `DelegationTypes`, `AcknowledgedFirst`, `DeliveredOnce`, `DeliveredForSure`, `BudgetKept` | none |

### Tasks

`TaskLifecycle_proofs` proves, for every set of tasks, processes and commands,
every dependency graph and every bound, four layers of invariants. There is one
lemma per action and layer; lemmas for the endings that actions share (`Finish`,
`Goto`, `Raise`, the daemon taking an item) carry most of them.

`IInv` is the conjunction of `TasksOK` (rows, and the session of a row is a
started one), `AttemptsOK` (the chain), `SessOK`, `EnvOK`, `TickOK` (every listed
item is about an existing task, with a session that exists wherever its stage will
touch one) and `ProcOK` (by program counter: what a process in the middle of
something holds). It must speak about processes and listed items because they
write what they hold: `SetAcked` stores the session of a dispatch that happened
actions ago. For the chain, the attempt read by a retry may be behind the row by
the time it writes, never ahead of it, and if it is behind, the attempt row it
would insert is there, so the insertion fails.

`OwnInv` (`SessionsAreOwned`) follows a session id on its way from the dispatch or
the poll through lists, memories and checks to the row it ends in: wherever it is,
it was started for the task it is held for, and where a review is asked for, the
session finished well. It is inductive because no step gives a session to another
task or takes a good verdict back (`VerdictsStand`), so memories may be as old as
they like. `ReviewHasEvidence` is a part of it.

`LoneInv` (`StartsAreAlone`) is about one task without retries and dependencies.
Its start is the only process that dispatches it and the only one that acks it;
until then nobody else holds a session of it or lists it (`Unopened`), so nobody
can remove or clear one; after it has ended nothing brings it back. Hence a
cleanup or a clear under way is one of an ended task, and an acked task can be
polled. With a retry, the cleanup of the old attempt meets the new one and clears
its session id; with dependencies, start and daemon may both dispatch the task, and
the first ack is overwritten, so that the clear that follows the slower one's
failure meets the faster one's session.

`DepInv` (`DependentsComeLater`) builds on `LoneInv` of the dependencies. A task is
`Done` when it has shown a commit or a session that finished well and is not being
started any more; no step takes a task out of `Done`, because the commit is
forgotten only by the ack, which is done by the start. So a decision to dispatch
that was right when it was made is right when it is carried out, however long the
list or the memory waited. `FlatDeps` (a dependency has no dependencies) is needed:
a task that is dispatched twice is acked twice, the second ack moves `started_at`
past the commit, and its dependents then start on a commit that no longer counts.

### Agent bus

`AgentBus_proofs` proves, for every set of consumers, filters, lease, lock wait
and bound, the properties from `BusInvariance`. Its `IInv` adds to them that a
hold carries a claim of its holder which no other hold carries (`HoldsOK`), that
holder and row agree on what is left of a lease as long as they agree on the claim
(`LeaseOK`), that rows not yet sent are blank (`RowsOK`), that what a client works
on is in its batch (`CurOK`), and that a daemon about to apply has seen that the
message is ahead of its last receipt (`AheadOfLast`). Exclusion and honour, the
two halves of `LeasesHold`, need each other: a reserve takes no message with a
live holder because that holder's claim is still on the row (`PickedIsFree`),
where a clock read `lag` ago only makes the test stricter; and the claim is still
there because nobody else could reserve it. For the refinement, a reserve is
`Take`, or a stutter when its lease is over at the commit; a settle is `Finish`,
an ack `Withdraw`, a tick `Expire`.

`ReadsAreHandled` adds `HandInv`: a claim names its message, and a watcher that
settles has handed over what its claim names, so the settle marks nothing else. A
pull settles before it prints, and a daemon settles what it refuses and what its
receipts table already has; both are excluded by `OnlyWatchers`.

### Workflows

`WorkflowScheduler_proofs` proves types for every manifest and any number of
processes of every kind.

`LaunchInv` carries `AttemptsLaunchOnce`: an attempt that was launched is past or
under way (`LaunchedOK`), and what the dispatcher still has on its list as pending
was not launched (`RowsOK`), over crashes, failed dispatches and other processes
that tick without dispatching. `OneOfEach` says that one process dispatches and one
resets nodes: two dispatchers both find the child new, and a reset that read the
attempt before another one's reset and dispatch names that attempt again.

`TickInv` (`TickInvariant`) carries the other three for one process that ticks,
beside cancels, crashes, and children that end at any time: what the tick listed of
a node is what the node can still be (`ListOK`), the number under way it counted
once, together with what it has dispatched since, bounds the number there is
(`CountOK`), and a verdict it is about to write was made of nodes that cannot
change any more (`VerdictOK`, `Complete`). `OneTicker` is the daemon on its own: a
second ticker dispatches from a list of its own and exceeds the limit, and a retry
by hand takes back a node whose dependents run.

### Waits

`TaskWatch_proofs` proves its properties for any number of waits and every window,
lease, timeout and wait budget that may be asked for. `WatchInv` (`WatchInvariant`)
says that a retry that has opened an attempt finds it as it opened it
(`RetryLaunched`), that advice on the row was due when it was made for this attempt,
which has only grown older since, or was made for an earlier one (`AdviceIsDue`,
`AdviceIsOld`), that only a late wait registers between the guards
of a command and its write (`GuardHolds`), and that a wait knows the budget of the
attempt it began with (`WaitAgrees`). Giving up is then a comparison of ages: what
`WatchdogTriggered` has seen is no younger than what the guard of retry will see. A
status whose execution budget or noise speaks against the executor says to retry
first; it differs from the wait just when the task is in the background.

### Outcomes

`TaskOutcome_proofs` proves, for every set of files, configurations, claims and
attempts, from `OutcomeInvariance`, whose `IInv` has four parts. `TypesOK` says
that everything is what its declaration says; `WorkerOK` in which phase a worker
runs, and that a task that was dispatched in isolation has a worktree; `EditsOK`
that no file has an edit of an attempt yet to come, and that the base of a session
has none of its own attempt; `BaseOK` that in a worktree the user's edits are
exactly where the base of its diff has them, but for the files into which a failed
dispatch has spilled some (a file keeps what it has: applying a patch, conflicting
or not, only adds to it). `BaseOK` and `EditsOK` give the two
halves of `DiffIsTheWorkers`: no other edit of the user is in the patch, and as an edit of
the current attempt is not in the base, its file is in the diff. The user's edits
survive `Apply` because a patch that applies found the content of its base in the
repository.

`TaskVerdict_proofs` proves the verdicts on top of that invariant. `VerdictOK` adds
that a task has a receipt only once it is over, that a fatal blocker is in the
decision stored with its receipt, also after an adoption (`FatalIsDecided`), and
that an executor whose end is still to be judged hangs only after a commit
(`HungHasCommitted`). Nearly all of the work is in the lemmas about the rules: what
`Arbitrate` and `EvaluateCompletion` may return for any run, and what `Adoption`
says "yes" to. Attempting these proofs is what brought up the second half of
`PollAsksLess`, a case the instances of the run did not have until then.

### Delegation

`Delegation_proofs` and `Delivery_proofs` prove, for every set of tasks and
messages, any number of batches and of polls that overlap, every number of
retries, faults and crashes, under `DelegationAssumption` (of which the
finiteness of `Handler` and `Poller` is used to count what is under way).

`Delegation_proofs` takes the actions one by one and shows once and for all what
a step may do (`Steps`): `Base` holds after it, every object `Evolves`, what is
newly given to a send is `Fresh`, and the step is one of a few `Kinds`. `Base`
adds to the types that a pending terminal and an owed ACK have a delivery id,
that a handler ends or acknowledges tracked tasks only, and that a session is
asked about only after its ACK. `Delivery_proofs` needs nothing else of the
actions:

* `WiresOK` says of every message on the bus or in the air that it is about an
  earlier cycle of its object or carries the id the object has now, for as long
  as something of it is pending or sent; an id is drawn only when nothing is.
  Order and ids follow.
* `SentOK` says that the tasks in `inFlightTerminalTaskIds` are those of the polls
  that send, one poll each (`SendersOK`), that what is pending meanwhile is what
  the poll sends (`PendingIsSent`), and that what is in flight without a poll was
  sent before a crash (`InflightWasSent`): so what a restart takes for delivered
  was sent or cut off.
* `BudgetOK` counts the recoveries under way: a recovery is counted when it
  begins and reopens, when it is over, whatever object the tracker holds then, so
  cycles and recoveries under way together stay within the count.

### Only model-checked

Liveness: `AckedEnds`, `SessionsReclaimed`, `DeferredResolved`, `BudgetEnds`,
`EveryMessageRead`, `WorkflowEnds`, `WaitEnds`, `TaskReturns`. Fairness needs
ENABLED, which is beyond the prover. The models have no recursive operators, so
nothing is left to induction over data. `SuccessIsNotRolledBack` is violated.

## Not modelled

* Reader lock and daemon process. One lock file and one pid file, each a read, a
  check and a write. Two processes that both find a dead owner both remove the
  file and both hold the lock (runtime_conflicts.py:113), so no invariant about
  holders is true, and the model would say no more than this sentence.
* Bridge, sessions and monitor of the extension: HTTP and editor SDK plumbing;
  what they do to a session is in the session steps of `Delegation`.
* Executor selection and policy: tables and configuration files read once per
  start; no state that changes under anybody.
* Doctor, hooks, skill installers and other commands: reports and files, no
  shared state that decisions are made on.
* Of modelled components: legacy dispatch over the bus by the desktop, the daily
  deletion of old rows, process groups and log rotation, presets and rendering
  of workflows, pruning of old worktrees, the health file.

## What is left

1. The two sides of the bus composed: `Delegation` over `AgentBus`, with several
   batches in the watcher.
2. `workflow` with a daemon and a dispatching command together, once the code
   makes a second dispatch harmless.
3. A proof that `TaskWatch`'s one-step end of a session is implemented by the
   finalize of `TaskLifecycle`; both are over the same rows, and only the
   operators agree so far.
