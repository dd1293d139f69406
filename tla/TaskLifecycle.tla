--------------------------- MODULE TaskLifecycle ---------------------------
(***************************************************************************)
(* The life of agpair tasks that run on a local CLI executor: the commands *)
(* of src/agpair/cli/task.py, the inline poll of src/agpair/cli/wait.py,   *)
(* the tick of src/agpair/daemon/loop.py and the executor sessions of      *)
(* src/agpair/executors/local_cli.py, all over one SQLite store.           *)
(*                                                                         *)
(* Every process is a separate operating system process.  One action is    *)
(* one database transaction, one executor call, or one read of a session   *)
(* directory; everything a process carries from one action to the next is  *)
(* a copy that may be stale.  Reads that directly follow each other are    *)
(* one action.                                                             *)
(***************************************************************************)
EXTENDS TaskStore, Sequences

CONSTANTS
  Cli,          \* command line processes
  Daemon,       \* the daemon process
  NoTask,       \* what an idle process works on
  Commands,     \* the commands that are run
  Deps,         \* depends_on of each task: a sequence of task ids
  BudgetTasks,  \* the tasks that have an execution_budget_seconds
  WithForce,        \* whether retry and abandon are run with --force
  Events,       \* what may happen around them: crash, commit, activity, dispatch_error
  MaxAge,       \* bound: no signal gets older than this
  TicksPerBucket, \* at least that many ticks begin in 10 seconds
  MaxSessions,  \* bound: dispatches fail once that many sessions were made
  MaxAttempts   \* bound: no retry is asked for past that many attempts

Proc == Cli \cup {Daemon}

ASSUME ConfigAssumption ==
  /\ Daemon \notin Cli
  /\ Deps \in [Task -> Seq(Task)]
  /\ BudgetTasks \subseteq Task
  /\ WithForce \in BOOLEAN
  /\ MaxAge \in 1 .. 3
  /\ TicksPerBucket \in Nat
  /\ MaxSessions \in Nat /\ MaxAttempts \in Nat

VARIABLES
  tasks,    \* the tasks table: task id -> TaskRow
  attempts, \* the task_attempts table: per task, attempt number -> AttemptRow
  seen,     \* the receipts table: its message ids
  waiter,   \* the active row of the waiters table of each task
  sess,     \* the executor sessions ever made, their number being their id
  quiet,    \* how old the newest progress signal of an acked task is
  overrun,  \* whether the execution budget of a task, counted from its creation, is spent
  landed,   \* whether a commit naming the task landed since started_at
  proc,     \* what each process is in the middle of
  tick      \* the daemon's place in run_once

store == <<tasks, attempts, seen, waiter>>
world == <<sess, quiet, overrun, landed>>
vars == <<tasks, attempts, seen, waiter, sess, quiet, overrun, landed, proc, tick>>

(* Ages of the newest signal.  is_task_live looks only at heartbeats and   *)
(* file activity, so a task that was acked a moment ago and has given no   *)
(* sign of life is Silent, not Fresh.                                      *)
Fresh == 0
Silent == 1
WatchdogAge == 2
TimeoutAge == 3

(* A process between two commands, or the daemon between two items.  task, *)
(* attempt, session and retries are the row it works from; target and from *)
(* are the phase it is moving the task to and the evidence for it; chk is  *)
(* the attempt_no read together with the transition check.                 *)
Idle == [pc |-> "idle", op |-> "none", task |-> NoTask, attempt |-> 0, session |-> NoSession,
         retries |-> 0, target |-> "new", from |-> 0, chk |-> 0]

(* What a process copies out of a row: list_tasks rows carry the session   *)
(* of the tasks row, get_task rows the session of the current attempt.     *)
Listed(t) == [task |-> t, attempt |-> tasks[t].attempt, session |-> tasks[t].session,
              retries |-> tasks[t].retries, target |-> "new"]

Exists(t) == t \in DOMAIN tasks
InPhase(t, phases) == Exists(t) /\ tasks[t].phase \in phases
SessionOf(t) == JoinedSession(tasks[t], attempts[t])

(* The id of a terminal receipt names the session that gave it.  The id of *)
(* a heartbeat names the task and the current ten seconds, so the receipts *)
(* table lets one heartbeat of a task through in each of them; ids of past *)
(* ones never come again and are forgotten here.                           *)
ReceiptId(item) == <<item.task, item.attempt, item.session>>
HeartbeatId(t) == <<t, 0, NoSession>>

NewTick(n) == [stage |-> "list", todo |-> {}, msgs |-> {}, touched |-> {}, flagged |-> {},
               count |-> n]

Init ==
  /\ tasks = [t \in {} |-> FreshTask]
  /\ attempts = [t \in Task |-> [n \in {} |-> FreshAttempt]]
  /\ seen = {}
  /\ waiter = [t \in Task |-> "none"]
  /\ sess = << >>
  /\ quiet = [t \in Task |-> Silent]
  /\ overrun = [t \in Task |-> FALSE]
  /\ landed = [t \in Task |-> FALSE]
  /\ proc = [p \in Proc |-> Idle]
  /\ tick = NewTick(0)

-----------------------------------------------------------------------------
(* Executor sessions.                                                      *)

Running(s) == sess[s].state = "running"

(* The wrapped command returns and the runner writes rc.txt; the verdict   *)
(* is what poll will make of it.                                           *)
SessionExit(s) ==
  /\ Running(s)
  /\ \E verdict \in {"ready_for_review", "blocked"} :
       sess' = [sess EXCEPT ![s] = [@ EXCEPT !.state = "exited", !.verdict = verdict]]
  /\ UNCHANGED <<store, quiet, overrun, landed, proc, tick>>

(* The executor commits with the task id in the message.                   *)
SessionCommit(s) ==
  /\ "commit" \in Events /\ Running(s) /\ ~landed[sess[s].task]
  /\ landed' = [landed EXCEPT ![sess[s].task] = TRUE]
  /\ UNCHANGED <<store, sess, quiet, overrun, proc, tick>>

(* Mutant: the exit code of the runner is never looked at.                 *)
VerdictWithoutExit(s) == IF sess[s].state = "gone" THEN "blocked" ELSE "running"

(* LocalCLIExecutor.poll: what a poller of session s is told.              *)
Verdict(s) ==
  CASE sess[s].state = "running" -> "running"
    [] sess[s].state = "exited" -> sess[s].verdict
    [] sess[s].state = "gone" -> "blocked"     \* temp directory missing, task is lost

(* dispatch makes a session directory and starts the runner.               *)
NewSession(t) ==
  /\ Len(sess) < MaxSessions
  /\ sess' = Append(sess, [task |-> t, state |-> "running", verdict |-> "blocked"])

(* cancel asks the process group to die; it may need more than one try.    *)
Killed(s) ==
  IF Running(s)
  THEN sess' \in {sess, [sess EXCEPT ![s].state = "exited"]}
  ELSE sess' = sess

(* cleanup removes the directory once the process is confirmed dead.       *)
Cleaned(s) ==
  \/ sess' = [sess EXCEPT ![s].state = "gone"]
  \/ Running(s) /\ sess' = sess

-----------------------------------------------------------------------------
(* The passage of time.                                                    *)

Elapse(t) ==
  /\ InPhase(t, {"acked"}) /\ quiet[t] < MaxAge
  /\ quiet' = [quiet EXCEPT ![t] = @ + 1]
  /\ UNCHANGED <<store, sess, overrun, landed, proc, tick>>

SpendBudget(t) ==
  /\ t \in BudgetTasks /\ InPhase(t, {"acked"}) /\ ~overrun[t]
  /\ overrun' = [overrun EXCEPT ![t] = TRUE]
  /\ UNCHANGED <<store, sess, quiet, landed, proc, tick>>

(* The clock enters the next ten seconds.                                  *)
NextBucket ==
  /\ \E t \in Task : HeartbeatId(t) \in seen
  /\ tick.count = TicksPerBucket
  /\ seen' = seen \ {HeartbeatId(t) : t \in Task}
  /\ tick' = [tick EXCEPT !.count = 0]
  /\ UNCHANGED <<tasks, attempts, waiter, world, proc>>

-----------------------------------------------------------------------------
(* Steps that commands and the daemon share.                               *)

At(p, pc) == proc[p].pc = pc
Becomes(p, r) == proc' = [proc EXCEPT ![p] = r]
Goto(p, pc) == Becomes(p, [proc[p] EXCEPT !.pc = pc]) /\ UNCHANGED tick

(* The work on a task is over: a command ends, a wait goes round its loop, *)
(* the daemon takes its next item and remembers the ones that later stages *)
(* of the same tick must skip.                                             *)
Finish(p) ==
  LET t == proc[p].task IN
  /\ Becomes(p, IF proc[p].op = "wait"
                THEN [Idle EXCEPT !.pc = "read", !.op = "wait", !.task = t] ELSE Idle)
  /\ tick' = CASE proc[p].op = "ingest" -> [tick EXCEPT !.touched = @ \cup {t}]
               [] proc[p].op \in {"watchdog", "budget"} -> [tick EXCEPT !.flagged = @ \cup {t}]
               [] OTHER -> tick

(* IllegalTransitionError: swallowed by receipt ingestion, auto-close and  *)
(* the inline poll, fatal to a command and to the rest of the daemon.      *)
Raise(p) ==
  CASE proc[p].op \in {"ingest", "close"} ->
         Becomes(p, Idle) /\ UNCHANGED tick
    [] proc[p].op \in {"advance", "budget", "stuck"} ->
         Becomes(p, Idle) /\ tick' = [NewTick(tick.count) EXCEPT !.stage = "dead"]
    [] OTHER -> Finish(p)

(* First half of every mark_*: get_task and _check_transition.             *)
MarkCheck(p) ==
  LET row == tasks[proc[p].task] IN
  /\ At(p, "check")
  /\ IF row.phase \in ValidSources(proc[p].target)
     THEN Becomes(p, [proc[p] EXCEPT !.pc = "write", !.chk = row.attempt]) /\ UNCHANGED tick
     ELSE Raise(p)
  /\ UNCHANGED <<store, world>>

(* mark_acked updates the task and the attempt it read in one transaction. *)
(* The new started_at hides earlier commits from auto-close, which looks   *)
(* at the last attempt.                                                    *)
WriteAcked(p) ==
  LET r == proc[p] IN
  /\ At(p, "write") /\ r.target = "acked"
  /\ tasks' = [tasks EXCEPT ![r.task] = SetAcked(@, r.session)]
  /\ attempts' = [attempts EXCEPT ![r.task] = AckAttempt(@, r.chk, r.session)]
  /\ quiet' = [quiet EXCEPT ![r.task] = Silent]
  /\ landed' = [landed EXCEPT ![r.task] = @ /\ r.chk + 1 \in DOMAIN attempts[r.task]]
  /\ Finish(p)
  /\ UNCHANGED <<seen, waiter, sess, overrun>>

(* The other writers update the tasks row by task_id alone.                *)
WriteEnd(p) ==
  LET r == proc[p] IN
  /\ At(p, "write") /\ r.target # "acked"
  /\ tasks' = [tasks EXCEPT ![r.task] = SetPhase(@, r.target, r.session, r.from)]
  /\ IF r.op = "close" THEN Finish(p) ELSE Goto(p, "attempt")
  /\ UNCHANGED <<attempts, seen, waiter, world>>

(* Mutant: cleanup is called whether or not there is a session.            *)
WriteAttemptCleansNull(p) ==
  LET r == proc[p] IN
  /\ At(p, "attempt")
  /\ attempts' = [attempts EXCEPT ![r.task] = EndAttempt(@, r.chk, r.target, r.from)]
  /\ Goto(p, "cleanup")
  /\ UNCHANGED <<tasks, seen, waiter, world>>

(* record_attempt_terminal, by the writer itself for the attempt it read   *)
(* and by finalize_executor_receipt for the attempt it was called with.    *)
WriteAttempt(p) ==
  LET r == proc[p]
      own(h) == IF r.target = "ready_for_review" THEN h
                ELSE EndAttempt(h, r.chk, r.target, r.from)
      final(h) == IF r.op \in {"ingest", "wait"}
                  THEN EndAttempt(own(h), r.attempt, r.target, r.from) ELSE own(h)
  IN
  /\ At(p, "attempt")
  /\ attempts' = [attempts EXCEPT ![r.task] = final(@)]
  /\ CASE r.op \in {"budget", "stuck"} -> Goto(p, "recommend")
       [] r.op \in {"ingest", "wait", "abandon"} /\ r.session # NoSession -> Goto(p, "cleanup")
       [] OTHER -> Finish(p)
  /\ UNCHANGED <<tasks, seen, waiter, world>>

(* recommend_retry with the retry_count of the listed row.                 *)
RecommendRetry(p) ==
  LET r == proc[p] IN
  /\ At(p, "recommend")
  /\ tasks' = [tasks EXCEPT ![r.task] = SetRetryRecommended(@, r.retries)]
  /\ IF r.op = "watchdog" \/ r.session = NoSession THEN Finish(p) ELSE Goto(p, "cleanup")
  /\ UNCHANGED <<attempts, seen, waiter, world>>

(* Mutant: the session id is dropped though the directory may be there.    *)
CleanupSessionBlind(p) ==
  /\ At(p, "cleanup")
  /\ Cleaned(proc[p].session)
  /\ Goto(p, "clear")
  /\ UNCHANGED <<store, quiet, overrun, landed>>

(* cleanup of the session, then a look at whether the directory is gone;   *)
(* the inline poll does not look.                                          *)
CleanupSession(p) ==
  LET s == proc[p].session IN
  /\ At(p, "cleanup")
  /\ Cleaned(s)
  /\ IF sess'[s].state = "gone" \/ proc[p].op = "wait" THEN Goto(p, "clear") ELSE Finish(p)
  /\ UNCHANGED <<store, quiet, overrun, landed>>

(* clear_session_id: the tasks row only, whatever session it now holds.    *)
ClearSession(p) ==
  /\ At(p, "clear")
  /\ tasks' = [tasks EXCEPT ![proc[p].task].session = NoSession]
  /\ Finish(p)
  /\ UNCHANGED <<attempts, seen, waiter, world>>

(* executor.dispatch succeeds or fails.  auto_advance reads the phase once *)
(* more just before it.                                                    *)
Dispatch(p) ==
  LET t == proc[p].task IN
  /\ At(p, "dispatch")
  /\ proc[p].op = "advance" => tasks[t].phase = "new"
  /\ \/ /\ NewSession(t)
        /\ Becomes(p, [proc[p] EXCEPT !.pc = IF proc[p].op = "retry" THEN "bumpread" ELSE "check",
                                      !.session = Len(sess) + 1, !.target = "acked"])
     \/ /\ "dispatch_error" \in Events \/ Len(sess) = MaxSessions
        /\ UNCHANGED sess
        /\ Becomes(p, IF proc[p].op = "retry" THEN Idle
                      ELSE [proc[p] EXCEPT !.pc = "check", !.target = "blocked"])
  /\ UNCHANGED <<store, quiet, overrun, landed, tick>>

-----------------------------------------------------------------------------
(* Command line commands.                                                  *)

Begin(p, command, pc, t) ==
  /\ p \in Cli /\ At(p, "idle") /\ command \in Commands
  /\ Becomes(p, [Idle EXCEPT !.pc = pc, !.op = command, !.task = t])
  /\ UNCHANGED tick

(* task start: depends_on must name existing tasks; the row and its first  *)
(* attempt are inserted, the body goes into the journal.                   *)
StartCreate(p, t) ==
  /\ ~Exists(t)
  /\ \A i \in DOMAIN Deps[t] : Exists(Deps[t][i])
  /\ Begin(p, "start", IF Deps[t] = << >> THEN "dispatch" ELSE "deps", t)
  /\ tasks' = Insert(tasks, t, FreshTask)
  /\ attempts' = [attempts EXCEPT ![t] = Insert(@, 1, FreshAttempt)]
  /\ UNCHANGED <<seen, waiter, world>>

(* Mutant: a dependency that is over counts as met.                        *)
StartDepsWhenOver(p) ==
  LET deps == Deps[proc[p].task] IN
  /\ At(p, "deps")
  /\ IF \A i \in DOMAIN deps : InPhase(deps[i], TerminalPhases)
     THEN Goto(p, "dispatch") ELSE Finish(p)
  /\ UNCHANGED <<store, world>>

(* Dispatch now if every dependency is met, else leave it to the daemon.   *)
StartDeps(p) ==
  LET deps == Deps[proc[p].task] IN
  /\ At(p, "deps")
  /\ IF \A i \in DOMAIN deps : InPhase(deps[i], SuccessPhases)
     THEN Goto(p, "dispatch") ELSE Finish(p)
  /\ UNCHANGED <<store, world>>

(* Mutant: the task id of a wait is not looked up.                         *)
WaitBeginUnknown(p, t) ==
  /\ Begin(p, "wait", "read", t)
  /\ waiter' = [waiter EXCEPT ![t] = IF @ = "none" THEN p ELSE @]
  /\ UNCHANGED <<tasks, attempts, seen, world>>

(* task wait: at most one row of the waiters table is active per task; a   *)
(* second waiter polls without one.                                        *)
WaitBegin(p, t) ==
  /\ Exists(t)
  /\ Begin(p, "wait", "read", t)
  /\ waiter' = [waiter EXCEPT ![t] = IF @ = "none" THEN p ELSE @]
  /\ UNCHANGED <<tasks, attempts, seen, world>>

WaitEnd(p) ==
  /\ Becomes(p, Idle)
  /\ waiter' = [waiter EXCEPT ![proc[p].task] = IF @ = p THEN "none" ELSE @]
  /\ UNCHANGED <<tasks, attempts, seen, world, tick>>

(* One turn of the loop: an acked task with a session is polled inline.    *)
WaitRead(p) ==
  LET t == proc[p].task IN
  /\ At(p, "read") /\ InPhase(t, {"acked"}) /\ SessionOf(t) # NoSession
  /\ Becomes(p, [proc[p] EXCEPT !.pc = "poll", !.attempt = tasks[t].attempt,
                                !.session = SessionOf(t)])
  /\ UNCHANGED <<store, world, tick>>

WaitTerminal(p) ==
  /\ At(p, "read") /\ InPhase(proc[p].task, TerminalPhases)
  /\ WaitEnd(p)

(* The deadline, the controller lease or the watchdog ends the wait.       *)
WaitGiveUp(p) ==
  /\ At(p, "read") /\ ~InPhase(proc[p].task, TerminalPhases)
  /\ WaitEnd(p)

WaitPoll(p) ==
  LET verdict == Verdict(proc[p].session) IN
  /\ At(p, "poll")
  /\ IF verdict = "running" THEN Finish(p)
     ELSE /\ Becomes(p, [proc[p] EXCEPT !.pc = "check", !.target = verdict,
                                        !.from = proc[p].session])
          /\ UNCHANGED tick
  /\ UNCHANGED <<store, world>>

(* _guard_active_waiter and _guard_live_task.                              *)
MayIntervene(t) ==
  WithForce \/ (waiter[t] = "none" /\ (InPhase(t, {"acked"}) => quiet[t] # Fresh))

(* task retry dispatches first and opens the new attempt afterwards; the   *)
(* session of the old attempt is neither cancelled nor cleaned up.         *)
RetryBegin(p, t) ==
  /\ Exists(t) /\ MayIntervene(t) /\ tasks[t].attempt < MaxAttempts
  /\ Begin(p, "retry", "dispatch", t)
  /\ UNCHANGED <<store, world>>

RetryRead(p) ==
  LET t == proc[p].task IN
  /\ At(p, "bumpread")
  /\ Becomes(p, [proc[p] EXCEPT !.pc = "bumpwrite", !.chk = tasks[t].attempt,
                                !.retries = tasks[t].retries])
  /\ UNCHANGED <<store, world, tick>>

(* One transaction; a second row for the same attempt violates the primary *)
(* key, which rolls the update of the tasks row back and ends the command. *)
RetryWrite(p) ==
  LET r == proc[p] IN
  /\ At(p, "bumpwrite")
  /\ IF r.chk + 1 \in DOMAIN attempts[r.task]
     THEN Finish(p) /\ UNCHANGED <<tasks, attempts, landed>>
     ELSE /\ tasks' = [tasks EXCEPT ![r.task] = SetNextAttempt(r.chk, r.retries)]
          /\ attempts' = [attempts EXCEPT ![r.task] = Insert(@, r.chk + 1, FreshAttempt)]
          /\ landed' = [landed EXCEPT ![r.task] = FALSE]
          /\ Goto(p, "check")
  /\ UNCHANGED <<seen, waiter, sess, quiet, overrun>>

(* task abandon cancels the session of an acked task, then marks the task. *)
AbandonBegin(p, t) ==
  LET live == InPhase(t, {"acked"}) /\ SessionOf(t) # NoSession IN
  /\ Exists(t) /\ MayIntervene(t)
  /\ p \in Cli /\ At(p, "idle") /\ "abandon" \in Commands
  /\ Becomes(p, [Idle EXCEPT !.pc = IF live THEN "cancel" ELSE "check", !.op = "abandon",
                             !.task = t, !.target = "abandoned",
                             !.session = IF live THEN SessionOf(t) ELSE NoSession])
  /\ UNCHANGED <<store, world, tick>>

AbandonCancel(p) ==
  /\ At(p, "cancel")
  /\ Killed(proc[p].session)
  /\ Goto(p, "check")
  /\ UNCHANGED <<store, quiet, overrun, landed>>

(* task accept: the phase is read, then is_approved is set with no check.  *)
AcceptBegin(p, t) ==
  /\ InPhase(t, SuccessPhases) /\ ~tasks[t].approved
  /\ Begin(p, "accept", "approve", t)
  /\ UNCHANGED <<store, world>>

AcceptWrite(p) ==
  /\ At(p, "approve")
  /\ tasks' = [tasks EXCEPT ![proc[p].task].approved = TRUE]
  /\ Finish(p)
  /\ UNCHANGED <<attempts, seen, waiter, world>>

CommandStep(p) ==
  \/ \E t \in Task : \/ StartCreate(p, t) \/ WaitBegin(p, t) \/ RetryBegin(p, t)
                     \/ AbandonBegin(p, t) \/ AcceptBegin(p, t)
  \/ StartDeps(p) \/ WaitRead(p) \/ WaitTerminal(p) \/ WaitGiveUp(p) \/ WaitPoll(p)
  \/ RetryRead(p) \/ RetryWrite(p) \/ AbandonCancel(p) \/ AcceptWrite(p)

SharedStep(p) ==
  \/ MarkCheck(p) \/ WriteAcked(p) \/ WriteEnd(p) \/ WriteAttempt(p) \/ RecommendRetry(p)
  \/ CleanupSession(p) \/ ClearSession(p) \/ Dispatch(p)

-----------------------------------------------------------------------------
(* The daemon: run_once takes one stage after the other.  A stage lists    *)
(* its items in one query and then works through them.                     *)

NextStage(stage) ==
  CASE stage = "list" -> "poll"
    [] stage = "poll" -> "ingest"
    [] stage = "ingest" -> "scan"
    [] stage = "scan" -> "advance"
    [] stage = "advance" -> "close"
    [] stage = "close" -> "watchdog"
    [] stage = "watchdog" -> "budget"
    [] stage = "budget" -> "stuck"
    [] stage = "stuck" -> "sweep"
    [] stage = "sweep" -> "list"

(* The tasks a stage lists.  The watchdog window also excludes tasks that  *)
(* were acked longer ago than the hard timeout, so which of the silent     *)
(* ones it lists is left open.                                             *)
Selections(stage) ==
  LET acked == {t \in Task : InPhase(t, {"acked"})}
      fresh == acked \ tick.touched
      quietAt(age) == {t \in fresh : quiet[t] = age}
  IN CASE stage = "poll" -> {{t \in acked : tasks[t].session # NoSession}}
       [] stage = "advance" -> {{t \in Task : InPhase(t, {"new"}) /\ Deps[t] # << >>}}
       [] stage = "close" -> {fresh}
       [] stage = "watchdog" -> SUBSET {t \in quietAt(WatchdogAge) : ~tasks[t].retryRec}
       [] stage = "budget" -> {{t \in fresh \ tick.flagged : overrun[t]}}
       [] stage = "stuck" -> {quietAt(TimeoutAge) \ (tick.flagged \cup BudgetTasks)}
       [] stage = "sweep" -> {{t \in Task \ tick.touched : /\ InPhase(t, TerminalPhases)
                                                            /\ tasks[t].session # NoSession}}
       [] OTHER -> {{}}

(* The stage has no item left: on to the next one and its query.           *)
DaemonStage ==
  LET stage == NextStage(tick.stage) IN
  /\ "daemon" \in Commands
  /\ tick.stage \notin {"dead", "scan"} /\ tick.todo = {} /\ At(Daemon, "idle")
  /\ \E S \in Selections(stage) :
       tick' = IF stage = "list"
               THEN NewTick(IF tick.count < TicksPerBucket THEN tick.count + 1 ELSE tick.count)
               ELSE [tick EXCEPT !.stage = stage,
                                 !.todo = IF stage = "ingest" THEN tick.msgs
                                          ELSE {Listed(t) : t \in S},
                                 !.msgs = {}]
  /\ UNCHANGED <<store, world, proc>>

Take(item) == tick' = [tick EXCEPT !.todo = @ \ {item}]

Work(stage, pc, item) ==
  Becomes(Daemon, [Idle EXCEPT !.pc = pc, !.op = stage, !.task = item.task,
                               !.attempt = item.attempt, !.session = item.session,
                               !.retries = item.retries])

Marks(stage, item, target, evidence) ==
  Becomes(Daemon, [Idle EXCEPT !.pc = "check", !.op = stage, !.task = item.task,
                               !.target = target, !.from = evidence,
                               !.session = item.session, !.retries = item.retries])

DaemonTakes(stage, item) ==
  tick.stage = stage /\ At(Daemon, "idle") /\ item \in tick.todo

(* ingest_new_receipts, first loop: poll every listed task.                *)
DaemonPoll(item) ==
  /\ DaemonTakes("poll", item)
  /\ tick' = [tick EXCEPT !.todo = @ \ {item},
                          !.msgs = @ \cup {[item EXCEPT !.target = Verdict(item.session)]}]
  /\ UNCHANGED <<store, world, proc>>

(* Mutant: every heartbeat counts, not one per ten seconds.                *)
DaemonHeartbeatAlways(msg) ==
  LET t == msg.task IN
  /\ DaemonTakes("ingest", msg) /\ msg.target = "running"
  /\ quiet' = [quiet EXCEPT ![t] = Fresh]
  /\ tick' = [tick EXCEPT !.todo = @ \ {msg}, !.touched = @ \cup {t}]
  /\ UNCHANGED <<tasks, attempts, seen, waiter, sess, overrun, landed, proc>>

(* Second loop, a heartbeat.  One that is new touches the task, which      *)
(* keeps the rest of this tick away from it.                               *)
DaemonHeartbeat(msg) ==
  LET t == msg.task IN
  /\ DaemonTakes("ingest", msg) /\ msg.target = "running"
  /\ IF HeartbeatId(t) \in seen
     THEN Take(msg) /\ UNCHANGED <<seen, quiet>>
     ELSE /\ seen' = seen \cup {HeartbeatId(t)}
          /\ quiet' = [quiet EXCEPT ![t] = Fresh]
          /\ tick' = [tick EXCEPT !.todo = @ \ {msg}, !.touched = @ \cup {t}]
  /\ UNCHANGED <<tasks, attempts, waiter, sess, overrun, landed, proc>>

(* Mutant: the receipt is booked on whatever session the task has now.     *)
DaemonReceiptOfCurrent(msg) ==
  LET t == msg.task IN
  /\ DaemonTakes("ingest", msg) /\ msg.target # "running"
  /\ seen' = seen \cup {ReceiptId(msg)}
  /\ IF ReceiptId(msg) \in seen THEN UNCHANGED proc
     ELSE Becomes(Daemon, [Idle EXCEPT !.pc = "check", !.op = "ingest", !.task = t,
                             !.attempt = tasks[t].attempt, !.session = SessionOf(t),
                             !.target = msg.target, !.from = SessionOf(t)])
  /\ Take(msg)
  /\ UNCHANGED <<tasks, attempts, waiter, world>>

(* Second loop, a terminal receipt: its id is recorded before anything is  *)
(* done with it, and the task is read again by id.                         *)
DaemonReceipt(msg) ==
  LET t == msg.task IN
  /\ DaemonTakes("ingest", msg) /\ msg.target # "running"
  /\ seen' = seen \cup {ReceiptId(msg)}
  /\ IF ReceiptId(msg) \in seen THEN UNCHANGED proc
     ELSE Becomes(Daemon, [Idle EXCEPT !.pc = "check", !.op = "ingest", !.task = t,
                             !.attempt = tasks[t].attempt, !.session = SessionOf(t),
                             !.target = msg.target, !.from = msg.session])
  /\ Take(msg)
  /\ UNCHANGED <<tasks, attempts, waiter, world>>

(* scan_workspace_activity: file changes in the repositories of some acked *)
(* tasks count as signs of life.                                           *)
DaemonScan ==
  /\ tick.stage = "scan"
  /\ \E S \in SUBSET {t \in Task : "activity" \in Events /\ InPhase(t, {"acked"})} :
       quiet' = [t \in Task |-> IF t \in S THEN Fresh ELSE quiet[t]]
  /\ \E S \in Selections("advance") :
       tick' = [tick EXCEPT !.stage = "advance", !.todo = {Listed(t) : t \in S}]
  /\ UNCHANGED <<store, sess, overrun, landed, proc>>

(* Mutant: a dependency that ended blocked is still waited for.            *)
FailurePhasesButBlocked == {"abandoned", "stuck"}

(* The phases that fail a dependent task.                                  *)
FailurePhases == {"blocked", "abandoned", "stuck"}

(* auto_advance_dependent_tasks looks at the dependencies in order up to   *)
(* the first that has not succeeded.                                       *)
Unmet(t) == {i \in DOMAIN Deps[t] : ~InPhase(Deps[t][i], SuccessPhases)}
FirstUnmet(t) == Deps[t][CHOOSE i \in Unmet(t) : \A j \in Unmet(t) : i <= j]
DepFailed(t) == Unmet(t) # {} /\ (InPhase(FirstUnmet(t), FailurePhases) \/ ~Exists(FirstUnmet(t)))

DaemonAdvance(item) ==
  /\ DaemonTakes("advance", item)
  /\ CASE Unmet(item.task) = {} -> Work("advance", "dispatch", item)
       [] DepFailed(item.task) -> Marks("advance", item, "blocked", 0)
       [] OTHER -> UNCHANGED proc
  /\ Take(item)
  /\ UNCHANGED <<store, world>>

(* The phase re-check before dispatch finds the task already moved on.     *)
DaemonSkip ==
  /\ At(Daemon, "dispatch") /\ tasks[proc[Daemon].task].phase # "new"
  /\ Finish(Daemon)
  /\ UNCHANGED <<store, world>>

(* auto_close_evidence_ready_tasks: a commit that names the task.          *)
DaemonClose(item) ==
  /\ DaemonTakes("close", item)
  /\ IF landed[item.task]
     THEN Marks("close", item, "ready_for_review", RepoEvidence)
     ELSE UNCHANGED proc
  /\ Take(item)
  /\ UNCHANGED <<store, world>>

DaemonWatchdog(item) ==
  /\ DaemonTakes("watchdog", item)
  /\ Work("watchdog", "recommend", item) /\ Take(item)
  /\ UNCHANGED <<store, world>>

(* Mutant: the session is cleaned up first and the task marked after.      *)
DaemonTimeoutCleansFirst(item) ==
  /\ tick.stage \in {"budget", "stuck"} /\ DaemonTakes(tick.stage, item)
  /\ Work(tick.stage, "cleanup", item) /\ Take(item)
  /\ UNCHANGED <<store, world>>

(* mark_execution_budget_expired_tasks and mark_stuck_tasks.               *)
DaemonTimeout(item) ==
  /\ tick.stage \in {"budget", "stuck"} /\ DaemonTakes(tick.stage, item)
  /\ Marks(tick.stage, item, "stuck", 0)
  /\ Take(item)
  /\ UNCHANGED <<store, world>>

DaemonSweep(item) ==
  /\ DaemonTakes("sweep", item)
  /\ Work("sweep", "cleanup", item) /\ Take(item)
  /\ UNCHANGED <<store, world>>

DaemonOwnStep ==
  \/ DaemonStage \/ DaemonScan \/ DaemonSkip
  \/ \E item \in tick.todo :
       \/ DaemonPoll(item) \/ DaemonHeartbeat(item) \/ DaemonReceipt(item) \/ DaemonAdvance(item)
       \/ DaemonClose(item) \/ DaemonWatchdog(item) \/ DaemonTimeout(item) \/ DaemonSweep(item)

DaemonStep == DaemonOwnStep \/ SharedStep(Daemon)

-----------------------------------------------------------------------------
(* A process is killed between two steps.  The waiters row of a killed     *)
(* wait stays active; no new command owns it.                              *)
Crash(p) ==
  /\ "crash" \in Events /\ (~At(p, "idle") \/ (p = Daemon /\ tick # NewTick(tick.count)))
  /\ Becomes(p, Idle)
  /\ tick' = IF p = Daemon THEN NewTick(tick.count) ELSE tick
  /\ waiter' = [t \in Task |-> IF waiter[t] = p THEN "orphan" ELSE waiter[t]]
  /\ UNCHANGED <<tasks, attempts, seen, world>>

(* A daemon that an exception ended is started again by hand.              *)
DaemonRestart ==
  /\ tick.stage = "dead"
  /\ tick' = NewTick(tick.count)
  /\ UNCHANGED <<store, world, proc>>

SessionStep == \E s \in DOMAIN sess : SessionExit(s) \/ SessionCommit(s)
TimeStep == NextBucket \/ \E t \in Task : Elapse(t) \/ SpendBudget(t)

Next ==
  \/ \E p \in Cli : CommandStep(p) \/ SharedStep(p)
  \/ DaemonStep
  \/ SessionStep
  \/ TimeStep
  \/ \E p \in Proc : Crash(p)
  \/ DaemonRestart

Spec == Init /\ [][Next]_vars

(* Scheduling: the daemon keeps ticking, a command that has begun goes on, *)
(* time passes.  Whether executors ever return is a separate assumption.   *)
Goes(p) ==
  \/ StartDeps(p) \/ WaitRead(p) \/ WaitTerminal(p) \/ WaitPoll(p) \/ RetryRead(p)
  \/ RetryWrite(p) \/ AbandonCancel(p) \/ AcceptWrite(p) \/ SharedStep(p)

Fairness ==
  /\ WF_vars(DaemonStep)
  /\ \A p \in Cli : WF_vars(Goes(p))
  /\ \A t \in Task : WF_vars(Elapse(t)) /\ WF_vars(SpendBudget(t))

ExecutorsReturn ==
  \A s \in 1 .. MaxSessions :
    WF_vars(s \in DOMAIN sess /\ sess[s].task \notin BudgetTasks /\ SessionExit(s))

FairSpec == Spec /\ Fairness
LiveSpec == FairSpec /\ ExecutorsReturn
-----------------------------------------------------------------------------
(* Properties.                                                             *)

ProcState == [pc : {"idle", "deps", "dispatch", "check", "write", "attempt", "recommend",
                    "cleanup", "clear", "bumpread", "bumpwrite", "read", "poll", "cancel",
                    "approve"},
              op : {"none", "start", "wait", "retry", "abandon", "accept", "ingest", "advance",
                    "close", "watchdog", "budget", "stuck", "sweep"},
              task : Task \cup {NoTask}, attempt : Nat, session : Nat, retries : Nat,
              target : Phases, from : Nat \cup {RepoEvidence}, chk : Nat]

Item == [task : Task, attempt : Nat, session : Nat, retries : Nat,
         target : {"new", "running", "ready_for_review", "blocked"}]

Stages == {"list", "poll", "ingest", "scan", "advance", "close", "watchdog", "budget", "stuck",
           "sweep", "dead"}

(* Every variable has the shape the code gives it; in particular a process *)
(* that works on a task always works on one that is in the table.          *)
TypeOK ==
  /\ DOMAIN tasks \subseteq Task /\ \A t \in DOMAIN tasks : tasks[t] \in TaskRow
  /\ DOMAIN attempts = Task
  /\ \A t \in Task : \A n \in DOMAIN attempts[t] : n \in Nat /\ attempts[t][n] \in AttemptRow
  /\ seen \subseteq Task \X Nat \X Nat
  /\ waiter \in [Task -> {"none", "orphan"} \cup Cli]
  /\ sess \in Seq([task : Task, state : {"running", "exited", "gone"},
                   verdict : {"ready_for_review", "blocked"}])
  /\ quiet \in [Task -> Fresh .. TimeoutAge]
  /\ overrun \in [Task -> BOOLEAN] /\ landed \in [Task -> BOOLEAN]
  /\ proc \in [Proc -> ProcState]
  /\ tick \in [stage : Stages, todo : SUBSET Item, msgs : SUBSET Item,
               touched : SUBSET Task, flagged : SUBSET Task, count : Nat]
  /\ \A p \in Proc : ~At(p, "idle") => proc[p].task \in Task /\ Exists(proc[p].task)

(* Every session id anywhere, in the tables, in a listed row that may be   *)
(* ticks old, in the hands of any process, is that of a session that was   *)
(* started; what is polled, killed or removed is never NULL.               *)
SessionsKnown ==
  /\ \A t \in DOMAIN tasks : tasks[t].session <= Len(sess)
  /\ \A t \in Task : \A n \in DOMAIN attempts[t] : attempts[t][n].session <= Len(sess)
  /\ \A p \in Proc : /\ proc[p].session <= Len(sess)
                     /\ proc[p].pc \in {"poll", "cancel", "cleanup"} => proc[p].session # NoSession
  /\ \A item \in tick.todo \cup tick.msgs :
       /\ item.session <= Len(sess)
       /\ tick.stage \in {"poll", "sweep"} => item.session # NoSession

(* The attempt number of a task row is the number of its last attempt row, *)
(* and the attempts have no gap.                                           *)
AttemptChain ==
  \A t \in Task :
    DOMAIN attempts[t] = IF Exists(t) THEN 1 .. tasks[t].attempt ELSE {}

(* No step takes a task back to an earlier attempt or loses the record of  *)
(* one.                                                                    *)
HistoryGrows ==
  \A t \in Task : /\ DOMAIN attempts[t] \subseteq DOMAIN attempts'[t]
                  /\ Exists(t) => tasks'[t].attempt >= tasks[t].attempt

(* However many retries race, the attempts of a task stay a chain without  *)
(* a gap and only grow: the primary key of task_attempts and the single    *)
(* transaction of apply_retry_dispatch are all that serialises them.       *)
AttemptsOnlyGrow == [][HistoryGrows /\ AttemptChain']_vars

(* Under every interleaving of retries, polls and cleanups a task is only  *)
(* ever offered for review on the strength of one of its own sessions that *)
(* finished well, or of a commit.                                          *)
ReviewHasEvidence ==
  \A t \in Task : InPhase(t, SuccessPhases) =>
    \/ tasks[t].evidence = RepoEvidence
    \/ /\ tasks[t].evidence \in DOMAIN sess
       /\ sess[tasks[t].evidence].task = t
       /\ sess[tasks[t].evidence].verdict = "ready_for_review"

(* Without retries and dependencies, an acked task always has a session    *)
(* that can still be polled: directories are removed and session ids       *)
(* cleared only once the outcome is in the store.                          *)
AckedIsPollable ==
  \A t \in Task : InPhase(t, {"acked"}) =>
    tasks[t].session # NoSession /\ sess[tasks[t].session].state # "gone"

(* A session of a task is only started after each of its dependencies had  *)
(* a session that finished well or a commit that landed.                   *)
DependentsRunLater ==
  \A s \in DOMAIN sess : \A i \in DOMAIN Deps[sess[s].task] :
    LET dep == Deps[sess[s].task][i] IN
    landed[dep] \/ \E r \in DOMAIN sess : sess[r].task = dep /\ sess[r].verdict = "ready_for_review"

(* A task with an execution budget does not stay acked for ever, even if   *)
(* its executor never returns and keeps giving signs of life.              *)
BudgetEnds ==
  \A t \in BudgetTasks : InPhase(t, {"acked"}) ~> ~InPhase(t, {"acked"})

(* Every acked task ends: its receipt is ingested, its commit is found, or *)
(* it is declared stuck.                                                   *)
AckedEnds == \A t \in Task : InPhase(t, {"acked"}) ~> InPhase(t, TerminalPhases)

(* A deferred task is dispatched or blocked once its dependencies are all  *)
(* over.                                                                   *)
DeferredResolved ==
  \A t \in Task :
    InPhase(t, {"new"}) /\ (\A i \in DOMAIN Deps[t] : InPhase(Deps[t][i], TerminalPhases))
      ~> ~InPhase(t, {"new"})

(* The directory of the session of a finished task is removed in the end.  *)
SessionsReclaimed ==
  \A t \in Task : \A s \in 1 .. MaxSessions :
    (InPhase(t, TerminalPhases) /\ tasks[t].session = s) ~> (s \in DOMAIN sess /\ sess[s].state = "gone")

(* docs/usage.md says that stale receipts do not roll task state backward: *)
(* no receipt turns a success into a failure.                              *)
SuccessIsNotRolledBack ==
  [][\A t \in Task : InPhase(t, SuccessPhases) => tasks'[t].phase # "blocked"]_vars
=============================================================================
