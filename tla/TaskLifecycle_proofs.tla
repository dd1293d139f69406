----------------------- MODULE TaskLifecycle_proofs ------------------------
(***************************************************************************)
(* What holds of TaskLifecycle for every set of tasks and processes, every *)
(* dependency graph and any number of sessions and attempts, in four       *)
(* layers, each proved inductive with the help of the ones before it.      *)
(*                                                                         *)
(*   IInv     what each variable may hold.  What a process or the daemon's *)
(*            list remembers is related to the tables as they are now,     *)
(*            which works because the tables only grow (Grows): tasks and  *)
(*            sessions are never removed, attempt numbers never go down.   *)
(*   OwnInv   whose session each session id is, and which of them can be   *)
(*            the evidence of a review.                                    *)
(*   LoneInv  a task without retries and dependencies: one command starts  *)
(*            it, and nothing of it is cleaned up before it has ended.     *)
(*   DepInv   a task is dispatched on a result of its dependencies that    *)
(*            stands, when these are such tasks.                           *)
(***************************************************************************)
EXTENDS TaskLifecycle, SequenceTheorems, TLAPS

SessRow == [task : Task, state : {"running", "exited", "gone"},
            verdict : {"ready_for_review", "blocked"}]

TickState == [stage : Stages, todo : SUBSET Item, msgs : SUBSET Item,
              touched : SUBSET Task, flagged : SUBSET Task, count : Nat]

TasksOK ==
  /\ DOMAIN tasks \subseteq Task
  /\ \A t \in DOMAIN tasks : /\ tasks[t] \in TaskRow
                              /\ tasks[t].attempt >= 1
                              /\ tasks[t].session <= Len(sess)

(* A history with its last attempt numbered last, and sessions up to n.    *)
HistoryOK(h, last, n) ==
  /\ DOMAIN h = 1 .. last
  /\ \A k \in DOMAIN h : h[k] \in AttemptRow /\ h[k].session <= n

AttemptsOK ==
  /\ DOMAIN attempts = Task
  /\ \A t \in Task : HistoryOK(attempts[t], IF Exists(t) THEN tasks[t].attempt ELSE 0, Len(sess))

SessOK == sess \in Seq(SessRow)

EnvOK ==
  /\ seen \subseteq Task \X Nat \X Nat
  /\ waiter \in [Task -> {"none", "orphan"} \cup Cli]
  /\ quiet \in [Task -> Fresh .. TimeoutAge]
  /\ overrun \in [Task -> BOOLEAN]
  /\ landed \in [Task -> BOOLEAN]

(* The phases that a writer moves a task to.                               *)
Targets == {"acked", "ready_for_review", "blocked", "stuck", "abandoned"}

(* What a process remembers, given the tasks table and the number of       *)
(* sessions.                                                               *)
RecOK(r, table, n) ==
  /\ r \in ProcState
  /\ r.session <= n
  /\ r.pc # "idle" => r.task \in Task /\ r.task \in DOMAIN table
  /\ r.pc \in {"poll", "cancel", "cleanup"} => r.session # NoSession
  /\ r.pc = "bumpwrite" => r.chk \in 1 .. table[r.task].attempt
  /\ r.pc \in {"cancel", "check", "write", "bumpread", "bumpwrite"} => r.target \in Targets

ProcOK ==
  /\ proc \in [Proc -> ProcState]
  /\ \A p \in Proc : RecOK(proc[p], tasks, Len(sess))

(* An item of the list of a stage; what polling has found is kept to be    *)
(* the list of the stage "ingest".                                         *)
ItemOK(item, stage, table, n) ==
  /\ item \in Item
  /\ item.task \in DOMAIN table
  /\ item.session <= n
  /\ stage \in {"poll", "ingest", "sweep"} => item.session # NoSession
  /\ stage = "ingest" => item.target # "new"

TickOK ==
  /\ tick \in TickState
  /\ \A item \in tick.todo : ItemOK(item, tick.stage, tasks, Len(sess))
  /\ \A item \in tick.msgs : ItemOK(item, "ingest", tasks, Len(sess))

IInv == TasksOK /\ AttemptsOK /\ SessOK /\ EnvOK /\ ProcOK /\ TickOK

Grows ==
  /\ DOMAIN tasks \subseteq DOMAIN tasks'
  /\ \A t \in DOMAIN tasks : tasks[t].attempt <= tasks'[t].attempt
  /\ Len(sess) <= Len(sess')

-----------------------------------------------------------------------------
(* Lemmas on the tables.                                                   *)

(* A transition that writes none of the three tables keeps what is said of *)
(* them.                                                                   *)
LEMMA TablesSame ==
  ASSUME TasksOK, AttemptsOK, SessOK, UNCHANGED <<tasks, attempts, sess>>
  PROVE  TasksOK' /\ AttemptsOK' /\ SessOK' /\ Grows
BY LenProperties DEF TasksOK, AttemptsOK, SessOK, Grows, HistoryOK, Exists, TaskRow

(* An UPDATE of a task row that leaves the attempt number alone.           *)
LEMMA RowWritten ==
  ASSUME TasksOK, AttemptsOK, SessOK, NEW t \in DOMAIN tasks,
         NEW row \in TaskRow, row.attempt = tasks[t].attempt, row.session <= Len(sess),
         tasks' = [tasks EXCEPT ![t] = row], UNCHANGED <<attempts, sess>>
  PROVE  TasksOK' /\ AttemptsOK' /\ SessOK' /\ Grows
<1>1. /\ DOMAIN tasks' = DOMAIN tasks
      /\ \A u \in DOMAIN tasks : tasks'[u] = IF u = t THEN row ELSE tasks[u]
  OBVIOUS
<1>2. \A u \in DOMAIN tasks : tasks'[u].attempt = tasks[u].attempt
  BY <1>1
<1>3. TasksOK'
  BY <1>1 DEF TasksOK
<1>4. AttemptsOK'
  BY <1>1, <1>2 DEF AttemptsOK, Exists
<1>5. SessOK'
  BY DEF SessOK
<1>6. Grows
  BY <1>1, <1>2, LenProperties DEF Grows, TasksOK, SessOK, TaskRow
<1> QED
  BY <1>3, <1>4, <1>5, <1>6

(* An UPDATE of attempt rows, alone.                                       *)
LEMMA HistoryWritten ==
  ASSUME TasksOK, AttemptsOK, SessOK, NEW t \in DOMAIN tasks, NEW h,
         HistoryOK(h, tasks[t].attempt, Len(sess)),
         attempts' = [attempts EXCEPT ![t] = h], UNCHANGED <<tasks, sess>>
  PROVE  TasksOK' /\ AttemptsOK' /\ SessOK' /\ Grows
<1>1. t \in Task
  BY DEF TasksOK
<1>2. /\ DOMAIN attempts' = Task
      /\ \A u \in Task : attempts'[u] = IF u = t THEN h ELSE attempts[u]
  BY <1>1 DEF AttemptsOK
<1>3. AttemptsOK'
  BY <1>2 DEF AttemptsOK, Exists
<1> QED
  BY <1>3, LenProperties DEF TasksOK, SessOK, Grows, TaskRow

(* An executor step that changes one session.                              *)
LEMMA SessionWritten ==
  ASSUME TasksOK, AttemptsOK, SessOK, NEW s \in DOMAIN sess, NEW row \in SessRow,
         sess' = [sess EXCEPT ![s] = row], UNCHANGED <<tasks, attempts>>
  PROVE  TasksOK' /\ AttemptsOK' /\ SessOK' /\ Grows
<1>1. sess' \in Seq(SessRow) /\ Len(sess') = Len(sess)
  BY ExceptSeq DEF SessOK
<1> QED
  BY <1>1, LenProperties DEF TasksOK, AttemptsOK, SessOK, Grows, TaskRow, Exists

(* A dispatch that starts a session.                                       *)
LEMMA SessionAdded ==
  ASSUME TasksOK, AttemptsOK, SessOK, NEW t \in Task, NewSession(t), UNCHANGED <<tasks, attempts>>
  PROVE  TasksOK' /\ AttemptsOK' /\ SessOK' /\ Grows /\ Len(sess') = Len(sess) + 1
<1>1. sess' \in Seq(SessRow) /\ Len(sess') = Len(sess) + 1 /\ Len(sess) \in Nat
  BY AppendProperties, LenProperties DEF SessOK, NewSession, SessRow
<1>2. TasksOK'
  BY <1>1 DEF TasksOK, TaskRow
<1>3. AttemptsOK'
  BY <1>1 DEF AttemptsOK, HistoryOK, AttemptRow, Exists
<1> QED
  BY <1>1, <1>2, <1>3 DEF SessOK, Grows, TasksOK, TaskRow

-----------------------------------------------------------------------------
(* Lemmas on what processes and the daemon's tick remember.                *)

LEMMA IdleOK == ASSUME NEW table, NEW n \in Nat PROVE RecOK(Idle, table, n)
BY DEF RecOK, Idle, ProcState, NoSession, Phases

LEMMA LenIsNat == ASSUME SessOK PROVE Len(sess) \in Nat
BY LenProperties DEF SessOK

(* A memory stays good while the tables grow.                              *)
LEMMA RecKept ==
  ASSUME TasksOK, TasksOK', SessOK, SessOK', Grows, NEW r, RecOK(r, tasks, Len(sess))
  PROVE  RecOK(r, tasks', Len(sess'))
<1>1. Len(sess) \in Nat /\ Len(sess') \in Nat
  BY LenProperties DEF SessOK
<1>2. r.session \in Nat /\ r.chk \in Nat
  BY DEF RecOK, ProcState
<1>3. ASSUME r.pc = "bumpwrite" PROVE r.chk \in 1 .. tasks'[r.task].attempt
  <2>1. r.task \in DOMAIN tasks
    BY <1>3 DEF RecOK
  <2>2. /\ tasks[r.task].attempt \in Nat /\ tasks'[r.task].attempt \in Nat
        /\ tasks[r.task].attempt <= tasks'[r.task].attempt
    BY <2>1 DEF TasksOK, TaskRow, Grows
  <2> QED
    BY <1>3, <1>2, <2>2 DEF RecOK
<1> QED
  BY <1>1, <1>2, <1>3 DEF RecOK, Grows

LEMMA ProcKept ==
  ASSUME TasksOK, TasksOK', SessOK, SessOK', Grows, ProcOK, UNCHANGED proc
  PROVE  ProcOK'
BY RecKept DEF ProcOK

LEMMA ProcStep ==
  ASSUME TasksOK, TasksOK', SessOK, SessOK', Grows, ProcOK, NEW p \in Proc, NEW r,
         RecOK(r, tasks', Len(sess')), Becomes(p, r)
  PROVE  ProcOK'
<1>1. r \in ProcState
  BY DEF RecOK
<1>2. /\ proc' \in [Proc -> ProcState]
      /\ proc'[p] = r
      /\ \A q \in Proc : q # p => proc'[q] = proc[q]
  BY <1>1 DEF ProcOK, Becomes
<1>3. \A q \in Proc : RecOK(proc'[q], tasks', Len(sess'))
  BY <1>2, RecKept DEF ProcOK
<1> QED
  BY <1>2, <1>3 DEF ProcOK

LEMMA ItemKept ==
  ASSUME SessOK, SessOK', Grows, NEW item, NEW stage, ItemOK(item, stage, tasks, Len(sess))
  PROVE  ItemOK(item, stage, tasks', Len(sess'))
<1>1. Len(sess) \in Nat /\ Len(sess') \in Nat /\ item.session \in Nat
  BY LenProperties DEF SessOK, ItemOK, Item
<1> QED
  BY <1>1 DEF ItemOK, Grows

LEMMA TickKept ==
  ASSUME SessOK, SessOK', Grows, TickOK, UNCHANGED tick
  PROVE  TickOK'
BY ItemKept DEF TickOK

(* The tick only forgets items and records tasks in its skip lists.        *)
LEMMA TickShrinks ==
  ASSUME SessOK, SessOK', Grows, TickOK, tick' \in TickState, tick'.stage = tick.stage,
         tick'.todo \subseteq tick.todo, tick'.msgs \subseteq tick.msgs
  PROVE  TickOK'
BY ItemKept DEF TickOK

LEMMA FreshTickOK ==
  ASSUME TickOK, NEW n \in Nat, tick' = NewTick(n)
  PROVE  TickOK'
<1>1. tick' \in TickState
  BY DEF NewTick, TickState, Stages
<1> QED
  BY <1>1 DEF NewTick, TickOK

LEMMA DeadTickOK ==
  ASSUME TickOK, NEW n \in Nat, tick' = [NewTick(n) EXCEPT !.stage = "dead"]
  PROVE  TickOK'
<1>1. tick' \in TickState
  BY DEF NewTick, TickState, Stages
<1> QED
  BY <1>1 DEF NewTick, TickOK

-----------------------------------------------------------------------------
(* Steps that many actions end with.                                       *)

LEMMA GotoKeeps ==
  ASSUME TasksOK, TasksOK', SessOK, SessOK', Grows, ProcOK, TickOK, NEW p \in Proc,
         NEW pc \in {"deps", "dispatch", "check", "attempt", "recommend", "cleanup", "clear"},
         ~At(p, "idle"), pc = "cleanup" => proc[p].session # NoSession,
         pc = "check" => proc[p].target \in Targets, Goto(p, pc)
  PROVE  ProcOK' /\ TickOK'
<1>1. RecOK([proc[p] EXCEPT !.pc = pc], tasks, Len(sess))
  BY ZenonT(60) DEF ProcOK, RecOK, ProcState, At
<1>2. RecOK([proc[p] EXCEPT !.pc = pc], tasks', Len(sess'))
  BY <1>1, RecKept
<1> QED
  BY <1>2, ProcStep, TickKept DEF Goto

LEMMA FinishKeeps ==
  ASSUME TasksOK, TasksOK', SessOK, SessOK', Grows, ProcOK, TickOK, NEW p \in Proc,
         ~At(p, "idle"), Finish(p)
  PROVE  ProcOK' /\ TickOK'
<1>1. proc[p] \in ProcState /\ proc[p].task \in Task /\ proc[p].task \in DOMAIN tasks
  BY DEF ProcOK, RecOK, At
<1>2. Len(sess) \in Nat /\ Len(sess') \in Nat
  BY LenProperties DEF SessOK
<1>3. RecOK([Idle EXCEPT !.pc = "read", !.op = "wait", !.task = proc[p].task], tasks', Len(sess'))
  <2> DEFINE r == [Idle EXCEPT !.pc = "read", !.op = "wait", !.task = proc[p].task]
  <2>1. r.pc = "read" /\ r.session = 0 /\ r.task = proc[p].task
    BY DEF Idle, NoSession
  <2>2. Idle \in ProcState
    BY DEF Idle, ProcState, NoSession, Phases
  <2>3. r \in ProcState
    BY <2>2, <1>1 DEF ProcState
  <2>4. proc[p].task \in DOMAIN tasks'
    BY <1>1 DEF Grows
  <2> QED
    BY <2>1, <2>3, <2>4, <1>1, <1>2 DEF RecOK
<1>4. ProcOK'
  BY <1>2, <1>3, IdleOK, ProcStep DEF Finish
<1>5. tick \in TickState
  BY DEF TickOK
<1>6. /\ tick' \in TickState /\ tick'.stage = tick.stage
      /\ tick'.todo = tick.todo /\ tick'.msgs = tick.msgs
  BY <1>1, <1>5 DEF Finish, TickState
<1>7. TickOK'
  BY <1>6, TickShrinks
<1> QED
  BY <1>4, <1>7

LEMMA EnvSame ==
  ASSUME EnvOK, UNCHANGED <<seen, waiter, quiet, overrun, landed>>
  PROVE  EnvOK'
BY DEF EnvOK

(* The session get_task reports is one that was started, or NULL.          *)
LEMMA SessionOfOK ==
  ASSUME TasksOK, AttemptsOK, SessOK, NEW t \in DOMAIN tasks
  PROVE  SessionOf(t) \in Nat /\ SessionOf(t) <= Len(sess)
<1>1. t \in Task /\ tasks[t].session \in Nat /\ tasks[t].session <= Len(sess)
  BY DEF TasksOK, TaskRow
<1>2. \A k \in DOMAIN attempts[t] : attempts[t][k].session \in Nat /\ attempts[t][k].session <= Len(sess)
  BY <1>1 DEF AttemptsOK, HistoryOK, AttemptRow
<1> QED
  BY <1>1, <1>2 DEF SessionOf, JoinedSession

(* A process that is not idle works on a task of the table, and stays a    *)
(* process state.                                                          *)
LEMMA BusyOK ==
  ASSUME IInv, NEW p \in Proc, ~At(p, "idle")
  PROVE  /\ proc[p] \in ProcState
         /\ proc[p].task \in Task /\ proc[p].task \in DOMAIN tasks
         /\ proc[p].session \in Nat /\ proc[p].session <= Len(sess)
         /\ tasks[proc[p].task] \in TaskRow
         /\ tasks[proc[p].task].session <= Len(sess)
         /\ tasks[proc[p].task].attempt >= 1
         /\ Len(sess) \in Nat
<1>1. RecOK(proc[p], tasks, Len(sess))
  BY DEF IInv, ProcOK
<1>2. proc[p].task \in DOMAIN tasks
  BY <1>1 DEF RecOK, At
<1> QED
  BY <1>1, <1>2, LenIsNat DEF RecOK, ProcState, At, IInv, TasksOK

-----------------------------------------------------------------------------
(* The world around the commands.                                          *)

LEMMA SessionExitKeeps ==
  ASSUME IInv, NEW s \in DOMAIN sess, SessionExit(s)
  PROVE  IInv' /\ Grows
<1>1. PICK row \in SessRow : sess' = [sess EXCEPT ![s] = row]
  <2>1. sess[s] \in SessRow
    BY ElementOfSeq, LenProperties DEF IInv, SessOK
  <2>2. PICK verdict \in {"ready_for_review", "blocked"} :
          sess' = [sess EXCEPT ![s] = [@ EXCEPT !.state = "exited", !.verdict = verdict]]
    BY DEF SessionExit
  <2>3. [sess[s] EXCEPT !.state = "exited", !.verdict = verdict] \in SessRow
    BY <2>1 DEF SessRow
  <2> QED
    BY <2>2, <2>3
<1>2. TasksOK' /\ AttemptsOK' /\ SessOK' /\ Grows
  BY <1>1, SessionWritten DEF IInv, SessionExit, store
<1>3. EnvOK' /\ ProcOK' /\ TickOK'
  BY <1>2, EnvSame, ProcKept, TickKept DEF IInv, SessionExit, store
<1> QED
  BY <1>2, <1>3 DEF IInv

(* A step that touches neither the tables nor the memory of a process.     *)
LEMMA EnvStep ==
  ASSUME IInv, EnvOK', UNCHANGED <<tasks, attempts, sess, proc, tick>>
  PROVE  IInv' /\ Grows
<1>1. TasksOK' /\ AttemptsOK' /\ SessOK' /\ Grows
  BY TablesSame DEF IInv
<1> QED
  BY <1>1, ProcKept, TickKept DEF IInv

LEMMA SessionCommitKeeps ==
  ASSUME IInv, NEW s \in DOMAIN sess, SessionCommit(s)
  PROVE  IInv' /\ Grows
<1>1. EnvOK'
  BY DEF IInv, EnvOK, SessionCommit, store
<1> QED
  BY <1>1, EnvStep DEF SessionCommit, store

LEMMA TimeKeeps ==
  ASSUME IInv, NEW t \in Task, Elapse(t) \/ SpendBudget(t)
  PROVE  IInv' /\ Grows
<1>1. CASE Elapse(t)
  <2>1. quiet[t] \in 0 .. 3 /\ quiet[t] < MaxAge /\ MaxAge \in 1 .. 3
    BY <1>1, ConfigAssumption DEF Elapse, IInv, EnvOK, Fresh, TimeoutAge
  <2>2. EnvOK'
    BY <1>1, <2>1 DEF Elapse, IInv, EnvOK, Fresh, TimeoutAge, store
  <2> QED
    BY <1>1, <2>2, EnvStep DEF Elapse, store
<1>2. CASE SpendBudget(t)
  <2>1. EnvOK'
    BY <1>2 DEF SpendBudget, IInv, EnvOK, store
  <2> QED
    BY <1>2, <2>1, EnvStep DEF SpendBudget, store
<1> QED
  BY <1>1, <1>2

LEMMA NextBucketKeeps == ASSUME IInv, NextBucket PROVE IInv' /\ Grows
<1>1. TasksOK' /\ AttemptsOK' /\ SessOK' /\ Grows
  BY TablesSame DEF IInv, NextBucket, world
<1>2. EnvOK'
  BY DEF IInv, EnvOK, NextBucket, world
<1>3. tick' \in TickState /\ tick'.stage = tick.stage /\ tick'.todo = tick.todo /\ tick'.msgs = tick.msgs
  <2>1. tick \in TickState
    BY DEF IInv, TickOK
  <2> QED
    BY <2>1 DEF NextBucket, TickState
<1>4. TickOK'
  BY <1>1, <1>3, TickShrinks DEF IInv
<1> QED
  BY <1>1, <1>2, <1>4, ProcKept DEF IInv, NextBucket

LEMMA CrashKeeps == ASSUME IInv, NEW p \in Proc, Crash(p) PROVE IInv' /\ Grows
<1>1. TasksOK' /\ AttemptsOK' /\ SessOK' /\ Grows
  BY TablesSame DEF IInv, Crash, world
<1>2. EnvOK'
  BY DEF IInv, EnvOK, Crash, world
<1>3. ProcOK'
  BY <1>1, IdleOK, LenIsNat, ProcStep DEF IInv, Crash
<1>4. TickOK'
  <2>1. tick.count \in Nat
    BY DEF IInv, TickOK, TickState
  <2>2. CASE p = Daemon
    BY <2>1, <2>2, FreshTickOK DEF Crash, IInv
  <2>3. CASE p # Daemon
    BY <1>1, <2>3, TickKept DEF Crash, IInv
  <2> QED
    BY <2>2, <2>3
<1> QED
  BY <1>1, <1>2, <1>3, <1>4 DEF IInv

LEMMA DaemonRestartKeeps == ASSUME IInv, DaemonRestart PROVE IInv' /\ Grows
<1>1. TasksOK' /\ AttemptsOK' /\ SessOK' /\ Grows
  BY TablesSame DEF IInv, DaemonRestart, store, world
<1>2. tick.count \in Nat
  BY DEF IInv, TickOK, TickState
<1>3. TickOK'
  BY <1>2, FreshTickOK DEF IInv, DaemonRestart
<1> QED
  BY <1>1, <1>3, EnvSame, ProcKept DEF IInv, DaemonRestart, store, world

-----------------------------------------------------------------------------
(* Steps that commands and the daemon share.                               *)

(* A statement that writes the row of a task and its attempts together.    *)
LEMMA TablesWritten ==
  ASSUME TasksOK, AttemptsOK, SessOK, NEW t \in Task, NEW row \in TaskRow, NEW h,
         row.attempt >= 1, row.session <= Len(sess), HistoryOK(h, row.attempt, Len(sess)),
         t \in DOMAIN tasks => tasks[t].attempt <= row.attempt,
         DOMAIN tasks' = DOMAIN tasks \cup {t},
         \A u \in DOMAIN tasks' : tasks'[u] = IF u = t THEN row ELSE tasks[u],
         attempts' = [attempts EXCEPT ![t] = h], UNCHANGED sess
  PROVE  TasksOK' /\ AttemptsOK' /\ SessOK' /\ Grows
<1>1. TasksOK'
  BY DEF TasksOK
<1>2. /\ DOMAIN attempts' = Task
      /\ \A u \in Task : attempts'[u] = IF u = t THEN h ELSE attempts[u]
  BY DEF AttemptsOK
<1>3. AttemptsOK'
  BY <1>2 DEF AttemptsOK, Exists
<1>4. Grows
  BY LenIsNat DEF Grows, TasksOK, TaskRow
<1> QED
  BY <1>1, <1>3, <1>4 DEF SessOK

(* UPDATEs on attempts keep the numbering.                                 *)
LEMMA AckAttemptOK ==
  ASSUME NEW h, NEW last, NEW n, HistoryOK(h, last, n), NEW k, NEW s \in Nat, s <= n
  PROVE  HistoryOK(AckAttempt(h, k, s), last, n)
BY DEF HistoryOK, AckAttempt, AttemptRow, Phases

LEMMA EndAttemptOK ==
  ASSUME NEW h, NEW last, NEW n, HistoryOK(h, last, n), NEW k, NEW target \in Phases,
         NEW e \in Nat \cup {RepoEvidence}
  PROVE  HistoryOK(EndAttempt(h, k, target, e), last, n)
BY DEF HistoryOK, EndAttempt, AttemptRow

(* A step of a busy process that moves to r with the tables as they are.   *)
LEMMA QuietStep ==
  ASSUME IInv, UNCHANGED <<store, world>>, ProcOK', TickOK'
  PROVE  IInv' /\ Grows
BY TablesSame, EnvSame DEF IInv, store, world

LEMMA TablesSameQuiet ==
  ASSUME IInv, UNCHANGED <<store, world>>
  PROVE  TasksOK' /\ AttemptsOK' /\ SessOK' /\ EnvOK' /\ Grows
BY TablesSame, EnvSame DEF IInv, store, world

LEMMA MarkCheckKeeps == ASSUME IInv, NEW p \in Proc, MarkCheck(p) PROVE IInv' /\ Grows
<1> DEFINE row == tasks[proc[p].task]
           r == [proc[p] EXCEPT !.pc = "write", !.chk = row.attempt]
<1>1. TasksOK' /\ AttemptsOK' /\ SessOK' /\ EnvOK' /\ Grows
  BY TablesSameQuiet DEF MarkCheck
<1>2. ~At(p, "idle") /\ At(p, "check")
  BY DEF MarkCheck, At
<1>3. CASE row.phase \in ValidSources(proc[p].target)
  <2>1. row.attempt \in Nat
    BY <1>2, BusyOK DEF TaskRow
  <2>2. RecOK(r, tasks, Len(sess))
    BY <1>2, <2>1, BusyOK, ZenonT(60) DEF RecOK, ProcState, IInv, ProcOK, At
  <2>3. ProcOK'
    BY <1>1, <1>3, <2>2, RecKept, ProcStep DEF MarkCheck, IInv
  <2>4. TickOK'
    BY <1>1, <1>3, TickKept DEF MarkCheck, IInv
  <2> QED
    BY <1>1, <2>3, <2>4 DEF IInv
<1>4. CASE Raise(p)
  <2>1. Len(sess') \in Nat /\ tick.count \in Nat
    BY <1>1, LenIsNat DEF SessOK, IInv, TickOK, TickState
  <2>2. CASE proc[p].op \in {"ingest", "close"}
    BY <1>1, <1>4, <2>1, <2>2, IdleOK, ProcStep, TickKept DEF Raise, IInv
  <2>3. CASE proc[p].op \in {"advance", "budget", "stuck"}
    BY <1>1, <1>4, <2>1, <2>3, IdleOK, ProcStep, DeadTickOK DEF Raise, IInv
  <2>4. CASE Finish(p)
    BY <1>1, <1>2, <2>4, FinishKeeps DEF IInv
  <2> QED
    BY <1>4, <2>2, <2>3, <2>4 DEF Raise
<1> QED
  BY <1>3, <1>4 DEF MarkCheck

LEMMA WriteAckedKeeps == ASSUME IInv, NEW p \in Proc, WriteAcked(p) PROVE IInv' /\ Grows
<1> DEFINE r == proc[p]
           row == SetAcked(tasks[r.task], r.session)
           h == AckAttempt(attempts[r.task], r.chk, r.session)
<1>1. ~At(p, "idle")
  BY DEF WriteAcked, At
<1>2. row \in TaskRow /\ row.session <= Len(sess) /\ row.attempt = tasks[r.task].attempt
  BY <1>1, BusyOK DEF SetAcked, TaskRow, Phases
<1>3. HistoryOK(h, row.attempt, Len(sess))
  BY <1>1, <1>2, BusyOK, AckAttemptOK DEF IInv, AttemptsOK, Exists
<1>4. TasksOK' /\ AttemptsOK' /\ SessOK' /\ Grows
  <2>1. tasks[r.task].attempt <= row.attempt
    BY <1>1, <1>2, BusyOK DEF TaskRow
  <2>2. /\ DOMAIN tasks' = DOMAIN tasks \cup {r.task}
        /\ \A u \in DOMAIN tasks' : tasks'[u] = IF u = r.task THEN row ELSE tasks[u]
    BY <1>1, BusyOK DEF WriteAcked
  <2>3. attempts' = [attempts EXCEPT ![r.task] = h] /\ sess' = sess
    BY DEF WriteAcked
  <2> HIDE DEF row, h
  <2> QED
    BY <1>1, <1>2, <1>3, <2>1, <2>2, <2>3, BusyOK, TablesWritten DEF IInv
<1>5. EnvOK'
  <2> DEFINE open == landed[r.task] /\ r.chk + 1 \in DOMAIN attempts[r.task]
  <2>1. quiet' \in [Task -> Fresh .. TimeoutAge]
    <3>1. quiet' = [quiet EXCEPT ![r.task] = Silent]
      BY DEF WriteAcked
    <3>2. Silent \in Fresh .. TimeoutAge
      BY DEF Fresh, Silent, TimeoutAge
    <3> QED
      BY <3>1, <3>2 DEF IInv, EnvOK
  <2>2. open \in BOOLEAN /\ landed' = [landed EXCEPT ![r.task] = open]
    BY DEF WriteAcked
  <2>3. landed' \in [Task -> BOOLEAN]
    <3> HIDE DEF open
    <3> QED
      BY <2>2 DEF IInv, EnvOK
  <2> QED
    BY <2>1, <2>3 DEF IInv, EnvOK, WriteAcked
<1> QED
  BY <1>1, <1>4, <1>5, FinishKeeps DEF WriteAcked, IInv

LEMMA WriteEndKeeps == ASSUME IInv, NEW p \in Proc, WriteEnd(p) PROVE IInv' /\ Grows
<1> DEFINE r == proc[p]
           row == SetPhase(tasks[r.task], r.target, r.session, r.from)
<1>1. ~At(p, "idle") /\ r.target \in Targets \ {"acked"} /\ r.from \in Nat \cup {RepoEvidence}
  BY DEF WriteEnd, At, IInv, ProcOK, RecOK, ProcState
<1>2. row \in TaskRow /\ row.session <= Len(sess) /\ row.attempt = tasks[r.task].attempt
  <2>1. tasks[r.task] \in TaskRow /\ tasks[r.task].session <= Len(sess)
    BY <1>1, BusyOK
  <2>2. CASE r.target = "ready_for_review"
    BY <1>1, <2>1, <2>2 DEF SetPhase, SetReadyForReview, TaskRow, Phases, TerminalPhases, SuccessPhases
  <2>3. CASE r.target = "blocked"
    BY <1>1, <2>1, <2>3 DEF SetPhase, SetBlocked, TaskRow, Phases, TerminalPhases
  <2>4. CASE r.target = "stuck"
    BY <1>1, <2>1, <2>4 DEF SetPhase, SetStuck, TaskRow, Phases, TerminalPhases
  <2>5. CASE r.target = "abandoned"
    BY <1>1, <2>1, <2>5 DEF SetPhase, SetAbandoned, TaskRow, Phases, TerminalPhases
  <2> QED
    BY <1>1, <2>2, <2>3, <2>4, <2>5 DEF Targets
<1>3. tasks' = [tasks EXCEPT ![r.task] = row] /\ UNCHANGED <<attempts, sess>>
  BY DEF WriteEnd, world
<1>4. TasksOK' /\ AttemptsOK' /\ SessOK' /\ Grows
  <2> HIDE DEF row
  <2> QED
    BY <1>1, <1>2, <1>3, BusyOK, RowWritten DEF IInv
<1>5. EnvOK'
  BY EnvSame DEF IInv, WriteEnd, world
<1>6. ProcOK' /\ TickOK'
  BY <1>1, <1>4, FinishKeeps, GotoKeeps DEF WriteEnd, IInv
<1> QED
  BY <1>4, <1>5, <1>6 DEF IInv

LEMMA WriteAttemptKeeps == ASSUME IInv, NEW p \in Proc, WriteAttempt(p) PROVE IInv' /\ Grows
<1> DEFINE r == proc[p]
           t == r.task
           own(h) == IF r.target = "ready_for_review" THEN h
                     ELSE EndAttempt(h, r.chk, r.target, r.from)
           final(h) == IF r.op \in {"ingest", "wait"}
                       THEN EndAttempt(own(h), r.attempt, r.target, r.from) ELSE own(h)
<1>1. ~At(p, "idle")
  BY DEF WriteAttempt, At
<1>2. r.target \in Phases /\ r.from \in Nat \cup {RepoEvidence}
  BY <1>1, BusyOK DEF ProcState
<1>3. HistoryOK(attempts[t], tasks[t].attempt, Len(sess))
  BY <1>1, BusyOK DEF IInv, AttemptsOK, Exists
<1>4. HistoryOK(own(attempts[t]), tasks[t].attempt, Len(sess))
  BY <1>2, <1>3, EndAttemptOK
<1>5. HistoryOK(final(attempts[t]), tasks[t].attempt, Len(sess))
  BY <1>2, <1>4, EndAttemptOK
<1>6. attempts' = [attempts EXCEPT ![t] = final(attempts[t])] /\ UNCHANGED <<tasks, sess>>
  BY DEF WriteAttempt, world
<1>7. TasksOK' /\ AttemptsOK' /\ SessOK' /\ Grows
  <2> HIDE DEF final
  <2> QED
    BY <1>1, <1>5, <1>6, BusyOK, HistoryWritten DEF IInv
<1>8. EnvOK'
  BY EnvSame DEF IInv, WriteAttempt, world
<1>9. Goto(p, "recommend") \/ (r.session # NoSession /\ Goto(p, "cleanup")) \/ Finish(p)
  BY DEF WriteAttempt
<1>10. ProcOK' /\ TickOK'
  BY <1>1, <1>7, <1>9, FinishKeeps, GotoKeeps DEF IInv
<1> QED
  BY <1>7, <1>8, <1>10 DEF IInv

LEMMA RecommendRetryKeeps == ASSUME IInv, NEW p \in Proc, RecommendRetry(p) PROVE IInv' /\ Grows
<1> DEFINE r == proc[p]
           row == SetRetryRecommended(tasks[r.task], r.retries)
<1>1. ~At(p, "idle")
  BY DEF RecommendRetry, At
<1>2. row \in TaskRow /\ row.session <= Len(sess) /\ row.attempt = tasks[r.task].attempt
  <2>1. r.retries \in Nat /\ tasks[r.task] \in TaskRow /\ tasks[r.task].session <= Len(sess)
    BY <1>1, BusyOK DEF ProcState
  <2> QED
    BY <2>1 DEF SetRetryRecommended, TaskRow
<1>3. tasks' = [tasks EXCEPT ![r.task] = row] /\ UNCHANGED <<attempts, sess>>
  BY DEF RecommendRetry, world
<1>4. TasksOK' /\ AttemptsOK' /\ SessOK' /\ Grows
  <2> HIDE DEF row
  <2> QED
    BY <1>1, <1>2, <1>3, BusyOK, RowWritten DEF IInv
<1>5. EnvOK'
  BY EnvSame DEF IInv, RecommendRetry, world
<1>6. ProcOK' /\ TickOK'
  BY <1>1, <1>4, FinishKeeps, GotoKeeps DEF RecommendRetry, IInv
<1> QED
  BY <1>4, <1>5, <1>6 DEF IInv

LEMMA ClearSessionKeeps == ASSUME IInv, NEW p \in Proc, ClearSession(p) PROVE IInv' /\ Grows
<1> DEFINE t == proc[p].task
           row == [tasks[t] EXCEPT !.session = NoSession]
<1>1. ~At(p, "idle")
  BY DEF ClearSession, At
<1>2. row \in TaskRow /\ row.session <= Len(sess) /\ row.attempt = tasks[t].attempt
  BY <1>1, BusyOK DEF TaskRow, NoSession
<1>3. tasks' = [tasks EXCEPT ![t] = row] /\ UNCHANGED <<attempts, sess>>
  BY DEF ClearSession, world
<1>4. TasksOK' /\ AttemptsOK' /\ SessOK' /\ Grows
  <2> HIDE DEF row
  <2> QED
    BY <1>1, <1>2, <1>3, BusyOK, RowWritten DEF IInv
<1> QED
  BY <1>1, <1>4, EnvSame, FinishKeeps DEF ClearSession, IInv, world

(* cancel and cleanup change at most the state of one session.             *)
LEMMA SessionTouched ==
  ASSUME TasksOK, AttemptsOK, SessOK, NEW s \in DOMAIN sess, Killed(s) \/ Cleaned(s),
         UNCHANGED <<tasks, attempts>>
  PROVE  TasksOK' /\ AttemptsOK' /\ SessOK' /\ Grows
<1>1. sess[s] \in SessRow
  BY ElementOfSeq, LenProperties DEF SessOK
<1>2. \A x \in {"exited", "gone"} : [sess[s] EXCEPT !.state = x] \in SessRow
  BY <1>1 DEF SessRow
<1>3. sess' = sess \/ \E row \in SessRow : sess' = [sess EXCEPT ![s] = row]
  BY <1>2 DEF Killed, Cleaned
<1> QED
  BY <1>3, SessionWritten, TablesSame

(* Sessions at hand are in the table of sessions.                          *)
LEMMA HeldSession ==
  ASSUME SessOK, NEW s \in Nat, s <= Len(sess), s # NoSession
  PROVE  s \in DOMAIN sess
BY LenProperties DEF SessOK, NoSession

LEMMA CleanupSessionKeeps == ASSUME IInv, NEW p \in Proc, CleanupSession(p) PROVE IInv' /\ Grows
<1>1. ~At(p, "idle")
  BY DEF CleanupSession, At
<1>2. proc[p].session # NoSession
  BY DEF CleanupSession, At, IInv, ProcOK, RecOK
<1>3. TasksOK' /\ AttemptsOK' /\ SessOK' /\ Grows
  BY <1>1, <1>2, BusyOK, HeldSession, SessionTouched DEF CleanupSession, IInv, store
<1>4. Goto(p, "clear") \/ Finish(p)
  BY DEF CleanupSession
<1> QED
  BY <1>1, <1>3, <1>4, EnvSame, GotoKeeps, FinishKeeps DEF CleanupSession, IInv, store

LEMMA AbandonCancelKeeps == ASSUME IInv, NEW p \in Proc, AbandonCancel(p) PROVE IInv' /\ Grows
<1>1. ~At(p, "idle") /\ proc[p].session # NoSession /\ proc[p].target \in Targets
  BY DEF AbandonCancel, At, IInv, ProcOK, RecOK
<1>2. TasksOK' /\ AttemptsOK' /\ SessOK' /\ Grows
  BY <1>1, BusyOK, HeldSession, SessionTouched DEF AbandonCancel, IInv, store
<1> QED
  BY <1>1, <1>2, EnvSame, GotoKeeps DEF AbandonCancel, IInv, store

LEMMA DispatchKeeps == ASSUME IInv, NEW p \in Proc, Dispatch(p) PROVE IInv' /\ Grows
<1> DEFINE t == proc[p].task
<1>1. ~At(p, "idle") /\ At(p, "dispatch")
  BY DEF Dispatch, At
<1>2. EnvOK' /\ tick' = tick
  BY EnvSame DEF Dispatch, IInv, store
<1>3. CASE /\ NewSession(t)
           /\ Becomes(p, [proc[p] EXCEPT
                !.pc = IF proc[p].op = "retry" THEN "bumpread" ELSE "check",
                !.session = Len(sess) + 1, !.target = "acked"])
  <2> DEFINE pc == IF proc[p].op = "retry" THEN "bumpread" ELSE "check"
             r == [proc[p] EXCEPT !.pc = pc, !.session = Len(sess) + 1, !.target = "acked"]
  <2>1. TasksOK' /\ AttemptsOK' /\ SessOK' /\ Grows /\ Len(sess') = Len(sess) + 1
    BY <1>1, <1>3, BusyOK, SessionAdded DEF IInv, Dispatch, store
  <2>2. /\ r.pc \in {"bumpread", "check"} /\ r.session = Len(sess')
        /\ r.target = "acked" /\ r.task = t
    <3>1. proc[p] \in ProcState /\ pc \in {"bumpread", "check"}
      BY <1>1, BusyOK
    <3> HIDE DEF pc
    <3> QED
      BY <2>1, <3>1 DEF ProcState
  <2>3. r \in ProcState
    <3>1. proc[p] \in ProcState /\ pc \in {"bumpread", "check"} /\ Len(sess) + 1 \in Nat
      BY <1>1, BusyOK
    <3> HIDE DEF pc
    <3> QED
      BY <3>1 DEF ProcState, Phases
  <2>4. t \in Task /\ t \in DOMAIN tasks'
    BY <1>1, <2>1, BusyOK DEF Grows
  <2>5. RecOK(r, tasks', Len(sess'))
    <3> HIDE DEF r
    <3>1. Len(sess') \in Nat
      BY <2>1, LenIsNat
    <3> QED
      BY <2>2, <2>3, <2>4, <3>1 DEF RecOK, Targets
  <2> QED
    BY <1>2, <1>3, <2>1, <2>5, ProcStep, TickKept DEF IInv
<1>4. CASE /\ UNCHANGED sess
           /\ Becomes(p, IF proc[p].op = "retry" THEN Idle
                         ELSE [proc[p] EXCEPT !.pc = "check", !.target = "blocked"])
  <2>1. TasksOK' /\ AttemptsOK' /\ SessOK' /\ Grows
    BY <1>4, TablesSame DEF Dispatch, IInv, store
  <2>2. RecOK([proc[p] EXCEPT !.pc = "check", !.target = "blocked"], tasks, Len(sess))
    <3>1. proc[p] \in ProcState
      BY <1>1, BusyOK
    <3>2. [proc[p] EXCEPT !.pc = "check", !.target = "blocked"] \in ProcState
      BY <3>1 DEF ProcState, Phases, TerminalPhases
    <3> QED
      BY <1>1, <3>1, <3>2, BusyOK DEF RecOK, ProcState, Targets
  <2>3. RecOK([proc[p] EXCEPT !.pc = "check", !.target = "blocked"], tasks', Len(sess'))
    BY <2>1, <2>2, RecKept DEF IInv
  <2> QED
    BY <1>2, <1>4, <2>1, <2>3, IdleOK, LenIsNat, ProcStep, TickKept DEF IInv
<1> QED
  BY <1>3, <1>4 DEF Dispatch

(* Every step that commands and the daemon share.                          *)
LEMMA SharedStepKeeps == ASSUME IInv, NEW p \in Proc, SharedStep(p) PROVE IInv' /\ Grows
BY MarkCheckKeeps, WriteAckedKeeps, WriteEndKeeps, WriteAttemptKeeps, RecommendRetryKeeps,
   CleanupSessionKeeps, ClearSessionKeeps, DispatchKeeps DEF SharedStep

-----------------------------------------------------------------------------
(* Commands.                                                               *)

(* A new memory that holds no session and asks nothing of its task but to  *)
(* be there.                                                               *)
LEMMA BeginOK ==
  ASSUME NEW p, NEW command \in {"start", "wait", "retry", "accept"},
         NEW pc \in {"deps", "dispatch", "read", "approve"}, NEW t \in Task,
         NEW table, t \in DOMAIN table, NEW n \in Nat
  PROVE  RecOK([Idle EXCEPT !.pc = pc, !.op = command, !.task = t], table, n)
<1>1. [Idle EXCEPT !.pc = pc, !.op = command, !.task = t] \in ProcState
  BY DEF Idle, ProcState, NoSession, Phases
<1> QED
  BY <1>1 DEF RecOK, Idle, NoSession

LEMMA StartCreateKeeps ==
  ASSUME IInv, NEW p \in Cli, NEW t \in Task, StartCreate(p, t) PROVE IInv' /\ Grows
<1> DEFINE h == Insert(attempts[t], 1, FreshAttempt)
<1>1. DOMAIN attempts[t] = 1 .. 0
  BY DEF IInv, AttemptsOK, HistoryOK, StartCreate
<1>2. HistoryOK(h, 1, Len(sess))
  <2>1. DOMAIN h = 1 .. 1
    BY <1>1 DEF Insert
  <2>2. \A k \in DOMAIN h : h[k] = FreshAttempt
    BY <1>1, <2>1 DEF Insert
  <2>3. FreshAttempt \in AttemptRow /\ FreshAttempt.session = 0
    BY DEF FreshAttempt, AttemptRow, Phases, NoSession
  <2>4. Len(sess) \in Nat
    BY LenIsNat DEF IInv
  <2> HIDE DEF h
  <2> QED
    BY <2>1, <2>2, <2>3, <2>4 DEF HistoryOK
<1>3. FreshTask \in TaskRow /\ FreshTask.attempt = 1 /\ 1 >= 1 /\ FreshTask.session <= Len(sess)
  BY LenIsNat DEF FreshTask, TaskRow, Phases, NoSession, IInv
<1>4. TasksOK' /\ AttemptsOK' /\ SessOK' /\ Grows
  <2>1. t \notin DOMAIN tasks
    BY DEF StartCreate, Exists
  <2>2. /\ DOMAIN tasks' = DOMAIN tasks \cup {t}
        /\ \A u \in DOMAIN tasks' : tasks'[u] = IF u = t THEN FreshTask ELSE tasks[u]
    BY DEF StartCreate, Insert
  <2>3. attempts' = [attempts EXCEPT ![t] = h] /\ sess' = sess
    BY DEF StartCreate, world
  <2> HIDE DEF h
  <2> QED
    BY <1>2, <1>3, <2>1, <2>2, <2>3, TablesWritten DEF IInv
<1>5. EnvOK'
  BY EnvSame DEF IInv, StartCreate, world
<1>6. ProcOK'
  <2>1. PICK pc \in {"dispatch", "deps"} :
          Becomes(p, [Idle EXCEPT !.pc = pc, !.op = "start", !.task = t])
    BY DEF StartCreate, Begin
  <2>2. t \in DOMAIN tasks' /\ Len(sess') \in Nat /\ p \in Proc
    BY <1>4, LenIsNat DEF StartCreate, Insert, Proc
  <2> QED
    BY <1>4, <2>1, <2>2, BeginOK, ProcStep DEF IInv
<1>7. TickOK'
  BY <1>4, TickKept DEF StartCreate, Begin, IInv
<1> QED
  BY <1>4, <1>5, <1>6, <1>7 DEF IInv

(* Commands that begin on an existing task and change no table.            *)
LEMMA BeginKeeps ==
  ASSUME IInv, NEW p \in Cli, NEW t \in DOMAIN tasks,
         NEW command \in {"wait", "retry", "accept"}, NEW pc \in {"dispatch", "read", "approve"},
         Begin(p, command, pc, t), UNCHANGED <<tasks, attempts, sess>>, EnvOK'
  PROVE  IInv' /\ Grows
<1>1. TasksOK' /\ AttemptsOK' /\ SessOK' /\ Grows
  BY TablesSame DEF IInv
<1>2. t \in Task /\ t \in DOMAIN tasks' /\ Len(sess') \in Nat /\ p \in Proc
  BY <1>1, LenIsNat DEF IInv, TasksOK, Proc
<1>3. ProcOK'
  BY <1>1, <1>2, BeginOK, ProcStep DEF Begin, IInv
<1> QED
  BY <1>1, <1>3, TickKept DEF Begin, IInv

LEMMA WaitBeginKeeps ==
  ASSUME IInv, NEW p \in Cli, NEW t \in Task, WaitBegin(p, t) PROVE IInv' /\ Grows
<1>1. EnvOK'
  BY DEF IInv, EnvOK, WaitBegin, world
<1> QED
  BY <1>1, BeginKeeps DEF WaitBegin, world, Exists

LEMMA RetryBeginKeeps ==
  ASSUME IInv, NEW p \in Cli, NEW t \in Task, RetryBegin(p, t) PROVE IInv' /\ Grows
BY EnvSame, BeginKeeps DEF RetryBegin, store, world, Exists, IInv

LEMMA AcceptBeginKeeps ==
  ASSUME IInv, NEW p \in Cli, NEW t \in Task, AcceptBegin(p, t) PROVE IInv' /\ Grows
BY EnvSame, BeginKeeps DEF AcceptBegin, InPhase, store, world, Exists, IInv

LEMMA AbandonBeginKeeps ==
  ASSUME IInv, NEW p \in Cli, NEW t \in Task, AbandonBegin(p, t) PROVE IInv' /\ Grows
<1> DEFINE live == InPhase(t, {"acked"}) /\ SessionOf(t) # NoSession
           pc == IF live THEN "cancel" ELSE "check"
           s == IF live THEN SessionOf(t) ELSE NoSession
           r == [Idle EXCEPT !.pc = pc, !.op = "abandon", !.task = t, !.target = "abandoned",
                             !.session = s]
<1>1. TasksOK' /\ AttemptsOK' /\ SessOK' /\ EnvOK' /\ Grows
  BY TablesSameQuiet DEF AbandonBegin
<1>2. t \in DOMAIN tasks /\ p \in Proc /\ Len(sess) \in Nat
  BY LenIsNat DEF AbandonBegin, Exists, Proc, IInv
<1>3. s \in Nat /\ s <= Len(sess) /\ pc \in {"cancel", "check"} /\ (pc = "cancel" => s # NoSession)
  BY <1>2, SessionOfOK DEF NoSession, IInv
<1>4. RecOK(r, tasks, Len(sess))
  <2> HIDE DEF s, pc
  <2>1. r \in ProcState
    BY <1>3 DEF Idle, ProcState, Phases, TerminalPhases, NoSession
  <2>2. r.pc = pc /\ r.session = s /\ r.task = t /\ r.target = "abandoned"
    BY <1>3 DEF Idle
  <2> HIDE DEF r
  <2> QED
    BY <1>2, <1>3, <2>1, <2>2 DEF RecOK, Targets
<1>5. Becomes(p, r) /\ tick' = tick
  BY DEF AbandonBegin
<1> QED
  BY <1>1, <1>2, <1>4, <1>5, RecKept, ProcStep, TickKept DEF IInv

LEMMA StartDepsKeeps == ASSUME IInv, NEW p \in Cli, StartDeps(p) PROVE IInv' /\ Grows
<1>1. ~At(p, "idle") /\ p \in Proc
  BY DEF StartDeps, At, Proc
<1>2. Goto(p, "dispatch") \/ Finish(p)
  BY DEF StartDeps
<1> QED
  BY <1>1, <1>2, TablesSameQuiet, GotoKeeps, FinishKeeps DEF StartDeps, IInv

LEMMA WaitReadKeeps == ASSUME IInv, NEW p \in Cli, WaitRead(p) PROVE IInv' /\ Grows
<1> DEFINE t == proc[p].task
           r == [proc[p] EXCEPT !.pc = "poll", !.attempt = tasks[t].attempt,
                                !.session = SessionOf(t)]
<1>1. TasksOK' /\ AttemptsOK' /\ SessOK' /\ EnvOK' /\ Grows
  BY TablesSameQuiet DEF WaitRead
<1>2. ~At(p, "idle") /\ p \in Proc
  BY DEF WaitRead, At, Proc
<1>3. SessionOf(t) \in Nat /\ SessionOf(t) <= Len(sess) /\ SessionOf(t) # NoSession
  BY <1>2, BusyOK, SessionOfOK DEF IInv, WaitRead
<1>4. tasks[t].attempt \in Nat
  BY <1>2, BusyOK DEF TaskRow
<1>5. r \in ProcState
  BY <1>2, <1>3, <1>4, BusyOK, ZenonT(60) DEF ProcState
<1>6. r.pc = "poll" /\ r.session = SessionOf(t) /\ r.task = t
  BY <1>2, BusyOK DEF ProcState
<1>7. RecOK(r, tasks, Len(sess))
  <2> HIDE DEF r
  <2> QED
    BY <1>2, <1>3, <1>5, <1>6, BusyOK DEF RecOK
<1>8. Becomes(p, r) /\ tick' = tick
  BY DEF WaitRead
<1> QED
  BY <1>1, <1>2, <1>7, <1>8, RecKept, ProcStep, TickKept DEF IInv

LEMMA WaitEndKeeps ==
  ASSUME IInv, NEW p \in Cli, WaitTerminal(p) \/ WaitGiveUp(p) PROVE IInv' /\ Grows
<1>1. TasksOK' /\ AttemptsOK' /\ SessOK' /\ Grows
  BY TablesSame DEF IInv, WaitTerminal, WaitGiveUp, WaitEnd, world
<1>2. EnvOK'
  BY DEF IInv, EnvOK, WaitTerminal, WaitGiveUp, WaitEnd, world
<1>3. ProcOK'
  BY <1>1, IdleOK, LenIsNat, ProcStep DEF IInv, WaitTerminal, WaitGiveUp, WaitEnd, Proc
<1>4. TickOK'
  BY <1>1, TickKept DEF IInv, WaitTerminal, WaitGiveUp, WaitEnd
<1> QED
  BY <1>1, <1>2, <1>3, <1>4 DEF IInv

(* What a poll of a known session may find.                                *)
LEMMA VerdictOK ==
  ASSUME SessOK, NEW s \in DOMAIN sess
  PROVE  Verdict(s) \in {"running", "ready_for_review", "blocked"}
<1>1. sess[s] \in SessRow
  BY ElementOfSeq, LenProperties DEF SessOK
<1> QED
  BY <1>1 DEF Verdict, SessRow

LEMMA WaitPollKeeps == ASSUME IInv, NEW p \in Cli, WaitPoll(p) PROVE IInv' /\ Grows
<1> DEFINE verdict == Verdict(proc[p].session)
           r == [proc[p] EXCEPT !.pc = "check", !.target = verdict, !.from = proc[p].session]
<1>1. TasksOK' /\ AttemptsOK' /\ SessOK' /\ EnvOK' /\ Grows
  BY TablesSameQuiet DEF WaitPoll
<1>2. ~At(p, "idle") /\ p \in Proc /\ proc[p].session # NoSession
  BY DEF WaitPoll, At, Proc, IInv, ProcOK, RecOK
<1>3. verdict \in {"running", "ready_for_review", "blocked"}
  BY <1>2, BusyOK, HeldSession, VerdictOK DEF IInv
<1>4. CASE verdict = "running"
  BY <1>1, <1>2, <1>4, FinishKeeps DEF WaitPoll, IInv
<1>5. CASE verdict # "running"
  <2>1. verdict \in {"ready_for_review", "blocked"} /\ Becomes(p, r) /\ tick' = tick
    BY <1>3, <1>5 DEF WaitPoll
  <2> HIDE DEF verdict
  <2>2. r \in ProcState
    BY <1>2, <2>1, BusyOK, ZenonT(60) DEF ProcState, Phases, TerminalPhases, SuccessPhases
  <2>3. r.pc = "check" /\ r.task = proc[p].task /\ r.session = proc[p].session /\ r.target = verdict
    BY <1>2, BusyOK DEF ProcState
  <2>4. RecOK(r, tasks, Len(sess))
    <3> HIDE DEF r
    <3> QED
      BY <1>2, <2>1, <2>2, <2>3, BusyOK DEF RecOK, Targets
  <2> HIDE DEF r
  <2> QED
    BY <1>1, <1>2, <2>1, <2>4, RecKept, ProcStep, TickKept DEF IInv
<1> QED
  BY <1>4, <1>5

LEMMA RetryReadKeeps == ASSUME IInv, NEW p \in Cli, RetryRead(p) PROVE IInv' /\ Grows
<1> DEFINE t == proc[p].task
           r == [proc[p] EXCEPT !.pc = "bumpwrite", !.chk = tasks[t].attempt,
                                !.retries = tasks[t].retries]
<1>1. TasksOK' /\ AttemptsOK' /\ SessOK' /\ EnvOK' /\ Grows
  BY TablesSameQuiet DEF RetryRead
<1>2. ~At(p, "idle") /\ p \in Proc /\ proc[p].target \in Targets
  BY DEF RetryRead, At, Proc, IInv, ProcOK, RecOK
<1>3. /\ tasks[t].attempt \in Nat /\ tasks[t].retries \in Nat
      /\ tasks[t].attempt >= 1
  BY <1>2, BusyOK DEF TaskRow
<1>4. r \in ProcState
  BY <1>2, <1>3, BusyOK, ZenonT(60) DEF ProcState
<1>5. /\ r.pc = "bumpwrite" /\ r.task = t /\ r.session = proc[p].session
      /\ r.target = proc[p].target /\ r.chk = tasks[t].attempt
  BY <1>2, <1>3, BusyOK DEF ProcState
<1>6. RecOK(r, tasks, Len(sess))
  <2> HIDE DEF r
  <2> QED
    BY <1>2, <1>3, <1>4, <1>5, BusyOK DEF RecOK
<1>7. Becomes(p, r) /\ tick' = tick
  BY DEF RetryRead
<1> QED
  BY <1>1, <1>2, <1>6, <1>7, RecKept, ProcStep, TickKept DEF IInv

(* The primary key: a history that ends at last and has no row k + 1, with *)
(* k at most last, has last = k, so the row inserted is the next one.      *)
LEMMA NextAttemptOK ==
  ASSUME NEW h, NEW last \in Nat, NEW n \in Nat, HistoryOK(h, last, n),
         NEW k \in 1 .. last, k + 1 \notin DOMAIN h
  PROVE  k = last /\ HistoryOK(Insert(h, k + 1, FreshAttempt), k + 1, n)
<1>1. k = last
  BY DEF HistoryOK
<1>2. FreshAttempt \in AttemptRow /\ FreshAttempt.session = 0
  BY DEF FreshAttempt, AttemptRow, Phases, NoSession
<1>3. 1 .. (last + 1) = (1 .. last) \cup {last + 1}
  OBVIOUS
<1> QED
  BY <1>1, <1>2, <1>3 DEF HistoryOK, Insert

LEMMA RetryWriteKeeps == ASSUME IInv, NEW p \in Cli, RetryWrite(p) PROVE IInv' /\ Grows
<1> DEFINE r == proc[p]
           t == r.task
           row == SetNextAttempt(r.chk, r.retries)
           h == Insert(attempts[t], r.chk + 1, FreshAttempt)
<1>1. ~At(p, "idle") /\ p \in Proc /\ r.target \in Targets /\ r.chk \in 1 .. tasks[t].attempt
  BY DEF RetryWrite, At, Proc, IInv, ProcOK, RecOK
<1>2. CASE r.chk + 1 \in DOMAIN attempts[t]
  <2>1. UNCHANGED <<store, world>> /\ Finish(p)
    BY <1>2 DEF RetryWrite, store, world
  <2> QED
    BY <1>1, <2>1, TablesSameQuiet, FinishKeeps DEF IInv
<1>3. CASE r.chk + 1 \notin DOMAIN attempts[t]
  <2>1. /\ DOMAIN tasks' = DOMAIN tasks
        /\ \A u \in DOMAIN tasks' : tasks'[u] = IF u = t THEN row ELSE tasks[u]
    BY <1>1, <1>3, BusyOK DEF RetryWrite
  <2>2. attempts' = [attempts EXCEPT ![t] = h] /\ sess' = sess
    BY <1>3 DEF RetryWrite
  <2>3. HistoryOK(attempts[t], tasks[t].attempt, Len(sess)) /\ tasks[t].attempt \in Nat
    BY <1>1, BusyOK DEF IInv, AttemptsOK, Exists, TaskRow
  <2>4. r.chk = tasks[t].attempt /\ HistoryOK(h, r.chk + 1, Len(sess))
    BY <1>1, <1>3, <2>3, LenIsNat, NextAttemptOK DEF IInv
  <2>5. row \in TaskRow /\ row.attempt = r.chk + 1 /\ row.session = 0
    BY <1>1, <2>3, <2>4, BusyOK DEF SetNextAttempt, TaskRow, Phases, NoSession, ProcState
  <2>6. TasksOK' /\ AttemptsOK' /\ SessOK' /\ Grows
    <3>1. /\ row.attempt >= 1 /\ row.session <= Len(sess)
          /\ tasks[t].attempt <= row.attempt /\ t \in DOMAIN tasks
      BY <1>1, <2>3, <2>4, <2>5, BusyOK
    <3>2. HistoryOK(h, row.attempt, Len(sess))
      BY <2>4, <2>5
    <3>3. DOMAIN tasks' = DOMAIN tasks \cup {t}
      BY <2>1, <3>1
    <3> HIDE DEF row, h
    <3> QED
      BY <1>1, <2>1, <2>2, <2>5, <3>1, <3>2, <3>3, BusyOK, TablesWritten DEF IInv
  <2>7. EnvOK'
    BY <1>3 DEF IInv, EnvOK, RetryWrite
  <2> QED
    BY <1>1, <1>3, <2>6, <2>7, GotoKeeps DEF RetryWrite, IInv
<1> QED
  BY <1>2, <1>3

LEMMA AcceptWriteKeeps == ASSUME IInv, NEW p \in Cli, AcceptWrite(p) PROVE IInv' /\ Grows
<1> DEFINE t == proc[p].task
           row == [tasks[t] EXCEPT !.approved = TRUE]
<1>1. ~At(p, "idle") /\ p \in Proc
  BY DEF AcceptWrite, At, Proc
<1>2. row \in TaskRow /\ row.session <= Len(sess) /\ row.attempt = tasks[t].attempt
  BY <1>1, BusyOK DEF TaskRow
<1>3. tasks' = [tasks EXCEPT ![t] = row] /\ UNCHANGED <<attempts, sess>>
  BY DEF AcceptWrite, world
<1>4. TasksOK' /\ AttemptsOK' /\ SessOK' /\ Grows
  <2> HIDE DEF row
  <2> QED
    BY <1>1, <1>2, <1>3, BusyOK, RowWritten DEF IInv
<1> QED
  BY <1>1, <1>4, EnvSame, FinishKeeps DEF AcceptWrite, IInv, world

LEMMA CommandStepKeeps == ASSUME IInv, NEW p \in Cli, CommandStep(p) PROVE IInv' /\ Grows
BY StartCreateKeeps, WaitBeginKeeps, RetryBeginKeeps, AbandonBeginKeeps, AcceptBeginKeeps,
   StartDepsKeeps, WaitReadKeeps, WaitEndKeeps, WaitPollKeeps, RetryReadKeeps, RetryWriteKeeps,
   AbandonCancelKeeps, AcceptWriteKeeps DEF CommandStep, Proc

-----------------------------------------------------------------------------
(* The daemon.                                                             *)

(* The facts about the item a stage works on.                              *)
LEMMA TakesOK ==
  ASSUME IInv, NEW stage, NEW item \in tick.todo, DaemonTakes(stage, item)
  PROVE  /\ item \in Item /\ item.task \in Task /\ item.task \in DOMAIN tasks
         /\ item.attempt \in Nat /\ item.session \in Nat /\ item.retries \in Nat
         /\ item.session <= Len(sess)
         /\ stage \in {"poll", "ingest", "sweep"} => item.session # NoSession
         /\ stage = "ingest" => item.target # "new"
         /\ tick \in TickState /\ tick.stage = stage
         /\ Daemon \in Proc /\ Len(sess) \in Nat
<1>1. ItemOK(item, stage, tasks, Len(sess)) /\ tick \in TickState /\ tick.stage = stage
  BY DEF IInv, TickOK, DaemonTakes
<1> QED
  BY <1>1, LenIsNat DEF ItemOK, Item, Proc, IInv

LEMMA TakeKeeps ==
  ASSUME SessOK, SessOK', Grows, TickOK, NEW item \in tick.todo, Take(item)
  PROVE  TickOK'
<1>1. tick \in TickState
  BY DEF TickOK
<1>2. /\ tick' \in TickState /\ tick'.stage = tick.stage
      /\ tick'.todo \subseteq tick.todo /\ tick'.msgs = tick.msgs
  BY <1>1 DEF Take, TickState
<1> QED
  BY <1>2, TickShrinks

(* The daemon sets out to work on an item with the tables as they are.     *)
LEMMA WorkItem ==
  ASSUME IInv, UNCHANGED <<store, world>>, NEW item \in tick.todo, Take(item),
         NEW r, RecOK(r, tasks, Len(sess)), Becomes(Daemon, r)
  PROVE  IInv' /\ Grows
<1>1. TasksOK' /\ AttemptsOK' /\ SessOK' /\ EnvOK' /\ Grows
  BY TablesSameQuiet
<1>2. RecOK(r, tasks', Len(sess'))
  BY <1>1, RecKept DEF IInv
<1>3. Daemon \in Proc
  BY DEF Proc
<1> QED
  BY <1>1, <1>2, <1>3, ProcStep, TakeKeeps DEF IInv

LEMMA LeaveItem ==
  ASSUME IInv, UNCHANGED <<store, world, proc>>, NEW item \in tick.todo, Take(item)
  PROVE  IInv' /\ Grows
<1>1. TasksOK' /\ AttemptsOK' /\ SessOK' /\ EnvOK' /\ Grows
  BY TablesSameQuiet
<1> QED
  BY <1>1, ProcKept, TakeKeeps DEF IInv

(* The memory the daemon starts on an item with.                           *)
LEMMA WorkOK ==
  ASSUME IInv, NEW stage \in {"advance", "watchdog", "sweep"}, NEW item \in tick.todo,
         DaemonTakes(stage, item), NEW pc \in {"dispatch", "recommend", "cleanup"},
         pc = "cleanup" => stage = "sweep"
  PROVE  RecOK([Idle EXCEPT !.pc = pc, !.op = stage, !.task = item.task,
                            !.attempt = item.attempt, !.session = item.session,
                            !.retries = item.retries], tasks, Len(sess))
<1> DEFINE r == [Idle EXCEPT !.pc = pc, !.op = stage, !.task = item.task,
                             !.attempt = item.attempt, !.session = item.session,
                             !.retries = item.retries]
<1>1. r \in ProcState
  BY TakesOK DEF Idle, ProcState, NoSession, Phases
<1>2. r.pc = pc /\ r.session = item.session /\ r.task = item.task
  BY DEF Idle
<1>3. RecOK(r, tasks, Len(sess))
  <2> HIDE DEF r
  <2> QED
    BY <1>1, <1>2, TakesOK DEF RecOK
<1> QED
  BY <1>3

LEMMA MarkOK ==
  ASSUME IInv, NEW stage \in {"advance", "close", "budget", "stuck"}, NEW item \in tick.todo,
         DaemonTakes(stage, item), NEW target \in Targets,
         NEW evidence \in Nat \cup {RepoEvidence}
  PROVE  RecOK([Idle EXCEPT !.pc = "check", !.op = stage, !.task = item.task,
                            !.target = target, !.from = evidence,
                            !.session = item.session, !.retries = item.retries],
               tasks, Len(sess))
<1> DEFINE r == [Idle EXCEPT !.pc = "check", !.op = stage, !.task = item.task,
                             !.target = target, !.from = evidence,
                             !.session = item.session, !.retries = item.retries]
<1>1. target \in Phases
  BY DEF Targets, Phases, TerminalPhases, SuccessPhases
<1>2. r \in ProcState
  BY <1>1, TakesOK DEF Idle, ProcState, NoSession
<1>3. r.pc = "check" /\ r.session = item.session /\ r.task = item.task /\ r.target = target
  BY DEF Idle
<1>4. RecOK(r, tasks, Len(sess))
  <2> HIDE DEF r
  <2> QED
    BY <1>2, <1>3, TakesOK DEF RecOK
<1> QED
  BY <1>4

(* What a stage lists.                                                     *)
LEMMA SelectionOK ==
  ASSUME TasksOK, NEW stage \in Stages, NEW S \in Selections(stage)
  PROVE  /\ S \subseteq Task /\ S \subseteq DOMAIN tasks
         /\ stage \in {"poll", "sweep"} => \A t \in S : tasks[t].session # NoSession
<1> USE DEF Selections, InPhase, Exists
<1>1. CASE stage = "poll"
  BY <1>1
<1>2. CASE stage = "advance"
  BY <1>2
<1>3. CASE stage = "close"
  BY <1>3
<1>4. CASE stage = "watchdog"
  BY <1>4
<1>5. CASE stage = "budget"
  BY <1>5
<1>6. CASE stage = "stuck"
  BY <1>6
<1>7. CASE stage = "sweep"
  BY <1>7
<1>8. CASE stage \notin {"poll", "advance", "close", "watchdog", "budget", "stuck", "sweep"}
  BY <1>8
<1> QED
  BY <1>1, <1>2, <1>3, <1>4, <1>5, <1>6, <1>7, <1>8

LEMMA ListedOK ==
  ASSUME TasksOK, SessOK, NEW stage \in Stages \ {"ingest"}, NEW S \in Selections(stage), NEW t \in S
  PROVE  ItemOK(Listed(t), stage, tasks, Len(sess))
<1>1. /\ t \in Task /\ t \in DOMAIN tasks /\ tasks[t] \in TaskRow
      /\ tasks[t].session <= Len(sess)
      /\ stage \in {"poll", "sweep"} => tasks[t].session # NoSession
  BY SelectionOK DEF TasksOK
<1>2. Listed(t) \in Item
  BY <1>1 DEF Listed, Item, TaskRow
<1> QED
  BY <1>1, <1>2 DEF ItemOK, Listed

LEMMA DaemonStageKeeps == ASSUME IInv, DaemonStage PROVE IInv' /\ Grows
<1> DEFINE stage == NextStage(tick.stage)
<1>1. TasksOK' /\ AttemptsOK' /\ SessOK' /\ EnvOK' /\ Grows
  BY TablesSameQuiet DEF DaemonStage
<1>2. tick \in TickState /\ tick.stage \in Stages \ {"dead", "scan"} /\ tick.count \in Nat
  BY DEF IInv, TickOK, TickState, DaemonStage
<1>3. stage \in Stages
  BY <1>2 DEF NextStage, Stages
<1> HIDE DEF stage
<1>4. PICK S \in Selections(stage) :
        tick' = IF stage = "list"
                THEN NewTick(IF tick.count < TicksPerBucket THEN tick.count + 1 ELSE tick.count)
                ELSE [tick EXCEPT !.stage = stage,
                                  !.todo = IF stage = "ingest" THEN tick.msgs
                                           ELSE {Listed(t) : t \in S},
                                  !.msgs = {}]
  BY DEF DaemonStage, stage
<1>5. TickOK'
  <2>1. CASE stage = "list"
    BY <1>2, <1>4, <2>1, FreshTickOK DEF IInv
  <2>2. CASE stage = "ingest"
    <3>1. /\ tick' \in TickState /\ tick'.stage = "ingest"
          /\ tick'.todo = tick.msgs /\ tick'.msgs = {}
      BY <1>2, <1>4, <2>2 DEF TickState, Stages
    <3> QED
      BY <1>1, <3>1, ItemKept DEF TickOK, IInv
  <2>3. CASE stage \notin {"list", "ingest"}
    <3> DEFINE L == {Listed(t) : t \in S}
    <3>1. \A item \in L : ItemOK(item, stage, tasks, Len(sess))
      BY <1>3, <2>3, ListedOK DEF IInv
    <3>2. L \in SUBSET Item
      BY <3>1 DEF ItemOK
    <3>3. tick' = [tick EXCEPT !.stage = stage, !.todo = L, !.msgs = {}]
      BY <1>4, <2>3
    <3> HIDE DEF L
    <3>4. /\ tick' \in TickState /\ tick'.stage = stage
          /\ tick'.todo = L /\ tick'.msgs = {}
      BY <1>2, <1>3, <3>2, <3>3 DEF TickState
    <3> QED
      BY <1>1, <3>1, <3>4, ItemKept DEF TickOK, IInv
  <2> QED
    BY <2>1, <2>2, <2>3
<1> QED
  BY <1>1, <1>5, ProcKept DEF DaemonStage, IInv

LEMMA DaemonScanKeeps == ASSUME IInv, DaemonScan PROVE IInv' /\ Grows
<1>1. TasksOK' /\ AttemptsOK' /\ SessOK' /\ Grows
  BY TablesSame DEF DaemonScan, IInv, store
<1>2. EnvOK'
  BY DEF DaemonScan, IInv, EnvOK, store, Fresh, TimeoutAge
<1>3. PICK S \in Selections("advance") :
        tick' = [tick EXCEPT !.stage = "advance", !.todo = {Listed(t) : t \in S}]
  BY DEF DaemonScan
<1>4. TickOK'
  <2> DEFINE L == {Listed(t) : t \in S}
  <2>1. \A item \in L : ItemOK(item, "advance", tasks, Len(sess))
    BY ListedOK DEF IInv, Stages
  <2>2. L \in SUBSET Item
    BY <2>1 DEF ItemOK
  <2>3. tick' = [tick EXCEPT !.stage = "advance", !.todo = L]
    BY <1>3
  <2> HIDE DEF L
  <2>4. tick \in TickState
    BY DEF IInv, TickOK
  <2>5. /\ tick' \in TickState /\ tick'.stage = "advance"
        /\ tick'.todo = L /\ tick'.msgs = tick.msgs
    BY <2>2, <2>3, <2>4 DEF TickState, Stages
  <2> QED
    BY <1>1, <2>1, <2>5, ItemKept DEF TickOK, IInv
<1> QED
  BY <1>1, <1>2, <1>4, ProcKept DEF DaemonScan, IInv

LEMMA DaemonSkipKeeps == ASSUME IInv, DaemonSkip PROVE IInv' /\ Grows
<1>1. ~At(Daemon, "idle") /\ Daemon \in Proc
  BY DEF DaemonSkip, At, Proc
<1> QED
  BY <1>1, TablesSameQuiet, FinishKeeps DEF DaemonSkip, IInv

LEMMA DaemonPollKeeps ==
  ASSUME IInv, NEW item \in tick.todo, DaemonPoll(item) PROVE IInv' /\ Grows
<1> DEFINE verdict == Verdict(item.session)
           msg == [item EXCEPT !.target = verdict]
<1>1. TasksOK' /\ AttemptsOK' /\ SessOK' /\ EnvOK' /\ Grows
  BY TablesSameQuiet DEF DaemonPoll
<1>2. DaemonTakes("poll", item)
  BY DEF DaemonPoll
<1>3. verdict \in {"running", "ready_for_review", "blocked"}
  BY <1>2, TakesOK, HeldSession, VerdictOK DEF IInv
<1>4. ItemOK(msg, "ingest", tasks, Len(sess))
  <2> HIDE DEF verdict
  <2>1. item \in Item
    BY <1>2, TakesOK
  <2>2. msg \in Item /\ msg.target = verdict /\ msg.session = item.session /\ msg.task = item.task
    BY <1>3, <2>1 DEF Item
  <2> HIDE DEF msg
  <2> QED
    BY <1>2, <1>3, <2>2, TakesOK DEF ItemOK
<1> HIDE DEF msg
<1>5. tick' = [tick EXCEPT !.todo = tick.todo \ {item}, !.msgs = tick.msgs \cup {msg}]
  BY DEF DaemonPoll, msg
<1>6. /\ tick' \in TickState /\ tick'.stage = tick.stage
      /\ tick'.todo \subseteq tick.todo /\ tick'.msgs = tick.msgs \cup {msg}
  BY <1>2, <1>4, <1>5, TakesOK DEF TickState, ItemOK
<1>7. TickOK'
  BY <1>1, <1>4, <1>6, ItemKept DEF TickOK, IInv
<1> QED
  BY <1>1, <1>7, ProcKept DEF DaemonPoll, IInv

LEMMA DaemonHeartbeatKeeps ==
  ASSUME IInv, NEW msg \in tick.todo, DaemonHeartbeat(msg) PROVE IInv' /\ Grows
<1>1. TasksOK' /\ AttemptsOK' /\ SessOK' /\ Grows
  BY TablesSame DEF DaemonHeartbeat, IInv
<1>2. DaemonTakes("ingest", msg) /\ msg.task \in Task /\ tick \in TickState
  BY TakesOK DEF DaemonHeartbeat
<1>3. CASE HeartbeatId(msg.task) \in seen
  <2>1. Take(msg) /\ UNCHANGED <<seen, waiter, quiet, overrun, landed, proc>>
    BY <1>3 DEF DaemonHeartbeat
  <2> QED
    BY <1>1, <2>1, EnvSame, ProcKept, TakeKeeps DEF IInv
<1>4. CASE HeartbeatId(msg.task) \notin seen
  <2>1. EnvOK'
    <3>1. /\ seen' = seen \cup {HeartbeatId(msg.task)}
          /\ quiet' = [quiet EXCEPT ![msg.task] = Fresh]
          /\ UNCHANGED <<waiter, overrun, landed>>
      BY <1>4 DEF DaemonHeartbeat
    <3>2. HeartbeatId(msg.task) \in Task \X Nat \X Nat
      BY <1>2 DEF HeartbeatId, NoSession
    <3>3. quiet' \in [Task -> Fresh .. TimeoutAge]
      <4>1. quiet \in [Task -> Fresh .. TimeoutAge]
        BY DEF IInv, EnvOK
      <4>2. Fresh \in Fresh .. TimeoutAge
        BY DEF Fresh, TimeoutAge
      <4> QED
        BY <3>1, <4>1, <4>2
    <3>4. seen' \subseteq Task \X Nat \X Nat
      BY <3>1, <3>2 DEF IInv, EnvOK
    <3> QED
      BY <3>1, <3>3, <3>4 DEF IInv, EnvOK
  <2>2. /\ tick' \in TickState /\ tick'.stage = tick.stage
        /\ tick'.todo \subseteq tick.todo /\ tick'.msgs = tick.msgs
    <3>1. tick' = [tick EXCEPT !.todo = tick.todo \ {msg}, !.touched = tick.touched \cup {msg.task}]
      BY <1>4 DEF DaemonHeartbeat
    <3> QED
      BY <1>2, <3>1 DEF TickState
  <2> QED
    BY <1>1, <2>1, <2>2, ProcKept, TickShrinks DEF DaemonHeartbeat, IInv
<1> QED
  BY <1>3, <1>4

LEMMA DaemonReceiptKeeps ==
  ASSUME IInv, NEW msg \in tick.todo, DaemonReceipt(msg) PROVE IInv' /\ Grows
<1> DEFINE t == msg.task
           r == [Idle EXCEPT !.pc = "check", !.op = "ingest", !.task = t,
                             !.attempt = tasks[t].attempt, !.session = SessionOf(t),
                             !.target = msg.target, !.from = msg.session]
<1>1. TasksOK' /\ AttemptsOK' /\ SessOK' /\ Grows
  BY TablesSame DEF DaemonReceipt, IInv, world
<1>2. DaemonTakes("ingest", msg)
  BY DEF DaemonReceipt
<1>3. msg.target \in {"ready_for_review", "blocked"}
  BY <1>2, TakesOK DEF Item, DaemonReceipt
<1>4. EnvOK'
  <2>1. ReceiptId(msg) \in Task \X Nat \X Nat
    BY <1>2, TakesOK DEF ReceiptId
  <2> QED
    BY <2>1 DEF DaemonReceipt, IInv, EnvOK, world
<1>5. TickOK'
  BY <1>1, TakeKeeps DEF DaemonReceipt, IInv
<1>6. RecOK(r, tasks, Len(sess))
  <2>1. /\ SessionOf(t) \in Nat /\ SessionOf(t) <= Len(sess)
        /\ tasks[t].attempt \in Nat /\ t \in Task /\ t \in DOMAIN tasks /\ msg.session \in Nat
    BY <1>2, TakesOK, SessionOfOK DEF IInv, TasksOK, TaskRow
  <2>2. Idle \in ProcState
    BY DEF Idle, ProcState, NoSession, Phases
  <2>3. r \in ProcState
    BY <1>3, <2>1, <2>2, ZenonT(60) DEF ProcState, Phases, TerminalPhases, SuccessPhases
  <2>4. r.pc = "check" /\ r.session = SessionOf(t) /\ r.task = t /\ r.target = msg.target
    BY DEF Idle
  <2> HIDE DEF r
  <2> QED
    BY <1>3, <2>1, <2>3, <2>4 DEF RecOK, Targets
<1>7. ProcOK'
  <2>1. CASE UNCHANGED proc
    BY <1>1, <2>1, ProcKept DEF IInv
  <2>2. CASE Becomes(Daemon, r)
    BY <1>1, <1>6, <2>2, RecKept, ProcStep DEF IInv, Proc
  <2> QED
    BY <2>1, <2>2 DEF DaemonReceipt
<1> QED
  BY <1>1, <1>4, <1>5, <1>7 DEF IInv

LEMMA DaemonItemKeeps ==
  ASSUME IInv, NEW item \in tick.todo,
         DaemonAdvance(item) \/ DaemonClose(item) \/ DaemonWatchdog(item) \/ DaemonTimeout(item)
           \/ DaemonSweep(item)
  PROVE  IInv' /\ Grows
<1>1. Targets = {"acked", "ready_for_review", "blocked", "stuck", "abandoned"}
      /\ RepoEvidence \in Nat \cup {RepoEvidence} /\ 0 \in Nat \cup {RepoEvidence}
  BY DEF Targets
<1>2. CASE DaemonAdvance(item)
  <2>1. DaemonTakes("advance", item) /\ Take(item) /\ UNCHANGED <<store, world>>
    BY <1>2 DEF DaemonAdvance
  <2>2. CASE Work("advance", "dispatch", item)
    BY <2>1, <2>2, WorkOK, WorkItem DEF Work
  <2>3. CASE Marks("advance", item, "blocked", 0)
    BY <1>1, <2>1, <2>3, MarkOK, WorkItem DEF Marks
  <2>4. CASE UNCHANGED proc
    BY <2>1, <2>4, LeaveItem
  <2> QED
    BY <1>2, <2>2, <2>3, <2>4 DEF DaemonAdvance
<1>3. CASE DaemonClose(item)
  <2>1. DaemonTakes("close", item) /\ Take(item) /\ UNCHANGED <<store, world>>
    BY <1>3 DEF DaemonClose
  <2>2. CASE Marks("close", item, "ready_for_review", RepoEvidence)
    BY <1>1, <2>1, <2>2, MarkOK, WorkItem DEF Marks
  <2>3. CASE UNCHANGED proc
    BY <2>1, <2>3, LeaveItem
  <2> QED
    BY <1>3, <2>2, <2>3 DEF DaemonClose
<1>4. CASE DaemonWatchdog(item)
  BY <1>4, WorkOK, WorkItem DEF DaemonWatchdog, Work
<1>5. CASE DaemonTimeout(item)
  <2>1. PICK stage \in {"budget", "stuck"} :
          DaemonTakes(stage, item) /\ Marks(stage, item, "stuck", 0)
    BY <1>5 DEF DaemonTimeout
  <2> QED
    BY <1>1, <1>5, <2>1, MarkOK, WorkItem, ZenonT(60) DEF Marks, DaemonTimeout
<1>6. CASE DaemonSweep(item)
  BY <1>6, WorkOK, WorkItem DEF DaemonSweep, Work
<1> QED
  BY <1>2, <1>3, <1>4, <1>5, <1>6

LEMMA DaemonStepKeeps == ASSUME IInv, DaemonStep PROVE IInv' /\ Grows
<1>1. Daemon \in Proc
  BY DEF Proc
<1> QED
  BY <1>1, SharedStepKeeps, DaemonStageKeeps, DaemonScanKeeps, DaemonSkipKeeps, DaemonPollKeeps,
     DaemonHeartbeatKeeps, DaemonReceiptKeeps, DaemonItemKeeps DEF DaemonStep, DaemonOwnStep

-----------------------------------------------------------------------------
(* The invariant and what follows from it.                                 *)

LEMMA InitIInv == Init => IInv
<1> SUFFICES ASSUME Init PROVE IInv
  OBVIOUS
<1>1. sess = << >> /\ Len(sess) = 0
  BY DEF Init
<1>2. SessOK
  BY <1>1 DEF SessOK
<1>3. TasksOK
  BY DEF Init, TasksOK
<1>4. AttemptsOK
  BY DEF Init, AttemptsOK, HistoryOK, Exists
<1>5. EnvOK
  BY DEF Init, EnvOK, Fresh, Silent, TimeoutAge
<1>6. ProcOK
  <2>1. RecOK(Idle, tasks, Len(sess))
    BY <1>1, IdleOK
  <2> QED
    BY <2>1 DEF Init, ProcOK, RecOK
<1>7. TickOK
  BY DEF Init, NewTick, TickOK, TickState, Stages
<1> QED
  BY <1>2, <1>3, <1>4, <1>5, <1>6, <1>7 DEF IInv

LEMMA StutterKeeps == ASSUME IInv, UNCHANGED vars PROVE IInv' /\ Grows
<1>1. TasksOK' /\ AttemptsOK' /\ SessOK' /\ EnvOK' /\ Grows
  BY TablesSameQuiet DEF vars, store, world
<1> QED
  BY <1>1, ProcKept, TickKept DEF IInv, vars

LEMMA NextKeeps == ASSUME IInv, Next PROVE IInv' /\ Grows
<1>1. CASE \E p \in Cli : CommandStep(p) \/ SharedStep(p)
  BY <1>1, CommandStepKeeps, SharedStepKeeps DEF Proc
<1>2. CASE DaemonStep
  BY <1>2, DaemonStepKeeps
<1>3. CASE SessionStep
  BY <1>3, SessionExitKeeps, SessionCommitKeeps DEF SessionStep
<1>4. CASE TimeStep
  BY <1>4, NextBucketKeeps, TimeKeeps DEF TimeStep
<1>5. CASE \E p \in Proc : Crash(p)
  BY <1>5, CrashKeeps
<1>6. CASE DaemonRestart
  BY <1>6, DaemonRestartKeeps
<1> QED
  BY <1>1, <1>2, <1>3, <1>4, <1>5, <1>6 DEF Next

(* The invariant holds in every state the program reaches, whatever the    *)
(* interleaving of commands, daemon, crashes and executors.                *)
THEOREM Invariance == Spec => []IInv
<1>1. IInv /\ [Next]_vars => IInv' /\ Grows
  BY NextKeeps, StutterKeeps
<1> QED
  BY InitIInv, <1>1, PTL DEF Spec

(* Type correctness.                                                       *)
THEOREM TypeCorrect == Spec => []TypeOK
<1>1. IInv => TypeOK
  <2> SUFFICES ASSUME IInv PROVE TypeOK
    OBVIOUS
  <2>1. DOMAIN tasks \subseteq Task /\ \A t \in DOMAIN tasks : tasks[t] \in TaskRow
    BY DEF IInv, TasksOK
  <2>2. /\ DOMAIN attempts = Task
        /\ \A t \in Task : \A n \in DOMAIN attempts[t] : n \in Nat /\ attempts[t][n] \in AttemptRow
    <3>1. ASSUME NEW t \in Task, NEW n \in DOMAIN attempts[t]
          PROVE  n \in Nat /\ attempts[t][n] \in AttemptRow
      BY DEF IInv, AttemptsOK, HistoryOK
    <3> QED
      BY <3>1 DEF IInv, AttemptsOK
  <2>3. \A p \in Proc : ~At(p, "idle") => proc[p].task \in Task /\ Exists(proc[p].task)
    BY DEF IInv, ProcOK, RecOK, At, Exists
  <2> QED
    BY <2>1, <2>2, <2>3 DEF TypeOK, IInv, EnvOK, SessOK, SessRow, ProcOK, TickOK, TickState
<1> QED
  BY Invariance, <1>1, PTL

(* No process ever holds or stores the id of a session that was not        *)
(* started, and none is polled, killed or removed by way of NULL.          *)
THEOREM KnownSessions == Spec => []SessionsKnown
<1>1. IInv => SessionsKnown
  <2> SUFFICES ASSUME IInv PROVE SessionsKnown
    OBVIOUS
  <2>1. \A t \in Task : \A n \in DOMAIN attempts[t] : attempts[t][n].session <= Len(sess)
    BY DEF IInv, AttemptsOK, HistoryOK
  <2>2. \A item \in tick.todo \cup tick.msgs :
          /\ item.session <= Len(sess)
          /\ tick.stage \in {"poll", "sweep"} => item.session # NoSession
    BY DEF IInv, TickOK, ItemOK
  <2> QED
    BY <2>1, <2>2 DEF SessionsKnown, IInv, TasksOK, ProcOK, RecOK
<1> QED
  BY Invariance, <1>1, PTL

(* However many retries race, the attempts of a task are numbered without  *)
(* a gap and its row points at the last of them.                           *)
LEMMA InvariantHasChain == IInv => AttemptChain
<1> SUFFICES ASSUME IInv, NEW t \in Task
             PROVE  DOMAIN attempts[t] = IF Exists(t) THEN 1 .. tasks[t].attempt ELSE {}
  BY DEF AttemptChain
<1>1. DOMAIN attempts[t] = 1 .. (IF Exists(t) THEN tasks[t].attempt ELSE 0)
  BY DEF IInv, AttemptsOK, HistoryOK
<1> QED
  BY <1>1

(* The same of every state that can be reached.                            *)
THEOREM AttemptsChained == Spec => []AttemptChain
<1> QED
  BY Invariance, InvariantHasChain, PTL

(* The attempts of a task are a chain, and no step of anyone takes a task  *)
(* back to an earlier attempt, or drops the record of one.                 *)
THEOREM AttemptsNeverShrink == Spec => AttemptsOnlyGrow
<1>1. IInv /\ [Next]_vars => IInv' /\ Grows
  BY NextKeeps, StutterKeeps
<1>2. IInv /\ IInv' /\ Grows => HistoryGrows
  <2> SUFFICES ASSUME IInv, IInv', Grows, NEW t \in Task
               PROVE  /\ DOMAIN attempts[t] \subseteq DOMAIN attempts'[t]
                      /\ Exists(t) => tasks'[t].attempt >= tasks[t].attempt
    BY DEF HistoryGrows
  <2>1. /\ DOMAIN attempts[t] = 1 .. (IF Exists(t) THEN tasks[t].attempt ELSE 0)
        /\ DOMAIN attempts'[t] = 1 .. (IF Exists(t)' THEN tasks'[t].attempt ELSE 0)
    BY DEF IInv, AttemptsOK, HistoryOK
  <2>2. CASE Exists(t)
    <3>1. Exists(t)' /\ tasks[t].attempt <= tasks'[t].attempt
      BY <2>2 DEF Exists, Grows
    <3>2. tasks[t].attempt \in Nat /\ tasks'[t].attempt \in Nat
      BY <2>2, <3>1 DEF Exists, IInv, TasksOK, TaskRow
    <3> QED
      BY <2>1, <2>2, <3>1, <3>2
  <2>3. CASE ~Exists(t)
    BY <2>1, <2>3
  <2> QED
    BY <2>2, <2>3
<1>3. IInv => AttemptChain
  BY InvariantHasChain
<1>4. IInv /\ IInv' /\ [Next]_vars => [HistoryGrows]_vars
  BY <1>1, <1>2
<1> DEFINE Grown == HistoryGrows
<1>5. IInv /\ IInv' /\ [Next]_vars => [Grown]_vars
  BY <1>4
<1>6. AttemptsOnlyGrow <=> [][Grown /\ AttemptChain']_vars
  BY PTL DEF AttemptsOnlyGrow
<1> HIDE DEF Grown
<1> QED
  BY Invariance, <1>3, <1>5, <1>6, PTL DEF Spec

-----------------------------------------------------------------------------
(* Reviews have evidence.  A receipt travels a long way from the poll that *)
(* produced it to the row it ends in: through the list of a tick, the      *)
(* memory of a process, a transition check and a write keyed by the task   *)
(* id alone.  The invariant is that it names a session of the right task   *)
(* all along, and one that finished well where it says so.                 *)

(* Session s, if there is one, was started for task t.                     *)
Owns(S, s, t) == s # NoSession => s \in DOMAIN S /\ S[s].task = t

(* The evidence e speaks for a review of t.                                *)
Backs(S, e, t) ==
  \/ e = RepoEvidence
  \/ e \in DOMAIN S /\ S[e].task = t /\ S[e].verdict = "ready_for_review"

RecOwns(S, r) ==
  /\ Owns(S, r.session, r.task)
  /\ r.target = "ready_for_review" => Backs(S, r.from, r.task)

ItemOwns(S, item) ==
  /\ Owns(S, item.session, item.task)
  /\ item.target = "ready_for_review" => Backs(S, item.session, item.task)

(* A session has no good verdict before it has ended.                      *)
VerdictsLate == \A s \in DOMAIN sess : sess[s].verdict = "ready_for_review" => ~Running(s)
TasksOwn == \A t \in DOMAIN tasks : Owns(sess, tasks[t].session, t)
AttemptsOwn ==
  \A t \in Task : \A k \in DOMAIN attempts[t] : Owns(sess, attempts[t][k].session, t)
TablesOwn == VerdictsLate /\ TasksOwn /\ AttemptsOwn /\ ReviewHasEvidence
ProcsOwn == \A p \in Proc : RecOwns(sess, proc[p])
ItemsOwn == \A item \in tick.todo \cup tick.msgs : ItemOwns(sess, item)

OwnInv == TablesOwn /\ ProcsOwn /\ ItemsOwn

(* No step gives a session to another task or takes a good verdict back.   *)
VerdictsStand ==
  \A s \in DOMAIN sess :
    /\ s \in DOMAIN sess' /\ sess'[s].task = sess[s].task
    /\ sess[s].verdict = "ready_for_review" => sess'[s].verdict = "ready_for_review"

LEMMA SameVerdicts == ASSUME UNCHANGED sess PROVE VerdictsStand
BY DEF VerdictsStand

LEMMA RecOwnsKept ==
  ASSUME VerdictsStand, NEW r, RecOwns(sess, r) PROVE RecOwns(sess', r)
BY DEF VerdictsStand, RecOwns, Owns, Backs

LEMMA ItemOwnsKept ==
  ASSUME VerdictsStand, NEW item, ItemOwns(sess, item) PROVE ItemOwns(sess', item)
BY DEF VerdictsStand, ItemOwns, Owns, Backs

LEMMA ProcsOwnKept ==
  ASSUME VerdictsStand, ProcsOwn, UNCHANGED proc PROVE ProcsOwn'
BY RecOwnsKept DEF ProcsOwn

LEMMA ItemsOwnKept ==
  ASSUME VerdictsStand, ItemsOwn, tick'.todo \cup tick'.msgs \subseteq tick.todo \cup tick.msgs
  PROVE  ItemsOwn'
BY ItemOwnsKept DEF ItemsOwn

LEMMA ProcsOwnStep ==
  ASSUME IInv, VerdictsStand, ProcsOwn, NEW p \in Proc, NEW r, RecOwns(sess', r), Becomes(p, r)
  PROVE  ProcsOwn'
<1>1. proc'[p] = r /\ \A q \in Proc : q # p => proc'[q] = proc[q]
  BY DEF IInv, ProcOK, Becomes
<1> QED
  BY <1>1, RecOwnsKept DEF ProcsOwn

(* A memory without a session that asks for no review.                     *)
LEMMA BlankOwns ==
  ASSUME NEW S, NEW r, r.session = NoSession, r.target # "ready_for_review"
  PROVE  RecOwns(S, r)
BY DEF RecOwns, Owns

LEMMA IdleOwns == ASSUME NEW S PROVE RecOwns(S, Idle)
BY BlankOwns DEF Idle

LEMMA GotoOwns ==
  ASSUME IInv, VerdictsStand, ProcsOwn, ItemsOwn, NEW p \in Proc, NEW pc, Goto(p, pc)
  PROVE  ProcsOwn' /\ ItemsOwn'
<1> DEFINE r == [proc[p] EXCEPT !.pc = pc]
<1>1. proc[p] \in ProcState
  BY DEF IInv, ProcOK
<1>2. /\ r.session = proc[p].session /\ r.task = proc[p].task
      /\ r.target = proc[p].target /\ r.from = proc[p].from
  BY <1>1 DEF ProcState
<1>3. RecOwns(sess, r)
  BY <1>2 DEF ProcsOwn, RecOwns
<1>4. RecOwns(sess', r) /\ Becomes(p, r) /\ tick' = tick
  BY <1>3, RecOwnsKept DEF Goto
<1> QED
  BY <1>4, ProcsOwnStep, ItemsOwnKept

LEMMA FinishOwns ==
  ASSUME IInv, VerdictsStand, ProcsOwn, ItemsOwn, NEW p \in Proc, Finish(p)
  PROVE  ProcsOwn' /\ ItemsOwn'
<1> DEFINE r == [Idle EXCEPT !.pc = "read", !.op = "wait", !.task = proc[p].task]
<1>1. RecOwns(sess', r) /\ RecOwns(sess', Idle)
  <2>1. r.session = NoSession /\ r.target = "new"
    BY DEF Idle
  <2> HIDE DEF r
  <2> QED
    BY <2>1, BlankOwns, IdleOwns
<1>2. Becomes(p, r) \/ Becomes(p, Idle)
  BY DEF Finish
<1>3. ProcsOwn'
  BY <1>1, <1>2, ProcsOwnStep
<1>4. tick'.todo = tick.todo /\ tick'.msgs = tick.msgs
  BY DEF Finish, IInv, TickOK, TickState
<1> QED
  BY <1>3, <1>4, ItemsOwnKept

LEMMA NewTickOwns ==
  ASSUME NEW n, tick' = NewTick(n) \/ tick' = [NewTick(n) EXCEPT !.stage = "dead"]
  PROVE  ItemsOwn'
BY DEF NewTick, ItemsOwn

LEMMA RaiseOwns ==
  ASSUME IInv, VerdictsStand, ProcsOwn, ItemsOwn, NEW p \in Proc, Raise(p)
  PROVE  ProcsOwn' /\ ItemsOwn'
<1>1. RecOwns(sess', Idle)
  BY IdleOwns
<1>2. CASE proc[p].op \in {"ingest", "close"}
  BY <1>1, <1>2, ProcsOwnStep, ItemsOwnKept DEF Raise
<1>3. CASE proc[p].op \in {"advance", "budget", "stuck"}
  BY <1>1, <1>3, ProcsOwnStep, NewTickOwns DEF Raise
<1>4. CASE Finish(p)
  BY <1>4, FinishOwns
<1> QED
  BY <1>2, <1>3, <1>4 DEF Raise

(* The session get_task reports was started for the task.                  *)
LEMMA SessionOfOwned ==
  ASSUME IInv, TasksOwn, AttemptsOwn, NEW t \in DOMAIN tasks
  PROVE  Owns(sess, SessionOf(t), t)
<1>1. t \in Task /\ Owns(sess, tasks[t].session, t)
  BY DEF IInv, TasksOK, TasksOwn
<1> QED
  BY <1>1 DEF AttemptsOwn, SessionOf, JoinedSession

(* What polling finds of a session backs a review where it says so.        *)
LEMMA VerdictBacks ==
  ASSUME SessOK, NEW s \in DOMAIN sess, NEW t, Owns(sess, s, t), s # NoSession,
         Verdict(s) = "ready_for_review"
  PROVE  Backs(sess, s, t)
<1>1. sess[s] \in SessRow
  BY ElementOfSeq, LenProperties DEF SessOK
<1>2. sess[s].verdict = "ready_for_review"
  BY <1>1 DEF Verdict, SessRow
<1> QED
  BY <1>2 DEF Owns, Backs

-----------------------------------------------------------------------------
(* The tables keep their sessions and their evidence.                      *)

(* A step that leaves the rows alone.                                      *)
LEMMA TablesOwnKept ==
  ASSUME TablesOwn, VerdictsStand, VerdictsLate', UNCHANGED <<tasks, attempts>>
  PROVE  TablesOwn'
<1>1. TasksOwn' /\ AttemptsOwn'
  BY DEF TablesOwn, TasksOwn, AttemptsOwn, Owns, VerdictsStand
<1>2. ReviewHasEvidence'
  BY DEF TablesOwn, ReviewHasEvidence, InPhase, Exists, VerdictsStand
<1> QED
  BY <1>1, <1>2 DEF TablesOwn

LEMMA TablesOwnSame ==
  ASSUME TablesOwn, UNCHANGED <<tasks, attempts, sess>>
  PROVE  TablesOwn' /\ VerdictsStand
<1>1. VerdictsLate'
  BY DEF TablesOwn, VerdictsLate, Running
<1> QED
  BY <1>1, SameVerdicts, TablesOwnKept

(* An UPDATE of the row and the attempts of one task, or an INSERT.        *)
LEMMA TablesOwnWritten ==
  ASSUME TablesOwn, NEW t \in Task, NEW row, NEW h,
         Owns(sess, row.session, t),
         row.phase \in SuccessPhases => Backs(sess, row.evidence, t),
         \A k \in DOMAIN h : Owns(sess, h[k].session, t),
         DOMAIN tasks' = DOMAIN tasks \cup {t},
         \A u \in DOMAIN tasks' : tasks'[u] = IF u = t THEN row ELSE tasks[u],
         \A u \in Task : attempts'[u] = IF u = t THEN h ELSE attempts[u], UNCHANGED sess
  PROVE  TablesOwn' /\ VerdictsStand
<1>1. VerdictsLate'
  BY DEF TablesOwn, VerdictsLate, Running
<1>2. TasksOwn'
  BY DEF TablesOwn, TasksOwn, Owns
<1>3. AttemptsOwn'
  BY DEF TablesOwn, AttemptsOwn
<1>4. ReviewHasEvidence'
  <2> SUFFICES ASSUME NEW u \in Task, u \in DOMAIN tasks', tasks'[u].phase \in SuccessPhases
               PROVE  Backs(sess, tasks'[u].evidence, u)
    BY DEF ReviewHasEvidence, InPhase, Exists, Backs
  <2>1. CASE u = t
    BY <2>1
  <2>2. CASE u # t
    BY <2>2 DEF TablesOwn, ReviewHasEvidence, InPhase, Exists, Backs
  <2> QED
    BY <2>1, <2>2
<1> QED
  BY <1>1, <1>2, <1>3, <1>4, SameVerdicts DEF TablesOwn

(* An UPDATE of the row alone.                                             *)
LEMMA RowOwnWritten ==
  ASSUME IInv, TablesOwn, NEW t \in DOMAIN tasks, NEW row,
         Owns(sess, row.session, t),
         row.phase \in SuccessPhases => Backs(sess, row.evidence, t),
         tasks' = [tasks EXCEPT ![t] = row], UNCHANGED <<attempts, sess>>
  PROVE  TablesOwn' /\ VerdictsStand
<1>1. t \in Task /\ DOMAIN tasks' = DOMAIN tasks \cup {t}
  BY DEF IInv, TasksOK
<1>2. \A u \in DOMAIN tasks' : tasks'[u] = IF u = t THEN row ELSE tasks[u]
  OBVIOUS
<1>3. \A k \in DOMAIN attempts[t] : Owns(sess, attempts[t][k].session, t)
  BY <1>1 DEF TablesOwn, AttemptsOwn
<1>4. \A u \in Task : attempts'[u] = IF u = t THEN attempts[t] ELSE attempts[u]
  OBVIOUS
<1> DEFINE h == attempts[t]
<1>5. /\ \A k \in DOMAIN h : Owns(sess, h[k].session, t)
      /\ \A u \in Task : attempts'[u] = IF u = t THEN h ELSE attempts[u]
  BY <1>3, <1>4
<1> HIDE DEF h
<1> QED
  BY <1>1, <1>2, <1>5, TablesOwnWritten

(* An UPDATE of the row that keeps its session and what backs it.          *)
LEMMA RowKeepsOwn ==
  ASSUME IInv, TablesOwn, NEW t \in DOMAIN tasks, NEW row,
         row.session = NoSession \/ row.session = tasks[t].session,
         row.phase \in SuccessPhases =>
           row.phase = tasks[t].phase /\ row.evidence = tasks[t].evidence,
         tasks' = [tasks EXCEPT ![t] = row], UNCHANGED <<attempts, sess>>
  PROVE  TablesOwn' /\ VerdictsStand
<1>1. t \in Task
  BY DEF IInv, TasksOK
<1>2. Owns(sess, row.session, t)
  BY DEF TablesOwn, TasksOwn, Owns
<1>3. row.phase \in SuccessPhases => Backs(sess, row.evidence, t)
  BY <1>1 DEF TablesOwn, ReviewHasEvidence, InPhase, Exists, Backs
<1> QED
  BY <1>2, <1>3, RowOwnWritten

(* An executor step that changes one session.                              *)
LEMMA SessionOwnWritten ==
  ASSUME IInv, TablesOwn, NEW s \in DOMAIN sess, NEW row \in SessRow,
         row.task = sess[s].task,
         sess[s].verdict = "ready_for_review" => row.verdict = "ready_for_review",
         row.verdict = "ready_for_review" => row.state # "running",
         sess' = [sess EXCEPT ![s] = row], UNCHANGED <<tasks, attempts>>
  PROVE  TablesOwn' /\ VerdictsStand
<1>1. DOMAIN sess' = DOMAIN sess /\ \A u \in DOMAIN sess : sess'[u] = IF u = s THEN row ELSE sess[u]
  OBVIOUS
<1>2. VerdictsStand
  BY <1>1 DEF VerdictsStand
<1>3. VerdictsLate'
  BY <1>1 DEF TablesOwn, VerdictsLate, Running
<1> QED
  BY <1>2, <1>3, TablesOwnKept

-----------------------------------------------------------------------------
(* The world around the commands.                                          *)

LEMMA SessionExitOwns ==
  ASSUME IInv, OwnInv, NEW s \in DOMAIN sess, SessionExit(s) PROVE OwnInv'
<1>1. sess[s] \in SessRow /\ sess[s].verdict # "ready_for_review"
  BY ElementOfSeq, LenProperties
     DEF IInv, SessOK, OwnInv, TablesOwn, VerdictsLate, SessionExit
<1>2. PICK verdict \in {"ready_for_review", "blocked"} :
        sess' = [sess EXCEPT ![s] = [@ EXCEPT !.state = "exited", !.verdict = verdict]]
  BY DEF SessionExit
<1> DEFINE row == [sess[s] EXCEPT !.state = "exited", !.verdict = verdict]
<1>3. row \in SessRow /\ row.task = sess[s].task /\ row.state = "exited"
  BY <1>1 DEF SessRow
<1>4. sess' = [sess EXCEPT ![s] = row]
  BY <1>2
<1> HIDE DEF row
<1>5. TablesOwn' /\ VerdictsStand
  BY <1>1, <1>3, <1>4, SessionOwnWritten DEF OwnInv, SessionExit, store
<1> QED
  BY <1>5, ProcsOwnKept, ItemsOwnKept DEF OwnInv, SessionExit

(* Steps that touch neither rows nor sessions nor memories.                *)
LEMMA OthersOwn ==
  ASSUME IInv, OwnInv, UNCHANGED <<tasks, attempts, sess, proc>>,
         tick'.todo \cup tick'.msgs \subseteq tick.todo \cup tick.msgs
  PROVE  OwnInv'
BY TablesOwnSame, ProcsOwnKept, ItemsOwnKept DEF OwnInv

LEMMA TimeOwns ==
  ASSUME IInv, OwnInv, SessionStep \/ TimeStep \/ DaemonRestart \/ UNCHANGED vars
  PROVE  OwnInv'
<1>1. CASE \E s \in DOMAIN sess : SessionExit(s)
  BY <1>1, SessionExitOwns
<1>2. CASE \E s \in DOMAIN sess : SessionCommit(s)
  BY <1>2, OthersOwn DEF SessionCommit, store
<1>3. CASE NextBucket
  <2>1. tick'.todo = tick.todo /\ tick'.msgs = tick.msgs
    BY <1>3 DEF NextBucket, IInv, TickOK, TickState
  <2> QED
    BY <1>3, <2>1, OthersOwn DEF NextBucket, world
<1>4. CASE \E t \in Task : Elapse(t) \/ SpendBudget(t)
  BY <1>4, OthersOwn DEF Elapse, SpendBudget, store
<1>5. CASE DaemonRestart
  BY <1>5, OthersOwn DEF DaemonRestart, store, world, NewTick
<1>6. CASE UNCHANGED vars
  BY <1>6, OthersOwn DEF vars
<1> QED
  BY <1>1, <1>2, <1>3, <1>4, <1>5, <1>6 DEF SessionStep, TimeStep

LEMMA CrashOwns == ASSUME IInv, OwnInv, NEW p \in Proc, Crash(p) PROVE OwnInv'
<1>1. TablesOwn' /\ VerdictsStand
  BY TablesOwnSame DEF OwnInv, Crash, world
<1>2. ProcsOwn'
  BY <1>1, IdleOwns, ProcsOwnStep DEF OwnInv, Crash
<1>3. ItemsOwn'
  BY <1>1, NewTickOwns, ItemsOwnKept DEF OwnInv, Crash
<1> QED
  BY <1>1, <1>2, <1>3 DEF OwnInv

-----------------------------------------------------------------------------
(* Steps that commands and the daemon share.                               *)

LEMMA MarkCheckOwns == ASSUME IInv, OwnInv, NEW p \in Proc, MarkCheck(p) PROVE OwnInv'
<1> DEFINE n == tasks[proc[p].task].attempt
           r == [proc[p] EXCEPT !.pc = "write", !.chk = n]
<1>1. TablesOwn' /\ VerdictsStand
  BY TablesOwnSame DEF OwnInv, MarkCheck, store, world
<1>2. CASE Becomes(p, r) /\ UNCHANGED tick
  <2>1. /\ r.session = proc[p].session /\ r.task = proc[p].task
        /\ r.target = proc[p].target /\ r.from = proc[p].from
    BY DEF IInv, ProcOK, ProcState
  <2>2. RecOwns(sess, r)
    BY <2>1 DEF OwnInv, ProcsOwn, RecOwns
  <2> HIDE DEF r
  <2> QED
    BY <1>1, <1>2, <2>2, RecOwnsKept, ProcsOwnStep, ItemsOwnKept DEF OwnInv
<1>3. CASE Raise(p)
  BY <1>1, <1>3, RaiseOwns DEF OwnInv
<1> QED
  BY <1>2, <1>3 DEF MarkCheck

LEMMA WriteAckedOwns == ASSUME IInv, OwnInv, NEW p \in Proc, WriteAcked(p) PROVE OwnInv'
<1> DEFINE r == proc[p]
           row == SetAcked(tasks[r.task], r.session)
           h == AckAttempt(attempts[r.task], r.chk, r.session)
<1>1. ~At(p, "idle")
  BY DEF WriteAcked, At
<1>2. r.task \in Task /\ r.task \in DOMAIN tasks /\ Owns(sess, r.session, r.task)
  BY <1>1, BusyOK DEF OwnInv, ProcsOwn, RecOwns
<1>3. row.session = r.session /\ row.phase = "acked"
  BY <1>1, BusyOK DEF SetAcked, TaskRow
<1>4. \A k \in DOMAIN h : Owns(sess, h[k].session, r.task)
  <2> SUFFICES ASSUME NEW k \in DOMAIN h PROVE Owns(sess, h[k].session, r.task)
    OBVIOUS
  <2>1. k \in DOMAIN attempts[r.task] /\ attempts[r.task][k] \in AttemptRow
    BY <1>2 DEF AckAttempt, IInv, AttemptsOK, HistoryOK
  <2>2. h[k].session \in {r.session, attempts[r.task][k].session}
    BY <2>1 DEF AckAttempt, AttemptRow
  <2> QED
    BY <1>2, <2>1, <2>2 DEF OwnInv, TablesOwn, AttemptsOwn
<1>5. /\ DOMAIN tasks' = DOMAIN tasks \cup {r.task}
      /\ \A u \in DOMAIN tasks' : tasks'[u] = IF u = r.task THEN row ELSE tasks[u]
      /\ \A u \in Task : attempts'[u] = IF u = r.task THEN h ELSE attempts[u]
      /\ sess' = sess
  BY <1>2 DEF WriteAcked, IInv, AttemptsOK
<1>6. TablesOwn' /\ VerdictsStand
  <2>1. row.phase \notin SuccessPhases
    BY <1>3 DEF SuccessPhases
  <2>2. TablesOwn /\ Owns(sess, row.session, r.task)
    BY <1>2, <1>3 DEF OwnInv
  <2> HIDE DEF row, h
  <2> QED
    BY <1>2, <1>4, <1>5, <2>1, <2>2, TablesOwnWritten
<1> QED
  BY <1>6, FinishOwns DEF OwnInv, WriteAcked

LEMMA WriteEndOwns == ASSUME IInv, OwnInv, NEW p \in Proc, WriteEnd(p) PROVE OwnInv'
<1> DEFINE r == proc[p]
           t == r.task
           row == SetPhase(tasks[t], r.target, r.session, r.from)
<1>1. ~At(p, "idle") /\ r.target \in Targets \ {"acked"}
  BY DEF WriteEnd, At, IInv, ProcOK, RecOK
<1>2. t \in Task /\ t \in DOMAIN tasks /\ tasks[t] \in TaskRow
  BY <1>1, BusyOK
<1>3. row.session = tasks[t].session
  BY <1>1, <1>2 DEF SetPhase, SetReadyForReview, SetBlocked, SetStuck, SetAbandoned, TaskRow, Targets
<1>4. /\ r.target = "ready_for_review" => row.evidence = r.from
      /\ r.target # "ready_for_review" => row.phase \notin SuccessPhases
  BY <1>1, <1>2
     DEF SetPhase, SetReadyForReview, SetBlocked, SetStuck, SetAbandoned, TaskRow, Targets, SuccessPhases
<1>5. Owns(sess, row.session, t)
  BY <1>2, <1>3 DEF OwnInv, TablesOwn, TasksOwn
<1>6. row.phase \in SuccessPhases => Backs(sess, row.evidence, t)
  BY <1>4 DEF OwnInv, ProcsOwn, RecOwns
<1>7. TablesOwn' /\ VerdictsStand
  <2>1. tasks' = [tasks EXCEPT ![t] = row] /\ UNCHANGED <<attempts, sess>>
    BY DEF WriteEnd, world
  <2>2. TablesOwn
    BY DEF OwnInv
  <2> HIDE DEF row
  <2> QED
    BY <1>2, <1>5, <1>6, <2>1, <2>2, RowOwnWritten
<1> QED
  BY <1>7, FinishOwns, GotoOwns DEF OwnInv, WriteEnd

LEMMA EndAttemptOwns ==
  ASSUME NEW h, NEW k, NEW target, NEW e, \A n \in DOMAIN h : h[n] \in AttemptRow, NEW S, NEW t,
         \A n \in DOMAIN h : Owns(S, h[n].session, t), target \in Phases,
         e \in Nat \cup {RepoEvidence}
  PROVE  /\ \A n \in DOMAIN EndAttempt(h, k, target, e) :
              /\ EndAttempt(h, k, target, e)[n] \in AttemptRow
              /\ Owns(S, EndAttempt(h, k, target, e)[n].session, t)
<1> SUFFICES ASSUME NEW n \in DOMAIN h
             PROVE  /\ EndAttempt(h, k, target, e)[n] \in AttemptRow
                    /\ Owns(S, EndAttempt(h, k, target, e)[n].session, t)
  BY DEF EndAttempt
<1>1. /\ EndAttempt(h, k, target, e)[n] \in AttemptRow
      /\ EndAttempt(h, k, target, e)[n].session = h[n].session
  BY DEF EndAttempt, AttemptRow
<1> QED
  BY <1>1

LEMMA WriteAttemptOwns == ASSUME IInv, OwnInv, NEW p \in Proc, WriteAttempt(p) PROVE OwnInv'
<1> DEFINE r == proc[p]
           t == r.task
           own(h) == IF r.target = "ready_for_review" THEN h
                     ELSE EndAttempt(h, r.chk, r.target, r.from)
           final(h) == IF r.op \in {"ingest", "wait"}
                       THEN EndAttempt(own(h), r.attempt, r.target, r.from) ELSE own(h)
           Good(h) == \A n \in DOMAIN h : h[n] \in AttemptRow /\ Owns(sess, h[n].session, t)
<1>1. ~At(p, "idle")
  BY DEF WriteAttempt, At
<1>2. /\ t \in Task /\ t \in DOMAIN tasks /\ r.target \in Phases
      /\ r.from \in Nat \cup {RepoEvidence} /\ tasks[t] \in TaskRow
  BY <1>1, BusyOK DEF ProcState
<1>3. Good(attempts[t])
  BY <1>2 DEF OwnInv, TablesOwn, AttemptsOwn, IInv, AttemptsOK, HistoryOK
<1>4. Good(own(attempts[t]))
  BY <1>2, <1>3, EndAttemptOwns
<1>5. Good(final(attempts[t]))
  <2> DEFINE h == own(attempts[t])
  <2>1. Good(h)
    BY <1>4
  <2> HIDE DEF h
  <2>2. Good(EndAttempt(h, r.attempt, r.target, r.from))
    BY <1>2, <2>1, EndAttemptOwns
  <2> QED
    BY <2>1, <2>2 DEF h
<1>6. /\ Owns(sess, tasks[t].session, t)
      /\ tasks[t].phase \in SuccessPhases => Backs(sess, tasks[t].evidence, t)
  BY <1>2 DEF OwnInv, TablesOwn, TasksOwn, ReviewHasEvidence, InPhase, Exists, Backs
<1>7. /\ \A u \in Task : attempts'[u] = IF u = t THEN final(attempts[t]) ELSE attempts[u]
      /\ UNCHANGED <<tasks, sess>>
  BY <1>2 DEF WriteAttempt, world, IInv, AttemptsOK
<1>8. TablesOwn' /\ VerdictsStand
  <2> DEFINE h == final(attempts[t])
             row == tasks[t]
  <2>1. \A k \in DOMAIN h : Owns(sess, h[k].session, t)
    BY <1>5
  <2>2. /\ DOMAIN tasks' = DOMAIN tasks \cup {t}
        /\ \A u \in DOMAIN tasks' : tasks'[u] = IF u = t THEN row ELSE tasks[u]
        /\ \A u \in Task : attempts'[u] = IF u = t THEN h ELSE attempts[u]
        /\ sess' = sess
    BY <1>2, <1>7
  <2>3. Owns(sess, row.session, t) /\ (row.phase \in SuccessPhases => Backs(sess, row.evidence, t))
    BY <1>6
  <2>4. TablesOwn
    BY DEF OwnInv
  <2> HIDE DEF h, row
  <2> QED
    BY <1>2, <2>1, <2>2, <2>3, <2>4, TablesOwnWritten
<1>9. Goto(p, "recommend") \/ Goto(p, "cleanup") \/ Finish(p)
  BY DEF WriteAttempt
<1> QED
  BY <1>8, <1>9, FinishOwns, GotoOwns DEF OwnInv

LEMMA RecommendRetryOwns ==
  ASSUME IInv, OwnInv, NEW p \in Proc, RecommendRetry(p) PROVE OwnInv'
<1> DEFINE t == proc[p].task
           row == SetRetryRecommended(tasks[t], proc[p].retries)
<1>1. t \in DOMAIN tasks /\ tasks[t] \in TaskRow
  BY BusyOK DEF RecommendRetry, At
<1>2. row.session = tasks[t].session /\ row.phase = tasks[t].phase /\ row.evidence = tasks[t].evidence
  BY <1>1 DEF SetRetryRecommended, TaskRow
<1>3. TablesOwn' /\ VerdictsStand
  <2>1. tasks' = [tasks EXCEPT ![t] = row] /\ UNCHANGED <<attempts, sess>>
    BY DEF RecommendRetry, world
  <2>2. /\ TablesOwn /\ (row.session = NoSession \/ row.session = tasks[t].session)
        /\ row.phase \in SuccessPhases =>
             row.phase = tasks[t].phase /\ row.evidence = tasks[t].evidence
    BY <1>2 DEF OwnInv
  <2> HIDE DEF row
  <2> QED
    BY <1>1, <2>1, <2>2, RowKeepsOwn
<1> QED
  BY <1>3, FinishOwns, GotoOwns DEF OwnInv, RecommendRetry

LEMMA ClearSessionOwns == ASSUME IInv, OwnInv, NEW p \in Proc, ClearSession(p) PROVE OwnInv'
<1> DEFINE t == proc[p].task
           row == [tasks[t] EXCEPT !.session = NoSession]
<1>1. t \in DOMAIN tasks /\ tasks[t] \in TaskRow
  BY BusyOK DEF ClearSession, At
<1>2. row.session = NoSession /\ row.phase = tasks[t].phase /\ row.evidence = tasks[t].evidence
  BY <1>1 DEF TaskRow
<1>3. TablesOwn' /\ VerdictsStand
  <2>1. tasks' = [tasks EXCEPT ![t] = row] /\ UNCHANGED <<attempts, sess>>
    BY DEF ClearSession, world
  <2>2. /\ TablesOwn /\ (row.session = NoSession \/ row.session = tasks[t].session)
        /\ row.phase \in SuccessPhases =>
             row.phase = tasks[t].phase /\ row.evidence = tasks[t].evidence
    BY <1>2 DEF OwnInv
  <2> HIDE DEF row
  <2> QED
    BY <1>1, <2>1, <2>2, RowKeepsOwn
<1> QED
  BY <1>3, FinishOwns DEF OwnInv, ClearSession

(* cancel and cleanup leave the task and the verdict of a session alone.   *)
LEMMA SessionTouchedOwns ==
  ASSUME IInv, TablesOwn, NEW s \in DOMAIN sess, Killed(s) \/ Cleaned(s),
         UNCHANGED <<tasks, attempts>>
  PROVE  TablesOwn' /\ VerdictsStand
<1>1. sess[s] \in SessRow
  BY ElementOfSeq, LenProperties DEF IInv, SessOK
<1>2. \A x \in {"exited", "gone"} :
        /\ [sess[s] EXCEPT !.state = x] \in SessRow
        /\ [sess[s] EXCEPT !.state = x].state = x
        /\ [sess[s] EXCEPT !.state = x].task = sess[s].task
        /\ [sess[s] EXCEPT !.state = x].verdict = sess[s].verdict
  BY <1>1 DEF SessRow
<1>3. CASE sess' = sess
  BY <1>3, TablesOwnSame
<1>4. CASE \E x \in {"exited", "gone"} : sess' = [sess EXCEPT ![s].state = x]
  <2>1. PICK x \in {"exited", "gone"} : sess' = [sess EXCEPT ![s].state = x]
    BY <1>4
  <2> DEFINE row == [sess[s] EXCEPT !.state = x]
  <2>2. /\ row \in SessRow /\ row.task = sess[s].task /\ row.state # "running"
        /\ row.verdict = sess[s].verdict
    BY <1>2
  <2>3. sess' = [sess EXCEPT ![s] = row]
    BY <2>1
  <2> HIDE DEF row
  <2> QED
    BY <2>2, <2>3, SessionOwnWritten
<1> QED
  BY <1>3, <1>4 DEF Killed, Cleaned

LEMMA CleanupSessionOwns ==
  ASSUME IInv, OwnInv, NEW p \in Proc, CleanupSession(p) PROVE OwnInv'
<1>1. ~At(p, "idle") /\ proc[p].session # NoSession
  BY DEF CleanupSession, At, IInv, ProcOK, RecOK
<1>2. TablesOwn' /\ VerdictsStand
  BY <1>1, BusyOK, HeldSession, SessionTouchedOwns DEF CleanupSession, IInv, OwnInv, store
<1>3. Goto(p, "clear") \/ Finish(p)
  BY DEF CleanupSession
<1> QED
  BY <1>2, <1>3, GotoOwns, FinishOwns DEF OwnInv

LEMMA AbandonCancelOwns ==
  ASSUME IInv, OwnInv, NEW p \in Proc, AbandonCancel(p) PROVE OwnInv'
<1>1. ~At(p, "idle") /\ proc[p].session # NoSession
  BY DEF AbandonCancel, At, IInv, ProcOK, RecOK
<1>2. TablesOwn' /\ VerdictsStand
  BY <1>1, BusyOK, HeldSession, SessionTouchedOwns DEF AbandonCancel, IInv, OwnInv, store
<1> QED
  BY <1>2, GotoOwns DEF OwnInv, AbandonCancel

LEMMA DispatchOwns == ASSUME IInv, OwnInv, NEW p \in Proc, Dispatch(p) PROVE OwnInv'
<1> DEFINE t == proc[p].task
<1>1. ~At(p, "idle")
  BY DEF Dispatch, At
<1>2. UNCHANGED <<tasks, attempts, tick>>
  BY DEF Dispatch, store
<1>3. CASE /\ NewSession(t)
           /\ Becomes(p, [proc[p] EXCEPT
                !.pc = IF proc[p].op = "retry" THEN "bumpread" ELSE "check",
                !.session = Len(sess) + 1, !.target = "acked"])
  <2> DEFINE pc == IF proc[p].op = "retry" THEN "bumpread" ELSE "check"
             n == Len(sess) + 1
             r == [proc[p] EXCEPT !.pc = pc, !.session = n, !.target = "acked"]
             new == [task |-> t, state |-> "running", verdict |-> "blocked"]
  <2>1. /\ Len(sess) \in Nat /\ DOMAIN sess = 1 .. Len(sess) /\ DOMAIN sess' = 1 .. n
        /\ \A s \in DOMAIN sess : sess'[s] = sess[s]
        /\ sess'[n] = new
    BY <1>1, <1>3, BusyOK, AppendProperties, LenProperties DEF NewSession, IInv, SessOK, SessRow
  <2>2. n \in DOMAIN sess' /\ DOMAIN sess' = DOMAIN sess \cup {n}
    BY <2>1
  <2>3. VerdictsStand
    BY <2>1, <2>2 DEF VerdictsStand
  <2>4. VerdictsLate'
    BY <2>1, <2>2 DEF OwnInv, TablesOwn, VerdictsLate, Running
  <2>5. r.session = n /\ r.task = t /\ r.target = "acked"
    BY <1>1, BusyOK DEF ProcState
  <2>6. RecOwns(sess', r)
    <3> HIDE DEF r, n
    <3> QED
      BY <2>1, <2>2, <2>5 DEF RecOwns, Owns
  <2>7. Becomes(p, r)
    BY <1>3
  <2> HIDE DEF r
  <2> QED
    BY <1>2, <2>3, <2>4, <2>6, <2>7, TablesOwnKept, ProcsOwnStep, ItemsOwnKept DEF OwnInv
<1>4. CASE /\ UNCHANGED sess
           /\ Becomes(p, IF proc[p].op = "retry" THEN Idle
                         ELSE [proc[p] EXCEPT !.pc = "check", !.target = "blocked"])
  <2> DEFINE r == [proc[p] EXCEPT !.pc = "check", !.target = "blocked"]
  <2>1. TablesOwn' /\ VerdictsStand
    BY <1>2, <1>4, TablesOwnSame DEF OwnInv
  <2>2. r.session = proc[p].session /\ r.task = t /\ r.target = "blocked"
    BY <1>1, BusyOK DEF ProcState
  <2>3. RecOwns(sess, r)
    BY <2>2 DEF OwnInv, ProcsOwn, RecOwns
  <2>4. Becomes(p, r) \/ Becomes(p, Idle)
    BY <1>4
  <2> HIDE DEF r
  <2> QED
    BY <1>2, <2>1, <2>3, <2>4, RecOwnsKept, IdleOwns, ProcsOwnStep, ItemsOwnKept DEF OwnInv
<1> QED
  BY <1>3, <1>4 DEF Dispatch

LEMMA SharedStepOwns == ASSUME IInv, OwnInv, NEW p \in Proc, SharedStep(p) PROVE OwnInv'
BY MarkCheckOwns, WriteAckedOwns, WriteEndOwns, WriteAttemptOwns, RecommendRetryOwns,
   CleanupSessionOwns, ClearSessionOwns, DispatchOwns DEF SharedStep

-----------------------------------------------------------------------------
(* Commands.                                                               *)

LEMMA BeginOwns ==
  ASSUME IInv, VerdictsStand, ProcsOwn, ItemsOwn, NEW p, NEW command, NEW pc, NEW t,
         Begin(p, command, pc, t)
  PROVE  ProcsOwn' /\ ItemsOwn'
<1> DEFINE r == [Idle EXCEPT !.pc = pc, !.op = command, !.task = t]
<1>1. r.session = NoSession /\ r.target = "new"
  BY DEF Idle
<1>2. Becomes(p, r) /\ p \in Proc /\ tick' = tick
  BY DEF Begin, Proc
<1> HIDE DEF r
<1> QED
  BY <1>1, <1>2, BlankOwns, ProcsOwnStep, ItemsOwnKept

LEMMA StartCreateOwns ==
  ASSUME IInv, OwnInv, NEW p \in Cli, NEW t \in Task, StartCreate(p, t) PROVE OwnInv'
<1> DEFINE h == Insert(attempts[t], 1, FreshAttempt)
           row == FreshTask
<1>1. DOMAIN attempts[t] = {}
  BY DEF IInv, AttemptsOK, HistoryOK, StartCreate
<1>2. \A k \in DOMAIN h : h[k] = FreshAttempt
  BY <1>1 DEF Insert
<1>3. \A k \in DOMAIN h : Owns(sess, h[k].session, t)
  BY <1>2 DEF FreshAttempt, Owns
<1>4. Owns(sess, row.session, t) /\ row.phase \notin SuccessPhases
  BY DEF FreshTask, Owns, SuccessPhases
<1>5. /\ DOMAIN tasks' = DOMAIN tasks \cup {t}
      /\ \A u \in DOMAIN tasks' : tasks'[u] = IF u = t THEN row ELSE tasks[u]
      /\ \A u \in Task : attempts'[u] = IF u = t THEN h ELSE attempts[u]
      /\ sess' = sess
  BY DEF StartCreate, Insert, world, IInv, AttemptsOK
<1>6. TablesOwn
  BY DEF OwnInv
<1>7. TablesOwn' /\ VerdictsStand
  <2> HIDE DEF h, row
  <2> QED
    BY <1>3, <1>4, <1>5, <1>6, TablesOwnWritten
<1>8. \E pc : Begin(p, "start", pc, t)
  BY DEF StartCreate
<1> QED
  BY <1>7, <1>8, BeginOwns DEF OwnInv

LEMMA BeginsOwn ==
  ASSUME IInv, OwnInv, NEW p \in Cli, NEW t \in Task,
         WaitBegin(p, t) \/ RetryBegin(p, t) \/ AcceptBegin(p, t)
  PROVE  OwnInv'
<1>1. \E command, pc : Begin(p, command, pc, t)
  BY DEF WaitBegin, RetryBegin, AcceptBegin
<1>2. TablesOwn' /\ VerdictsStand
  BY TablesOwnSame DEF OwnInv, WaitBegin, RetryBegin, AcceptBegin, store, world
<1> QED
  BY <1>1, <1>2, BeginOwns DEF OwnInv

LEMMA AbandonBeginOwns ==
  ASSUME IInv, OwnInv, NEW p \in Cli, NEW t \in Task, AbandonBegin(p, t) PROVE OwnInv'
<1> DEFINE live == InPhase(t, {"acked"}) /\ SessionOf(t) # NoSession
           pc == IF live THEN "cancel" ELSE "check"
           s == IF live THEN SessionOf(t) ELSE NoSession
           r == [Idle EXCEPT !.pc = pc, !.op = "abandon", !.task = t, !.target = "abandoned",
                             !.session = s]
<1>1. TablesOwn' /\ VerdictsStand
  BY TablesOwnSame DEF OwnInv, AbandonBegin, store, world
<1>2. Owns(sess, s, t)
  <2>1. t \in DOMAIN tasks
    BY DEF AbandonBegin, Exists
  <2>2. Owns(sess, SessionOf(t), t)
    BY <2>1, SessionOfOwned DEF OwnInv, TablesOwn
  <2> QED
    BY <2>2 DEF Owns
<1>3. RecOwns(sess, r)
  <2> HIDE DEF s, pc
  <2> QED
    BY <1>2 DEF RecOwns, Idle
<1>4. Becomes(p, r) /\ p \in Proc /\ tick' = tick
  BY DEF AbandonBegin, Proc
<1> HIDE DEF r
<1> QED
  BY <1>1, <1>3, <1>4, RecOwnsKept, ProcsOwnStep, ItemsOwnKept DEF OwnInv

LEMMA StartDepsOwns == ASSUME IInv, OwnInv, NEW p \in Cli, StartDeps(p) PROVE OwnInv'
<1>1. TablesOwn' /\ VerdictsStand
  BY TablesOwnSame DEF OwnInv, StartDeps, store, world
<1>2. (Goto(p, "dispatch") \/ Finish(p)) /\ p \in Proc
  BY DEF StartDeps, Proc
<1> QED
  BY <1>1, <1>2, GotoOwns, FinishOwns DEF OwnInv

LEMMA WaitReadOwns == ASSUME IInv, OwnInv, NEW p \in Cli, WaitRead(p) PROVE OwnInv'
<1> DEFINE t == proc[p].task
           n == tasks[t].attempt
           s == SessionOf(t)
           r == [proc[p] EXCEPT !.pc = "poll", !.attempt = n, !.session = s]
<1>1. TablesOwn' /\ VerdictsStand
  BY TablesOwnSame DEF OwnInv, WaitRead, store, world
<1>2. p \in Proc /\ t \in DOMAIN tasks /\ proc[p] \in ProcState
  BY BusyOK DEF WaitRead, At, Proc
<1>3. Owns(sess, s, t)
  BY <1>2, SessionOfOwned DEF OwnInv, TablesOwn
<1>4. Becomes(p, r) /\ tick' = tick
  BY DEF WaitRead
<1>5. RecOwns(sess, r)
  <2> HIDE DEF s, n
  <2>1. r.session = s /\ r.task = t /\ r.target = proc[p].target /\ r.from = proc[p].from
    BY <1>2 DEF ProcState
  <2> HIDE DEF r
  <2> QED
    BY <1>2, <1>3, <2>1 DEF OwnInv, ProcsOwn, RecOwns
<1> HIDE DEF r
<1> QED
  BY <1>1, <1>2, <1>4, <1>5, RecOwnsKept, ProcsOwnStep, ItemsOwnKept DEF OwnInv

LEMMA WaitEndOwns ==
  ASSUME IInv, OwnInv, NEW p \in Cli, WaitTerminal(p) \/ WaitGiveUp(p) PROVE OwnInv'
<1>1. TablesOwn' /\ VerdictsStand
  BY TablesOwnSame DEF OwnInv, WaitTerminal, WaitGiveUp, WaitEnd, world
<1>2. Becomes(p, Idle) /\ tick' = tick /\ p \in Proc
  BY DEF WaitTerminal, WaitGiveUp, WaitEnd, Proc
<1> QED
  BY <1>1, <1>2, IdleOwns, ProcsOwnStep, ItemsOwnKept DEF OwnInv

LEMMA WaitPollOwns == ASSUME IInv, OwnInv, NEW p \in Cli, WaitPoll(p) PROVE OwnInv'
<1> DEFINE s == proc[p].session
           verdict == Verdict(s)
           r == [proc[p] EXCEPT !.pc = "check", !.target = verdict, !.from = s]
<1>1. TablesOwn' /\ VerdictsStand
  BY TablesOwnSame DEF OwnInv, WaitPoll, store, world
<1>2. p \in Proc /\ proc[p] \in ProcState /\ s # NoSession
  BY BusyOK DEF WaitPoll, At, Proc, IInv, ProcOK, RecOK
<1>3. Owns(sess, s, proc[p].task)
  BY <1>2 DEF OwnInv, ProcsOwn, RecOwns
<1>4. verdict = "ready_for_review" => Backs(sess, s, proc[p].task)
  BY <1>2, <1>3, VerdictBacks DEF Owns, IInv
<1>5. CASE Finish(p)
  BY <1>1, <1>2, <1>5, FinishOwns DEF OwnInv
<1>6. CASE Becomes(p, r) /\ tick' = tick
  <2>1. RecOwns(sess, r)
    <3> HIDE DEF verdict
    <3>1. r.session = s /\ r.task = proc[p].task /\ r.target = verdict /\ r.from = s
      BY <1>2 DEF ProcState
    <3> HIDE DEF r
    <3> QED
      BY <1>3, <1>4, <3>1 DEF RecOwns
  <2> HIDE DEF r
  <2> QED
    BY <1>1, <1>2, <1>6, <2>1, RecOwnsKept, ProcsOwnStep, ItemsOwnKept DEF OwnInv
<1> QED
  BY <1>5, <1>6 DEF WaitPoll

LEMMA RetryReadOwns == ASSUME IInv, OwnInv, NEW p \in Cli, RetryRead(p) PROVE OwnInv'
<1> DEFINE n == tasks[proc[p].task].attempt
           m == tasks[proc[p].task].retries
           r == [proc[p] EXCEPT !.pc = "bumpwrite", !.chk = n, !.retries = m]
<1>1. TablesOwn' /\ VerdictsStand
  BY TablesOwnSame DEF OwnInv, RetryRead, store, world
<1>2. p \in Proc /\ proc[p] \in ProcState
  BY BusyOK DEF RetryRead, At, Proc
<1>3. RecOwns(sess, r)
  <2> HIDE DEF n, m
  <2>1. /\ r.session = proc[p].session /\ r.task = proc[p].task
        /\ r.target = proc[p].target /\ r.from = proc[p].from
    BY <1>2 DEF ProcState
  <2> HIDE DEF r
  <2> QED
    BY <1>2, <2>1 DEF OwnInv, ProcsOwn, RecOwns
<1>4. Becomes(p, r) /\ tick' = tick
  BY DEF RetryRead
<1> HIDE DEF r
<1> QED
  BY <1>1, <1>2, <1>3, <1>4, RecOwnsKept, ProcsOwnStep, ItemsOwnKept DEF OwnInv

LEMMA RetryWriteOwns == ASSUME IInv, OwnInv, NEW p \in Cli, RetryWrite(p) PROVE OwnInv'
<1> DEFINE r == proc[p]
           t == r.task
           row == SetNextAttempt(r.chk, r.retries)
           h == Insert(attempts[t], r.chk + 1, FreshAttempt)
<1>1. p \in Proc /\ t \in Task /\ t \in DOMAIN tasks
  BY BusyOK DEF RetryWrite, At, Proc
<1>2. CASE r.chk + 1 \in DOMAIN attempts[t]
  <2>1. Finish(p) /\ UNCHANGED <<tasks, attempts, sess>>
    BY <1>2 DEF RetryWrite
  <2>2. TablesOwn' /\ VerdictsStand
    BY <2>1, TablesOwnSame DEF OwnInv
  <2> QED
    BY <1>1, <2>1, <2>2, FinishOwns DEF OwnInv
<1>3. CASE r.chk + 1 \notin DOMAIN attempts[t]
  <2>1. Owns(sess, row.session, t) /\ row.phase \notin SuccessPhases
    BY DEF SetNextAttempt, Owns, SuccessPhases
  <2>2. \A k \in DOMAIN h : h[k] = FreshAttempt \/ (k \in DOMAIN attempts[t] /\ h[k] = attempts[t][k])
    BY DEF Insert
  <2>3. Owns(sess, FreshAttempt.session, t)
    BY DEF FreshAttempt, Owns
  <2>4. \A k \in DOMAIN h : Owns(sess, h[k].session, t)
    <3> HIDE DEF h
    <3> QED
      BY <1>1, <2>2, <2>3 DEF OwnInv, TablesOwn, AttemptsOwn
  <2>5. /\ DOMAIN tasks' = DOMAIN tasks \cup {t}
        /\ \A u \in DOMAIN tasks' : tasks'[u] = IF u = t THEN row ELSE tasks[u]
    BY <1>1, <1>3 DEF RetryWrite
  <2>6. /\ \A u \in Task : attempts'[u] = IF u = t THEN h ELSE attempts[u]
        /\ sess' = sess
    BY <1>1, <1>3 DEF RetryWrite, IInv, AttemptsOK
  <2>7. TablesOwn
    BY DEF OwnInv
  <2>8. TablesOwn' /\ VerdictsStand
    <3> HIDE DEF row, h
    <3> QED
      BY <1>1, <2>1, <2>4, <2>5, <2>6, <2>7, TablesOwnWritten
  <2>9. Goto(p, "check")
    BY <1>3 DEF RetryWrite
  <2> QED
    BY <1>1, <2>8, <2>9, GotoOwns DEF OwnInv
<1> QED
  BY <1>2, <1>3

LEMMA AcceptWriteOwns == ASSUME IInv, OwnInv, NEW p \in Cli, AcceptWrite(p) PROVE OwnInv'
<1> DEFINE t == proc[p].task
           row == [tasks[t] EXCEPT !.approved = TRUE]
<1>1. p \in Proc /\ t \in DOMAIN tasks /\ tasks[t] \in TaskRow
  BY BusyOK DEF AcceptWrite, At, Proc
<1>2. row.session = tasks[t].session /\ row.phase = tasks[t].phase /\ row.evidence = tasks[t].evidence
  BY <1>1 DEF TaskRow
<1>3. TablesOwn' /\ VerdictsStand
  <2>1. tasks' = [tasks EXCEPT ![t] = row] /\ UNCHANGED <<attempts, sess>>
    BY DEF AcceptWrite, world
  <2>2. /\ TablesOwn /\ (row.session = NoSession \/ row.session = tasks[t].session)
        /\ row.phase \in SuccessPhases =>
             row.phase = tasks[t].phase /\ row.evidence = tasks[t].evidence
    BY <1>2 DEF OwnInv
  <2> HIDE DEF row
  <2> QED
    BY <1>1, <2>1, <2>2, RowKeepsOwn
<1> QED
  BY <1>1, <1>3, FinishOwns DEF OwnInv, AcceptWrite

LEMMA CommandStepOwns == ASSUME IInv, OwnInv, NEW p \in Cli, CommandStep(p) PROVE OwnInv'
BY StartCreateOwns, BeginsOwn, AbandonBeginOwns, StartDepsOwns, WaitReadOwns, WaitEndOwns,
   WaitPollOwns, RetryReadOwns, RetryWriteOwns, AbandonCancelOwns, AcceptWriteOwns
   DEF CommandStep, Proc

-----------------------------------------------------------------------------
(* The daemon.                                                             *)

LEMMA ListedOwns ==
  ASSUME IInv, TasksOwn, NEW stage \in Stages,
         NEW S \in Selections(stage), NEW t \in S
  PROVE  ItemOwns(sess, Listed(t))
<1>1. t \in DOMAIN tasks
  BY SelectionOK DEF IInv
<1> QED
  BY <1>1 DEF TasksOwn, ItemOwns, Listed

(* The daemon takes an item and sets out to work on it, or leaves it.      *)
LEMMA DaemonTurnOwns ==
  ASSUME IInv, OwnInv, UNCHANGED <<tasks, attempts, sess>>, NEW item \in tick.todo, Take(item),
         NEW r, RecOwns(sess, r), UNCHANGED proc \/ Becomes(Daemon, r)
  PROVE  OwnInv'
<1>1. TablesOwn' /\ VerdictsStand
  BY TablesOwnSame DEF OwnInv
<1>2. RecOwns(sess', r) /\ Daemon \in Proc
  BY <1>1, RecOwnsKept DEF Proc
<1>3. ProcsOwn'
  BY <1>1, <1>2, ProcsOwnKept, ProcsOwnStep DEF OwnInv
<1>4. tick'.todo \subseteq tick.todo /\ tick'.msgs = tick.msgs
  BY DEF Take, IInv, TickOK, TickState
<1>5. ItemsOwn'
  BY <1>1, <1>4, ItemsOwnKept DEF OwnInv
<1> QED
  BY <1>1, <1>3, <1>5 DEF OwnInv

(* The memories the daemon starts on an item with.                         *)
LEMMA WorkOwns ==
  ASSUME NEW S, NEW item, Owns(S, item.session, item.task), NEW pc, NEW stage
  PROVE  RecOwns(S, [Idle EXCEPT !.pc = pc, !.op = stage, !.task = item.task,
                                 !.attempt = item.attempt, !.session = item.session,
                                 !.retries = item.retries])
BY DEF RecOwns, Idle

LEMMA MarkOwns ==
  ASSUME NEW S, NEW item, Owns(S, item.session, item.task), NEW stage, NEW target, NEW evidence,
         target # "ready_for_review" \/ evidence = RepoEvidence
  PROVE  RecOwns(S, [Idle EXCEPT !.pc = "check", !.op = stage, !.task = item.task,
                                 !.target = target, !.from = evidence,
                                 !.session = item.session, !.retries = item.retries])
BY DEF RecOwns, Backs, Idle

LEMMA DaemonItemOwns ==
  ASSUME IInv, OwnInv, NEW item \in tick.todo,
         DaemonAdvance(item) \/ DaemonClose(item) \/ DaemonWatchdog(item) \/ DaemonTimeout(item)
           \/ DaemonSweep(item)
  PROVE  OwnInv'
<1>1. Take(item) /\ UNCHANGED <<tasks, attempts, sess>>
  BY DEF DaemonAdvance, DaemonClose, DaemonWatchdog, DaemonTimeout, DaemonSweep, store, world
<1>2. Owns(sess, item.session, item.task)
  BY DEF OwnInv, ItemsOwn, ItemOwns
<1>3. \/ UNCHANGED proc
      \/ \E stage, pc : Work(stage, pc, item)
      \/ \E stage, target, evidence :
           /\ target # "ready_for_review" \/ evidence = RepoEvidence
           /\ Marks(stage, item, target, evidence)
  BY DEF DaemonAdvance, DaemonClose, DaemonWatchdog, DaemonTimeout, DaemonSweep
<1>4. CASE UNCHANGED proc
  BY <1>1, <1>4, IdleOwns, DaemonTurnOwns
<1>5. ASSUME NEW stage, NEW pc, Work(stage, pc, item) PROVE OwnInv'
  BY <1>1, <1>2, <1>5, WorkOwns, DaemonTurnOwns DEF Work
<1>6. ASSUME NEW stage, NEW target, NEW evidence,
             target # "ready_for_review" \/ evidence = RepoEvidence,
             Marks(stage, item, target, evidence)
      PROVE  OwnInv'
  BY <1>1, <1>2, <1>6, MarkOwns, DaemonTurnOwns DEF Marks
<1> QED
  BY <1>3, <1>4, <1>5, <1>6

(* The receipt of an earlier poll is turned into a memory of its own task, *)
(* even when the task has another session by now.                          *)
LEMMA DaemonReceiptOwns ==
  ASSUME IInv, OwnInv, NEW msg \in tick.todo, DaemonReceipt(msg) PROVE OwnInv'
<1> DEFINE t == msg.task
           n == tasks[t].attempt
           s == SessionOf(t)
           r == [Idle EXCEPT !.pc = "check", !.op = "ingest", !.task = t, !.attempt = n,
                             !.session = s, !.target = msg.target, !.from = msg.session]
<1>1. t \in DOMAIN tasks
  BY TakesOK DEF DaemonReceipt
<1>2. Owns(sess, s, t)
  BY <1>1, SessionOfOwned DEF OwnInv, TablesOwn
<1>3. msg.target = "ready_for_review" => Backs(sess, msg.session, t)
  BY DEF OwnInv, ItemsOwn, ItemOwns
<1>4. RecOwns(sess, r)
  <2> HIDE DEF s, n
  <2> QED
    BY <1>2, <1>3 DEF RecOwns, Idle
<1>5. Take(msg) /\ (UNCHANGED proc \/ Becomes(Daemon, r)) /\ UNCHANGED <<tasks, attempts, sess>>
  BY DEF DaemonReceipt, world
<1> HIDE DEF r
<1> QED
  BY <1>4, <1>5, DaemonTurnOwns

LEMMA DaemonPollOwns ==
  ASSUME IInv, OwnInv, NEW item \in tick.todo, DaemonPoll(item) PROVE OwnInv'
<1> DEFINE verdict == Verdict(item.session)
           msg == [item EXCEPT !.target = verdict]
<1>1. /\ item \in Item /\ item.session # NoSession /\ tick \in TickState
  BY TakesOK DEF DaemonPoll
<1>2. Owns(sess, item.session, item.task)
  BY DEF OwnInv, ItemsOwn, ItemOwns
<1>3. verdict = "ready_for_review" => Backs(sess, item.session, item.task)
  BY <1>1, <1>2, VerdictBacks DEF Owns, IInv
<1>4. tick' = [tick EXCEPT !.todo = tick.todo \ {item}, !.msgs = tick.msgs \cup {msg}]
  BY DEF DaemonPoll
<1>5. ItemOwns(sess, msg)
  <2> HIDE DEF verdict
  <2>1. msg.session = item.session /\ msg.task = item.task /\ msg.target = verdict
    BY <1>1 DEF Item
  <2> HIDE DEF msg
  <2> QED
    BY <1>2, <1>3, <2>1 DEF ItemOwns
<1>6. TablesOwn' /\ VerdictsStand
  BY TablesOwnSame DEF OwnInv, DaemonPoll, store, world
<1> HIDE DEF msg
<1>7. tick'.todo \cup tick'.msgs \subseteq tick.todo \cup tick.msgs \cup {msg}
  BY <1>1, <1>4 DEF TickState
<1>8. ItemsOwn'
  BY <1>5, <1>6, <1>7, ItemOwnsKept DEF OwnInv, ItemsOwn
<1> QED
  BY <1>6, <1>8, ProcsOwnKept DEF OwnInv, DaemonPoll

LEMMA DaemonHeartbeatOwns ==
  ASSUME IInv, OwnInv, NEW msg \in tick.todo, DaemonHeartbeat(msg) PROVE OwnInv'
<1>1. tick'.todo \cup tick'.msgs \subseteq tick.todo \cup tick.msgs
  BY DEF DaemonHeartbeat, Take, IInv, TickOK, TickState
<1> QED
  BY <1>1, OthersOwn DEF DaemonHeartbeat

LEMMA DaemonStageOwns == ASSUME IInv, OwnInv, DaemonStage PROVE OwnInv'
<1> DEFINE stage == NextStage(tick.stage)
<1>1. TablesOwn' /\ VerdictsStand
  BY TablesOwnSame DEF OwnInv, DaemonStage, store, world
<1>2. tick \in TickState /\ stage \in Stages
  BY DEF IInv, TickOK, TickState, DaemonStage, NextStage, Stages
<1>3. PICK S \in Selections(stage) :
        tick' = IF stage = "list"
                THEN NewTick(IF tick.count < TicksPerBucket THEN tick.count + 1 ELSE tick.count)
                ELSE [tick EXCEPT !.stage = stage,
                                  !.todo = IF stage = "ingest" THEN tick.msgs
                                           ELSE {Listed(t) : t \in S},
                                  !.msgs = {}]
  BY DEF DaemonStage
<1> HIDE DEF stage
<1>4. ItemsOwn'
  <2>1. CASE stage = "list"
    BY <1>3, <2>1, NewTickOwns
  <2>2. CASE stage = "ingest"
    <3>1. tick'.todo = tick.msgs /\ tick'.msgs = {}
      BY <1>2, <1>3, <2>2 DEF TickState
    <3> QED
      BY <1>1, <3>1, ItemsOwnKept DEF OwnInv
  <2>3. CASE stage \notin {"list", "ingest"}
    <3> DEFINE L == {Listed(t) : t \in S}
    <3>1. \A item \in L : ItemOwns(sess, item)
      BY <1>2, <2>3, ListedOwns DEF OwnInv, TablesOwn
    <3>2. tick' = [tick EXCEPT !.stage = stage, !.todo = L, !.msgs = {}]
      BY <1>3, <2>3
    <3> HIDE DEF L
    <3>3. tick'.todo = L /\ tick'.msgs = {}
      BY <1>2, <3>2 DEF TickState
    <3> QED
      BY <1>1, <3>1, <3>3, ItemOwnsKept DEF ItemsOwn
  <2> QED
    BY <2>1, <2>2, <2>3
<1> QED
  BY <1>1, <1>4, ProcsOwnKept DEF OwnInv, DaemonStage

LEMMA DaemonScanOwns == ASSUME IInv, OwnInv, DaemonScan PROVE OwnInv'
<1>1. TablesOwn' /\ VerdictsStand
  BY TablesOwnSame DEF OwnInv, DaemonScan, store
<1>2. PICK S \in Selections("advance") :
        tick' = [tick EXCEPT !.stage = "advance", !.todo = {Listed(t) : t \in S}]
  BY DEF DaemonScan
<1> DEFINE L == {Listed(t) : t \in S}
<1>3. \A item \in L : ItemOwns(sess, item)
  BY ListedOwns DEF OwnInv, TablesOwn, Stages
<1>4. tick' = [tick EXCEPT !.stage = "advance", !.todo = L]
  BY <1>2
<1> HIDE DEF L
<1>5. tick'.todo = L /\ tick'.msgs = tick.msgs
  BY <1>4 DEF IInv, TickOK, TickState
<1>6. ItemsOwn'
  BY <1>1, <1>3, <1>5, ItemOwnsKept DEF OwnInv, ItemsOwn
<1> QED
  BY <1>1, <1>6, ProcsOwnKept DEF OwnInv, DaemonScan

LEMMA DaemonSkipOwns == ASSUME IInv, OwnInv, DaemonSkip PROVE OwnInv'
<1>1. TablesOwn' /\ VerdictsStand
  BY TablesOwnSame DEF OwnInv, DaemonSkip, store, world
<1>2. Finish(Daemon) /\ Daemon \in Proc
  BY DEF DaemonSkip, Proc
<1> QED
  BY <1>1, <1>2, FinishOwns DEF OwnInv

LEMMA DaemonStepOwns == ASSUME IInv, OwnInv, DaemonStep PROVE OwnInv'
<1>1. Daemon \in Proc
  BY DEF Proc
<1> QED
  BY <1>1, SharedStepOwns, DaemonStageOwns, DaemonScanOwns, DaemonSkipOwns, DaemonPollOwns,
     DaemonHeartbeatOwns, DaemonReceiptOwns, DaemonItemOwns DEF DaemonStep, DaemonOwnStep

LEMMA NextOwns == ASSUME IInv, OwnInv, [Next]_vars PROVE OwnInv'
<1>1. CASE \E p \in Cli : CommandStep(p) \/ SharedStep(p)
  BY <1>1, CommandStepOwns, SharedStepOwns DEF Proc
<1>2. CASE DaemonStep
  BY <1>2, DaemonStepOwns
<1>3. CASE \E p \in Proc : Crash(p)
  BY <1>3, CrashOwns
<1>4. CASE SessionStep \/ TimeStep \/ DaemonRestart \/ UNCHANGED vars
  BY <1>4, TimeOwns
<1> QED
  BY <1>1, <1>2, <1>3, <1>4 DEF Next

LEMMA InitOwns == Init => OwnInv
<1> SUFFICES ASSUME Init PROVE OwnInv
  OBVIOUS
<1>1. TablesOwn
  BY DEF Init, TablesOwn, VerdictsLate, TasksOwn, AttemptsOwn, ReviewHasEvidence, InPhase, Exists
<1>2. ProcsOwn
  BY IdleOwns DEF Init, ProcsOwn
<1>3. ItemsOwn
  BY DEF Init, NewTick, ItemsOwn
<1> QED
  BY <1>1, <1>2, <1>3 DEF OwnInv

(* Every session id anywhere belongs to the task it is kept for, and every *)
(* receipt of a success on its way to a row comes from a session of that   *)
(* task that finished well.                                                *)
THEOREM SessionsAreOwned == Spec => []OwnInv
<1>1. IInv /\ OwnInv /\ [Next]_vars => OwnInv'
  BY NextOwns
<1> QED
  BY Invariance, InitOwns, <1>1, PTL DEF Spec

(* Whatever retries, polls and cleanups race, a task is only ever offered  *)
(* for review on the strength of one of its own sessions that finished     *)
(* well, or of a commit.                                                   *)
THEOREM ReviewsAreBacked == Spec => []ReviewHasEvidence
<1>1. OwnInv => ReviewHasEvidence
  BY DEF OwnInv, TablesOwn
<1> QED
  BY SessionsAreOwned, <1>1, PTL

-----------------------------------------------------------------------------
(* Tasks that run once.  Without retries a task that depends on no other   *)
(* is dispatched by its own task start alone, and only that command can    *)
(* move it to acked.  So until it does nobody else holds a session of the  *)
(* task, and once the task has ended nothing brings it back: a session is  *)
(* cleaned up, and its id cleared, only in ended tasks.  With dependencies *)
(* task start and the daemon may both dispatch; with retries a task is     *)
(* acked again while the cleanup of its last attempt is under way.         *)

NoRetries == "retry" \notin Commands
Lone(t) == Deps[t] = << >>

Busy(r, t) == r.pc # "idle" /\ r.task = t
Opens(r, t) == Busy(r, t) /\ r.op = "start"
Opening(t) == \E p \in Proc : Opens(proc[p], t)
Ended(t) == InPhase(t, TerminalPhases)

(* What the memory r of a process may say of the task t: S is the table of *)
(* sessions, ended and opening say whether the task is over and whether    *)
(* the start of the task is still under way.                               *)
LoneRec(S, ended, opening, r, t) ==
  Busy(r, t) =>
    /\ r.op # "retry" /\ r.pc \notin {"deps", "bumpread", "bumpwrite"}
    /\ r.op # "start" => r.pc # "dispatch" /\ r.target # "acked"
    /\ r.op = "start" =>
         /\ r.pc \in {"dispatch", "check", "write", "attempt"}
         /\ r.target # "ready_for_review"
         /\ r.pc = "dispatch" => r.target # "acked"
         /\ r.target # "acked" => r.session = NoSession
         /\ r.target = "acked" => r.session # NoSession /\ S[r.session].state # "gone"
    /\ opening /\ r.op # "start" => r.session = NoSession /\ r.target # "ready_for_review"
    /\ r.pc \in {"cleanup", "clear"} => r.session # NoSession /\ ended
    /\ r.pc \in {"attempt", "recommend"} /\ r.op # "watchdog" /\ r.session # NoSession => ended

RecsLone(t) == \A p \in Proc : LoneRec(sess, Ended(t), Opening(t), proc[p], t)
OpenedOnce(t) == \A p, q \in Proc : Opens(proc[p], t) /\ Opens(proc[q], t) => p = q
Unopened(t) ==
  Opening(t) =>
    /\ tasks[t].session = NoSession /\ ~InPhase(t, SuccessPhases \cup {"acked"})
    /\ \A item \in tick.todo \cup tick.msgs : item.task # t
ItemsLone(t) ==
  \A item \in tick.todo : item.task = t =>
    tick.stage # "advance" /\ (tick.stage = "sweep" => Ended(t))
Pollable(t) ==
  InPhase(t, {"acked"}) => tasks[t].session # NoSession /\ sess[tasks[t].session].state # "gone"

LoneInv(t) == RecsLone(t) /\ OpenedOnce(t) /\ Unopened(t) /\ ItemsLone(t) /\ Pollable(t)

(* A step that leaves the phase and the session of a task's row alone.     *)
RowStays(t) ==
  /\ t \in DOMAIN tasks <=> t \in DOMAIN tasks'
  /\ t \in DOMAIN tasks => /\ tasks'[t].phase = tasks[t].phase
                           /\ tasks'[t].session = tasks[t].session

(* No directory of a session of the task is removed.                       *)
DirsStay(t) ==
  \A s \in DOMAIN sess :
    sess[s].task = t /\ sess[s].state # "gone" => sess'[s].state # "gone"

(* The daemon's lists have no new item of the task.                        *)
ItemsStay(t) ==
  /\ \A item \in tick'.todo : item.task = t => item \in tick.todo /\ tick'.stage = tick.stage
  /\ \A item \in tick'.msgs : item.task = t => item \in tick.msgs

LEMMA RowUntouched == ASSUME NEW t, UNCHANGED tasks PROVE RowStays(t)
BY DEF RowStays

LEMMA DirsUntouched == ASSUME NEW t, UNCHANGED sess PROVE DirsStay(t)
BY DEF DirsStay

LEMMA ItemsUntouched ==
  ASSUME NEW t, tick'.todo \subseteq tick.todo, tick'.msgs \subseteq tick.msgs,
         tick'.stage = tick.stage \/ tick'.todo = {}
  PROVE  ItemsStay(t)
BY DEF ItemsStay

(* The row keeps its phase and session, or the task is over now, in which  *)
(* case the session may be cleared; no review while it is being started.   *)
RowEnds(t) ==
  /\ t \in DOMAIN tasks <=> t \in DOMAIN tasks'
  /\ t \in DOMAIN tasks =>
       \/ tasks'[t].phase = tasks[t].phase /\ tasks'[t].session = tasks[t].session
       \/ /\ tasks'[t].phase \in TerminalPhases
          /\ tasks'[t].session = NoSession \/ tasks'[t].session = tasks[t].session
          /\ Opening(t) => tasks'[t].phase \notin SuccessPhases

(* A process moves from one memory to the next.                            *)
LEMMA LoneMove ==
  ASSUME IInv, OwnInv, NEW t \in Task, LoneInv(t), RowEnds(t), ItemsStay(t),
         DirsStay(t) \/ (Ended(t)' /\ ~Opening(t)),
         NEW p \in Proc, NEW r, Becomes(p, r), Opens(r, t) => Opens(proc[p], t),
         LoneRec(sess', Ended(t)', Opening(t), r, t)
  PROVE  LoneInv(t)'
<1>1. proc'[p] = r /\ \A q \in Proc : q # p => proc'[q] = proc[q]
  BY DEF IInv, ProcOK, Becomes
<1>2. Ended(t) => Ended(t)'
  BY DEF RowEnds, Ended, InPhase, Exists
<1>3. Opening(t)' => Opening(t)
  BY <1>1 DEF Opening
<1>4. ASSUME NEW q \in Proc, q # p PROVE LoneRec(sess', Ended(t)', Opening(t), proc[q], t)
  <2>1. LoneRec(sess, Ended(t), Opening(t), proc[q], t)
    BY DEF LoneInv, RecsLone
  <2>2. proc[q].session # NoSession /\ proc[q].task = t =>
          proc[q].session \in DOMAIN sess /\ sess[proc[q].session].task = t
    BY DEF OwnInv, ProcsOwn, RecOwns, Owns
  <2>3. Opens(proc[q], t) => Opening(t)
    BY DEF Opening
  <2>4. Opens(proc[q], t) /\ proc[q].target = "acked" => sess'[proc[q].session].state # "gone"
    BY <2>1, <2>2, <2>3 DEF DirsStay, LoneRec, Opens, Busy
  <2> QED
    BY <1>2, <2>1, <2>4 DEF LoneRec, Opens
<1>5. RecsLone(t)'
  <2> SUFFICES ASSUME NEW q \in Proc
               PROVE  LoneRec(sess', Ended(t)', Opening(t)', proc'[q], t)
    BY DEF RecsLone
  <2>1. LoneRec(sess', Ended(t)', Opening(t), proc'[q], t)
    BY <1>1, <1>4
  <2> QED
    BY <1>3, <2>1 DEF LoneRec
<1>6. OpenedOnce(t)'
  <2>1. \A q \in Proc : Opens(proc'[q], t) => Opens(proc[q], t)
    BY <1>1
  <2> QED
    BY <2>1 DEF LoneInv, OpenedOnce
<1>7. Unopened(t)'
  <2>1. CASE Opening(t)
    <3>1. /\ tasks[t].session = NoSession /\ ~InPhase(t, SuccessPhases \cup {"acked"})
          /\ \A item \in tick.todo \cup tick.msgs : item.task # t
      BY <2>1 DEF LoneInv, Unopened
    <3>2. t \in DOMAIN tasks
      BY <2>1 DEF Opening, Opens, Busy, IInv, ProcOK, RecOK
    <3>3. tasks'[t].session = NoSession /\ ~InPhase(t, SuccessPhases \cup {"acked"})'
      BY <2>1, <3>1, <3>2 DEF RowEnds, InPhase, Exists, TerminalPhases
    <3>4. \A item \in tick'.todo \cup tick'.msgs : item.task # t
      BY <3>1 DEF ItemsStay
    <3> QED
      BY <3>3, <3>4 DEF Unopened
  <2> QED
    BY <1>3, <2>1 DEF Unopened
<1>8. ItemsLone(t)'
  BY <1>2 DEF LoneInv, ItemsLone, ItemsStay
<1>9. Pollable(t)'
  <2> SUFFICES ASSUME t \in DOMAIN tasks, tasks'[t].phase = "acked"
               PROVE  tasks'[t].session # NoSession /\ sess'[tasks'[t].session].state # "gone"
    BY DEF Pollable, RowEnds, InPhase, Exists
  <2>1. tasks[t].phase = "acked" /\ tasks'[t].session = tasks[t].session /\ ~Ended(t)'
    BY DEF RowEnds, Ended, InPhase, TerminalPhases, SuccessPhases
  <2>2. tasks[t].session # NoSession /\ sess[tasks[t].session].state # "gone"
    BY <2>1 DEF LoneInv, Pollable, InPhase, Exists
  <2>3. tasks[t].session \in DOMAIN sess /\ sess[tasks[t].session].task = t
    BY <2>2 DEF OwnInv, TablesOwn, TasksOwn, Owns
  <2> QED
    BY <2>1, <2>2, <2>3 DEF DirsStay
<1> QED
  BY <1>5, <1>6, <1>7, <1>8, <1>9 DEF LoneInv

(* The same when the row and the directories stay, as far as the task goes. *)
LEMMA LoneStep ==
  ASSUME IInv, OwnInv, NEW t \in Task, LoneInv(t), RowStays(t), DirsStay(t), ItemsStay(t),
         NEW p \in Proc, NEW r, Becomes(p, r), Opens(r, t) => Opens(proc[p], t),
         LoneRec(sess', Ended(t), Opening(t), r, t)
  PROVE  LoneInv(t)'
<1>1. RowEnds(t)
  BY DEF RowStays, RowEnds
<1>2. Ended(t)' <=> Ended(t)
  BY DEF RowStays, Ended, InPhase, Exists
<1>3. LoneRec(sess', Ended(t)', Opening(t), r, t)
  BY <1>2 DEF LoneRec
<1> QED
  BY <1>1, <1>3, LoneMove

(* No process moves.                                                       *)
LEMMA LoneOthers ==
  ASSUME IInv, OwnInv, NEW t \in Task, LoneInv(t), RowStays(t), DirsStay(t), ItemsStay(t),
         UNCHANGED proc
  PROVE  LoneInv(t)'
<1> DEFINE r == proc[Daemon]
<1>1. Daemon \in Proc /\ Becomes(Daemon, r)
  BY DEF Proc, Becomes, IInv, ProcOK
<1>2. LoneRec(sess, Ended(t), Opening(t), r, t)
  BY <1>1 DEF LoneInv, RecsLone
<1>3. r.session # NoSession /\ r.task = t => r.session \in DOMAIN sess /\ sess[r.session].task = t
  BY <1>1 DEF OwnInv, ProcsOwn, RecOwns, Owns
<1>4. r.op = "start" /\ r.target = "acked" /\ Busy(r, t) => sess'[r.session].state # "gone"
  BY <1>2, <1>3 DEF DirsStay, LoneRec, Busy
<1>5. LoneRec(sess', Ended(t), Opening(t), r, t)
  BY <1>2, <1>4 DEF LoneRec
<1> HIDE DEF r
<1>6. Opens(r, t) => Opens(proc[Daemon], t)
  BY DEF r
<1> QED
  BY <1>1, <1>5, <1>6, LoneStep

(* A process works on another task, or goes idle.                          *)
LEMMA LoneElsewhere ==
  ASSUME IInv, OwnInv, NEW t \in Task, LoneInv(t), RowStays(t), DirsStay(t), ItemsStay(t),
         NEW p \in Proc, NEW r, Becomes(p, r), ~Busy(r, t)
  PROVE  LoneInv(t)'
<1>1. /\ Opens(r, t) => Opens(proc[p], t)
      /\ LoneRec(sess', Ended(t), Opening(t), r, t)
  BY DEF Opens, LoneRec
<1> QED
  BY <1>1, LoneStep

(* A memory that holds no session, asks for no review and moves nothing.   *)
LEMMA LonePassive ==
  ASSUME IInv, OwnInv, NEW t \in Task, LoneInv(t), RowStays(t), DirsStay(t), ItemsStay(t),
         NEW p \in Proc, NEW r, Becomes(p, r), r.session = NoSession,
         r.target \notin {"acked", "ready_for_review"}, r.op \notin {"start", "retry"},
         r.pc \notin {"deps", "dispatch", "bumpread", "bumpwrite", "cleanup", "clear"}
  PROVE  LoneInv(t)'
<1>1. /\ Opens(r, t) => Opens(proc[p], t)
      /\ LoneRec(sess', Ended(t), Opening(t), r, t)
  BY DEF Opens, LoneRec
<1> QED
  BY <1>1, LoneStep

LEMMA IdleNotBusy == ASSUME NEW t PROVE ~Busy(Idle, t)
BY DEF Busy, Idle

LEMMA FinishLone ==
  ASSUME IInv, OwnInv, NEW t \in Task, LoneInv(t), RowStays(t), DirsStay(t),
         NEW p \in Proc, Finish(p)
  PROVE  LoneInv(t)'
<1> DEFINE r == [Idle EXCEPT !.pc = "read", !.op = "wait", !.task = proc[p].task]
<1>1. tick'.todo = tick.todo /\ tick'.msgs = tick.msgs /\ tick'.stage = tick.stage
  BY DEF Finish, IInv, TickOK, TickState
<1>2. ItemsStay(t)
  BY <1>1, ItemsUntouched
<1>3. r.session = NoSession /\ r.target = "new" /\ r.op = "wait" /\ r.pc = "read"
  BY DEF Idle
<1>4. Becomes(p, r) \/ Becomes(p, Idle)
  BY DEF Finish
<1> HIDE DEF r
<1>5. CASE Becomes(p, r)
  BY <1>2, <1>3, <1>5, LonePassive
<1>6. CASE Becomes(p, Idle)
  BY <1>2, <1>6, IdleNotBusy, LoneElsewhere
<1> QED
  BY <1>4, <1>5, <1>6

LEMMA GotoLone ==
  ASSUME IInv, OwnInv, NEW t \in Task, LoneInv(t), RowStays(t), DirsStay(t),
         NEW p \in Proc, ~At(p, "idle"), NEW pc, Goto(p, pc),
         proc[p].task = t => LoneRec(sess', Ended(t), Opening(t), [proc[p] EXCEPT !.pc = pc], t)
  PROVE  LoneInv(t)'
<1> DEFINE r == [proc[p] EXCEPT !.pc = pc]
<1>1. proc[p] \in ProcState
  BY DEF IInv, ProcOK
<1>2. r.task = proc[p].task /\ r.op = proc[p].op
  BY <1>1 DEF ProcState
<1>3. Opens(r, t) => Opens(proc[p], t)
  BY <1>2 DEF Opens, Busy, At
<1>4. LoneRec(sess', Ended(t), Opening(t), r, t)
  BY <1>2 DEF LoneRec, Busy
<1>5. ItemsStay(t) /\ Becomes(p, r)
  BY ItemsUntouched DEF Goto
<1> HIDE DEF r
<1> QED
  BY <1>3, <1>4, <1>5, LoneStep

LEMMA RaiseLone ==
  ASSUME IInv, OwnInv, NEW t \in Task, LoneInv(t), RowStays(t), DirsStay(t),
         NEW p \in Proc, Raise(p)
  PROVE  LoneInv(t)'
<1>1. CASE proc[p].op \in {"ingest", "close"}
  <2>1. ItemsStay(t)
    BY <1>1, ItemsUntouched DEF Raise
  <2> QED
    BY <1>1, <2>1, IdleNotBusy, LoneElsewhere DEF Raise
<1>2. CASE proc[p].op \in {"advance", "budget", "stuck"}
  <2>1. ItemsStay(t)
    BY <1>2, ItemsUntouched DEF Raise, NewTick
  <2> QED
    BY <1>2, <2>1, IdleNotBusy, LoneElsewhere DEF Raise
<1>3. CASE Finish(p)
  BY <1>3, FinishLone
<1> QED
  BY <1>1, <1>2, <1>3 DEF Raise

-----------------------------------------------------------------------------
(* The world around the commands.                                          *)

LEMMA TimeLone ==
  ASSUME IInv, OwnInv, NEW t \in Task, LoneInv(t),
         SessionStep \/ TimeStep \/ DaemonRestart \/ UNCHANGED vars
  PROVE  LoneInv(t)'
<1>1. RowStays(t) /\ UNCHANGED proc
  BY RowUntouched
     DEF SessionStep, SessionExit, SessionCommit, TimeStep, NextBucket, Elapse, SpendBudget,
         DaemonRestart, vars, store, world
<1>2. DirsStay(t)
  <2>1. CASE \E s \in DOMAIN sess : SessionExit(s)
    <3>1. PICK s \in DOMAIN sess, verdict \in {"ready_for_review", "blocked"} :
            sess' = [sess EXCEPT ![s] = [@ EXCEPT !.state = "exited", !.verdict = verdict]]
      BY <2>1 DEF SessionExit
    <3>2. sess[s] \in SessRow
      BY ElementOfSeq, LenProperties DEF IInv, SessOK
    <3> DEFINE row == [sess[s] EXCEPT !.state = "exited", !.verdict = verdict]
    <3>3. row.state = "exited"
      BY <3>2 DEF SessRow
    <3>4. sess' = [sess EXCEPT ![s] = row]
      BY <3>1
    <3> HIDE DEF row
    <3> QED
      BY <3>3, <3>4 DEF DirsStay
  <2>2. CASE UNCHANGED sess
    BY <2>2, DirsUntouched
  <2> QED
    BY <2>1, <2>2
       DEF SessionStep, SessionCommit, TimeStep, NextBucket, Elapse, SpendBudget, DaemonRestart,
           vars, store, world
<1>3. ItemsStay(t)
  <2>1. CASE NextBucket
    <3>1. tick'.todo = tick.todo /\ tick'.msgs = tick.msgs /\ tick'.stage = tick.stage
      BY <2>1 DEF NextBucket, IInv, TickOK, TickState
    <3> QED
      BY <3>1, ItemsUntouched
  <2>2. CASE DaemonRestart
    BY <2>2, ItemsUntouched DEF DaemonRestart, NewTick
  <2>3. CASE UNCHANGED tick
    BY <2>3, ItemsUntouched
  <2> QED
    BY <2>1, <2>2, <2>3
       DEF SessionStep, SessionExit, SessionCommit, TimeStep, Elapse, SpendBudget, vars
<1> QED
  BY <1>1, <1>2, <1>3, LoneOthers

LEMMA CrashLone ==
  ASSUME IInv, OwnInv, NEW t \in Task, LoneInv(t), NEW p \in Proc, Crash(p) PROVE LoneInv(t)'
<1>1. RowStays(t) /\ DirsStay(t) /\ Becomes(p, Idle)
  BY RowUntouched, DirsUntouched DEF Crash, world
<1>2. ItemsStay(t)
  BY ItemsUntouched DEF Crash, NewTick
<1> QED
  BY <1>1, <1>2, IdleNotBusy, LoneElsewhere

-----------------------------------------------------------------------------
(* Steps that commands and the daemon share.                               *)

(* What the invariant says of a process that works on the task.            *)
LEMMA LoneWorker ==
  ASSUME IInv, NEW t \in Task, LoneInv(t), NEW p \in Proc, ~At(p, "idle"), proc[p].task = t
  PROVE  /\ LoneRec(sess, Ended(t), Opening(t), proc[p], t) /\ Busy(proc[p], t)
         /\ proc[p].op = "start" => Opening(t)
BY DEF LoneInv, RecsLone, Busy, At, Opening, Opens

LEMMA MarkCheckLone ==
  ASSUME IInv, OwnInv, NEW t \in Task, LoneInv(t), NEW p \in Proc, MarkCheck(p) PROVE LoneInv(t)'
<1> DEFINE n == tasks[proc[p].task].attempt
           r == [proc[p] EXCEPT !.pc = "write", !.chk = n]
<1>1. RowStays(t) /\ DirsStay(t) /\ sess' = sess
  BY RowUntouched, DirsUntouched DEF MarkCheck, store, world
<1>2. CASE Becomes(p, r) /\ UNCHANGED tick
  <2>1. proc[p] \in ProcState /\ At(p, "check") /\ ~At(p, "idle")
    BY DEF IInv, ProcOK, MarkCheck, At
  <2>2. /\ r.session = proc[p].session /\ r.task = proc[p].task /\ r.op = proc[p].op
        /\ r.target = proc[p].target /\ r.pc = "write"
    BY <2>1 DEF ProcState
  <2>3. Opens(r, t) => Opens(proc[p], t)
    BY <2>1, <2>2 DEF Opens, Busy, At
  <2>4. LoneRec(sess', Ended(t), Opening(t), r, t)
    <3> HIDE DEF r
    <3>1. CASE proc[p].task = t
      <4>1. LoneRec(sess, Ended(t), Opening(t), proc[p], t) /\ Busy(proc[p], t)
        BY <2>1, <3>1, LoneWorker
      <4>2. proc[p].pc = "check"
        BY <2>1 DEF At
      <4> QED
        BY <1>1, <2>2, <4>1, <4>2 DEF LoneRec
    <3>2. CASE proc[p].task # t
      BY <2>2, <3>2 DEF LoneRec, Busy
    <3> QED
      BY <3>1, <3>2
  <2>5. ItemsStay(t)
    BY <1>2, ItemsUntouched
  <2> HIDE DEF r
  <2> QED
    BY <1>1, <1>2, <2>3, <2>4, <2>5, LoneStep
<1>3. CASE Raise(p)
  BY <1>1, <1>3, RaiseLone
<1> QED
  BY <1>2, <1>3 DEF MarkCheck

(* Only its start moves the task to acked; nobody else holds a session.    *)
LEMMA WriteAckedLone ==
  ASSUME IInv, OwnInv, NEW t \in Task, LoneInv(t), NEW p \in Proc, WriteAcked(p) PROVE LoneInv(t)'
<1> DEFINE r == proc[p]
           row == SetAcked(tasks[r.task], r.session)
<1>1. ~At(p, "idle") /\ At(p, "write") /\ r.target = "acked" /\ sess' = sess
  BY DEF WriteAcked, At
<1>2. tasks' = [tasks EXCEPT ![r.task] = row]
  BY DEF WriteAcked
<1>3. CASE r.task # t
  <2>1. RowStays(t) /\ DirsStay(t)
    BY <1>1, <1>2, <1>3, DirsUntouched DEF RowStays
  <2> QED
    BY <2>1, FinishLone DEF WriteAcked
<1>4. CASE r.task = t
  <2>1. /\ r.op = "start" /\ Opening(t) /\ Opens(r, t)
        /\ r.session # NoSession /\ sess[r.session].state # "gone"
    BY <1>1, <1>4, LoneWorker DEF LoneRec, Opens
  <2>2. t \in DOMAIN tasks /\ tasks[t] \in TaskRow
    BY <1>1, <1>4, BusyOK
  <2>3. Becomes(p, Idle) /\ tick' = tick
    BY <2>1 DEF WriteAcked, Finish
  <2>4. proc'[p] = Idle /\ \A q \in Proc : q # p => proc'[q] = proc[q]
    BY <2>3 DEF IInv, ProcOK, Becomes
  <2>5. \A q \in Proc : ~Opens(proc'[q], t)
    BY <2>1, <2>4, IdleNotBusy DEF LoneInv, OpenedOnce, Opens
  <2>6. \A item \in tick.todo \cup tick.msgs : item.task # t
    BY <2>1 DEF LoneInv, Unopened
  <2>7. tasks'[t].phase = "acked" /\ tasks'[t].session = r.session
    BY <1>2, <1>4, <2>2 DEF SetAcked, TaskRow
  <2>8. RecsLone(t)'
    <3> SUFFICES ASSUME NEW q \in Proc, Busy(proc'[q], t)
                 PROVE  LoneRec(sess', Ended(t)', Opening(t)', proc'[q], t)
      BY DEF RecsLone, LoneRec
    <3>1. q # p /\ proc'[q] = proc[q] /\ proc[q].op # "start"
      BY <2>4, <2>5, IdleNotBusy DEF Opens
    <3>2. LoneRec(sess, Ended(t), Opening(t), proc[q], t)
      BY DEF LoneInv, RecsLone
    <3>3. proc[q].session = NoSession /\ proc[q].target # "ready_for_review"
      BY <2>1, <3>1, <3>2 DEF LoneRec
    <3> QED
      BY <3>1, <3>2, <3>3 DEF LoneRec
  <2>9. OpenedOnce(t)' /\ ~Opening(t)'
    BY <2>5 DEF OpenedOnce, Opening
  <2>10. ItemsLone(t)' /\ Unopened(t)'
    BY <2>3, <2>6, <2>9 DEF ItemsLone, Unopened
  <2>11. Pollable(t)'
    BY <1>1, <2>1, <2>7 DEF Pollable
  <2> QED
    BY <2>8, <2>9, <2>10, <2>11 DEF LoneInv
<1> QED
  BY <1>3, <1>4

LEMMA WriteEndLone ==
  ASSUME IInv, OwnInv, NEW t \in Task, LoneInv(t), NEW p \in Proc, WriteEnd(p) PROVE LoneInv(t)'
<1> DEFINE r == proc[p]
           row == SetPhase(tasks[r.task], r.target, r.session, r.from)
<1>1. ~At(p, "idle") /\ r.target \in Targets \ {"acked"} /\ r.pc = "write"
  BY DEF WriteEnd, At, IInv, ProcOK, RecOK
<1>2. /\ r \in ProcState /\ r.task \in DOMAIN tasks /\ tasks[r.task] \in TaskRow
      /\ sess' = sess
  BY <1>1, BusyOK DEF WriteEnd, world
<1>3. row.session = tasks[r.task].session /\ row.phase = r.target
  BY <1>1, <1>2 DEF SetPhase, SetReadyForReview, SetBlocked, SetStuck, SetAbandoned, TaskRow, Targets
<1>4. /\ tasks' = [tasks EXCEPT ![r.task] = row]
      /\ IF r.op = "close" THEN Finish(p) ELSE Goto(p, "attempt")
  BY DEF WriteEnd
<1> HIDE DEF row
<1>5. CASE r.task # t
  <2>1. RowStays(t) /\ DirsStay(t)
    BY <1>2, <1>4, <1>5, DirsUntouched DEF RowStays
  <2>2. CASE Finish(p)
    BY <2>1, <2>2, FinishLone
  <2>3. CASE Goto(p, "attempt")
    BY <1>1, <1>5, <2>1, <2>3, GotoLone
  <2> QED
    BY <1>4, <2>2, <2>3
<1>6. CASE r.task = t
  <2> DEFINE next == [r EXCEPT !.pc = "attempt"]
  <2>1. LoneRec(sess, Ended(t), Opening(t), r, t) /\ Busy(r, t) /\ (r.op = "start" => Opening(t))
    BY <1>1, <1>6, LoneWorker
  <2>2. Opening(t) => r.target # "ready_for_review"
    BY <2>1 DEF LoneRec
  <2>3. t \in DOMAIN tasks /\ t \in DOMAIN tasks' /\ tasks'[t] = row
    BY <1>2, <1>4, <1>6
  <2>4. row.phase \in TerminalPhases
    BY <1>1, <1>3 DEF Targets, TerminalPhases, SuccessPhases
  <2>5. RowEnds(t)
    BY <1>1, <1>3, <1>6, <2>2, <2>3, <2>4 DEF RowEnds, Targets, SuccessPhases
  <2>6. Ended(t)' /\ DirsStay(t)
    BY <1>2, <2>3, <2>4, DirsUntouched DEF Ended, InPhase, Exists
  <2>7. /\ next.session = r.session /\ next.task = r.task /\ next.op = r.op
        /\ next.target = r.target /\ next.pc = "attempt"
    BY <1>2 DEF ProcState
  <2>8. LoneRec(sess', Ended(t)', Opening(t), next, t) /\ (Opens(next, t) => Opens(r, t))
    <3> HIDE DEF next
    <3> QED
      BY <1>2, <2>1, <2>6, <2>7 DEF LoneRec, Opens
  <2>9. Becomes(p, next) \/ Becomes(p, Idle)
    BY <1>4 DEF Goto, Finish
  <2>10. ItemsStay(t)
    BY <1>4, ItemsUntouched DEF Goto, Finish
  <2>11. LoneRec(sess', Ended(t)', Opening(t), Idle, t) /\ ~Opens(Idle, t)
    BY IdleNotBusy DEF LoneRec, Opens
  <2> HIDE DEF next
  <2> QED
    BY <2>5, <2>6, <2>8, <2>9, <2>10, <2>11, LoneMove
<1> QED
  BY <1>5, <1>6

LEMMA WriteAttemptLone ==
  ASSUME IInv, OwnInv, NEW t \in Task, LoneInv(t), NEW p \in Proc, WriteAttempt(p)
  PROVE  LoneInv(t)'
<1>1. /\ ~At(p, "idle") /\ proc[p].pc = "attempt" /\ proc[p] \in ProcState
      /\ RowStays(t) /\ DirsStay(t) /\ sess' = sess
  BY RowUntouched, DirsUntouched, BusyOK DEF WriteAttempt, At, world
<1>2. CASE Finish(p)
  BY <1>1, <1>2, FinishLone
<1>3. CASE proc[p].op \in {"budget", "stuck"} /\ Goto(p, "recommend")
  <2> DEFINE r == [proc[p] EXCEPT !.pc = "recommend"]
  <2>1. /\ r.session = proc[p].session /\ r.task = proc[p].task /\ r.op = proc[p].op
        /\ r.target = proc[p].target /\ r.pc = "recommend"
    BY <1>1 DEF ProcState
  <2>2. proc[p].task = t => LoneRec(sess', Ended(t), Opening(t), r, t)
    <3> HIDE DEF r
    <3> QED
      BY <1>1, <1>3, <2>1, LoneWorker DEF LoneRec
  <2> QED
    BY <1>1, <1>3, <2>2, GotoLone
<1>4. CASE /\ proc[p].op \in {"ingest", "wait", "abandon"} /\ proc[p].session # NoSession
           /\ Goto(p, "cleanup")
  <2> DEFINE r == [proc[p] EXCEPT !.pc = "cleanup"]
  <2>1. /\ r.session = proc[p].session /\ r.task = proc[p].task /\ r.op = proc[p].op
        /\ r.target = proc[p].target /\ r.pc = "cleanup"
    BY <1>1 DEF ProcState
  <2>2. proc[p].task = t => LoneRec(sess', Ended(t), Opening(t), r, t)
    <3> HIDE DEF r
    <3> QED
      BY <1>1, <1>4, <2>1, LoneWorker DEF LoneRec
  <2> QED
    BY <1>1, <1>4, <2>2, GotoLone
<1> QED
  BY <1>2, <1>3, <1>4 DEF WriteAttempt

LEMMA RecommendRetryLone ==
  ASSUME IInv, OwnInv, NEW t \in Task, LoneInv(t), NEW p \in Proc, RecommendRetry(p)
  PROVE  LoneInv(t)'
<1> DEFINE row == SetRetryRecommended(tasks[proc[p].task], proc[p].retries)
<1>1. /\ ~At(p, "idle") /\ proc[p].pc = "recommend" /\ proc[p] \in ProcState
      /\ DirsStay(t) /\ sess' = sess
  BY DirsUntouched, BusyOK DEF RecommendRetry, At, world
<1>2. proc[p].task \in DOMAIN tasks /\ tasks[proc[p].task] \in TaskRow
  BY <1>1, BusyOK
<1>3. row.phase = tasks[proc[p].task].phase /\ row.session = tasks[proc[p].task].session
  BY <1>2 DEF SetRetryRecommended, TaskRow
<1>4. tasks' = [tasks EXCEPT ![proc[p].task] = row]
  BY DEF RecommendRetry
<1> HIDE DEF row
<1>5. RowStays(t)
  BY <1>2, <1>3, <1>4 DEF RowStays
<1>6. CASE Finish(p)
  BY <1>1, <1>5, <1>6, FinishLone
<1>7. CASE /\ proc[p].op # "watchdog" /\ proc[p].session # NoSession /\ Goto(p, "cleanup")
  <2> DEFINE r == [proc[p] EXCEPT !.pc = "cleanup"]
  <2>1. /\ r.session = proc[p].session /\ r.task = proc[p].task /\ r.op = proc[p].op
        /\ r.target = proc[p].target /\ r.pc = "cleanup"
    BY <1>1 DEF ProcState
  <2>2. proc[p].task = t => LoneRec(sess', Ended(t), Opening(t), r, t)
    <3> HIDE DEF r
    <3> QED
      BY <1>1, <1>7, <2>1, LoneWorker DEF LoneRec
  <2> QED
    BY <1>1, <1>5, <1>7, <2>2, GotoLone
<1> QED
  BY <1>6, <1>7 DEF RecommendRetry

(* The directory that is removed is one of the worker's task, and that     *)
(* task is over and not being started.                                     *)
LEMMA CleanupSessionLone ==
  ASSUME IInv, OwnInv, NEW t \in Task, LoneInv(t), NEW p \in Proc, CleanupSession(p)
  PROVE  LoneInv(t)'
<1> DEFINE s == proc[p].session
<1>1. /\ ~At(p, "idle") /\ proc[p].pc = "cleanup" /\ proc[p] \in ProcState /\ s # NoSession
      /\ RowStays(t)
  BY RowUntouched, BusyOK DEF CleanupSession, At, IInv, ProcOK, RecOK, store
<1>2. s \in DOMAIN sess /\ sess[s].task = proc[p].task /\ sess[s] \in SessRow
  BY <1>1, ElementOfSeq, LenProperties DEF OwnInv, ProcsOwn, RecOwns, Owns, IInv, SessOK
<1>3. sess' = sess \/ sess' = [sess EXCEPT ![s].state = "gone"]
  BY DEF CleanupSession, Cleaned
<1>4. \A u \in DOMAIN sess : u # s => sess'[u] = sess[u]
  BY <1>3
<1>5. CASE proc[p].task # t
  <2>1. DirsStay(t)
    BY <1>2, <1>4, <1>5 DEF DirsStay
  <2>2. CASE Finish(p)
    BY <1>1, <2>1, <2>2, FinishLone
  <2>3. CASE Goto(p, "clear")
    BY <1>1, <1>5, <2>1, <2>3, GotoLone
  <2> QED
    BY <2>2, <2>3 DEF CleanupSession
<1>6. CASE proc[p].task = t
  <2>1. /\ LoneRec(sess, Ended(t), Opening(t), proc[p], t) /\ Busy(proc[p], t)
        /\ proc[p].op = "start" => Opening(t)
    BY <1>1, <1>6, LoneWorker
  <2>2. Ended(t) /\ proc[p].op # "start" /\ ~Opening(t)
    BY <1>1, <2>1 DEF LoneRec
  <2>3. RowEnds(t) /\ (Ended(t)' <=> Ended(t))
    BY <1>1 DEF RowStays, RowEnds, Ended, InPhase, Exists
  <2> DEFINE r == [proc[p] EXCEPT !.pc = "clear"]
             w == [Idle EXCEPT !.pc = "read", !.op = "wait", !.task = proc[p].task]
  <2>4. /\ r.session = s /\ r.task = proc[p].task /\ r.op = proc[p].op
        /\ r.target = proc[p].target /\ r.pc = "clear"
    BY <1>1 DEF ProcState
  <2>5. w.session = NoSession /\ w.target = "new" /\ w.op = "wait" /\ w.pc = "read"
    BY DEF Idle
  <2>6. Becomes(p, r) \/ Becomes(p, w) \/ Becomes(p, Idle)
    BY DEF CleanupSession, Goto, Finish
  <2>7. tick'.todo = tick.todo /\ tick'.msgs = tick.msgs /\ tick'.stage = tick.stage
    BY DEF CleanupSession, Goto, Finish, IInv, TickOK, TickState
  <2>8. ItemsStay(t)
    BY <2>7, ItemsUntouched
  <2> HIDE DEF r, w
  <2>9. /\ LoneRec(sess', Ended(t)', Opening(t), r, t) /\ ~Opens(r, t)
        /\ LoneRec(sess', Ended(t)', Opening(t), w, t) /\ ~Opens(w, t)
        /\ LoneRec(sess', Ended(t)', Opening(t), Idle, t) /\ ~Opens(Idle, t)
    BY <1>1, <2>1, <2>2, <2>3, <2>4, <2>5, IdleNotBusy DEF LoneRec, Opens
  <2> QED
    BY <2>2, <2>3, <2>6, <2>8, <2>9, LoneMove
<1> QED
  BY <1>5, <1>6

LEMMA ClearSessionLone ==
  ASSUME IInv, OwnInv, NEW t \in Task, LoneInv(t), NEW p \in Proc, ClearSession(p)
  PROVE  LoneInv(t)'
<1> DEFINE u == proc[p].task
           row == [tasks[u] EXCEPT !.session = NoSession]
<1>1. /\ ~At(p, "idle") /\ proc[p].pc = "clear" /\ proc[p] \in ProcState
      /\ DirsStay(t) /\ sess' = sess
  BY DirsUntouched, BusyOK DEF ClearSession, At, world
<1>2. u \in DOMAIN tasks /\ tasks[u] \in TaskRow
  BY <1>1, BusyOK
<1>3. row.phase = tasks[u].phase /\ row.session = NoSession
  BY <1>2 DEF TaskRow
<1>4. tasks' = [tasks EXCEPT ![u] = row] /\ Finish(p)
  BY DEF ClearSession
<1> HIDE DEF row
<1>5. CASE u # t
  <2>1. RowStays(t)
    BY <1>2, <1>4, <1>5 DEF RowStays
  <2> QED
    BY <1>1, <1>4, <2>1, FinishLone
<1>6. CASE u = t
  <2>1. /\ LoneRec(sess, Ended(t), Opening(t), proc[p], t) /\ Busy(proc[p], t)
        /\ proc[p].op = "start" => Opening(t)
    BY <1>1, <1>6, LoneWorker
  <2>2. Ended(t) /\ proc[p].op # "start" /\ ~Opening(t)
    BY <1>1, <2>1 DEF LoneRec
  <2>3. t \in DOMAIN tasks /\ t \in DOMAIN tasks' /\ tasks'[t] = row
    BY <1>2, <1>4, <1>6
  <2>4. RowEnds(t)
    BY <1>3, <1>6, <2>2, <2>3 DEF RowEnds, Ended, InPhase
  <2> DEFINE w == [Idle EXCEPT !.pc = "read", !.op = "wait", !.task = proc[p].task]
  <2>5. w.session = NoSession /\ w.target = "new" /\ w.op = "wait" /\ w.pc = "read"
    BY DEF Idle
  <2>6. Becomes(p, w) \/ Becomes(p, Idle)
    BY <1>4 DEF Finish
  <2>7. tick'.todo = tick.todo /\ tick'.msgs = tick.msgs /\ tick'.stage = tick.stage
    BY <1>4 DEF Finish, IInv, TickOK, TickState
  <2>8. ItemsStay(t)
    BY <2>7, ItemsUntouched
  <2> HIDE DEF w
  <2>9. /\ LoneRec(sess', Ended(t)', Opening(t), w, t) /\ ~Opens(w, t)
        /\ LoneRec(sess', Ended(t)', Opening(t), Idle, t) /\ ~Opens(Idle, t)
    BY <2>5, IdleNotBusy DEF LoneRec, Opens
  <2> QED
    BY <1>1, <2>4, <2>6, <2>8, <2>9, LoneMove
<1> QED
  BY <1>5, <1>6

LEMMA AbandonCancelLone ==
  ASSUME IInv, OwnInv, NEW t \in Task, LoneInv(t), NEW p \in Proc, AbandonCancel(p)
  PROVE  LoneInv(t)'
<1>1. /\ ~At(p, "idle") /\ proc[p].pc = "cancel" /\ proc[p] \in ProcState
      /\ RowStays(t)
  BY RowUntouched, BusyOK DEF AbandonCancel, At, store
<1>2. \A s \in DOMAIN sess : sess'[s].state = "gone" => sess[s].state = "gone"
  <2>1. proc[p].session \in DOMAIN sess
    BY <1>1, BusyOK, HeldSession DEF IInv, ProcOK, RecOK
  <2>2. sess[proc[p].session] \in SessRow
    BY <2>1, ElementOfSeq, LenProperties DEF IInv, SessOK
  <2>3. sess' = sess \/ sess' = [sess EXCEPT ![proc[p].session].state = "exited"]
    BY DEF AbandonCancel, Killed
  <2>4. [sess[proc[p].session] EXCEPT !.state = "exited"].state = "exited"
    BY <2>2 DEF SessRow
  <2> QED
    BY <2>1, <2>3, <2>4
<1>3. DirsStay(t)
  BY <1>2 DEF DirsStay
<1> DEFINE r == [proc[p] EXCEPT !.pc = "check"]
<1>4. /\ r.session = proc[p].session /\ r.task = proc[p].task /\ r.op = proc[p].op
      /\ r.target = proc[p].target /\ r.pc = "check"
  BY <1>1 DEF ProcState
<1>5. proc[p].task = t => LoneRec(sess', Ended(t), Opening(t), r, t)
  <2> HIDE DEF r
  <2> QED
    BY <1>1, <1>4, LoneWorker DEF LoneRec
<1> QED
  BY <1>1, <1>3, <1>5, GotoLone DEF AbandonCancel

LEMMA DispatchLone ==
  ASSUME IInv, OwnInv, NEW t \in Task, LoneInv(t), NEW p \in Proc, Dispatch(p) PROVE LoneInv(t)'
<1> DEFINE u == proc[p].task
<1>1. /\ ~At(p, "idle") /\ proc[p].pc = "dispatch" /\ proc[p] \in ProcState
      /\ RowStays(t) /\ ItemsStay(t)
  BY RowUntouched, ItemsUntouched, BusyOK DEF Dispatch, At, store
<1>2. CASE /\ NewSession(u)
           /\ Becomes(p, [proc[p] EXCEPT
                !.pc = IF proc[p].op = "retry" THEN "bumpread" ELSE "check",
                !.session = Len(sess) + 1, !.target = "acked"])
  <2> DEFINE pc == IF proc[p].op = "retry" THEN "bumpread" ELSE "check"
             n == Len(sess) + 1
             r == [proc[p] EXCEPT !.pc = pc, !.session = n, !.target = "acked"]
  <2>1. /\ Len(sess) \in Nat
        /\ \A s \in DOMAIN sess : sess'[s] = sess[s]
        /\ sess'[n].state = "running"
    BY <1>1, <1>2, BusyOK, AppendProperties, LenProperties DEF NewSession, IInv, SessOK, SessRow
  <2>2. DirsStay(t)
    BY <2>1 DEF DirsStay
  <2>3. /\ r.session = n /\ r.task = u /\ r.target = "acked" /\ r.op = proc[p].op
        /\ r.pc = pc /\ n # NoSession
    BY <1>1, <2>1 DEF ProcState, NoSession
  <2>4. Becomes(p, r)
    BY <1>2
  <2>5. Opens(r, t) => Opens(proc[p], t)
    BY <1>1, <2>3 DEF Opens, Busy
  <2>6. LoneRec(sess', Ended(t), Opening(t), r, t)
    <3> HIDE DEF r, n
    <3>1. CASE u = t
      <4>1. LoneRec(sess, Ended(t), Opening(t), proc[p], t) /\ Busy(proc[p], t)
        BY <1>1, <3>1, LoneWorker
      <4>2. proc[p].op = "start" /\ pc = "check"
        BY <1>1, <4>1 DEF LoneRec
      <4> HIDE DEF pc
      <4>3. /\ r.op = "start" /\ r.pc = "check" /\ r.target = "acked"
            /\ r.session # NoSession /\ sess'[r.session].state # "gone"
        BY <2>1, <2>3, <4>2
      <4> QED
        BY <4>3 DEF LoneRec
    <3>2. CASE u # t
      BY <2>3, <3>2 DEF LoneRec, Busy
    <3> QED
      BY <3>1, <3>2
  <2> HIDE DEF r
  <2> QED
    BY <1>1, <2>2, <2>4, <2>5, <2>6, LoneStep
<1>3. CASE /\ UNCHANGED sess
           /\ Becomes(p, IF proc[p].op = "retry" THEN Idle
                         ELSE [proc[p] EXCEPT !.pc = "check", !.target = "blocked"])
  <2> DEFINE r == [proc[p] EXCEPT !.pc = "check", !.target = "blocked"]
  <2>1. DirsStay(t)
    BY <1>3, DirsUntouched
  <2>2. /\ r.session = proc[p].session /\ r.task = u /\ r.op = proc[p].op
        /\ r.target = "blocked" /\ r.pc = "check"
    BY <1>1 DEF ProcState
  <2>3. Becomes(p, r) \/ Becomes(p, Idle)
    BY <1>3
  <2>4. Opens(r, t) => Opens(proc[p], t)
    BY <1>1, <2>2 DEF Opens, Busy
  <2>5. CASE Becomes(p, Idle)
    BY <1>1, <2>1, <2>5, IdleNotBusy, LoneElsewhere
  <2>6. CASE Becomes(p, r) /\ u # t
    <3> HIDE DEF r
    <3> QED
      BY <1>1, <2>1, <2>2, <2>6, LoneElsewhere DEF Busy
  <2>7. CASE Becomes(p, r) /\ u = t
    <3>1. LoneRec(sess, Ended(t), Opening(t), proc[p], t) /\ Busy(proc[p], t)
      BY <1>1, <2>7, LoneWorker
    <3>2. proc[p].op = "start" /\ proc[p].session = NoSession
      BY <1>1, <3>1 DEF LoneRec
    <3>3. LoneRec(sess', Ended(t), Opening(t), r, t)
      <4> HIDE DEF r
      <4> QED
        BY <2>2, <3>2 DEF LoneRec
    <3> HIDE DEF r
    <3> QED
      BY <1>1, <2>1, <2>4, <2>7, <3>3, LoneStep
  <2> QED
    BY <2>3, <2>5, <2>6, <2>7
<1> QED
  BY <1>2, <1>3 DEF Dispatch

LEMMA SharedStepLone ==
  ASSUME IInv, OwnInv, NEW t \in Task, LoneInv(t), NEW p \in Proc, SharedStep(p)
  PROVE  LoneInv(t)'
BY MarkCheckLone, WriteAckedLone, WriteEndLone, WriteAttemptLone, RecommendRetryLone,
   CleanupSessionLone, ClearSessionLone, DispatchLone DEF SharedStep

-----------------------------------------------------------------------------
(* Commands.                                                               *)

(* Its own task start: nobody has heard of the task before.                *)
LEMMA StartOwnLone ==
  ASSUME IInv, OwnInv, NEW t \in Task, Lone(t), NEW p \in Cli, StartCreate(p, t)
  PROVE  LoneInv(t)'
<1> DEFINE r == [Idle EXCEPT !.pc = "dispatch", !.op = "start", !.task = t]
<1>1. Becomes(p, r) /\ tick' = tick /\ sess' = sess /\ p \in Proc
  BY DEF StartCreate, Begin, Lone, world, Proc
<1>2. /\ r.pc = "dispatch" /\ r.op = "start" /\ r.task = t
      /\ r.session = NoSession /\ r.target = "new"
  BY DEF Idle
<1> HIDE DEF r
<1>3. t \notin DOMAIN tasks
  BY DEF StartCreate, Exists
<1>4. t \in DOMAIN tasks' /\ tasks'[t] = FreshTask
  BY DEF StartCreate, Insert
<1>5. \A q \in Proc : ~Busy(proc[q], t)
  BY <1>3 DEF Busy, IInv, ProcOK, RecOK
<1>6. \A item \in tick.todo \cup tick.msgs : item.task # t
  BY <1>3 DEF IInv, TickOK, ItemOK
<1>7. proc'[p] = r /\ \A q \in Proc : q # p => proc'[q] = proc[q]
  BY <1>1 DEF IInv, ProcOK, Becomes
<1>8. RecsLone(t)'
  BY <1>2, <1>5, <1>7 DEF RecsLone, LoneRec
<1>9. OpenedOnce(t)'
  BY <1>5, <1>7 DEF OpenedOnce, Opens
<1>10. Unopened(t)' /\ ItemsLone(t)' /\ Pollable(t)'
  BY <1>1, <1>4, <1>6
     DEF Unopened, ItemsLone, Pollable, FreshTask, InPhase, Exists, SuccessPhases
<1> QED
  BY <1>8, <1>9, <1>10 DEF LoneInv

(* The task start of another task.                                         *)
LEMMA StartOtherLone ==
  ASSUME IInv, OwnInv, NEW t \in Task, LoneInv(t), NEW p \in Cli, NEW u \in Task, u # t,
         StartCreate(p, u)
  PROVE  LoneInv(t)'
<1>1. PICK pc \in {"dispatch", "deps"} : Begin(p, "start", pc, u)
  BY DEF StartCreate
<1> DEFINE r == [Idle EXCEPT !.pc = pc, !.op = "start", !.task = u]
<1>2. Becomes(p, r) /\ r.task = u /\ p \in Proc /\ tick' = tick
  BY <1>1 DEF Begin, Idle, Proc
<1>3. RowStays(t) /\ DirsStay(t) /\ ItemsStay(t)
  BY <1>2, DirsUntouched, ItemsUntouched DEF StartCreate, Insert, RowStays, world
<1> HIDE DEF r
<1> QED
  BY <1>2, <1>3, LoneElsewhere DEF Busy

LEMMA BeginsLone ==
  ASSUME NoRetries, IInv, OwnInv, NEW t \in Task, LoneInv(t), NEW p \in Cli, NEW u \in Task,
         WaitBegin(p, u) \/ RetryBegin(p, u) \/ AcceptBegin(p, u)
  PROVE  LoneInv(t)'
<1>1. PICK command \in {"wait", "accept"}, pc \in {"read", "approve"} : Begin(p, command, pc, u)
  BY DEF WaitBegin, RetryBegin, AcceptBegin, Begin, NoRetries
<1> DEFINE r == [Idle EXCEPT !.pc = pc, !.op = command, !.task = u]
<1>2. /\ Becomes(p, r) /\ p \in Proc /\ tick' = tick
      /\ r.session = NoSession /\ r.target = "new" /\ r.op = command /\ r.pc = pc
  BY <1>1 DEF Begin, Idle, Proc
<1>3. RowStays(t) /\ DirsStay(t) /\ ItemsStay(t)
  BY <1>2, RowUntouched, DirsUntouched, ItemsUntouched
     DEF WaitBegin, RetryBegin, AcceptBegin, store, world
<1> HIDE DEF r
<1> QED
  BY <1>2, <1>3, LonePassive

LEMMA AbandonBeginLone ==
  ASSUME IInv, OwnInv, NEW t \in Task, LoneInv(t), NEW p \in Cli, NEW u \in Task,
         AbandonBegin(p, u)
  PROVE  LoneInv(t)'
<1> DEFINE live == InPhase(u, {"acked"}) /\ SessionOf(u) # NoSession
           pc == IF live THEN "cancel" ELSE "check"
           s == IF live THEN SessionOf(u) ELSE NoSession
           r == [Idle EXCEPT !.pc = pc, !.op = "abandon", !.task = u, !.target = "abandoned",
                             !.session = s]
<1>1. Becomes(p, r) /\ p \in Proc /\ tick' = tick
  BY DEF AbandonBegin, Proc
<1>2. RowStays(t) /\ DirsStay(t) /\ ItemsStay(t)
  BY <1>1, RowUntouched, DirsUntouched, ItemsUntouched DEF AbandonBegin, store, world
<1>3. pc \in {"cancel", "check"} /\ (s # NoSession => InPhase(u, {"acked"}))
  OBVIOUS
<1>4. Opening(t) /\ u = t => s = NoSession
  BY <1>3 DEF LoneInv, Unopened, InPhase
<1> HIDE DEF pc, s
<1>5. r.op = "abandon" /\ r.target = "abandoned" /\ r.pc = pc /\ r.session = s /\ r.task = u
  BY DEF Idle
<1> HIDE DEF r
<1>6. LoneRec(sess', Ended(t), Opening(t), r, t) /\ ~Opens(r, t)
  BY <1>3, <1>4, <1>5 DEF LoneRec, Opens, Busy
<1> QED
  BY <1>1, <1>2, <1>6, LoneStep

LEMMA StartDepsLone ==
  ASSUME IInv, OwnInv, NEW t \in Task, LoneInv(t), NEW p \in Cli, StartDeps(p) PROVE LoneInv(t)'
<1>1. /\ ~At(p, "idle") /\ proc[p].pc = "deps" /\ p \in Proc
      /\ RowStays(t) /\ DirsStay(t)
  BY RowUntouched, DirsUntouched DEF StartDeps, At, Proc, store, world
<1>2. proc[p].task # t
  BY <1>1, LoneWorker DEF LoneRec
<1>3. Goto(p, "dispatch") \/ Finish(p)
  BY DEF StartDeps
<1> QED
  BY <1>1, <1>2, <1>3, GotoLone, FinishLone

LEMMA WaitReadLone ==
  ASSUME IInv, OwnInv, NEW t \in Task, LoneInv(t), NEW p \in Cli, WaitRead(p) PROVE LoneInv(t)'
<1> DEFINE u == proc[p].task
           n == tasks[u].attempt
           s == SessionOf(u)
           r == [proc[p] EXCEPT !.pc = "poll", !.attempt = n, !.session = s]
<1>1. /\ ~At(p, "idle") /\ proc[p].pc = "read" /\ p \in Proc
      /\ RowStays(t) /\ DirsStay(t) /\ ItemsStay(t)
      /\ Becomes(p, r) /\ InPhase(u, {"acked"})
  BY RowUntouched, DirsUntouched, ItemsUntouched DEF WaitRead, At, Proc, store, world
<1>2. proc[p] \in ProcState
  BY <1>1, BusyOK
<1> HIDE DEF n, s
<1>3. r.op = proc[p].op /\ r.target = proc[p].target /\ r.pc = "poll" /\ r.task = u
  BY <1>2 DEF ProcState
<1> HIDE DEF r
<1>4. LoneRec(sess', Ended(t), Opening(t), r, t) /\ ~Opens(r, t)
  <2>1. CASE u = t
    <3>1. LoneRec(sess, Ended(t), Opening(t), proc[p], t) /\ Busy(proc[p], t)
      BY <1>1, <2>1, LoneWorker
    <3>2. ~Opening(t)
      BY <1>1, <2>1 DEF LoneInv, Unopened, InPhase
    <3>3. proc[p].op \notin {"start", "retry"} /\ proc[p].target # "acked"
      BY <1>1, <3>1 DEF LoneRec
    <3> QED
      BY <1>3, <3>2, <3>3 DEF LoneRec, Opens
  <2>2. CASE u # t
    BY <1>3, <2>2 DEF LoneRec, Opens, Busy
  <2> QED
    BY <2>1, <2>2
<1> QED
  BY <1>1, <1>4, LoneStep

LEMMA WaitEndLone ==
  ASSUME IInv, OwnInv, NEW t \in Task, LoneInv(t), NEW p \in Cli, WaitTerminal(p) \/ WaitGiveUp(p)
  PROVE  LoneInv(t)'
<1>1. Becomes(p, Idle) /\ p \in Proc /\ RowStays(t) /\ DirsStay(t) /\ ItemsStay(t)
  BY RowUntouched, DirsUntouched, ItemsUntouched
     DEF WaitTerminal, WaitGiveUp, WaitEnd, Proc, world
<1> QED
  BY <1>1, IdleNotBusy, LoneElsewhere

LEMMA WaitPollLone ==
  ASSUME IInv, OwnInv, NEW t \in Task, LoneInv(t), NEW p \in Cli, WaitPoll(p) PROVE LoneInv(t)'
<1> DEFINE u == proc[p].task
           s == proc[p].session
           verdict == Verdict(s)
           r == [proc[p] EXCEPT !.pc = "check", !.target = verdict, !.from = s]
<1>1. /\ ~At(p, "idle") /\ proc[p].pc = "poll" /\ p \in Proc /\ s # NoSession
      /\ RowStays(t) /\ DirsStay(t)
  BY RowUntouched, DirsUntouched DEF WaitPoll, At, Proc, IInv, ProcOK, RecOK, store, world
<1>2. proc[p] \in ProcState /\ verdict \in {"running", "ready_for_review", "blocked"}
  BY <1>1, BusyOK, HeldSession, VerdictOK DEF IInv
<1>3. CASE Finish(p)
  BY <1>1, <1>3, FinishLone
<1>4. CASE verdict # "running" /\ Becomes(p, r) /\ tick' = tick
  <2> HIDE DEF verdict
  <2>1. /\ r.op = proc[p].op /\ r.target = verdict /\ r.pc = "check" /\ r.task = u
        /\ r.session = s
    BY <1>2 DEF ProcState
  <2> HIDE DEF r
  <2>2. LoneRec(sess', Ended(t), Opening(t), r, t) /\ ~Opens(r, t)
    <3>1. CASE u = t
      <4>1. LoneRec(sess, Ended(t), Opening(t), proc[p], t) /\ Busy(proc[p], t)
        BY <1>1, <3>1, LoneWorker
      <4>2. proc[p].op \notin {"start", "retry"} /\ ~Opening(t)
        BY <1>1, <4>1 DEF LoneRec
      <4> QED
        BY <1>2, <2>1, <4>2 DEF LoneRec, Opens
    <3>2. CASE u # t
      BY <2>1, <3>2 DEF LoneRec, Opens, Busy
    <3> QED
      BY <3>1, <3>2
  <2>3. ItemsStay(t)
    BY <1>4, ItemsUntouched
  <2> QED
    BY <1>1, <1>4, <2>2, <2>3, LoneStep
<1> QED
  BY <1>3, <1>4 DEF WaitPoll

(* No retry of the task is under way, so one that is, is another's.        *)
LEMMA RetryLone ==
  ASSUME IInv, OwnInv, NEW t \in Task, LoneInv(t), NEW p \in Cli, RetryRead(p) \/ RetryWrite(p)
  PROVE  LoneInv(t)'
<1> DEFINE u == proc[p].task
<1>1. ~At(p, "idle") /\ proc[p].pc \in {"bumpread", "bumpwrite"} /\ p \in Proc
  BY DEF RetryRead, RetryWrite, At, Proc
<1>2. u # t /\ proc[p] \in ProcState /\ u \in DOMAIN tasks
  BY <1>1, LoneWorker, BusyOK DEF LoneRec
<1>3. DirsStay(t)
  BY DirsUntouched DEF RetryRead, RetryWrite, world
<1>4. RowStays(t)
  BY <1>2 DEF RowStays, RetryRead, RetryWrite, store
<1>5. CASE RetryRead(p)
  <2> DEFINE n == tasks[u].attempt
             m == tasks[u].retries
             r == [proc[p] EXCEPT !.pc = "bumpwrite", !.chk = n, !.retries = m]
  <2>1. Becomes(p, r) /\ ItemsStay(t)
    BY <1>5, ItemsUntouched DEF RetryRead
  <2> HIDE DEF n, m
  <2>2. r.task = u
    BY <1>2 DEF ProcState
  <2> HIDE DEF r
  <2> QED
    BY <1>1, <1>2, <1>3, <1>4, <2>1, <2>2, LoneElsewhere DEF Busy
<1>6. CASE RetryWrite(p)
  <2>1. Finish(p) \/ Goto(p, "check")
    BY <1>6 DEF RetryWrite
  <2> QED
    BY <1>1, <1>2, <1>3, <1>4, <2>1, FinishLone, GotoLone
<1> QED
  BY <1>5, <1>6

LEMMA AcceptWriteLone ==
  ASSUME IInv, OwnInv, NEW t \in Task, LoneInv(t), NEW p \in Cli, AcceptWrite(p) PROVE LoneInv(t)'
<1> DEFINE u == proc[p].task
           row == [tasks[u] EXCEPT !.approved = TRUE]
<1>1. p \in Proc /\ u \in DOMAIN tasks /\ tasks[u] \in TaskRow
  BY BusyOK DEF AcceptWrite, At, Proc
<1>2. row.phase = tasks[u].phase /\ row.session = tasks[u].session
  BY <1>1 DEF TaskRow
<1>3. tasks' = [tasks EXCEPT ![u] = row] /\ Finish(p)
  BY DEF AcceptWrite
<1> HIDE DEF row
<1>4. RowStays(t)
  BY <1>1, <1>2, <1>3 DEF RowStays
<1>5. DirsStay(t)
  BY DirsUntouched DEF AcceptWrite, world
<1> QED
  BY <1>1, <1>3, <1>4, <1>5, FinishLone

LEMMA CommandStepLone ==
  ASSUME NoRetries, IInv, OwnInv, NEW t \in Task, Lone(t), LoneInv(t), NEW p \in Cli, CommandStep(p)
  PROVE  LoneInv(t)'
BY StartOwnLone, StartOtherLone, BeginsLone, AbandonBeginLone, StartDepsLone, WaitReadLone,
   WaitEndLone, WaitPollLone, RetryLone, AbandonCancelLone, AcceptWriteLone DEF CommandStep, Proc

-----------------------------------------------------------------------------
(* The daemon.                                                             *)

(* The daemon takes an item off its list and starts on it with memory r.   *)
LEMMA DaemonTurnLone ==
  ASSUME IInv, OwnInv, NEW t \in Task, LoneInv(t), UNCHANGED <<tasks, sess>>,
         NEW item \in tick.todo, Take(item), NEW r, Becomes(Daemon, r),
         r.task = item.task, r.op # "start",
         item.task = t => LoneRec(sess, Ended(t), Opening(t), r, t)
  PROVE  LoneInv(t)'
<1>1. RowStays(t) /\ DirsStay(t) /\ Daemon \in Proc
  BY RowUntouched, DirsUntouched DEF Proc
<1>2. /\ tick'.todo \subseteq tick.todo /\ tick'.msgs \subseteq tick.msgs
      /\ tick'.stage = tick.stage
  BY DEF Take, IInv, TickOK, TickState
<1>3. ItemsStay(t)
  BY <1>2, ItemsUntouched
<1>4. LoneRec(sess', Ended(t), Opening(t), r, t) /\ ~Opens(r, t)
  BY DEF LoneRec, Opens, Busy
<1> QED
  BY <1>1, <1>3, <1>4, LoneStep

LEMMA TakeLone ==
  ASSUME IInv, OwnInv, NEW t \in Task, LoneInv(t), UNCHANGED <<tasks, sess, proc>>,
         NEW item \in tick.todo, Take(item)
  PROVE  LoneInv(t)'
<1>1. /\ tick'.todo \subseteq tick.todo /\ tick'.msgs \subseteq tick.msgs
      /\ tick'.stage = tick.stage
  BY DEF Take, IInv, TickOK, TickState
<1>2. ItemsStay(t)
  BY <1>1, ItemsUntouched
<1> QED
  BY <1>2, RowUntouched, DirsUntouched, LoneOthers

(* An item of the task is there only once the task has been started.       *)
LEMMA ListedIsOpen ==
  ASSUME NEW t \in Task, LoneInv(t), NEW item \in tick.todo \cup tick.msgs, item.task = t
  PROVE  ~Opening(t)
BY DEF LoneInv, Unopened

LEMMA DaemonItemLone ==
  ASSUME IInv, OwnInv, NEW t \in Task, LoneInv(t), NEW item \in tick.todo,
         DaemonAdvance(item) \/ DaemonClose(item) \/ DaemonWatchdog(item) \/ DaemonTimeout(item)
           \/ DaemonSweep(item)
  PROVE  LoneInv(t)'
<1>1. Take(item) /\ UNCHANGED <<tasks, sess>>
  BY DEF DaemonAdvance, DaemonClose, DaemonWatchdog, DaemonTimeout, DaemonSweep, store, world
<1>2. item.task = t => ~Opening(t)
  BY ListedIsOpen
<1>3. CASE UNCHANGED proc
  BY <1>1, <1>3, TakeLone
<1>4. ASSUME NEW stage \in {"advance", "close", "budget", "stuck"}, NEW target, NEW evidence,
             target # "acked", Marks(stage, item, target, evidence)
      PROVE  LoneInv(t)'
  <2> DEFINE r == [Idle EXCEPT !.pc = "check", !.op = stage, !.task = item.task,
                               !.target = target, !.from = evidence,
                               !.session = item.session, !.retries = item.retries]
  <2>1. r.task = item.task /\ r.op = stage /\ r.pc = "check" /\ r.target = target
    BY DEF Idle
  <2>2. Becomes(Daemon, r)
    BY <1>4 DEF Marks
  <2> HIDE DEF r
  <2>3. item.task = t => LoneRec(sess, Ended(t), Opening(t), r, t)
    BY <1>2, <1>4, <2>1 DEF LoneRec
  <2> QED
    BY <1>1, <2>1, <2>2, <2>3, DaemonTurnLone
<1>5. ASSUME NEW stage \in {"advance", "watchdog", "sweep"}, NEW pc, Work(stage, pc, item),
             item.task = t => \/ stage = "watchdog" /\ pc = "recommend"
                              \/ pc = "cleanup" /\ item.session # NoSession /\ Ended(t)
      PROVE  LoneInv(t)'
  <2> DEFINE r == [Idle EXCEPT !.pc = pc, !.op = stage, !.task = item.task,
                               !.attempt = item.attempt, !.session = item.session,
                               !.retries = item.retries]
  <2>1. /\ r.task = item.task /\ r.op = stage /\ r.pc = pc /\ r.target = "new"
        /\ r.session = item.session
    BY DEF Idle
  <2>2. Becomes(Daemon, r)
    BY <1>5 DEF Work
  <2> HIDE DEF r
  <2>3. item.task = t => LoneRec(sess, Ended(t), Opening(t), r, t)
    BY <1>2, <1>5, <2>1 DEF LoneRec
  <2> QED
    BY <1>1, <1>5, <2>1, <2>2, <2>3, DaemonTurnLone
<1>6. CASE DaemonAdvance(item)
  <2>1. item.task # t
    BY <1>6 DEF DaemonAdvance, DaemonTakes, LoneInv, ItemsLone
  <2>2. \/ UNCHANGED proc \/ Work("advance", "dispatch", item)
        \/ Marks("advance", item, "blocked", 0)
    BY <1>6 DEF DaemonAdvance
  <2> QED
    BY <1>3, <1>4, <1>5, <2>1, <2>2
<1>7. CASE DaemonClose(item)
  <2>1. UNCHANGED proc \/ Marks("close", item, "ready_for_review", RepoEvidence)
    BY <1>7 DEF DaemonClose
  <2> QED
    BY <1>3, <1>4, <2>1
<1>8. CASE DaemonWatchdog(item)
  BY <1>5, <1>8 DEF DaemonWatchdog
<1>9. CASE DaemonTimeout(item)
  <2>1. tick.stage \in {"budget", "stuck"} /\ Marks(tick.stage, item, "stuck", 0)
    BY <1>9 DEF DaemonTimeout
  <2> QED
    BY <1>4, <2>1
<1>10. CASE DaemonSweep(item)
  <2>1. DaemonTakes("sweep", item) /\ Work("sweep", "cleanup", item)
    BY <1>10 DEF DaemonSweep
  <2>2. item.session # NoSession /\ tick.stage = "sweep"
    BY <2>1, TakesOK
  <2>3. item.task = t => Ended(t)
    BY <2>2 DEF LoneInv, ItemsLone
  <2> QED
    BY <1>5, <2>1, <2>2, <2>3
<1> QED
  BY <1>6, <1>7, <1>8, <1>9, <1>10

LEMMA DaemonReceiptLone ==
  ASSUME IInv, OwnInv, NEW t \in Task, LoneInv(t), NEW msg \in tick.todo, DaemonReceipt(msg)
  PROVE  LoneInv(t)'
<1> DEFINE u == msg.task
           n == tasks[u].attempt
           s == SessionOf(u)
           r == [Idle EXCEPT !.pc = "check", !.op = "ingest", !.task = u, !.attempt = n,
                             !.session = s, !.target = msg.target, !.from = msg.session]
<1>1. Take(msg) /\ (UNCHANGED proc \/ Becomes(Daemon, r)) /\ UNCHANGED <<tasks, sess>>
  BY DEF DaemonReceipt, world
<1>2. msg.target # "acked"
  BY TakesOK DEF DaemonReceipt, Item
<1> HIDE DEF n, s
<1>3. r.task = msg.task /\ r.op = "ingest" /\ r.pc = "check" /\ r.target = msg.target
  BY DEF Idle
<1> HIDE DEF r
<1>4. msg.task = t => LoneRec(sess, Ended(t), Opening(t), r, t)
  BY <1>2, <1>3, ListedIsOpen DEF LoneRec
<1> QED
  BY <1>1, <1>3, <1>4, TakeLone, DaemonTurnLone

LEMMA DaemonHeartbeatLone ==
  ASSUME IInv, OwnInv, NEW t \in Task, LoneInv(t), NEW msg \in tick.todo, DaemonHeartbeat(msg)
  PROVE  LoneInv(t)'
<1>1. /\ tick'.todo \subseteq tick.todo /\ tick'.msgs \subseteq tick.msgs
      /\ tick'.stage = tick.stage
  BY DEF DaemonHeartbeat, Take, IInv, TickOK, TickState
<1>2. ItemsStay(t)
  BY <1>1, ItemsUntouched
<1> QED
  BY <1>2, RowUntouched, DirsUntouched, LoneOthers DEF DaemonHeartbeat

(* The daemon's lists change, the rest of the state does not.              *)
LEMMA ListsLone ==
  ASSUME IInv, OwnInv, NEW t \in Task, LoneInv(t), UNCHANGED <<tasks, sess, proc>>,
         Opening(t) => \A item \in tick'.todo \cup tick'.msgs : item.task # t,
         \A item \in tick'.todo : item.task = t =>
           tick'.stage # "advance" /\ (tick'.stage = "sweep" => Ended(t))
  PROVE  LoneInv(t)'
<1>1. (Opening(t)' <=> Opening(t)) /\ (Ended(t)' <=> Ended(t))
  BY DEF Opening, Ended, InPhase, Exists
<1>2. RecsLone(t)' /\ OpenedOnce(t)'
  BY <1>1 DEF LoneInv, RecsLone, OpenedOnce, LoneRec
<1>3. Unopened(t)'
  BY <1>1 DEF LoneInv, Unopened, InPhase, Exists
<1>4. ItemsLone(t)' /\ Pollable(t)'
  BY <1>1 DEF LoneInv, ItemsLone, Pollable, InPhase, Exists
<1> QED
  BY <1>2, <1>3, <1>4 DEF LoneInv

LEMMA DaemonPollLone ==
  ASSUME IInv, OwnInv, NEW t \in Task, LoneInv(t), NEW item \in tick.todo, DaemonPoll(item)
  PROVE  LoneInv(t)'
<1> DEFINE verdict == Verdict(item.session)
           msg == [item EXCEPT !.target = verdict]
<1>1. item \in Item /\ tick \in TickState
  BY TakesOK DEF DaemonPoll
<1>2. tick' = [tick EXCEPT !.todo = tick.todo \ {item}, !.msgs = tick.msgs \cup {msg}]
  BY DEF DaemonPoll
<1> HIDE DEF verdict
<1>3. msg.task = item.task
  BY <1>1 DEF Item
<1> HIDE DEF msg
<1>4. /\ tick'.todo \subseteq tick.todo /\ tick'.msgs = tick.msgs \cup {msg}
      /\ tick'.stage = tick.stage
  BY <1>1, <1>2 DEF TickState
<1>5. Opening(t) => \A i \in tick'.todo \cup tick'.msgs : i.task # t
  BY <1>3, <1>4 DEF LoneInv, Unopened
<1>6. \A i \in tick'.todo : i.task = t =>
        tick'.stage # "advance" /\ (tick'.stage = "sweep" => Ended(t))
  BY <1>4 DEF LoneInv, ItemsLone
<1> QED
  BY <1>5, <1>6, ListsLone DEF DaemonPoll, store, world

(* What a stage lists of a task that depends on no other: acked ones, and  *)
(* the sweep those that have ended.                                        *)
LEMMA SelectionLone ==
  ASSUME IInv, NEW stage \in Stages, NEW S \in Selections(stage), NEW t \in S, Lone(t)
  PROVE  /\ stage # "advance"
         /\ stage = "sweep" => Ended(t) /\ tasks[t].session # NoSession
         /\ stage # "sweep" => InPhase(t, {"acked"})
<1> USE DEF Selections, InPhase, Exists
<1>1. CASE stage = "poll"
  BY <1>1
<1>2. CASE stage = "advance"
  BY <1>2 DEF Lone
<1>3. CASE stage = "close"
  BY <1>3
<1>4. CASE stage = "watchdog"
  BY <1>4
<1>5. CASE stage = "budget"
  BY <1>5
<1>6. CASE stage = "stuck"
  BY <1>6
<1>7. CASE stage = "sweep"
  BY <1>7 DEF Ended
<1>8. CASE stage \notin {"poll", "advance", "close", "watchdog", "budget", "stuck", "sweep"}
  BY <1>8
<1> QED
  BY <1>1, <1>2, <1>3, <1>4, <1>5, <1>6, <1>7, <1>8

LEMMA ListingLone ==
  ASSUME IInv, NEW t \in Task, Lone(t), LoneInv(t), NEW stage \in Stages,
         NEW S \in Selections(stage), NEW item \in {Listed(u) : u \in S}, item.task = t
  PROVE  ~Opening(t) /\ stage # "advance" /\ (stage = "sweep" => Ended(t))
<1>1. t \in S
  BY DEF Listed
<1>2. /\ stage # "advance" /\ (stage = "sweep" => Ended(t) /\ tasks[t].session # NoSession)
      /\ stage # "sweep" => InPhase(t, {"acked"})
  BY <1>1, SelectionLone
<1> QED
  BY <1>2 DEF LoneInv, Unopened, InPhase

LEMMA DaemonStageLone ==
  ASSUME IInv, OwnInv, NEW t \in Task, Lone(t), LoneInv(t), DaemonStage PROVE LoneInv(t)'
<1> DEFINE stage == NextStage(tick.stage)
<1>1. tick \in TickState /\ stage \in Stages
  BY DEF IInv, TickOK, TickState, DaemonStage, NextStage, Stages
<1>2. PICK S \in Selections(stage) :
        tick' = IF stage = "list"
                THEN NewTick(IF tick.count < TicksPerBucket THEN tick.count + 1 ELSE tick.count)
                ELSE [tick EXCEPT !.stage = stage,
                                  !.todo = IF stage = "ingest" THEN tick.msgs
                                           ELSE {Listed(u) : u \in S},
                                  !.msgs = {}]
  BY DEF DaemonStage
<1> HIDE DEF stage
<1> DEFINE L == {Listed(u) : u \in S}
<1>3. \/ tick'.todo = {} /\ tick'.msgs = {}
      \/ tick'.todo = tick.msgs /\ tick'.msgs = {} /\ tick'.stage = "ingest"
      \/ tick'.todo = L /\ tick'.msgs = {} /\ tick'.stage = stage
  <2>1. CASE stage = "list"
    BY <1>2, <2>1 DEF NewTick
  <2>2. CASE stage = "ingest"
    BY <1>1, <1>2, <2>2 DEF TickState
  <2>3. CASE stage \notin {"list", "ingest"}
    <3>1. tick' = [tick EXCEPT !.stage = stage, !.todo = L, !.msgs = {}]
      BY <1>2, <2>3
    <3> HIDE DEF L
    <3> QED
      BY <1>1, <3>1 DEF TickState
  <2> QED
    BY <2>1, <2>2, <2>3
<1>4. \A item \in L : item.task = t =>
        ~Opening(t) /\ stage # "advance" /\ (stage = "sweep" => Ended(t))
  BY <1>1, ListingLone
<1> HIDE DEF L
<1>5. Opening(t) => \A item \in tick'.todo \cup tick'.msgs : item.task # t
  BY <1>3, <1>4 DEF LoneInv, Unopened
<1>6. \A item \in tick'.todo : item.task = t =>
        tick'.stage # "advance" /\ (tick'.stage = "sweep" => Ended(t))
  BY <1>3, <1>4
<1> QED
  BY <1>5, <1>6, ListsLone DEF DaemonStage, store, world

LEMMA DaemonScanLone ==
  ASSUME IInv, OwnInv, NEW t \in Task, Lone(t), LoneInv(t), DaemonScan PROVE LoneInv(t)'
<1>1. PICK S \in Selections("advance") :
        tick' = [tick EXCEPT !.stage = "advance", !.todo = {Listed(u) : u \in S}]
  BY DEF DaemonScan
<1> DEFINE L == {Listed(u) : u \in S}
<1>2. \A item \in L : item.task # t
  BY ListingLone DEF Stages
<1>3. tick' = [tick EXCEPT !.stage = "advance", !.todo = L]
  BY <1>1
<1> HIDE DEF L
<1>4. tick'.todo = L /\ tick'.msgs = tick.msgs
  BY <1>3 DEF IInv, TickOK, TickState
<1>5. Opening(t) => \A item \in tick'.todo \cup tick'.msgs : item.task # t
  BY <1>2, <1>4 DEF LoneInv, Unopened
<1> QED
  BY <1>2, <1>4, <1>5, ListsLone DEF DaemonScan, store

LEMMA DaemonSkipLone ==
  ASSUME IInv, OwnInv, NEW t \in Task, LoneInv(t), DaemonSkip PROVE LoneInv(t)'
<1>1. Finish(Daemon) /\ Daemon \in Proc /\ RowStays(t) /\ DirsStay(t)
  BY RowUntouched, DirsUntouched DEF DaemonSkip, Proc, store, world
<1> QED
  BY <1>1, FinishLone

LEMMA DaemonStepLone ==
  ASSUME IInv, OwnInv, NEW t \in Task, Lone(t), LoneInv(t), DaemonStep PROVE LoneInv(t)'
<1>1. Daemon \in Proc
  BY DEF Proc
<1> QED
  BY <1>1, SharedStepLone, DaemonStageLone, DaemonScanLone, DaemonSkipLone, DaemonPollLone,
     DaemonHeartbeatLone, DaemonReceiptLone, DaemonItemLone DEF DaemonStep, DaemonOwnStep

LEMMA NextLone ==
  ASSUME NoRetries, IInv, OwnInv, NEW t \in Task, Lone(t), LoneInv(t), [Next]_vars
  PROVE  LoneInv(t)'
<1>1. CASE \E p \in Cli : CommandStep(p) \/ SharedStep(p)
  BY <1>1, CommandStepLone, SharedStepLone DEF Proc
<1>2. CASE DaemonStep
  BY <1>2, DaemonStepLone
<1>3. CASE \E p \in Proc : Crash(p)
  BY <1>3, CrashLone
<1>4. CASE SessionStep \/ TimeStep \/ DaemonRestart \/ UNCHANGED vars
  BY <1>4, TimeLone
<1> QED
  BY <1>1, <1>2, <1>3, <1>4 DEF Next

LEMMA InitLone == ASSUME Init, NEW t \in Task PROVE LoneInv(t)
<1>1. \A p \in Proc : proc[p] = Idle
  BY DEF Init
<1>2. RecsLone(t) /\ OpenedOnce(t) /\ ~Opening(t)
  BY <1>1, IdleNotBusy DEF RecsLone, OpenedOnce, Opening, Opens, LoneRec
<1>3. ItemsLone(t) /\ Pollable(t)
  BY DEF Init, NewTick, ItemsLone, Pollable, InPhase, Exists
<1> QED
  BY <1>2, <1>3 DEF LoneInv, Unopened

(* Without retries, a task that depends on no other is started by one      *)
(* command only, nobody else holds a session of it until then, and nothing *)
(* is cleaned up before it has ended.                                      *)
THEOREM StartsAreAlone ==
  ASSUME NoRetries, NEW t \in Task, Lone(t)
  PROVE  Spec => []LoneInv(t)
<1>1. Init => LoneInv(t)
  BY InitLone
<1>2. LoneInv(t) /\ IInv /\ OwnInv /\ [Next]_vars => LoneInv(t)'
  BY NextLone
<1> QED
  BY <1>1, <1>2, Invariance, SessionsAreOwned, PTL DEF Spec

(* Without retries and dependencies an acked task always has a session     *)
(* that can still be polled, whatever crashes, waits and abandons race.    *)
THEOREM AckedStaysPollable ==
  ASSUME NoRetries, \A t \in Task : Lone(t)
  PROVE  Spec => []AckedIsPollable
<1> DEFINE I == \A t \in Task : LoneInv(t)
<1>1. Init => I
  BY InitLone
<1>2. I /\ IInv /\ OwnInv /\ [Next]_vars => I'
  BY NextLone
<1>3. I => AckedIsPollable
  BY DEF LoneInv, Pollable, AckedIsPollable
<1> HIDE DEF I
<1> QED
  BY <1>1, <1>2, <1>3, Invariance, SessionsAreOwned, PTL DEF Spec

-----------------------------------------------------------------------------
(* Dependents run later.  Without retries, and when no dependency has      *)
(* dependencies itself, what lets a task be dispatched is never taken      *)
(* back: a commit that landed is forgotten only when the task is acked,    *)
(* which happens once, before anybody can find it, and a session that      *)
(* finished well stays so.  The decision to dispatch may be as old as it   *)
(* likes: the daemon's list and the memory of a task start only ever name  *)
(* tasks whose dependencies had their evidence when they were looked at.   *)

FlatDeps == \A t \in Task : \A i \in DOMAIN Deps[t] : Lone(Deps[t][i])

(* The task has shown a result: a commit or a session that finished well.  *)
Met(l, S, t) ==
  l[t] \/ \E s \in DOMAIN S : S[s].task = t /\ S[s].verdict = "ready_for_review"

(* The tasks whose result will stand.                                      *)
Done == {t \in Task : Lone(t) /\ Exists(t) /\ Met(landed, sess, t) /\ ~Opening(t)}

DepsIn(D, t) == \A i \in DOMAIN Deps[t] : Deps[t][i] \in D

(* A process that is about to dispatch a task, or to offer one for review. *)
DepRec(D, r) ==
  r.pc # "idle" =>
    /\ Lone(r.task) /\ r.target = "ready_for_review" => r.task \in D
    /\ r.pc = "dispatch" => DepsIn(D, r.task)

SuccessIsDone == \A t \in Task : Lone(t) /\ InPhase(t, SuccessPhases) => t \in Done
RecsDone == \A p \in Proc : DepRec(Done, proc[p])
SessionsDone == \A s \in DOMAIN sess : DepsIn(Done, sess[s].task)
DepInv == SuccessIsDone /\ RecsDone /\ SessionsDone

LonesInv == \A t \in Task : Lone(t) => LoneInv(t)
Known == IInv /\ OwnInv /\ LonesInv /\ DepInv

(* A step that takes no result back, moves no task to a success that has   *)
(* none, and starts no session before its dependencies.                    *)
DepFrame ==
  /\ VerdictsStand
  /\ DOMAIN tasks \subseteq DOMAIN tasks'
  /\ \A t \in Done : landed[t] => landed'[t]
  /\ \A t \in Task :
       Lone(t) /\ InPhase(t, SuccessPhases)' => InPhase(t, SuccessPhases) \/ t \in Done
  /\ \A s \in DOMAIN sess' : s \in DOMAIN sess \/ DepsIn(Done, sess'[s].task)

LEMMA FrameSame == ASSUME UNCHANGED <<tasks, sess, landed>> PROVE DepFrame
BY SameVerdicts DEF DepFrame, InPhase, Exists

(* One row is written.                                                     *)
LEMMA FrameRow ==
  ASSUME UNCHANGED <<sess, landed>>, NEW u \in Task, NEW row, u \in DOMAIN tasks,
         tasks' = [tasks EXCEPT ![u] = row],
         row.phase \in SuccessPhases => row.phase = tasks[u].phase \/ (Lone(u) => u \in Done)
  PROVE  DepFrame
<1>1. VerdictsStand
  BY SameVerdicts
<1>2. /\ DOMAIN tasks' = DOMAIN tasks
      /\ \A t \in DOMAIN tasks : tasks'[t] = IF t = u THEN row ELSE tasks[t]
  OBVIOUS
<1>3. \A t \in Task :
        Lone(t) /\ InPhase(t, SuccessPhases)' => InPhase(t, SuccessPhases) \/ t \in Done
  BY <1>2 DEF InPhase, Exists
<1> QED
  BY <1>1, <1>2, <1>3 DEF DepFrame

(* A process moves from one memory to the next.                            *)
LEMMA DepTurn ==
  ASSUME Known, DepFrame, NEW p \in Proc, NEW r, Becomes(p, r), DepRec(Done, r),
         \A t \in Done : ~Opens(r, t)
  PROVE  DepInv'
<1>1. proc'[p] = r /\ \A q \in Proc : q # p => proc'[q] = proc[q]
  BY DEF Known, IInv, ProcOK, Becomes
<1>2. ASSUME NEW t \in Done PROVE t \in Done'
  <2>1. t \in Task /\ Lone(t) /\ t \in DOMAIN tasks' /\ ~Opening(t)
    BY DEF Done, DepFrame, Exists
  <2>2. ~Opening(t)'
    BY <1>1, <1>2, <2>1 DEF Opening
  <2>3. Met(landed', sess', t)
    <3>1. Met(landed, sess, t)
      BY DEF Done
    <3>2. CASE landed[t]
      BY <1>2, <3>2 DEF DepFrame, Met
    <3>3. CASE \E s \in DOMAIN sess : sess[s].task = t /\ sess[s].verdict = "ready_for_review"
      BY <3>3 DEF DepFrame, VerdictsStand, Met
    <3> QED
      BY <3>1, <3>2, <3>3 DEF Met
  <2> QED
    BY <2>1, <2>2, <2>3 DEF Done, Exists
<1>3. \A t : DepsIn(Done, t) => DepsIn(Done', t)
  BY <1>2 DEF DepsIn
<1>4. \A m : DepRec(Done, m) => DepRec(Done', m)
  BY <1>2, <1>3 DEF DepRec
<1>5. RecsDone'
  <2> SUFFICES ASSUME NEW q \in Proc PROVE DepRec(Done', proc'[q])
    BY DEF RecsDone
  <2>1. DepRec(Done, proc'[q])
    BY <1>1 DEF Known, DepInv, RecsDone
  <2> QED
    BY <1>4, <2>1
<1>6. SuccessIsDone'
  BY <1>2 DEF DepFrame, Known, DepInv, SuccessIsDone
<1>7. SessionsDone'
  <2> SUFFICES ASSUME NEW s \in DOMAIN sess' PROVE DepsIn(Done', sess'[s].task)
    BY DEF SessionsDone
  <2>1. DepsIn(Done, sess'[s].task)
    BY DEF DepFrame, VerdictsStand, Known, DepInv, SessionsDone
  <2> QED
    BY <1>3, <2>1
<1> QED
  BY <1>5, <1>6, <1>7 DEF DepInv

(* A memory that is no start of a task with a result, asks for no dispatch *)
(* and for no review of a task without one.                                *)
LEMMA DepWork ==
  ASSUME Known, DepFrame, NEW p \in Proc, NEW r, Becomes(p, r), r.pc # "dispatch",
         r.op # "start" \/ r.task \notin Done,
         r.target # "ready_for_review" \/ (Lone(r.task) => r.task \in Done)
  PROVE  DepInv'
<1>1. DepRec(Done, r) /\ \A t \in Done : ~Opens(r, t)
  BY DEF DepRec, Opens, Busy
<1> QED
  BY <1>1, DepTurn

(* A worker of a task: it is no start of a task with a result.             *)
LEMMA WorkerDone ==
  ASSUME Known, NEW p \in Proc, ~At(p, "idle")
  PROVE  /\ proc[p].op # "start" \/ proc[p].task \notin Done
         /\ proc[p].target # "ready_for_review" \/ (Lone(proc[p].task) => proc[p].task \in Done)
         /\ proc[p] \in ProcState /\ proc[p].task \in Task /\ proc[p].task \in DOMAIN tasks
<1>1. DepRec(Done, proc[p])
  BY DEF Known, DepInv, RecsDone
<1> QED
  BY <1>1, BusyOK DEF Known, DepRec, At, Done, Opening, Opens, Busy

LEMMA StaysDone == ASSUME Known, DepFrame, UNCHANGED proc PROVE DepInv'
<1> DEFINE r == proc[Daemon]
<1>1. Daemon \in Proc /\ Becomes(Daemon, r)
  BY DEF Proc, Becomes, Known, IInv, ProcOK
<1>2. DepRec(Done, r)
  BY <1>1 DEF Known, DepInv, RecsDone
<1>3. \A t \in Done : ~Opens(r, t)
  BY <1>1 DEF Done, Opening
<1> HIDE DEF r
<1> QED
  BY <1>1, <1>2, <1>3, DepTurn

LEMMA IdleDone == ASSUME Known, DepFrame, NEW p \in Proc, Becomes(p, Idle) PROVE DepInv'
<1>1. Idle.pc = "idle" /\ Idle.op = "none" /\ Idle.target = "new"
  BY DEF Idle
<1> QED
  BY <1>1, DepWork

LEMMA FinishDone == ASSUME Known, DepFrame, NEW p \in Proc, Finish(p) PROVE DepInv'
<1> DEFINE r == [Idle EXCEPT !.pc = "read", !.op = "wait", !.task = proc[p].task]
<1>1. r.pc = "read" /\ r.op = "wait" /\ r.target = "new"
  BY DEF Idle
<1>2. Becomes(p, r) \/ Becomes(p, Idle)
  BY DEF Finish
<1> HIDE DEF r
<1> QED
  BY <1>1, <1>2, DepWork, IdleDone

LEMMA GotoDone ==
  ASSUME Known, DepFrame, NEW p \in Proc, ~At(p, "idle"), NEW pc, pc # "dispatch", Goto(p, pc)
  PROVE  DepInv'
<1> DEFINE r == [proc[p] EXCEPT !.pc = pc]
<1>1. /\ r.task = proc[p].task /\ r.op = proc[p].op
      /\ r.target = proc[p].target /\ r.pc = pc
  BY WorkerDone DEF ProcState
<1>2. Becomes(p, r)
  BY DEF Goto
<1> HIDE DEF r
<1>3. /\ r.op # "start" \/ r.task \notin Done
      /\ r.target # "ready_for_review" \/ (Lone(r.task) => r.task \in Done)
  BY <1>1, WorkerDone
<1> QED
  BY <1>1, <1>2, <1>3, DepWork

LEMMA RaiseDone == ASSUME Known, DepFrame, NEW p \in Proc, Raise(p) PROVE DepInv'
BY FinishDone, IdleDone DEF Raise

LEMMA TimeDone ==
  ASSUME Known, SessionStep \/ TimeStep \/ DaemonRestart \/ UNCHANGED vars PROVE DepInv'
<1>1. CASE \E s \in DOMAIN sess : SessionExit(s)
  <2>1. PICK s \in DOMAIN sess : SessionExit(s)
    BY <1>1
  <2>2. sess[s] \in SessRow /\ sess[s].verdict # "ready_for_review"
    BY <2>1, ElementOfSeq, LenProperties
       DEF Known, IInv, SessOK, OwnInv, TablesOwn, VerdictsLate, SessionExit
  <2>3. PICK verdict \in {"ready_for_review", "blocked"} :
          sess' = [sess EXCEPT ![s] = [@ EXCEPT !.state = "exited", !.verdict = verdict]]
    BY <2>1 DEF SessionExit
  <2> DEFINE row == [sess[s] EXCEPT !.state = "exited", !.verdict = verdict]
  <2>4. row.task = sess[s].task
    BY <2>2 DEF SessRow
  <2>5. sess' = [sess EXCEPT ![s] = row]
    BY <2>3
  <2> HIDE DEF row
  <2>6. VerdictsStand /\ DOMAIN sess' = DOMAIN sess
    BY <2>2, <2>4, <2>5 DEF VerdictsStand
  <2>7. DepFrame
    BY <2>1, <2>6 DEF DepFrame, SessionExit, store, InPhase, Exists
  <2> QED
    BY <2>1, <2>7, StaysDone DEF SessionExit
<1>2. CASE \E s \in DOMAIN sess : SessionCommit(s)
  <2>1. PICK s \in DOMAIN sess : SessionCommit(s)
    BY <1>2
  <2>2. \A t \in Task : landed[t] => landed'[t]
    BY <2>1 DEF SessionCommit, Known, IInv, EnvOK
  <2>3. UNCHANGED <<tasks, sess, proc>>
    BY <2>1 DEF SessionCommit, store
  <2>4. DepFrame
    BY <2>2, <2>3, SameVerdicts DEF DepFrame, Done, InPhase, Exists
  <2> QED
    BY <2>3, <2>4, StaysDone
<1>3. CASE TimeStep \/ DaemonRestart \/ UNCHANGED vars
  <2>1. UNCHANGED <<tasks, sess, landed, proc>>
    BY <1>3 DEF TimeStep, NextBucket, Elapse, SpendBudget, DaemonRestart, vars, store, world
  <2> QED
    BY <2>1, FrameSame, StaysDone
<1> QED
  BY <1>1, <1>2, <1>3 DEF SessionStep

LEMMA CrashDone == ASSUME Known, NEW p \in Proc, Crash(p) PROVE DepInv'
BY FrameSame, IdleDone DEF Crash, world

-----------------------------------------------------------------------------
(* Steps that commands and the daemon share.                               *)

LEMMA MarkCheckDone == ASSUME Known, NEW p \in Proc, MarkCheck(p) PROVE DepInv'
<1> DEFINE n == tasks[proc[p].task].attempt
           r == [proc[p] EXCEPT !.pc = "write", !.chk = n]
<1>1. DepFrame /\ ~At(p, "idle")
  BY FrameSame DEF MarkCheck, store, world, At
<1>2. Becomes(p, r) \/ Raise(p)
  BY DEF MarkCheck
<1> HIDE DEF n
<1>3. /\ r.task = proc[p].task /\ r.op = proc[p].op
      /\ r.target = proc[p].target /\ r.pc = "write"
  BY <1>1, WorkerDone DEF ProcState
<1> HIDE DEF r
<1>4. /\ r.op # "start" \/ r.task \notin Done
      /\ r.target # "ready_for_review" \/ (Lone(r.task) => r.task \in Done)
  BY <1>1, <1>3, WorkerDone
<1> QED
  BY <1>1, <1>2, <1>3, <1>4, DepWork, RaiseDone

(* Acking a task forgets its commit; it is then only being started.        *)
LEMMA WriteAckedDone == ASSUME Known, NEW p \in Proc, WriteAcked(p) PROVE DepInv'
<1> DEFINE u == proc[p].task
           row == SetAcked(tasks[u], proc[p].session)
           keeps == proc[p].chk + 1 \in DOMAIN attempts[u]
<1>1. ~At(p, "idle") /\ proc[p].target = "acked" /\ u \in Task /\ u \in DOMAIN tasks
  BY WorkerDone DEF WriteAcked, At
<1>2. row.phase = "acked"
  BY <1>1, BusyOK DEF SetAcked, TaskRow, Known
<1>3. /\ tasks' = [tasks EXCEPT ![u] = row] /\ sess' = sess /\ Finish(p)
      /\ landed' = [landed EXCEPT ![u] = @ /\ keeps]
  BY DEF WriteAcked
<1> HIDE DEF row, keeps
<1>4. u \notin Done
  <2>1. CASE Lone(u)
    <3>1. LoneInv(u)
      BY <1>1, <2>1 DEF Known, LonesInv
    <3>2. LoneRec(sess, Ended(u), Opening(u), proc[p], u) /\ Busy(proc[p], u)
      BY <1>1, <3>1, LoneWorker DEF Known
    <3>3. proc[p].op = "start"
      BY <1>1, <3>2 DEF LoneRec
    <3> QED
      BY <1>1, <3>3, WorkerDone
  <2>2. CASE ~Lone(u)
    BY <2>2 DEF Done
  <2> QED
    BY <2>1, <2>2
<1>5. \A t \in Task : t # u => landed'[t] = landed[t]
  BY <1>3 DEF Known, IInv, EnvOK
<1>6. \A t \in Done : landed[t] => landed'[t]
  BY <1>4, <1>5 DEF Done
<1>7. /\ DOMAIN tasks' = DOMAIN tasks
      /\ \A t \in DOMAIN tasks : tasks'[t] = IF t = u THEN row ELSE tasks[t]
  BY <1>3
<1>8. \A t \in Task : InPhase(t, SuccessPhases)' => InPhase(t, SuccessPhases)
  BY <1>2, <1>7 DEF InPhase, Exists, SuccessPhases
<1>9. DepFrame
  BY <1>3, <1>6, <1>7, <1>8, SameVerdicts DEF DepFrame
<1> QED
  BY <1>3, <1>9, FinishDone

LEMMA WriteEndDone == ASSUME Known, NEW p \in Proc, WriteEnd(p) PROVE DepInv'
<1> DEFINE u == proc[p].task
           row == SetPhase(tasks[u], proc[p].target, proc[p].session, proc[p].from)
<1>1. ~At(p, "idle") /\ proc[p].target \in Targets \ {"acked"}
  BY DEF WriteEnd, At, Known, IInv, ProcOK, RecOK
<1>2. u \in Task /\ u \in DOMAIN tasks /\ tasks[u] \in TaskRow
  BY <1>1, BusyOK DEF Known
<1>3. row.phase = proc[p].target
  BY <1>1, <1>2 DEF SetPhase, SetReadyForReview, SetBlocked, SetStuck, SetAbandoned, TaskRow, Targets
<1>4. /\ tasks' = [tasks EXCEPT ![u] = row] /\ UNCHANGED <<sess, landed>>
      /\ Finish(p) \/ Goto(p, "attempt")
  BY DEF WriteEnd, world
<1> HIDE DEF row
<1>5. row.phase \in SuccessPhases => (Lone(u) => u \in Done)
  BY <1>1, <1>3, WorkerDone DEF Targets, SuccessPhases
<1>6. DepFrame
  BY <1>2, <1>4, <1>5, FrameRow
<1> QED
  BY <1>1, <1>4, <1>6, FinishDone, GotoDone

LEMMA WriteAttemptDone == ASSUME Known, NEW p \in Proc, WriteAttempt(p) PROVE DepInv'
<1>1. DepFrame /\ ~At(p, "idle")
  BY FrameSame DEF WriteAttempt, world, At
<1>2. Goto(p, "recommend") \/ Goto(p, "cleanup") \/ Finish(p)
  BY DEF WriteAttempt
<1> QED
  BY <1>1, <1>2, GotoDone, FinishDone

(* Steps that write a row but not its phase.                               *)
LEMMA RowDone ==
  ASSUME Known, NEW p \in Proc,
         RecommendRetry(p) \/ ClearSession(p) \/ (p \in Cli /\ AcceptWrite(p))
  PROVE  DepInv'
<1> DEFINE u == proc[p].task
           a == SetRetryRecommended(tasks[u], proc[p].retries)
           b == [tasks[u] EXCEPT !.session = NoSession]
           c == [tasks[u] EXCEPT !.approved = TRUE]
<1>1. ~At(p, "idle") /\ UNCHANGED <<sess, landed>>
  BY DEF RecommendRetry, ClearSession, AcceptWrite, At, world
<1>2. u \in Task /\ u \in DOMAIN tasks /\ tasks[u] \in TaskRow
  BY <1>1, BusyOK DEF Known
<1>3. a.phase = tasks[u].phase /\ b.phase = tasks[u].phase /\ c.phase = tasks[u].phase
  BY <1>2 DEF SetRetryRecommended, TaskRow
<1>4. \/ tasks' = [tasks EXCEPT ![u] = a] \/ tasks' = [tasks EXCEPT ![u] = b]
      \/ tasks' = [tasks EXCEPT ![u] = c]
  BY DEF RecommendRetry, ClearSession, AcceptWrite
<1> HIDE DEF a, b, c
<1>5. DepFrame
  BY <1>1, <1>2, <1>3, <1>4, FrameRow
<1>6. Finish(p) \/ Goto(p, "cleanup")
  BY DEF RecommendRetry, ClearSession, AcceptWrite
<1> QED
  BY <1>1, <1>5, <1>6, FinishDone, GotoDone

(* Steps that kill or remove a session.                                    *)
LEMMA TouchDone ==
  ASSUME Known, NEW p \in Proc, CleanupSession(p) \/ (p \in Cli /\ AbandonCancel(p))
  PROVE  DepInv'
<1> DEFINE s == proc[p].session
<1>1. ~At(p, "idle") /\ s # NoSession /\ UNCHANGED <<tasks, attempts, landed>>
  BY DEF CleanupSession, AbandonCancel, At, Known, IInv, ProcOK, RecOK, store
<1>2. s \in DOMAIN sess /\ (Killed(s) \/ Cleaned(s))
  BY <1>1, BusyOK, HeldSession DEF CleanupSession, AbandonCancel, Known, IInv
<1>3. VerdictsStand
  BY <1>1, <1>2, SessionTouchedOwns DEF Known, OwnInv
<1>4. DOMAIN sess' = DOMAIN sess
  BY <1>2 DEF Killed, Cleaned
<1>5. DepFrame
  BY <1>1, <1>3, <1>4 DEF DepFrame, InPhase, Exists
<1>6. Finish(p) \/ Goto(p, "clear") \/ Goto(p, "check")
  BY DEF CleanupSession, AbandonCancel
<1> QED
  BY <1>1, <1>5, <1>6, FinishDone, GotoDone

LEMMA DispatchDone == ASSUME Known, NEW p \in Proc, Dispatch(p) PROVE DepInv'
<1> DEFINE u == proc[p].task
<1>1. /\ ~At(p, "idle") /\ proc[p].pc = "dispatch" /\ UNCHANGED <<tasks, landed>>
      /\ u \in Task /\ proc[p] \in ProcState
  BY WorkerDone DEF Dispatch, At, store
<1>2. DepsIn(Done, u)
  BY <1>1 DEF Known, DepInv, RecsDone, DepRec
<1>3. CASE /\ NewSession(u)
           /\ Becomes(p, [proc[p] EXCEPT
                !.pc = IF proc[p].op = "retry" THEN "bumpread" ELSE "check",
                !.session = Len(sess) + 1, !.target = "acked"])
  <2> DEFINE pc == IF proc[p].op = "retry" THEN "bumpread" ELSE "check"
             n == Len(sess) + 1
             r == [proc[p] EXCEPT !.pc = pc, !.session = n, !.target = "acked"]
             new == [task |-> u, state |-> "running", verdict |-> "blocked"]
  <2>1. /\ Len(sess) \in Nat /\ DOMAIN sess = 1 .. Len(sess) /\ DOMAIN sess' = 1 .. n
        /\ \A s \in DOMAIN sess : sess'[s] = sess[s]
        /\ sess'[n] = new
    BY <1>1, <1>3, AppendProperties, LenProperties DEF NewSession, Known, IInv, SessOK, SessRow
  <2>2. n \in DOMAIN sess' /\ DOMAIN sess' = DOMAIN sess \cup {n}
    BY <2>1
  <2>3. VerdictsStand
    BY <2>1, <2>2 DEF VerdictsStand
  <2>4. DepFrame
    BY <1>1, <1>2, <2>1, <2>2, <2>3 DEF DepFrame, InPhase, Exists
  <2>5. r.pc = pc /\ r.task = u /\ r.target = "acked" /\ r.op = proc[p].op
    BY <1>1 DEF ProcState
  <2>6. Becomes(p, r) /\ pc # "dispatch"
    BY <1>3
  <2> HIDE DEF r, pc
  <2>7. r.op # "start" \/ r.task \notin Done
    BY <1>1, <2>5, WorkerDone
  <2> QED
    BY <2>4, <2>5, <2>6, <2>7, DepWork
<1>4. CASE /\ UNCHANGED sess
           /\ Becomes(p, IF proc[p].op = "retry" THEN Idle
                         ELSE [proc[p] EXCEPT !.pc = "check", !.target = "blocked"])
  <2> DEFINE r == [proc[p] EXCEPT !.pc = "check", !.target = "blocked"]
  <2>1. DepFrame
    BY <1>1, <1>4, FrameSame
  <2>2. r.pc = "check" /\ r.task = u /\ r.target = "blocked" /\ r.op = proc[p].op
    BY <1>1 DEF ProcState
  <2>3. Becomes(p, r) \/ Becomes(p, Idle)
    BY <1>4
  <2> HIDE DEF r
  <2>4. r.op # "start" \/ r.task \notin Done
    BY <1>1, <2>2, WorkerDone
  <2> QED
    BY <2>1, <2>2, <2>3, <2>4, DepWork, IdleDone
<1> QED
  BY <1>3, <1>4 DEF Dispatch

LEMMA SharedStepDone == ASSUME Known, NEW p \in Proc, SharedStep(p) PROVE DepInv'
BY MarkCheckDone, WriteAckedDone, WriteEndDone, WriteAttemptDone, RowDone, TouchDone,
   DispatchDone DEF SharedStep

-----------------------------------------------------------------------------
(* Commands.                                                               *)

(* Dependencies that are all in a phase of success have shown a result.    *)
LEMMA SucceededDeps ==
  ASSUME FlatDeps, Known, NEW t \in Task, Deps[t] \in Seq(Task),
         \A i \in DOMAIN Deps[t] : InPhase(Deps[t][i], SuccessPhases)
  PROVE  DepsIn(Done, t)
<1>1. \A i \in DOMAIN Deps[t] : Deps[t][i] \in Task
  BY ElementOfSeq, LenProperties
<1> QED
  BY <1>1 DEF FlatDeps, DepsIn, Known, DepInv, SuccessIsDone

LEMMA StartCreateDone ==
  ASSUME Known, NEW p \in Cli, NEW t \in Task, StartCreate(p, t) PROVE DepInv'
<1> DEFINE pc == IF Deps[t] = << >> THEN "dispatch" ELSE "deps"
           r == [Idle EXCEPT !.pc = pc, !.op = "start", !.task = t]
<1>1. /\ p \in Proc /\ Becomes(p, r) /\ t \notin DOMAIN tasks /\ UNCHANGED <<sess, landed>>
      /\ tasks' = Insert(tasks, t, FreshTask)
  BY DEF StartCreate, Begin, Exists, world, Proc
<1>2. r.pc = pc /\ r.task = t /\ r.target = "new" /\ r.op = "start"
  BY DEF Idle
<1> HIDE DEF r
<1>3. pc = "dispatch" => DepsIn(Done, t)
  BY DEF DepsIn
<1>4. DepRec(Done, r)
  BY <1>2, <1>3 DEF DepRec
<1>5. \A u \in Done : ~Opens(r, u)
  BY <1>1, <1>2 DEF Done, Exists, Opens, Busy
<1>6. /\ DOMAIN tasks' = DOMAIN tasks \cup {t} /\ tasks'[t].phase = "new"
      /\ \A u \in DOMAIN tasks : tasks'[u] = tasks[u]
  BY <1>1 DEF Insert, FreshTask
<1>7. \A u \in Task : InPhase(u, SuccessPhases)' => InPhase(u, SuccessPhases)
  BY <1>6 DEF InPhase, Exists, SuccessPhases
<1>8. DepFrame
  BY <1>1, <1>6, <1>7, SameVerdicts DEF DepFrame
<1> QED
  BY <1>1, <1>4, <1>5, <1>8, DepTurn

LEMMA BeginsDone ==
  ASSUME NoRetries, Known, NEW p \in Cli, NEW t \in Task,
         WaitBegin(p, t) \/ RetryBegin(p, t) \/ AcceptBegin(p, t)
  PROVE  DepInv'
<1>1. PICK command \in {"wait", "accept"}, pc \in {"read", "approve"} : Begin(p, command, pc, t)
  BY DEF WaitBegin, RetryBegin, AcceptBegin, Begin, NoRetries
<1> DEFINE r == [Idle EXCEPT !.pc = pc, !.op = command, !.task = t]
<1>2. r.pc = pc /\ r.op = command /\ r.target = "new"
  BY DEF Idle
<1>3. Becomes(p, r) /\ p \in Proc
  BY <1>1 DEF Begin, Proc
<1> HIDE DEF r
<1>4. DepFrame
  BY FrameSame DEF WaitBegin, RetryBegin, AcceptBegin, store, world
<1> QED
  BY <1>2, <1>3, <1>4, DepWork

LEMMA AbandonBeginDone ==
  ASSUME Known, NEW p \in Cli, NEW t \in Task, AbandonBegin(p, t) PROVE DepInv'
<1> DEFINE live == InPhase(t, {"acked"}) /\ SessionOf(t) # NoSession
           pc == IF live THEN "cancel" ELSE "check"
           s == IF live THEN SessionOf(t) ELSE NoSession
           r == [Idle EXCEPT !.pc = pc, !.op = "abandon", !.task = t, !.target = "abandoned",
                             !.session = s]
<1>1. Becomes(p, r) /\ p \in Proc /\ DepFrame /\ pc # "dispatch"
  BY FrameSame DEF AbandonBegin, Proc, store, world
<1> HIDE DEF pc, s
<1>2. r.op = "abandon" /\ r.target = "abandoned" /\ r.pc = pc
  BY DEF Idle
<1> HIDE DEF r
<1> QED
  BY <1>1, <1>2, DepWork

LEMMA StartDepsDone ==
  ASSUME FlatDeps, Known, NEW p \in Cli, StartDeps(p) PROVE DepInv'
<1> DEFINE t == proc[p].task
           r == [proc[p] EXCEPT !.pc = "dispatch"]
<1>1. ~At(p, "idle") /\ proc[p].pc = "deps" /\ p \in Proc /\ DepFrame
  BY FrameSame DEF StartDeps, At, Proc, store, world
<1>2. CASE Finish(p)
  BY <1>1, <1>2, FinishDone
<1>3. CASE (\A i \in DOMAIN Deps[t] : InPhase(Deps[t][i], SuccessPhases)) /\ Goto(p, "dispatch")
  <2>1. t \in Task /\ Deps[t] \in Seq(Task)
    BY <1>1, WorkerDone, ConfigAssumption
  <2>2. DepsIn(Done, t)
    BY <1>3, <2>1, SucceededDeps
  <2>3. r.task = t /\ r.op = proc[p].op /\ r.target = proc[p].target /\ r.pc = "dispatch"
    BY <1>1, WorkerDone DEF ProcState
  <2>4. Becomes(p, r)
    BY <1>3 DEF Goto
  <2> HIDE DEF r
  <2>5. DepRec(Done, r) /\ \A u \in Done : ~Opens(r, u)
    BY <1>1, <2>2, <2>3, WorkerDone DEF DepRec, Opens, Busy
  <2> QED
    BY <1>1, <2>4, <2>5, DepTurn
<1> QED
  BY <1>2, <1>3 DEF StartDeps

LEMMA WaitReadDone == ASSUME Known, NEW p \in Cli, WaitRead(p) PROVE DepInv'
<1> DEFINE n == tasks[proc[p].task].attempt
           s == SessionOf(proc[p].task)
           r == [proc[p] EXCEPT !.pc = "poll", !.attempt = n, !.session = s]
<1>1. ~At(p, "idle") /\ p \in Proc /\ DepFrame /\ Becomes(p, r)
  BY FrameSame DEF WaitRead, At, Proc, store, world
<1> HIDE DEF n, s
<1>2. /\ r.task = proc[p].task /\ r.op = proc[p].op
      /\ r.target = proc[p].target /\ r.pc = "poll"
  BY <1>1, WorkerDone DEF ProcState
<1> HIDE DEF r
<1>3. /\ r.op # "start" \/ r.task \notin Done
      /\ r.target # "ready_for_review" \/ (Lone(r.task) => r.task \in Done)
  BY <1>1, <1>2, WorkerDone
<1> QED
  BY <1>1, <1>2, <1>3, DepWork

LEMMA WaitEndDone ==
  ASSUME Known, NEW p \in Cli, WaitTerminal(p) \/ WaitGiveUp(p) PROVE DepInv'
<1>1. Becomes(p, Idle) /\ p \in Proc /\ DepFrame
  BY FrameSame DEF WaitTerminal, WaitGiveUp, WaitEnd, Proc, world
<1> QED
  BY <1>1, IdleDone

(* A session that finished well is a result of the task it was started for.*)
LEMMA BackedDone ==
  ASSUME Known, NEW t \in Task, t \in DOMAIN tasks, NEW s \in DOMAIN sess,
         Backs(sess, s, t), Lone(t) => ~Opening(t)
  PROVE  Lone(t) => t \in Done
<1>1. s \in Nat
  BY LenProperties DEF Known, IInv, SessOK
<1>2. sess[s].task = t /\ sess[s].verdict = "ready_for_review"
  BY <1>1 DEF Backs, RepoEvidence
<1> QED
  BY <1>2 DEF Done, Exists, Met

LEMMA WaitPollDone == ASSUME Known, NEW p \in Cli, WaitPoll(p) PROVE DepInv'
<1> DEFINE u == proc[p].task
           s == proc[p].session
           verdict == Verdict(s)
           r == [proc[p] EXCEPT !.pc = "check", !.target = verdict, !.from = s]
<1>1. /\ ~At(p, "idle") /\ proc[p].pc = "poll" /\ p \in Proc /\ s # NoSession
      /\ DepFrame
  BY FrameSame DEF WaitPoll, At, Proc, Known, IInv, ProcOK, RecOK, store, world
<1>2. Finish(p) \/ Becomes(p, r)
  BY DEF WaitPoll
<1>3. s \in DOMAIN sess /\ Owns(sess, s, u) /\ u \in Task /\ u \in DOMAIN tasks
  BY <1>1, BusyOK, HeldSession DEF Known, IInv, OwnInv, ProcsOwn, RecOwns
<1>4. verdict = "ready_for_review" => Backs(sess, s, u)
  BY <1>1, <1>3, VerdictBacks DEF Known, IInv
<1>5. Lone(u) => proc[p].op # "start" /\ ~Opening(u)
  <2> SUFFICES ASSUME Lone(u) PROVE proc[p].op # "start" /\ ~Opening(u)
    OBVIOUS
  <2>1. LoneInv(u)
    BY <1>3 DEF Known, LonesInv
  <2>2. LoneRec(sess, Ended(u), Opening(u), proc[p], u) /\ Busy(proc[p], u)
    BY <1>1, <1>3, <2>1, LoneWorker DEF Known
  <2> QED
    BY <1>1, <2>2 DEF LoneRec
<1>6. verdict = "ready_for_review" => (Lone(u) => u \in Done)
  BY <1>3, <1>4, <1>5, BackedDone
<1> HIDE DEF verdict
<1>7. r.op = proc[p].op /\ r.target = verdict /\ r.pc = "check" /\ r.task = u
  BY <1>1, WorkerDone DEF ProcState
<1> HIDE DEF r
<1>8. /\ r.op # "start" \/ r.task \notin Done
      /\ r.target # "ready_for_review" \/ (Lone(r.task) => r.task \in Done)
  BY <1>1, <1>6, <1>7, WorkerDone
<1> QED
  BY <1>1, <1>2, <1>7, <1>8, FinishDone, DepWork

(* A retry that is under way is one of a task with dependencies.           *)
LEMMA RetryDone ==
  ASSUME Known, NEW p \in Cli, RetryRead(p) \/ RetryWrite(p) PROVE DepInv'
<1> DEFINE u == proc[p].task
<1>1. ~At(p, "idle") /\ proc[p].pc \in {"bumpread", "bumpwrite"} /\ p \in Proc /\ sess' = sess
  BY DEF RetryRead, RetryWrite, At, Proc, world
<1>2. u \in Task /\ u \in DOMAIN tasks
  BY <1>1, WorkerDone
<1>3. u \notin Done
  <2>1. CASE Lone(u)
    <3>1. LoneInv(u)
      BY <1>2, <2>1 DEF Known, LonesInv
    <3> QED
      BY <1>1, <1>2, <3>1, LoneWorker DEF Known, LoneRec
  <2>2. CASE ~Lone(u)
    BY <2>2 DEF Done
  <2> QED
    BY <2>1, <2>2
<1>4. CASE RetryRead(p)
  <2> DEFINE n == tasks[u].attempt
             m == tasks[u].retries
             r == [proc[p] EXCEPT !.pc = "bumpwrite", !.chk = n, !.retries = m]
  <2>1. Becomes(p, r) /\ DepFrame
    BY <1>4, FrameSame DEF RetryRead, store, world
  <2> HIDE DEF n, m
  <2>2. /\ r.task = u /\ r.op = proc[p].op
        /\ r.target = proc[p].target /\ r.pc = "bumpwrite"
    BY <1>1, WorkerDone DEF ProcState
  <2> HIDE DEF r
  <2>3. /\ r.op # "start" \/ r.task \notin Done
        /\ r.target # "ready_for_review" \/ (Lone(r.task) => r.task \in Done)
    BY <1>1, <2>2, WorkerDone
  <2> QED
    BY <1>1, <2>1, <2>2, <2>3, DepWork
<1>5. CASE RetryWrite(p) /\ Finish(p) /\ UNCHANGED <<tasks, landed>>
  BY <1>1, <1>5, FrameSame, FinishDone
<1>6. CASE /\ tasks' = [tasks EXCEPT ![u] = SetNextAttempt(proc[p].chk, proc[p].retries)]
           /\ landed' = [landed EXCEPT ![u] = FALSE] /\ Goto(p, "check")
  <2> DEFINE row == SetNextAttempt(proc[p].chk, proc[p].retries)
  <2>1. row.phase = "new"
    BY DEF SetNextAttempt
  <2> HIDE DEF row
  <2>2. /\ DOMAIN tasks' = DOMAIN tasks
        /\ \A t \in DOMAIN tasks : tasks'[t] = IF t = u THEN row ELSE tasks[t]
    BY <1>6 DEF row
  <2>3. \A t \in Task : InPhase(t, SuccessPhases)' => InPhase(t, SuccessPhases)
    BY <2>1, <2>2 DEF InPhase, Exists, SuccessPhases
  <2>4. \A t \in Done : landed[t] => landed'[t]
    BY <1>3, <1>6 DEF Done, Known, IInv, EnvOK
  <2>5. DepFrame
    BY <1>1, <2>2, <2>3, <2>4, SameVerdicts DEF DepFrame
  <2> QED
    BY <1>1, <1>6, <2>5, GotoDone
<1> QED
  BY <1>4, <1>5, <1>6 DEF RetryWrite

LEMMA CommandStepDone ==
  ASSUME NoRetries, FlatDeps, Known, NEW p \in Cli, CommandStep(p) PROVE DepInv'
<1>1. p \in Proc
  BY DEF Proc
<1> QED
  BY <1>1, StartCreateDone, BeginsDone, AbandonBeginDone, StartDepsDone, WaitReadDone,
     WaitEndDone, WaitPollDone, RetryDone, TouchDone, RowDone DEF CommandStep

-----------------------------------------------------------------------------
(* The daemon.                                                             *)

LEMMA DaemonItemDone ==
  ASSUME FlatDeps, Known, NEW item \in tick.todo,
         DaemonAdvance(item) \/ DaemonClose(item) \/ DaemonWatchdog(item) \/ DaemonTimeout(item)
           \/ DaemonSweep(item)
  PROVE  DepInv'
<1>1. DepFrame /\ Daemon \in Proc
  BY FrameSame
     DEF DaemonAdvance, DaemonClose, DaemonWatchdog, DaemonTimeout, DaemonSweep, store, world, Proc
<1>2. item.task \in Task /\ item.task \in DOMAIN tasks
  BY DEF Known, IInv, TickOK, ItemOK, TasksOK
<1>3. CASE UNCHANGED proc
  BY <1>1, <1>3, StaysDone
<1>4. ASSUME NEW stage \in {"advance", "close", "budget", "stuck"}, NEW target, NEW evidence,
             target # "ready_for_review" \/ (Lone(item.task) => item.task \in Done),
             Marks(stage, item, target, evidence)
      PROVE  DepInv'
  <2> DEFINE r == [Idle EXCEPT !.pc = "check", !.op = stage, !.task = item.task,
                               !.target = target, !.from = evidence,
                               !.session = item.session, !.retries = item.retries]
  <2>1. r.task = item.task /\ r.op = stage /\ r.pc = "check" /\ r.target = target
    BY DEF Idle
  <2>2. Becomes(Daemon, r)
    BY <1>4 DEF Marks
  <2> HIDE DEF r
  <2> QED
    BY <1>1, <1>4, <2>1, <2>2, DepWork
<1>5. ASSUME NEW stage \in {"advance", "watchdog", "sweep"}, NEW pc, Work(stage, pc, item),
             pc = "dispatch" => DepsIn(Done, item.task)
      PROVE  DepInv'
  <2> DEFINE r == [Idle EXCEPT !.pc = pc, !.op = stage, !.task = item.task,
                               !.attempt = item.attempt, !.session = item.session,
                               !.retries = item.retries]
  <2>1. r.task = item.task /\ r.op = stage /\ r.pc = pc /\ r.target = "new"
    BY DEF Idle
  <2>2. Becomes(Daemon, r)
    BY <1>5 DEF Work
  <2> HIDE DEF r
  <2>3. DepRec(Done, r) /\ \A t \in Done : ~Opens(r, t)
    BY <1>5, <2>1 DEF DepRec, Opens
  <2> QED
    BY <1>1, <2>2, <2>3, DepTurn
<1>6. CASE DaemonAdvance(item)
  <2>1. Deps[item.task] \in Seq(Task)
    BY <1>2, ConfigAssumption
  <2>2. Unmet(item.task) = {} => DepsIn(Done, item.task)
    BY <1>2, <2>1, SucceededDeps DEF Unmet
  <2>3. \/ UNCHANGED proc
        \/ Unmet(item.task) = {} /\ Work("advance", "dispatch", item)
        \/ Marks("advance", item, "blocked", 0)
    BY <1>6 DEF DaemonAdvance
  <2> QED
    BY <1>3, <1>4, <1>5, <2>2, <2>3
<1>7. CASE DaemonClose(item)
  <2>1. \/ UNCHANGED proc
        \/ landed[item.task] /\ Marks("close", item, "ready_for_review", RepoEvidence)
    BY <1>7 DEF DaemonClose
  <2>2. Lone(item.task) => ~Opening(item.task)
    BY <1>2, ListedIsOpen DEF Known, LonesInv
  <2>3. landed[item.task] => (Lone(item.task) => item.task \in Done)
    BY <1>2, <2>2 DEF Done, Exists, Met
  <2> QED
    BY <1>3, <1>4, <2>1, <2>3
<1>8. CASE DaemonWatchdog(item)
  BY <1>5, <1>8 DEF DaemonWatchdog
<1>9. CASE DaemonTimeout(item)
  <2>1. tick.stage \in {"budget", "stuck"} /\ Marks(tick.stage, item, "stuck", 0)
    BY <1>9 DEF DaemonTimeout
  <2> QED
    BY <1>4, <2>1
<1>10. CASE DaemonSweep(item)
  BY <1>5, <1>10 DEF DaemonSweep
<1> QED
  BY <1>6, <1>7, <1>8, <1>9, <1>10

LEMMA DaemonReceiptDone ==
  ASSUME Known, NEW msg \in tick.todo, DaemonReceipt(msg) PROVE DepInv'
<1> DEFINE u == msg.task
           n == tasks[u].attempt
           s == SessionOf(u)
           r == [Idle EXCEPT !.pc = "check", !.op = "ingest", !.task = u, !.attempt = n,
                             !.session = s, !.target = msg.target, !.from = msg.session]
<1>1. DepFrame /\ Daemon \in Proc /\ (UNCHANGED proc \/ Becomes(Daemon, r))
  BY FrameSame DEF DaemonReceipt, world, Proc
<1>2. /\ u \in Task /\ u \in DOMAIN tasks /\ msg.session \in DOMAIN sess
  BY TakesOK, HeldSession DEF DaemonReceipt, Known, IInv
<1>3. msg.target = "ready_for_review" => Backs(sess, msg.session, u)
  BY DEF Known, OwnInv, ItemsOwn, ItemOwns
<1>4. Lone(u) => ~Opening(u)
  BY <1>2, ListedIsOpen DEF Known, LonesInv
<1>5. msg.target = "ready_for_review" => (Lone(u) => u \in Done)
  BY <1>2, <1>3, <1>4, BackedDone
<1> HIDE DEF n, s
<1>6. r.task = u /\ r.op = "ingest" /\ r.pc = "check" /\ r.target = msg.target
  BY DEF Idle
<1> HIDE DEF r
<1> QED
  BY <1>1, <1>5, <1>6, StaysDone, DepWork

LEMMA DaemonStepDone == ASSUME FlatDeps, Known, DaemonStep PROVE DepInv'
<1>1. Daemon \in Proc
  BY DEF Proc
<1>2. CASE \/ DaemonStage \/ DaemonScan
           \/ \E item \in tick.todo : DaemonPoll(item) \/ DaemonHeartbeat(item)
  <2>1. UNCHANGED <<tasks, sess, landed, proc>>
    BY <1>2 DEF DaemonStage, DaemonScan, DaemonPoll, DaemonHeartbeat, store, world
  <2> QED
    BY <2>1, FrameSame, StaysDone
<1>3. CASE DaemonSkip
  BY <1>1, <1>3, FrameSame, FinishDone DEF DaemonSkip, store, world
<1>4. CASE \E item \in tick.todo :
             \/ DaemonReceipt(item) \/ DaemonAdvance(item) \/ DaemonClose(item)
             \/ DaemonWatchdog(item) \/ DaemonTimeout(item) \/ DaemonSweep(item)
  BY <1>4, DaemonReceiptDone, DaemonItemDone
<1> QED
  BY <1>1, <1>2, <1>3, <1>4, SharedStepDone DEF DaemonStep, DaemonOwnStep

LEMMA NextDone ==
  ASSUME NoRetries, FlatDeps, Known, [Next]_vars PROVE DepInv'
<1>1. CASE \E p \in Cli : CommandStep(p) \/ SharedStep(p)
  BY <1>1, CommandStepDone, SharedStepDone DEF Proc
<1>2. CASE DaemonStep
  BY <1>2, DaemonStepDone
<1>3. CASE \E p \in Proc : Crash(p)
  BY <1>3, CrashDone
<1>4. CASE SessionStep \/ TimeStep \/ DaemonRestart \/ UNCHANGED vars
  BY <1>4, TimeDone
<1> QED
  BY <1>1, <1>2, <1>3, <1>4 DEF Next

LEMMA InitDone == ASSUME Init PROVE DepInv
<1>1. RecsDone
  BY DEF Init, RecsDone, DepRec, Idle
<1>2. SuccessIsDone /\ SessionsDone
  BY DEF Init, SuccessIsDone, SessionsDone, InPhase, Exists
<1> QED
  BY <1>1, <1>2 DEF DepInv

(* Without retries, and when the tasks that others depend on depend on     *)
(* none, every session of a task was started after each of its             *)
(* dependencies had a session that finished well or a commit that landed,  *)
(* however old the decision to dispatch was when it was acted on.          *)
THEOREM DependentsComeLater ==
  ASSUME NoRetries, FlatDeps
  PROVE  Spec => []DependentsRunLater
<1> DEFINE I == LonesInv /\ DepInv
<1>1. Init => I
  BY InitLone, InitDone DEF LonesInv
<1>2. I /\ IInv /\ OwnInv /\ [Next]_vars => I'
  <2> SUFFICES ASSUME LonesInv, DepInv, IInv, OwnInv, [Next]_vars PROVE I'
    OBVIOUS
  <2>1. LonesInv'
    BY NextLone DEF LonesInv
  <2>2. DepInv'
    BY NextDone DEF Known
  <2> QED
    BY <2>1, <2>2
<1>3. I => DependentsRunLater
  BY DEF DepInv, SessionsDone, DepsIn, Done, Met, DependentsRunLater
<1> HIDE DEF I
<1> QED
  BY <1>1, <1>2, <1>3, Invariance, SessionsAreOwned, PTL DEF Spec
=============================================================================
