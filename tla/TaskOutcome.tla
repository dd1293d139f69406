---------------------------- MODULE TaskOutcome ----------------------------
(***************************************************************************)
(* One agpair task from its dispatch to a local CLI executor until its     *)
(* result is in the repository of the controller: the worktree and the     *)
(* session made at dispatch (executors/local_cli.py), what the executor    *)
(* and the user do to the files, the daemon's poll, verdict and cleanup    *)
(* (task_terminal.py), and the commands retry, adopt and apply (cli/       *)
(* task.py, worktree_adoption.py).  OutcomeRules has the rules of the      *)
(* verdict.                                                                *)
(*                                                                         *)
(* The content of a file is the set of the edits in it: UserEdit, and n    *)
(* for the edit of attempt n.  A patch replaces the content that a file    *)
(* had at its base, and conflicts when the file has another one (a file is *)
(* one hunk).  HEAD of the controller moves only when an executor that has *)
(* no worktree commits.  The worktree has an index, because a patch that   *)
(* conflicts stays in it; of the index of the controller's repository it   *)
(* is left open which edits are in it.                                     *)
(*                                                                         *)
(* Which process takes a task and what it may overwrite is the subject of  *)
(* TaskLifecycle: here poll and verdict are one action, and a task is      *)
(* retried only when its attempt is over.                                  *)
(***************************************************************************)
EXTENDS OutcomeRules

CONSTANTS
  Configs,      \* SUBSET Config: the tasks looked at
  Runs,         \* [1 .. MaxAttempts -> SUBSET Run]: what the executors may leave
  UserFiles,    \* bound: the files the user edits meanwhile
  MaxAttempts   \* bound on retries

ASSUME ConstantsAssumption ==
  /\ Configs \subseteq {c \in Config : c.snapshot = "tracked" => c.isolated}
  /\ Runs \in [1 .. MaxAttempts -> SUBSET Run]
  /\ \A n \in 1 .. MaxAttempts : \A r \in Runs[n] :
       r.claim.patch = NoPatch /\ (~r.claim.says => r.claim.changed = {})
  /\ UserFiles \subseteq File
  /\ MaxAttempts \in Nat \ {0}

VARIABLES
  config,   \* what the task asks for
  task,     \* its row and the row of its current attempt
  session,  \* the executor session of the current attempt
  worker,   \* none, running or ended
  run,      \* what the executor left
  repo,     \* the repository of the controller
  tree      \* the isolated worktree
vars == <<config, task, session, worker, run, repo, tree>>
files == <<repo, tree>>

UserEdit == 0
Content == SUBSET (0 .. MaxAttempts)
Checkout == [head : [File -> Content], work : [File -> Content]]
Original == [f \in File |-> {}]

Undecided == [result |-> "unknown", state |-> "none", action |-> "none", hard |-> {}]
FreshAttempt == [phase |-> "new", attempt |-> 1, approved |-> FALSE, receipt |-> NoReceipt,
                 reportFile |-> FALSE, adoptable |-> "unknown", decision |-> Undecided]
NoSession == [live |-> FALSE, base |-> Original, dirty |-> {}, owned |-> FALSE]
NewTree(head) == [exists |-> TRUE, head |-> head, work |-> head, index |-> head,
                  unmerged |-> {}, spilled |-> {}]
NoTree == [NewTree(Original) EXCEPT !.exists = FALSE]

(* The run of an executor of which nothing is known yet.                   *)
NoRun == [end |-> "died", log |-> "none", claim |-> NoReceipt, report |-> FALSE,
          error |-> "execution_error"]

Init ==
  /\ config \in Configs
  /\ task = FreshAttempt /\ session = NoSession /\ worker = "none" /\ run = NoRun
  /\ repo = [head |-> Original, work |-> Original] /\ tree = NoTree

Changed(from, to) == {f \in File : from[f] # to[f]}
Dirty(checkout) == Changed(checkout.head, checkout.work)

(* execution_repo_path: where the executor works.                          *)
Execution == IF config.isolated THEN [head |-> tree.head, work |-> tree.work] ELSE repo

HasCommitted == session.owned /\ Changed(session.base, Execution.head) # {}
-----------------------------------------------------------------------------
(* dispatch.                                                               *)

(* ensure_worktree_exists: the worktree of an earlier attempt is reused.   *)
Worktree == IF tree.exists THEN tree ELSE NewTree(repo.head)

(* _capture_dirty_snapshot: what the user has not committed.               *)
Snapshot == IF config.snapshot = "tracked" THEN Dirty(repo) ELSE {}

(* git apply --3way of the patch of the files F: it does nothing unless    *)
(* each of them is as in the index, and then takes what fits or is in      *)
(* already, and leaves both sides in a file that conflicts.                *)
PatchStarts(wt, F) == \A f \in F : f \notin wt.unmerged /\ wt.work[f] = wt.index[f]

Conflicting(wt, F) == {f \in F : wt.work[f] \notin {repo.head[f], repo.work[f]}}

PatchFits(wt, F) == PatchStarts(wt, F) /\ Conflicting(wt, F) = {}

Patched(wt, F) ==
  IF ~PatchStarts(wt, F) THEN wt
  ELSE [wt EXCEPT
          !.work = [f \in File |-> IF f \in Conflicting(wt, F) THEN @[f] \cup repo.work[f]
                                   ELSE IF f \in F THEN repo.work[f] ELSE @[f]],
          !.index = [f \in File |-> IF f \in F \ Conflicting(wt, F) THEN repo.work[f] ELSE @[f]],
          !.unmerged = @ \cup Conflicting(wt, F)]

(* _apply_dirty_snapshot: two patches, what the user has staged first.     *)
SnapshotApplies == PatchFits(Worktree, Snapshot)
SnapshotApplied == Patched(Worktree, Snapshot)

PartlyApplied(staged) ==
  LET first == Patched(Worktree, staged)
  IN IF PatchFits(Worktree, staged) THEN Patched(first, Snapshot \ staged) ELSE first

(* Mutant: the snapshot stays uncommitted.                                 *)
BaselineIsHead(wt) == wt

(* _prepare_worker_diff_baseline: with a snapshot, everything that is in   *)
(* the worktree becomes the base of the executor's diff, what an earlier   *)
(* attempt left uncommitted included.                                      *)
Added(wt) ==
  IF Snapshot # {} THEN [wt EXCEPT !.index = wt.work, !.unmerged = {}] ELSE wt
BaselineCommit(wt) ==
  IF Snapshot # {} THEN [Added(wt) EXCEPT !.head = wt.work] ELSE wt

(* History: what earlier dispatches spilled matters no more once it is in  *)
(* the base of the diff.                                                   *)
Rebased(wt) == [wt EXCEPT !.spilled = {f \in @ : wt.head[f] # wt.work[f]}]

NewSession(checkout, dirty) ==
  [live |-> TRUE, base |-> checkout.head, dirty |-> dirty, owned |-> FALSE]

(* LocalCLIExecutor.dispatch.  The dirty files of the start are listed     *)
(* before the baseline commit, the files of the snapshot are among them.   *)
DispatchSucceeds ==
  /\ worker' = "running" /\ run' = NoRun
  /\ IF config.isolated
     THEN /\ SnapshotApplies
          /\ tree' = Rebased(BaselineCommit(SnapshotApplied))
          /\ session' = NewSession(tree', Dirty(SnapshotApplied))
     ELSE /\ session' = NewSession(repo, Dirty(repo))
          /\ UNCHANGED tree
  /\ UNCHANGED <<config, repo>>

(* Where a dispatch that raises has left the worktree, be it that git      *)
(* fails, that the snapshot conflicts, or that the executor cannot be      *)
(* launched: nothing is rolled back.                                       *)
LeftByFailure ==
  {tree, Worktree} \cup
  IF SnapshotApplies
  THEN {SnapshotApplied, Added(SnapshotApplied), BaselineCommit(SnapshotApplied)}
  ELSE {PartlyApplied(staged) : staged \in SUBSET Snapshot}

(* The files into which it put something are spilled (history).            *)
DispatchFails ==
  /\ IF config.isolated
     THEN \E left \in LeftByFailure :
            tree' = [left EXCEPT !.spilled = @ \cup Changed(Worktree.work, left.work)]
     ELSE UNCHANGED tree
  /\ UNCHANGED <<config, session, worker, run, repo>>

(* start_task                                                              *)
Start ==
  /\ task.phase = "new"
  /\ \/ DispatchSucceeds /\ task' = [task EXCEPT !.phase = "acked"]
     \/ DispatchFails /\ task' = [task EXCEPT !.phase = "blocked"]

(* retry_task with the same settings: when the dispatch fails the task is  *)
(* left as it was, with its old attempt over the worktree as it is now.    *)
Retry ==
  /\ task.phase \in {"ready_for_review", "blocked"} /\ task.attempt < MaxAttempts
  /\ \/ DispatchSucceeds
          /\ task' = [FreshAttempt EXCEPT !.phase = "acked", !.attempt = task.attempt + 1]
     \/ DispatchFails /\ UNCHANGED task
-----------------------------------------------------------------------------
(* The executor and the user.                                              *)

WorkerEdits(f) ==
  /\ worker = "running" /\ task.attempt \notin Execution.work[f]
  /\ IF config.isolated
     THEN tree' = [tree EXCEPT !.work[f] = @ \cup {task.attempt}] /\ UNCHANGED repo
     ELSE repo' = [repo EXCEPT !.work[f] = @ \cup {task.attempt}] /\ UNCHANGED tree
  /\ UNCHANGED <<config, task, session, worker, run>>

(* With git commit -a, what the user has in a shared checkout included.    *)
(* Only a commit whose message names the task counts as the task's own     *)
(* (_git_log_grep_task_id).                                                *)
WorkerCommits ==
  /\ worker = "running" /\ Dirty(Execution) # {}
  /\ IF config.isolated
     THEN /\ tree' = [tree EXCEPT !.head = tree.work, !.index = tree.work, !.unmerged = {}]
          /\ UNCHANGED repo
     ELSE repo' = [repo EXCEPT !.head = repo.work] /\ UNCHANGED tree
  /\ \E named \in BOOLEAN : session' = [session EXCEPT !.owned = @ \/ named]
  /\ UNCHANGED <<config, task, worker, run>>

(* It exits, dies, or agpair finds it waiting for input or hanging after   *)
(* its commit.                                                             *)
WorkerEnds ==
  /\ worker = "running" /\ worker' = "ended"
  /\ run' \in {r \in Runs[task.attempt] : r.end = "hung" => HasCommitted}
  /\ UNCHANGED <<config, task, session, files>>

UserEdits(f) ==
  /\ f \in UserFiles /\ UserEdit \notin repo.work[f]
  /\ repo' = [repo EXCEPT !.work[f] = @ \cup {UserEdit}]
  /\ UNCHANGED <<config, task, session, worker, run, tree>>
-----------------------------------------------------------------------------
(* worktree_adoption.py                                                    *)

(* _session_state_for_task: without the session, the base of the diff is   *)
(* the HEAD the worktree has now.                                          *)
DiffBase == IF session.live THEN session.base ELSE tree.head

(* build_worktree_diff: conflict markers are a change of their own.        *)
Diff == Changed(DiffBase, tree.work) \cup tree.unmerged

(* Mutant: a patch is put in whatever the files look like.                 *)
AppliesAnyhow == TRUE

(* check_apply_to_controller_repo                                          *)
PatchApplies == \A f \in Diff : repo.work[f] = DiffBase[f]
-----------------------------------------------------------------------------
(* The daemon.                                                             *)

(* The files of the task's own or the claimed commit, and what git status  *)
(* shows (_scope_validation_payload).                                      *)
ActualChanges(r) ==
  (IF r.commit = "unknown" THEN {} ELSE Changed(session.base, Execution.head))
    \cup Dirty(Execution)

Stored(r, reason) ==
  IF reason = "none" THEN r
  ELSE [r EXCEPT !.status = "BLOCKED", !.blocker = IF @ = "none" THEN reason ELSE @]

(* poll and finalize_executor_receipt.  The adoption is derived from the   *)
(* receipt before the verdict is written into it.                          *)
Finalize ==
  LET claimed == Arbitrate(config, run, HasCommitted)
      merged == MergeWorktreeEvidence(config, claimed, Diff, PatchApplies)
      scope == ValidateChangedFiles(merged.changed, ActualChanges(merged), session.dirty)
      r == Checked(config, merged)
      reportFile == r.report \/ run.report
      reason == EvaluateCompletion(config, r, reportFile)
      adoption == Adoption(config, r, reportFile, run.report, scope, "minor")
  IN /\ worker = "ended" /\ task.phase = "acked" /\ session.live
     /\ task' = [task EXCEPT
                   !.phase = IF reason = "none" THEN "ready_for_review" ELSE "blocked",
                   !.receipt = Stored(r, reason),
                   !.reportFile = reportFile,
                   !.adoptable = adoption.result,
                   !.decision = adoption]
     /\ UNCHANGED <<config, session, worker, run, files>>

(* Mutant: the session is removed while its executor works.                *)
CleanupAnytime ==
  /\ session.live /\ session' = [session EXCEPT !.live = FALSE]
  /\ UNCHANGED <<config, task, worker, run, files>>

(* cleanup: the session directory is removed, the worktree stays.          *)
Cleanup ==
  /\ session.live /\ task.phase \in {"ready_for_review", "blocked"}
  /\ session' = [session EXCEPT !.live = FALSE]
  /\ UNCHANGED <<config, task, worker, run, files>>
-----------------------------------------------------------------------------
(* The controller.                                                         *)

(* adopt_task --from-report: a second look, without scope validation, and  *)
(* the result the controller says (unknown counts like partial).  Before   *)
(* the verdict it judges the output so far.                                *)
Adopt ==
  LET over == task.phase \in {"ready_for_review", "blocked"}
      finalized == task.receipt.status # "none"
  IN /\ finalized \/ session.live
     /\ \E result \in {"yes", "partial", "no"}, rework \in Rework :
          task' = [task EXCEPT
                     !.approved = TRUE, !.adoptable = result,
                     !.decision = Adoption(config, IF over THEN task.receipt ELSE NoReceipt,
                                           task.reportFile, run.report, NoScope, rework)]
     /\ UNCHANGED <<config, session, worker, run, files>>

MayApply(force) == force \/ (task.phase = "ready_for_review" /\ task.adoptable # "no")

(* apply_task: the patch goes into the working tree only.                  *)
Apply(force) ==
  /\ config.isolated /\ tree.exists
  /\ MayApply(force) /\ Diff # {} /\ PatchApplies
  /\ repo' = [repo EXCEPT !.work = [f \in File |-> IF f \in Diff THEN tree.work[f] ELSE @[f]]]
  /\ UNCHANGED <<config, task, session, worker, run, tree>>

(* What a status or a wait shows of the attempt                            *)
(* (_attempt_protocol_adoption_payload, _adoption_result_for_signal): the  *)
(* stored decision, one made up when there is none, and, for a running     *)
(* task whose budget is used up, the judgement of its output.              *)
OutputSoFar == Adoption(config, NoReceipt, FALSE, run.report, NoScope, "minor")

Seen(budget) ==
  IF task.phase = "acked" /\ ~(task.approved /\ task.decision # Undecided) /\ budget
    THEN IF OutputSoFar.result # "no" THEN OutputSoFar
         ELSE [OutputSoFar EXCEPT
                 !.hard = @ \cup {"execution_budget_exhausted", "terminal_receipt_missing",
                                   "report_missing"}]
  ELSE IF task.decision # Undecided THEN task.decision
  ELSE IF task.phase = "blocked"
    THEN [result |-> "no", state |-> "blocked", action |-> "retry_or_switch_executor",
          hard |-> {"task_phase_blocked"}]
  ELSE [result |-> "unknown", state |-> "needs_review", action |-> "inspect_evidence",
        hard |-> {}]

(* _recovery_decision_for_task                                             *)
Recommendation(at) == ChooseRecovery(Seen(at.budget), at)

Next ==
  \/ Start \/ Retry
  \/ \E f \in File : WorkerEdits(f) \/ UserEdits(f)
  \/ WorkerCommits \/ WorkerEnds
  \/ Finalize \/ Cleanup
  \/ Adopt \/ \E force \in BOOLEAN : Apply(force)

Spec == Init /\ [][Next]_vars
-----------------------------------------------------------------------------
(* Properties.                                                             *)

(* Every variable has its type, a session that is open belongs to a        *)
(* dispatched attempt, and an executor that works has one to report to.    *)
TypeOK ==
  /\ config \in Configs
  /\ task.phase \in {"new", "acked", "ready_for_review", "blocked"}
  /\ task.attempt \in 1 .. MaxAttempts /\ task.approved \in BOOLEAN
  /\ task.receipt \in Receipt /\ task.reportFile \in BOOLEAN
  /\ task.adoptable \in {"yes", "partial", "no", "unknown"}
  /\ session.live \in BOOLEAN /\ session.owned \in BOOLEAN
  /\ session.base \in [File -> Content] /\ session.dirty \subseteq File
  /\ worker \in {"none", "running", "ended"}
  /\ repo \in Checkout
  /\ tree.exists \in BOOLEAN /\ [head |-> tree.head, work |-> tree.work] \in Checkout
  /\ tree.index \in [File -> Content] /\ tree.unmerged \cup tree.spilled \subseteq File
  /\ worker = "running" => task.phase = "acked" /\ session.live

(* A task waits for review only when there is something to review: its     *)
(* executor returned with zero, claimed success, wrote a report, or made a *)
(* commit of its own.                                                      *)
ReviewHasOutput ==
  task.phase = "ready_for_review" =>
    \/ run.end = "zero" /\ run.log # "malformed"
    \/ run.log = "receipt" /\ run.claim.status # "BLOCKED"
    \/ run.report
    \/ run.end \in {"died", "hung"} /\ HasCommitted

(* Poll asks less of a receipt than the verdict does when the executor is  *)
(* read-only, and when the claim has a report and no changed files, before *)
(* those of the worktree are put into it.                                  *)
PollAsksLess == ReadOnly(config) \/ (run.claim.report /\ ~run.claim.says)

(* What the daemon calls adoptable without reservation is what the task    *)
(* declared: at that moment the patch applies to the repository of the     *)
(* controller, every file in it was declared unless it was dirty at the    *)
(* start, and the executor reported success and its validation.            *)
YesIsEarned ==
  [][(Finalize /\ task'.adoptable = "yes" /\ EffectivePolicy(config) = "evidence") =>
       /\ task'.receipt.status # "BLOCKED" \/ PollAsksLess
       /\ config.isolated => PatchApplies
       /\ Changed(session.base, Execution.work) \subseteq session.dirty \cup task'.receipt.changed
       /\ task'.receipt.validation = "ran" \/ task'.reportFile]_vars

(* The daemon does not call the result of a blocked task adoptable, though *)
(* it derives both separately and the verdict from more than the receipt:  *)
(* it does so only where poll asks less than the verdict.                  *)
BlockedIsNotYes ==
  task.phase = "blocked" /\ task.adoptable = "yes" => task.approved \/ PollAsksLess

(* A receipt with a blocker that no artifact makes up for is never used:   *)
(* whatever is asked when, the recommendation is neither to use nor to     *)
(* apply the result, also after the controller adopted it, and a sick      *)
(* executor is to be repaired.                                             *)
FatalIsNotReused ==
  task.receipt.blocker \in GlobalHardBlockers =>
    \A at \in Circumstance :
      /\ Recommendation(at) \notin {"use_result", "review_then_apply"}
      /\ task.receipt.blocker \in ExecutorUnhealthy /\ ~(at.lease /\ ~at.budget)
           => Recommendation(at) = "repair_executor"

(* A wait that ends with its lease while the budget lasts never ends the   *)
(* attempt: either its output is good already or it is waited for.         *)
LeaseIsNotFatal ==
  task.phase = "acked" =>
    \A at \in Circumstance :
      at.lease /\ ~at.budget =>
        Recommendation(at) \in {"wait_background", "use_result", "review_then_apply"}

(* What is recommended fits what happened, whatever is asked when.         *)
RecoveryFits == FatalIsNotReused /\ LeaseIsNotFatal

(* The diff of a worktree has the edits of executors in it and not the     *)
(* user's, who may have edited the same files before; but for the files    *)
(* into which a dispatch that failed has put its snapshot.                 *)
PatchIsTheWorkers ==
  config.isolated =>
    \A f \in Diff \ tree.spilled : UserEdit \in tree.work[f] => UserEdit \in DiffBase[f]

(* While the session is there, the diff has everything its attempt did.    *)
DiffIsComplete ==
  config.isolated /\ session.live =>
    \A f \in File : task.attempt \in tree.work[f] => f \in Diff

(* The patch of a worktree is what its attempt did to the files.           *)
DiffIsTheWorkers == PatchIsTheWorkers /\ DiffIsComplete

(* Nothing that agpair or an executor does loses an edit of the user.      *)
UserEditsAreKept ==
  [][\A f \in File : UserEdit \in repo.work[f] => UserEdit \in repo'.work[f]]_vars
=============================================================================
