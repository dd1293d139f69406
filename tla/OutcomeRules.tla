---------------------------- MODULE OutcomeRules ----------------------------
(***************************************************************************)
(* How agpair turns what an executor left behind into a verdict: the       *)
(* receipt (executors/local_cli.py, terminal_receipts.py), the phase       *)
(* (completion.py, task_terminal.py), what may be adopted of it            *)
(* (scope_validation.py, artifact_classification.py, adoption.py) and what *)
(* the controller should do next (recovery.py).  All of it is pure.        *)
(*                                                                         *)
(* A receipt is its status and the keys of its payload that decide         *)
(* anything.  Texts, paths and low-risk protocol warnings are left out,    *)
(* and so are the forbidden path prefixes, a filter on file names.         *)
(***************************************************************************)
EXTENDS Integers

CONSTANT File

Scope == {"absent", "clean", "violated"}      \* the key scope_violations
Validation == {"absent", "ran", "not_run"}    \* validation, validation_not_run
Commit == {"none", "head", "unknown"}         \* commit_ref: none, the head, no such commit
Warning == {"native_success_envelope", "validation_missing_softened_by_apply_check"}

GlobalHardBlockers ==
  {"executor_auth_failed", "executor_quota_exhausted", "approval_required",
   "authorization_violation"}

(* classify_executor_error on the last lines of the logs.                  *)
ExecutorErrors ==
  {"executor_turn_budget_exhausted", "executor_response_timeout", "executor_waiting_for_input",
   "executor_quota_exhausted", "executor_auth_failed", "execution_error"}

CompletionBlockers ==
  {"validation_failure", "missing_commit_for_commit_policy", "report_output_missing"}

BlockerType ==
  GlobalHardBlockers \cup ExecutorErrors \cup CompletionBlockers
    \cup {"none", "terminal_receipt_missing", "other"}

(* worktree_diff in the payload: what `git apply --check` said of it.      *)
Patch == [given : BOOLEAN, files : SUBSET File, ok : BOOLEAN,
          why : {"none", "apply_conflict", "diff_missing"}]
NoPatch == [given |-> FALSE, files |-> {}, ok |-> FALSE, why |-> "none"]

(* says: changed_files is in the payload.  asks: a BLOCKED receipt with    *)
(* approval_required describes its request in full.                        *)
Receipt == [status : {"none", "COMMITTED", "EVIDENCE_PACK", "BLOCKED"},
            says : BOOLEAN, changed : SUBSET File, scope : Scope, validation : Validation,
            report : BOOLEAN, commit : Commit, blocker : BlockerType, asks : BOOLEAN,
            warns : SUBSET Warning, patch : Patch]

NoReceipt == [status |-> "none", says |-> FALSE, changed |-> {}, scope |-> "absent",
              validation |-> "absent", report |-> FALSE, commit |-> "none",
              blocker |-> "none", asks |-> FALSE, warns |-> {}, patch |-> NoPatch]

(* What a task asks for: its completion policy, the hint in its brief, its *)
(* authorization profile, an isolated worktree, the dirty snapshot mode.   *)
Config == [policy : {"auto", "report", "evidence", "commit"},
           hint : {"none", "readonly", "commit"},
           profile : {"local_readonly", "local_mutating"},
           isolated : BOOLEAN, snapshot : {"off", "tracked"}]

(* What an executor leaves: how it ended, what kind of receipt is in its   *)
(* logs and which, whether stdout holds a completed report, and what its   *)
(* error output is classified as.                                          *)
Run == [end : {"zero", "nonzero", "died", "hung", "waiting"},
        log : {"none", "malformed", "receipt"}, claim : Receipt,
        report : BOOLEAN, error : ExecutorErrors]
-----------------------------------------------------------------------------
(* completion.py: the policy a task is judged by.                          *)

(* resolve_effective_task_policy                                           *)
EffectivePolicy(c) ==
  IF c.policy # "auto" THEN c.policy
  ELSE IF c.profile = "local_readonly" \/ c.hint = "readonly" THEN "report"
  ELSE IF c.hint = "commit" THEN "commit"
  ELSE "evidence"

ReadOnly(c) == c.profile = "local_readonly"
ReportOnly(c) == EffectivePolicy(c) = "report" /\ ReadOnly(c)

(* validate_terminal_receipt_payload: the keys that are missing.  The log  *)
(* and receipt paths are always filled in before.                          *)
RequiredMissing(r, reportOnly) ==
  CASE r.status = "BLOCKED" ->
         IF r.blocker = "approval_required" /\ ~r.asks THEN {"request"} ELSE {}
    [] r.status # "BLOCKED" /\ (reportOnly \/ (r.report /\ r.changed = {})) -> {}
    [] OTHER -> (IF r.says THEN {} ELSE {"changed_files"})
                  \cup (IF r.scope = "absent" THEN {"scope_violations"} ELSE {})
                  \cup (IF r.validation = "absent" THEN {"validation"} ELSE {})
-----------------------------------------------------------------------------
(* local_cli.py: poll and _arbitrate, once the executor is over.           *)

Blocked(r, type) == [r EXCEPT !.status = "BLOCKED", !.blocker = type]

(* The receipts agpair writes itself when the executor left none.          *)
NothingReported ==
  [NoReceipt EXCEPT !.status = "EVIDENCE_PACK", !.says = TRUE, !.scope = "clean",
                    !.validation = "not_run"]
ReportSalvaged == [NothingReported EXCEPT !.report = TRUE]
CommitFound == [NothingReported EXCEPT !.status = "COMMITTED", !.commit = "head"]

(* Mutant: the claim of the executor is taken as it is.                    *)
TakeTheClaim(c, claim) == claim

(* _receipt_from_structured_log                                            *)
FromStructuredLog(c, claim) ==
  IF (claim.status # "BLOCKED" /\ claim.scope = "violated")
       \/ RequiredMissing(claim, ReadOnly(c)) # {}
  THEN Blocked(claim, "validation_failure")
  ELSE claim

AllowsStdoutReportSalvage(c) == ReadOnly(c) \/ c.policy \in {"evidence", "report"}

(* Mutant: the exit code does not matter.                                  *)
AfterAnyExit(c, run, committed) ==
  IF committed THEN CommitFound
  ELSE IF AllowsStdoutReportSalvage(c) /\ run.report THEN ReportSalvaged
  ELSE NothingReported

(* An exit code and no receipt.                                            *)
AfterExit(c, run, committed) ==
  IF committed /\ run.end = "zero" THEN CommitFound
  ELSE IF AllowsStdoutReportSalvage(c) /\ run.report THEN ReportSalvaged
  ELSE IF run.end = "nonzero" THEN Blocked(NoReceipt, run.error)
  ELSE IF ReadOnly(c)
    THEN Blocked(NoReceipt, IF run.error = "execution_error" THEN "report_output_missing"
                            ELSE run.error)
  ELSE NothingReported

(* A death without an exit code: whatever receipt is in the logs is not    *)
(* looked at.                                                              *)
AfterDeath(c, run, committed) ==
  IF committed THEN CommitFound
  ELSE IF AllowsStdoutReportSalvage(c) /\ run.report THEN ReportSalvaged
  ELSE Blocked(NoReceipt, IF ReadOnly(c) THEN "report_output_missing"
                          ELSE "terminal_receipt_missing")

Arbitrate(c, run, committed) ==
  CASE run.end = "hung" -> CommitFound
    [] run.end = "waiting" -> Blocked(NoReceipt, "executor_waiting_for_input")
    [] run.end = "died" -> AfterDeath(c, run, committed)
    [] run.end \in {"zero", "nonzero"} ->
         CASE run.log = "receipt" -> FromStructuredLog(c, run.claim)
           [] run.log = "malformed" -> Blocked(NoReceipt, "validation_failure")
           [] run.log = "none" -> AfterExit(c, run, committed)
-----------------------------------------------------------------------------
(* task_terminal.py and scope_validation.py.                               *)

(* _merge_worktree_evidence: the diff of the worktree against its base and *)
(* whether it applies to the repository of the controller.                 *)
MergeWorktreeEvidence(c, r, diff, applies) ==
  IF ~c.isolated \/ EffectivePolicy(c) = "report" THEN r
  ELSE [r EXCEPT
          !.says = TRUE,
          !.changed = IF r.says THEN @ ELSE diff,
          !.patch = [given |-> TRUE, files |-> diff, ok |-> diff # {} /\ applies,
                     why |-> IF diff = {} THEN "diff_missing"
                             ELSE IF applies THEN "none" ELSE "apply_conflict"]]

(* Mutant: nobody compares the files with what was declared.               *)
DeclaredOrNot(declared, actual, baseline) ==
  [given |-> TRUE, undeclared |-> {}, missing |-> declared \ (actual \ baseline)]

(* validate_changed_files: files that were dirty at the start are left out *)
(* of what the executor changed.                                           *)
ValidateChangedFiles(declared, actual, baseline) ==
  [given |-> TRUE,
   undeclared |-> (actual \ baseline) \ declared,
   missing |-> declared \ (actual \ baseline)]

NoScope == [given |-> FALSE, undeclared |-> {}, missing |-> {}]

(* In finalize_executor_receipt: a missing validation is forgiven when the *)
(* patch applies.                                                          *)
Softened(c, r) == RequiredMissing(r, ReportOnly(c)) = {"validation"} /\ r.patch.ok

Checked(c, r) ==
  IF Softened(c, r)
  THEN [r EXCEPT !.warns = @ \cup {"validation_missing_softened_by_apply_check"}]
  ELSE r

(* evaluate_completion: none when the task is ready for review, else the   *)
(* blocker type.  reportFile: report.md was written.                       *)
EvaluateCompletion(c, r, reportFile) ==
  IF r.status = "BLOCKED" THEN IF r.blocker = "none" THEN "other" ELSE r.blocker
  ELSE IF r.scope = "violated" THEN "validation_failure"
  ELSE IF RequiredMissing(r, ReportOnly(c)) # {} /\ ~Softened(c, r) THEN "validation_failure"
  ELSE IF EffectivePolicy(c) = "commit" /\ r.commit = "none"
    THEN "missing_commit_for_commit_policy"
  ELSE IF EffectivePolicy(c) = "report" /\ ~reportFile THEN "report_output_missing"
  ELSE "none"
-----------------------------------------------------------------------------
(* artifact_classification.py                                              *)

ArtifactKind == {"report", "stdout_salvage", "diff", "patch_or_commit", "evidence"}
Priority(kind) ==
  CASE kind = "diff" -> 0 [] kind = "patch_or_commit" -> 1 [] kind = "report" -> 2
    [] kind = "stdout_salvage" -> 3 [] kind = "evidence" -> 4

Artifact(kind, state, blockers) == [kind |-> kind, state |-> state, blockers |-> blockers]

(* _diff_artifact                                                          *)
DiffArtifact(patch, scope) ==
  LET blockers == (IF patch.ok THEN {} ELSE {patch.why})
                    \cup (IF scope.undeclared # {} THEN {"undeclared_changes"} ELSE {})
                    \cup (IF scope.missing # {} THEN {"missing_declared_changes"} ELSE {})
  IN IF patch.files = {} THEN {}
     ELSE {Artifact("diff", IF blockers = {} THEN "usable" ELSE "blocked", blockers)}

(* _artifact_tuple                                                         *)
Artifacts(r, reportFile, stdoutReport, scope) ==
  LET hasReport == r.report \/ reportFile
  IN (IF hasReport THEN {Artifact("report", "usable", {})} ELSE {})
       \cup (IF stdoutReport /\ ~hasReport
             THEN {Artifact("stdout_salvage", "needs_review", {})} ELSE {})
       \cup (IF r.patch.given THEN DiffArtifact(r.patch, scope)
             ELSE IF r.changed # {} THEN {Artifact("diff", "needs_review", {})} ELSE {})
       \cup (IF r.commit # "none" THEN {Artifact("patch_or_commit", "needs_review", {})} ELSE {})
       \cup (IF r.validation = "absent" THEN {}
             ELSE {Artifact("evidence",
                            IF r.validation = "ran" THEN "usable" ELSE "needs_review", {})})

InReach(artifacts) == {a \in artifacts : a.state # "blocked"}

(* _best_artifact                                                          *)
Best(artifacts) ==
  LET rank(a) == Priority(a.kind) + (IF a.state = "usable" THEN 0 ELSE 5)
  IN CHOOSE a \in InReach(artifacts) : \A b \in InReach(artifacts) : rank(a) <= rank(b)

(* classify_artifacts.  thought_only_output and no_useful_artifact are     *)
(* treated alike everywhere, the second stands for both.                   *)
Classify(r, artifacts) ==
  LET fatal == {r.blocker} \cap GlobalHardBlockers
      primary == IF InReach(artifacts) = {} THEN "nothing_useful" ELSE Best(artifacts).kind
  IN [state |-> IF fatal # {} \/ InReach(artifacts) = {} THEN "blocked"
                ELSE IF \A a \in artifacts : a.state = "usable" THEN "usable"
                ELSE "needs_review",
      primary |-> primary,
      global |-> IF fatal # {} THEN fatal
                 ELSE IF InReach(artifacts) = {} THEN {"no_useful_artifact"} ELSE {}]
-----------------------------------------------------------------------------
(* adoption.py                                                             *)

Rework == {"minor", "major"}  \* of --controller-rework, what makes a difference

IsCode(a) == a.kind \in {"diff", "patch_or_commit"}

(* Mutant: a fatal blocker does not stand in the way of good artifacts.    *)
ActionByArtifacts(policy, art, artifacts) ==
  IF policy # "report" /\ \E a \in InReach(artifacts) : IsCode(a) THEN "review_then_apply"
  ELSE IF art.primary \in {"report", "stdout_salvage"} THEN "use_result"
  ELSE "inspect_evidence"

(* _controller_action_from_artifacts                                       *)
ControllerAction(policy, art, artifacts) ==
  IF art.state = "blocked"
    THEN IF art.global = {"no_useful_artifact"} THEN "retry_or_switch_executor"
         ELSE "inspect_evidence"
  ELSE IF policy # "report" /\ \E a \in InReach(artifacts) : IsCode(a) THEN "review_then_apply"
  ELSE IF art.primary \in {"report", "stdout_salvage"} THEN "use_result"
  ELSE "inspect_evidence"

(* _append_scope_blockers                                                  *)
ScopeBlockers(r, scope) ==
  LET named == (IF scope.undeclared # {} THEN {"undeclared_changes"} ELSE {})
                 \cup (IF scope.missing # {} THEN {"missing_declared_changes"} ELSE {})
  IN IF named = {} /\ r.scope = "violated" THEN {"scope_violations"} ELSE named

(* The blockers that derive_adoption_decision has collected before it      *)
(* looks at the policy.                                                    *)
FirstBlockers(r, artifacts) ==
  (UNION {a.blockers : a \in artifacts})
    \cup (IF r.blocker # "none" THEN {r.blocker}
          ELSE IF r.status = "BLOCKED" THEN {"blocked_terminal_result"} ELSE {})

(* What each policy makes of it: the result and the blockers.              *)
ReportAdoption(r, art, artifacts) ==
  LET first == FirstBlockers(r, artifacts)
      hasReport == \E a \in artifacts : a.kind \in {"report", "stdout_salvage"}
  IN IF hasReport
     THEN [result |-> IF first # {} \/ art.state # "usable" THEN "partial" ELSE "yes",
           blockers |-> first]
     ELSE [result |-> IF art.state = "blocked" THEN "no" ELSE "partial",
           blockers |-> first \cup {"report_missing"}]

(* A commit is never a usable artifact, so the result is never yes.        *)
CommitAdoption(r, art, artifacts, scope) ==
  LET first == FirstBlockers(r, artifacts) \cup ScopeBlockers(r, scope)
  IN IF art.state = "blocked"
     THEN [result |-> "no", blockers |-> first \cup {"commit_and_diff_missing"}]
     ELSE [result |-> "partial", blockers |-> first \cup {"commit_missing"}]

EvidenceAdoption(r, art, artifacts, scope) ==
  LET changed == IF r.changed # {} THEN r.changed ELSE r.patch.files
      hasReport == \E a \in artifacts : a.kind \in {"report", "stdout_salvage"}
      reportOnly == hasReport /\ changed = {} /\ ~\E a \in artifacts : IsCode(a)
      late == FirstBlockers(r, artifacts)
                \cup (IF changed # {} /\ scope.given /\ scope.missing # {}
                      THEN {"changed_files_not_present"} ELSE {})
                \cup ScopeBlockers(r, scope)
                \cup (IF r.patch.given /\ ~r.patch.ok THEN {r.patch.why} ELSE {})
                \cup (IF r.validation = "absent" /\ ~reportOnly THEN {"validation_missing"} ELSE {})
  IN IF art.state = "blocked" \/ ~(hasReport \/ \E a \in InReach(artifacts) : IsCode(a))
     THEN [result |-> "no",
           blockers |-> FirstBlockers(r, artifacts) \cup art.global \cup {"evidence_missing"}]
     ELSE [result |-> IF late # {} \/ art.state = "needs_review" \/ r.warns # {}
                      THEN "partial" ELSE "yes",
           blockers |-> late]

(* _agent_result_from_artifacts                                            *)
AgentResult(policy, judged, art, artifacts, rework) ==
  LET state == IF art.state = "blocked" \/ judged.result = "no" THEN "blocked"
               ELSE IF art.state = "needs_review" \/ judged.result = "partial" \/ rework = "major"
               THEN "needs_review" ELSE "usable"
  IN [result |-> judged.result, state |-> state,
      action |-> ControllerAction(policy, art, artifacts),
      hard |-> IF state = "usable" THEN {} ELSE art.global \cup judged.blockers]

(* derive_adoption_decision                                                *)
Adoption(c, r, reportFile, stdoutReport, scope, rework) ==
  LET policy == EffectivePolicy(c)
      artifacts == Artifacts(r, reportFile, stdoutReport, scope)
      art == Classify(r, artifacts)
      fatal == art.global \ {"no_useful_artifact"}
      judged == IF fatal # {} THEN [result |-> "no", blockers |-> fatal]
                ELSE CASE policy = "report" -> ReportAdoption(r, art, artifacts)
                       [] policy = "commit" -> CommitAdoption(r, art, artifacts, scope)
                       [] policy = "evidence" -> EvidenceAdoption(r, art, artifacts, scope)
  IN AgentResult(policy, judged, art, artifacts, rework)
-----------------------------------------------------------------------------
(* recovery.py                                                             *)

ExecutorUnhealthy == {"executor_auth_failed", "executor_quota_exhausted"}
AuthorizationBlockers == {"approval_required"}
NoUsefulSignal ==
  {"no_useful_executor_signal", "terminal_receipt_missing", "report_missing",
   "execution_budget_exhausted", "executor_response_timeout"}

(* The circumstances a recommendation is asked for in: the wait ended with *)
(* its lease, the budget is used up, the user named the executor, another  *)
(* one is eligible.                                                        *)
Circumstance == [lease : BOOLEAN, budget : BOOLEAN, requested : BOOLEAN, other : BOOLEAN]

(* choose_recovery_decision.  A blocker authorization_violation leads to   *)
(* inspect_evidence; a scope violation is never spelled the way it looks   *)
(* for it.                                                                 *)
ChooseRecovery(d, at) ==
  IF d.action \in {"use_result", "review_then_apply"} THEN d.action
  ELSE IF at.lease /\ ~at.budget THEN "wait_background"
  ELSE IF d.hard \cap ExecutorUnhealthy # {} THEN "repair_executor"
  ELSE IF d.hard \cap AuthorizationBlockers # {} THEN "retry_same_executor"
  ELSE IF "authorization_violation" \in d.hard THEN "inspect_evidence"
  ELSE IF d.state = "blocked" /\ d.hard \cap NoUsefulSignal # {}
    THEN IF at.requested THEN "retry_same_executor"
         ELSE IF at.other THEN "switch_executor" ELSE "native_fallback"
  ELSE IF d.action = "inspect_evidence" THEN "inspect_evidence"
  ELSE IF d.state = "blocked" THEN "retry_same_executor"
  ELSE "inspect_evidence"
=============================================================================
