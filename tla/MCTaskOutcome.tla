---------------------------- MODULE MCTaskOutcome ----------------------------
(***************************************************************************)
(* Instances of TaskOutcome for TLC.                                       *)
(***************************************************************************)
EXTENDS TaskOutcome

CONSTANTS f, g  \* two files

Task(policy, profile, isolated, snapshot) ==
  [policy |-> policy, hint |-> "none", profile |-> profile, isolated |-> isolated,
   snapshot |-> snapshot]

(* The defaults of task start, and what differs from them in one point.    *)
SomeConfigs ==
  {Task("auto", "local_mutating", TRUE, "tracked"),
   Task("evidence", "local_mutating", TRUE, "off"),
   Task("evidence", "local_readonly", TRUE, "tracked"),
   Task("report", "local_readonly", FALSE, "off"),
   [Task("auto", "local_mutating", FALSE, "off") EXCEPT !.hint = "commit"]}


Done == [NoReceipt EXCEPT !.status = "EVIDENCE_PACK", !.says = TRUE, !.scope = "clean",
                          !.validation = "ran"]
DoneF == [Done EXCEPT !.changed = {f}]

Writes(claim) == [NoRun EXCEPT !.end = "zero", !.log = "receipt", !.claim = claim]
Ends(end) == [NoRun EXCEPT !.end = end]
Reports(r) == [r EXCEPT !.report = TRUE]

(* A receipt as it should be, receipts that lack something or say too      *)
(* much, and executors that leave none.                                    *)
SomeRuns ==
  {Writes(DoneF), [Writes(DoneF) EXCEPT !.end = "nonzero"], Writes([Done EXCEPT !.changed = {f, g}]),
   Writes([DoneF EXCEPT !.status = "COMMITTED", !.commit = "head"]),
   Writes([DoneF EXCEPT !.status = "COMMITTED", !.commit = "unknown"]),
   Writes([DoneF EXCEPT !.scope = "violated"]), Writes([DoneF EXCEPT !.scope = "absent"]),
   Writes([DoneF EXCEPT !.validation = "absent"]), Writes([Done EXCEPT !.says = FALSE]),
   Writes([Done EXCEPT !.validation = "not_run", !.report = TRUE,
                       !.warns = {"native_success_envelope"}]),
   Writes([Done EXCEPT !.report = TRUE]), Writes([Done EXCEPT !.status = "BLOCKED"]),
   Writes([Done EXCEPT !.says = FALSE, !.report = TRUE, !.scope = "absent"]),
   Writes(Blocked([DoneF EXCEPT !.report = TRUE], "approval_required")),
   Writes([Blocked([Done EXCEPT !.report = TRUE], "approval_required") EXCEPT !.asks = TRUE]),
   Writes(Blocked([DoneF EXCEPT !.report = TRUE], "executor_auth_failed")),
   Ends("zero"), Reports(Ends("zero")), [Ends("zero") EXCEPT !.log = "malformed"],
   Ends("nonzero"), Reports(Ends("nonzero")),
   Reports([Ends("nonzero") EXCEPT !.error = "executor_quota_exhausted"]),
   [Ends("nonzero") EXCEPT !.error = "executor_quota_exhausted"],
   Ends("died"), Reports(Ends("died")), Ends("waiting"), Ends("hung")}

(* A second attempt adds its work to the worktree and ends one way or the  *)
(* other.                                                                  *)
RunsByAttempt == <<SomeRuns, {Writes(DoneF), Ends("nonzero")}>>
=============================================================================
