------------------------- MODULE TaskVerdict_proofs -------------------------
(***************************************************************************)
(* Proofs about the verdict of TaskOutcome: what it takes for a task to    *)
(* wait for review, to be called adoptable, and what a fatal blocker makes *)
(* of the recommendations.                                                 *)
(***************************************************************************)
EXTENDS TaskOutcome_proofs

\* A receipt is there once the attempt is over, a fatal blocker is in the
\* decision stored with it, and a hung executor has committed.
FatalIsDecided ==
  task.receipt.blocker \in GlobalHardBlockers =>
    /\ task.decision.state = "blocked" /\ task.decision.action = "inspect_evidence"
    /\ task.receipt.blocker \in task.decision.hard

HungHasCommitted ==
  task.phase = "acked" /\ worker = "ended" /\ run.end = "hung" => HasCommitted

VerdictOK ==
  /\ task.phase \in {"new", "acked"} => task.receipt = NoReceipt
  /\ task.phase = "new" => task.adoptable = "unknown"
  /\ FatalIsDecided /\ HungHasCommitted /\ ReviewHasOutput /\ BlockedIsNotYes

LEMMA NoReceiptIs ==
  NoReceipt.blocker \notin GlobalHardBlockers /\ NoReceipt.status = "none"
  BY DEF NoReceipt, GlobalHardBlockers
-----------------------------------------------------------------------------
(* The verdict.                                                            *)

(* What the steps of Finalize leave of the receipt.                        *)
LEMMA JudgeIs ==
  ASSUME TypesOK
  PROVE  LET merges == config.isolated /\ EffectivePolicy(config) # "report" IN
         /\ Judge.status = Claimed.status /\ Judge.blocker = Claimed.blocker
         /\ Judge.scope = Claimed.scope /\ Judge.validation = Claimed.validation
         /\ Judge.report = Claimed.report /\ Judge.commit = Claimed.commit
         /\ Judge.asks = Claimed.asks
         /\ Judge.changed = Merged.changed /\ Merged.commit = Claimed.commit
         /\ ~merges => Judge.says = Claimed.says /\ Judge.changed = Claimed.changed
         /\ merges => /\ Judge.says /\ Judge.patch.given
                      /\ Claimed.says => Judge.changed = Claimed.changed
                      /\ Judge.patch.ok => PatchApplies
<1>1. Claimed \in Receipt /\ Merged \in Receipt
  BY FinalizeTypes
<1>2. Diff \in SUBSET File /\ PatchApplies \in BOOLEAN
  BY DiffIsFiles DEF PatchApplies
<1>3. LET merges == config.isolated /\ EffectivePolicy(config) # "report" IN
      /\ Merged.status = Claimed.status /\ Merged.blocker = Claimed.blocker
      /\ Merged.scope = Claimed.scope /\ Merged.validation = Claimed.validation
      /\ Merged.report = Claimed.report /\ Merged.commit = Claimed.commit
      /\ Merged.asks = Claimed.asks
      /\ ~merges => Merged = Claimed
      /\ merges => /\ Merged.says
                   /\ Merged.changed = IF Claimed.says THEN Claimed.changed ELSE Diff
                   /\ Merged.patch.given
                   /\ Merged.patch.ok = (Diff # {} /\ PatchApplies)
  BY <1>1, <1>2, MergeIs DEF Merged
<1>4. /\ Judge.status = Merged.status /\ Judge.blocker = Merged.blocker
      /\ Judge.scope = Merged.scope /\ Judge.validation = Merged.validation
      /\ Judge.report = Merged.report /\ Judge.commit = Merged.commit
      /\ Judge.asks = Merged.asks /\ Judge.says = Merged.says
      /\ Judge.changed = Merged.changed /\ Judge.patch = Merged.patch
  BY <1>1, CheckedIs DEF Judge
<1> QED
  BY <1>3, <1>4

LEMMA ClaimIs ==
  ASSUME TypesOK
  PROVE  \/ Claimed.status = "BLOCKED" /\ Claimed.blocker # "none"
         \/ Claimed = NothingReported /\ run.end = "zero" /\ run.log = "none"
         \/ Claimed = ReportSalvaged /\ run.report
         \/ /\ Claimed = CommitFound
            /\ \/ run.end = "zero" /\ run.log = "none"
               \/ run.end = "died" /\ HasCommitted
               \/ run.end = "hung"
         \/ /\ Claimed = run.claim /\ run.log = "receipt"
            /\ Claimed.status = "BLOCKED" \/ Claimed.scope # "violated"
            /\ RequiredMissing(Claimed, ReadOnly(config)) = {}
<1>1. run \in Run
  BY DEF TypesOK
<1>2. HasCommitted \in BOOLEAN
  BY FinalizeTypes
<1> QED
  BY <1>1, <1>2, ArbitrateIs DEF Claimed

\* What is not said to be yes unless the verdict is ready for review.
LEMMA OfferYesIs ==
  ASSUME TypesOK, Offer.result = "yes"
  PROVE  /\ Judge.status # "BLOCKED" /\ Judge.commit = "none" /\ Judge.validation # "not_run"
         /\ EffectivePolicy(config) # "commit"
         /\ EffectivePolicy(config) = "report" => ReportNow
         /\ EffectivePolicy(config) = "evidence" =>
              /\ ScopeNow.undeclared = {}
              /\ Judge.patch.given => Judge.patch.ok
              /\ Judge.validation = "absent" => ReportNow
<1>1. /\ Judge \in Receipt /\ ReportNow \in BOOLEAN /\ run.report \in BOOLEAN
      /\ ScopeNow \in ScopeSays /\ config \in Config
  BY FinalizeTypes
<1>2. "minor" \in Rework
  BY DEF Rework
<1>3. Judge.report => ReportNow
  BY DEF ReportNow
<1> QED
  BY <1>1, <1>2, <1>3, AdoptionIs DEF Offer

LEMMA ReadyUnlessPollAsksLess ==
  ASSUME TypesOK, Offer.result = "yes", ~PollAsksLess
  PROVE  Reason = "none"
<1>1. /\ Judge.status # "BLOCKED" /\ Judge.commit = "none" /\ Judge.validation # "not_run"
      /\ EffectivePolicy(config) # "commit"
      /\ EffectivePolicy(config) = "report" => ReportNow
  BY OfferYesIs
<1>2. /\ Claimed = run.claim /\ Claimed.scope # "violated" /\ Claimed.status # "BLOCKED"
      /\ RequiredMissing(Claimed, ReadOnly(config)) = {}
  BY <1>1, ClaimIs, JudgeIs, OwnReceipts
<1>3. ~ReadOnly(config) /\ ~ReportOnly(config) /\ (Claimed.report => Claimed.says)
  BY <1>2 DEF PollAsksLess, ReportOnly
<1>4. \/ Claimed.report /\ Claimed.changed = {}
      \/ Claimed.says /\ Claimed.scope # "absent" /\ Claimed.validation # "absent"
  BY <1>2, <1>3 DEF RequiredMissing
<1>5. \/ Judge.report /\ Judge.changed = {}
      \/ Judge.says /\ Judge.scope # "absent" /\ Judge.validation # "absent"
  BY <1>3, <1>4, JudgeIs
<1>6. RequiredMissing(Judge, ReportOnly(config)) = {}
  BY <1>1, <1>3, <1>5 DEF RequiredMissing
<1>7. Judge.scope # "violated"
  BY <1>2, JudgeIs
<1>8. Judge \in Receipt /\ ReportNow \in BOOLEAN
  BY FinalizeTypes
<1> QED
  BY <1>1, <1>6, <1>7, <1>8, EvaluateIs DEF Reason

LEMMA FinalizeVerdict ==
  ASSUME IInv, VerdictOK, Finalize
  PROVE  /\ task'.phase = IF Reason = "none" THEN "ready_for_review" ELSE "blocked"
         /\ task'.receipt = Stored(Judge, Reason) /\ task'.reportFile = ReportNow
         /\ task'.adoptable = Offer.result /\ task'.decision = Offer
         /\ task'.approved = task.approved
         /\ worker = "ended" /\ task.phase = "acked"
         /\ UNCHANGED <<config, session, worker, run, repo, tree>>
<1>1. task \in TaskRow
  BY DEF IInv, TypesOK
<1> QED
  BY <1>1, FinalizeIs DEF TaskRow, files

LEMMA FinalizeVerdictOK == ASSUME IInv, VerdictOK, Finalize PROVE VerdictOK'
<1> USE FinalizeVerdict
<1>1. TypesOK
  BY DEF IInv
<1>2. /\ Judge \in Receipt /\ Reason \in BlockerType /\ ReportNow \in BOOLEAN
      /\ run.report \in BOOLEAN /\ ScopeNow \in ScopeSays /\ config \in Config
  BY <1>1, FinalizeTypes
<1>3. FatalIsDecided'
  <2> SUFFICES ASSUME Stored(Judge, Reason).blocker \in GlobalHardBlockers
               PROVE  /\ Offer.state = "blocked" /\ Offer.action = "inspect_evidence"
                      /\ Stored(Judge, Reason).blocker \in Offer.hard
    BY DEF FatalIsDecided
  <2>1. Stored(Judge, Reason).blocker = Judge.blocker
    <3>1. Stored(Judge, Reason).blocker \in {Judge.blocker, Reason}
      BY <1>2, StoredIs
    <3>2. Reason \in GlobalHardBlockers => Judge.blocker = Reason
      BY <1>2, EvaluateIs DEF Reason
    <3> QED
      BY <3>1, <3>2
  <2>2. "minor" \in Rework
    BY DEF Rework
  <2> QED
    BY <1>2, <2>1, <2>2, AdoptionIs DEF Offer
<1>4. HungHasCommitted'
  BY DEF HungHasCommitted
<1>5. ReviewHasOutput'
  <2> SUFFICES ASSUME Reason = "none"
               PROVE  \/ run.end = "zero" /\ run.log # "malformed"
                      \/ run.log = "receipt" /\ run.claim.status # "BLOCKED"
                      \/ run.report
                      \/ run.end \in {"died", "hung"} /\ HasCommitted
    BY DEF ReviewHasOutput, HasCommitted, Execution
  <2>1. Claimed.status # "BLOCKED"
    BY <1>1, <1>2, JudgeIs, EvaluateIs DEF Reason
  <2>2. run.end = "hung" => HasCommitted
    BY DEF VerdictOK, HungHasCommitted
  <2> QED
    BY <1>1, <2>1, <2>2, ClaimIs
<1>6. BlockedIsNotYes'
  BY <1>1, ReadyUnlessPollAsksLess DEF BlockedIsNotYes, PollAsksLess
<1> QED
  BY <1>3, <1>4, <1>5, <1>6 DEF VerdictOK
-----------------------------------------------------------------------------
(* The other steps.                                                        *)

(* A step that leaves the row and the run alone, and what the attempt has  *)
(* committed, unless its executor works.                                   *)
LEMMA Quiet ==
  ASSUME IInv, VerdictOK, UNCHANGED <<config, task, run>>,
         \/ worker' = "running" /\ task.phase = "acked"
         \/ worker' = worker /\ (task.phase # "new" => (HasCommitted => HasCommitted'))
  PROVE  VerdictOK'
<1>1. FatalIsDecided' /\ BlockedIsNotYes'
  BY DEF VerdictOK, FatalIsDecided, BlockedIsNotYes, PollAsksLess
<1>2. HungHasCommitted'
  BY DEF VerdictOK, HungHasCommitted
<1>3. ReviewHasOutput'
  BY DEF VerdictOK, ReviewHasOutput
<1> QED
  BY <1>1, <1>2, <1>3 DEF VerdictOK

LEMMA WorkVerdictOK ==
  ASSUME IInv, VerdictOK, (\E f \in File : WorkerEdits(f)) \/ WorkerCommits
  PROVE  VerdictOK'
<1>1. /\ worker' = "running" /\ task.phase = "acked"
      /\ UNCHANGED <<config, task, run>>
  BY DEF WorkerEdits, WorkerCommits, IInv, WorkerOK
<1> QED
  BY <1>1, Quiet

LEMMA UserVerdictOK ==
  ASSUME IInv, VerdictOK,
         (\E f \in File : UserEdits(f)) \/ Cleanup \/ (\E force \in BOOLEAN : Apply(force))
         \/ UNCHANGED vars
  PROVE  VerdictOK'
<1>1. UNCHANGED <<config, task, run, worker, tree>>
  BY DEF UserEdits, Cleanup, Apply, vars, files
<1>2. session'.base = session.base /\ session'.owned = session.owned
  BY DEF UserEdits, Cleanup, Apply, vars, files, IInv, TypesOK, SessionRow
<1>3. repo'.head = repo.head
  BY DEF UserEdits, Cleanup, Apply, vars, files, IInv, TypesOK, Checkout
<1>4. HasCommitted' <=> HasCommitted
  BY <1>1, <1>2, <1>3 DEF HasCommitted, Execution, Changed
<1> QED
  BY <1>1, <1>4, Quiet

LEMMA EndVerdictOK == ASSUME IInv, VerdictOK, WorkerEnds PROVE VerdictOK'
<1>1. /\ UNCHANGED <<config, task, session, repo, tree>> /\ task.phase = "acked"
      /\ run'.end = "hung" => HasCommitted
  BY DEF WorkerEnds, files, IInv, WorkerOK
<1>2. HasCommitted' <=> HasCommitted
  BY <1>1 DEF HasCommitted, Execution, Changed
<1>3. HungHasCommitted'
  BY <1>1, <1>2 DEF HungHasCommitted
<1>4. FatalIsDecided' /\ ReviewHasOutput' /\ BlockedIsNotYes'
  BY <1>1 DEF VerdictOK, FatalIsDecided, ReviewHasOutput, BlockedIsNotYes
<1> QED
  BY <1>1, <1>3, <1>4 DEF VerdictOK

LEMMA AdoptVerdictOK == ASSUME IInv, VerdictOK, Adopt PROVE VerdictOK'
<1>1. PICK rework \in Rework :
        /\ task'.decision = SecondLook(rework) /\ task'.approved
        /\ task'.receipt = task.receipt /\ task'.phase = task.phase
  BY AdoptOK
<1>2. UNCHANGED <<config, session, worker, run, repo, tree>>
      /\ (task.receipt.status # "none" \/ session.live)
  BY AdoptIs DEF files
<1>3. task.phase # "new"
  BY <1>2, NoReceiptIs DEF VerdictOK, IInv, WorkerOK
<1>4. FatalIsDecided'
  <2> SUFFICES ASSUME task.receipt.blocker \in GlobalHardBlockers
               PROVE  LET d == SecondLook(rework) IN
                      /\ d.state = "blocked" /\ d.action = "inspect_evidence"
                      /\ task.receipt.blocker \in d.hard
    BY <1>1 DEF FatalIsDecided
  <2>1. task.phase \in {"ready_for_review", "blocked"}
    BY NoReceiptIs DEF VerdictOK, IInv, TypesOK, TaskRow
  <2>2. /\ task.receipt \in Receipt /\ task.reportFile \in BOOLEAN /\ run.report \in BOOLEAN
        /\ config \in Config
    BY Constants DEF IInv, TypesOK, TaskRow, Run
  <2>3. NoScope \in ScopeSays
    BY DEF NoScope, ScopeSays
  <2> QED
    BY <2>1, <2>2, <2>3, AdoptionIs DEF SecondLook
<1>5. HungHasCommitted'
  BY <1>1, <1>2 DEF VerdictOK, HungHasCommitted, HasCommitted, Execution, Changed
<1>6. ReviewHasOutput'
  BY <1>1, <1>2 DEF VerdictOK, ReviewHasOutput, HasCommitted, Execution, Changed
<1>7. BlockedIsNotYes'
  BY <1>1 DEF BlockedIsNotYes
<1> QED
  BY <1>1, <1>3, <1>4, <1>5, <1>6, <1>7 DEF VerdictOK

(* The first dispatch, and every later one.                                *)
LEMMA DispatchVerdictOK ==
  ASSUME DispatchSucceeds, task'.phase = "acked", task'.receipt = NoReceipt
  PROVE  VerdictOK'
<1>1. worker' = "running"
  BY DEF DispatchSucceeds
<1> QED
  BY <1>1, NoReceiptIs
     DEF VerdictOK, FatalIsDecided, HungHasCommitted, ReviewHasOutput, BlockedIsNotYes

LEMMA StartVerdictOK == ASSUME IInv, VerdictOK, Start PROVE VerdictOK'
<1>1. task \in TaskRow /\ task.phase = "new" /\ task.receipt = NoReceipt
      /\ task.adoptable = "unknown"
  BY DEF IInv, TypesOK, Start, VerdictOK
<1>2. CASE DispatchSucceeds /\ task' = [task EXCEPT !.phase = "acked"]
  <2>1. task'.phase = "acked" /\ task'.receipt = NoReceipt
    BY <1>1, <1>2 DEF TaskRow
  <2> QED
    BY <1>2, <2>1, DispatchVerdictOK
<1>3. CASE DispatchFails /\ task' = [task EXCEPT !.phase = "blocked"]
  <2>1. task'.phase = "blocked" /\ task'.receipt = NoReceipt /\ task'.adoptable = "unknown"
    BY <1>1, <1>3 DEF TaskRow
  <2> QED
    BY <2>1, NoReceiptIs
       DEF VerdictOK, FatalIsDecided, HungHasCommitted, ReviewHasOutput, BlockedIsNotYes
<1> QED
  BY <1>2, <1>3 DEF Start

LEMMA RetryVerdictOK == ASSUME IInv, VerdictOK, Retry PROVE VerdictOK'
<1>1. CASE task' = NextTry /\ task.attempt < MaxAttempts /\ DispatchSucceeds
  <2>1. task'.phase = "acked" /\ task'.receipt = NoReceipt
    BY <1>1, NextTryIs DEF IInv
  <2> QED
    BY <1>1, <2>1, DispatchVerdictOK
<1>2. CASE task' = task /\ DispatchFails
  <2>1. UNCHANGED <<config, session, worker, run, repo>> /\ (~config.isolated => tree' = tree)
    BY <1>2 DEF DispatchFails
  <2>2. ASSUME HasCommitted PROVE HasCommitted'
    <3>1. CASE ~config.isolated
      BY <2>1, <2>2, <3>1 DEF HasCommitted, Execution, Changed
    <3>2. CASE config.isolated
      <4>1. session.owned /\ tree.exists
        BY <2>2, <3>2 DEF HasCommitted, IInv, WorkerOK, NoSession
      <4>2. PICK f \in File : session.base[f] # tree.head[f]
        BY <2>2, <3>2 DEF HasCommitted, Execution, Changed
      <4>3. session.base[f] \subseteq tree.head[f] /\ tree.head[f] \subseteq tree'.head[f]
        BY <1>2, <3>2, <4>1, FailedTree DEF IInv, BaseOK
      <4>4. session.base[f] # tree'.head[f]
        BY <4>2, <4>3
      <4> QED
        BY <2>1, <3>2, <4>1, <4>4 DEF HasCommitted, Execution, Changed
    <3> QED
      BY <3>1, <3>2
  <2> QED
    BY <1>2, <2>1, <2>2, Quiet
<1> QED
  BY <1>1, <1>2, RetryOK

LEMMA VerdictStep == ASSUME IInv, VerdictOK, [Next]_vars PROVE VerdictOK'
<1>1. CASE Start
  BY <1>1, StartVerdictOK
<1>2. CASE Retry
  BY <1>2, RetryVerdictOK
<1>3. CASE (\E f \in File : WorkerEdits(f)) \/ WorkerCommits
  BY <1>3, WorkVerdictOK
<1>4. CASE \/ \E f \in File : UserEdits(f)
           \/ Cleanup
           \/ \E force \in BOOLEAN : Apply(force)
           \/ UNCHANGED vars
  BY <1>4, UserVerdictOK
<1>5. CASE WorkerEnds
  BY <1>5, EndVerdictOK
<1>6. CASE Finalize
  BY <1>6, FinalizeVerdictOK
<1>7. CASE Adopt
  BY <1>7, AdoptVerdictOK
<1> QED
  BY <1>1, <1>2, <1>3, <1>4, <1>5, <1>6, <1>7 DEF Next

LEMMA VerdictInit == Init => VerdictOK
<1> SUFFICES ASSUME Init PROVE VerdictOK
  OBVIOUS
<1>1. /\ task.phase = "new" /\ task.receipt = NoReceipt /\ task.adoptable = "unknown"
      /\ worker = "none"
  BY DEF Init, FreshAttempt
<1> QED
  BY <1>1, NoReceiptIs
     DEF VerdictOK, FatalIsDecided, HungHasCommitted, ReviewHasOutput, BlockedIsNotYes

\* The second inductive invariant: the receipt, the decision and what the
\* executor left agree.
THEOREM VerdictInvariance == Spec => []VerdictOK
<1>1. Init => VerdictOK
  BY VerdictInit
<1>2. IInv /\ VerdictOK /\ [Next]_vars => VerdictOK'
  BY VerdictStep
<1> QED
  BY <1>1, <1>2, OutcomeInvariance, PTL DEF Spec

\* Whatever the executor left, a task that waits for review has an exit with
\* zero, a claim of success, a report or a commit of its own to show.
THEOREM ReviewIsEarned == Spec => []ReviewHasOutput
<1>1. VerdictOK => ReviewHasOutput
  BY DEF VerdictOK
<1> QED
  BY <1>1, VerdictInvariance, PTL

\* For every receipt and every file system: the daemon calls the result of a
\* blocked task adoptable only where poll asks less than the verdict.
THEOREM BlockedHasNoYes == Spec => []BlockedIsNotYes
<1>1. VerdictOK => BlockedIsNotYes
  BY DEF VerdictOK
<1> QED
  BY <1>1, VerdictInvariance, PTL

(* What choose_recovery_decision says of a decision with a fatal blocker.  *)
LEMMA FatalRecovery ==
  ASSUME NEW d, NEW at, NEW blocker \in GlobalHardBlockers,
         d.state = "blocked", d.action = "inspect_evidence", blocker \in d.hard
  PROVE  /\ ChooseRecovery(d, at) \notin {"use_result", "review_then_apply"}
         /\ blocker \in ExecutorUnhealthy /\ ~(at.lease /\ ~at.budget)
              => ChooseRecovery(d, at) = "repair_executor"
  BY DEF ChooseRecovery

\* After every receipt with a fatal blocker, and every second look of the
\* controller at it, no circumstance makes agpair recommend its result.
THEOREM FatalNeverReused == Spec => []FatalIsNotReused
<1>1. IInv /\ VerdictOK => FatalIsNotReused
  <2> SUFFICES ASSUME IInv, VerdictOK, task.receipt.blocker \in GlobalHardBlockers,
                      NEW at \in Circumstance
               PROVE  /\ Recommendation(at) \notin {"use_result", "review_then_apply"}
                      /\ task.receipt.blocker \in ExecutorUnhealthy /\ ~(at.lease /\ ~at.budget)
                           => Recommendation(at) = "repair_executor"
    BY DEF FatalIsNotReused
  <2>1. task.phase \notin {"new", "acked"}
    BY NoReceiptIs DEF VerdictOK
  <2>2. /\ task.decision.state = "blocked" /\ task.decision.action = "inspect_evidence"
        /\ task.receipt.blocker \in task.decision.hard
    BY DEF VerdictOK, FatalIsDecided
  <2>3. Seen(at.budget) = task.decision
    BY <2>1, <2>2 DEF Seen, Undecided
  <2> QED
    BY <2>2, <2>3, FatalRecovery DEF Recommendation
<1> QED
  BY <1>1, OutcomeInvariance, VerdictInvariance, PTL

\* Whatever its output is so far, a wait whose lease ends before the budget
\* of the attempt never gives the attempt up.
THEOREM LeaseNeverFatal == Spec => []LeaseIsNotFatal
<1>1. LeaseIsNotFatal
  BY DEF LeaseIsNotFatal, Recommendation, ChooseRecovery
<1> QED
  BY <1>1, PTL

\* Both together: for every receipt and every lease, what is recommended fits
\* what happened to the attempt.
THEOREM RecoveryAlwaysFits == Spec => []RecoveryFits
<1>1. FatalIsNotReused /\ LeaseIsNotFatal => RecoveryFits
  BY DEF RecoveryFits
<1> QED
  BY <1>1, FatalNeverReused, LeaseNeverFatal, PTL

\* For every claim, worktree and repository: a yes of the daemon is covered
\* by the files, the patch and the validation of the attempt.
THEOREM YesEarned == Spec => YesIsEarned
<1> DEFINE Earned ==
      (Finalize /\ task'.adoptable = "yes" /\ EffectivePolicy(config) = "evidence") =>
        /\ task'.receipt.status # "BLOCKED" \/ PollAsksLess
        /\ config.isolated => PatchApplies
        /\ Changed(session.base, Execution.work) \subseteq session.dirty \cup task'.receipt.changed
        /\ task'.receipt.validation = "ran" \/ task'.reportFile
<1>1. IInv /\ VerdictOK => Earned
  <2> SUFFICES ASSUME IInv, VerdictOK, Finalize, task'.adoptable = "yes",
                      EffectivePolicy(config) = "evidence"
               PROVE  /\ task'.receipt.status # "BLOCKED" \/ PollAsksLess
                      /\ config.isolated => PatchApplies
                      /\ Changed(session.base, Execution.work)
                           \subseteq session.dirty \cup task'.receipt.changed
                      /\ task'.receipt.validation = "ran" \/ task'.reportFile
    OBVIOUS
  <2>1. Offer.result = "yes" /\ task'.receipt = Stored(Judge, Reason) /\ task'.reportFile = ReportNow
    BY FinalizeVerdict
  <2>2. TypesOK
    BY DEF IInv
  <2>3. Judge \in Receipt /\ Reason \in BlockerType
    BY <2>2, FinalizeTypes
  <2>4. /\ task'.receipt.changed = Judge.changed /\ task'.receipt.validation = Judge.validation
        /\ task'.receipt.status = IF Reason = "none" THEN Judge.status ELSE "BLOCKED"
    BY <2>1, <2>3, StoredIs
  <2>5. /\ Judge.status # "BLOCKED" /\ Judge.commit = "none" /\ Judge.validation # "not_run"
        /\ ScopeNow.undeclared = {}
        /\ Judge.patch.given => Judge.patch.ok
        /\ Judge.validation = "absent" => ReportNow
    BY <2>1, <2>2, OfferYesIs
  <2>6. task'.receipt.status # "BLOCKED" \/ PollAsksLess
    BY <2>1, <2>2, <2>4, <2>5, ReadyUnlessPollAsksLess
  <2>7. config.isolated => PatchApplies
    BY <2>2, <2>5, JudgeIs
  <2>8. Changed(session.base, Execution.work) \subseteq session.dirty \cup task'.receipt.changed
    <3>1. ActualChanges(Merged) = Changed(session.base, Execution.head) \cup Dirty(Execution)
      BY <2>2, <2>5, JudgeIs DEF ActualChanges
    <3>2. Changed(session.base, Execution.work) \subseteq ActualChanges(Merged)
      BY <3>1 DEF Changed, Dirty
    <3>3. (ActualChanges(Merged) \ session.dirty) \ Merged.changed = {}
      BY <2>5 DEF ScopeNow, ValidateChangedFiles
    <3>4. task'.receipt.changed = Merged.changed
      BY <2>2, <2>4, JudgeIs
    <3> QED
      BY <3>2, <3>3, <3>4
  <2>9. task'.receipt.validation = "ran" \/ task'.reportFile
    BY <2>1, <2>3, <2>4, <2>5 DEF Receipt, Validation
  <2> QED
    BY <2>6, <2>7, <2>8, <2>9
<1>2. YesIsEarned <=> [][Earned]_vars
  BY PTL DEF YesIsEarned
<1> HIDE DEF Earned
<1> QED
  BY <1>1, <1>2, OutcomeInvariance, VerdictInvariance, PTL
=============================================================================
