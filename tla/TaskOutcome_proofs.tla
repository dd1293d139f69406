------------------------ MODULE TaskOutcome_proofs ------------------------
(***************************************************************************)
(* Proofs about TaskOutcome, for every set of files, of tasks, of runs and *)
(* every number of attempts.                                               *)
(***************************************************************************)
EXTENDS TaskOutcome, TLAPS

Files == [File -> Content]

(* Everything derive_adoption_decision may put into hard.                  *)
Blocker ==
  BlockerType \cup
  {"no_useful_artifact", "undeclared_changes", "missing_declared_changes", "apply_conflict",
   "diff_missing", "scope_violations", "blocked_terminal_result", "report_missing",
   "commit_and_diff_missing", "commit_missing", "changed_files_not_present",
   "validation_missing", "evidence_missing"}
Decision == [result : {"yes", "partial", "no", "unknown"},
             state : {"none", "usable", "needs_review", "blocked"},
             action : {"none", "use_result", "review_then_apply", "inspect_evidence",
                       "retry_or_switch_executor"},
             hard : SUBSET Blocker]
TaskRow == [phase : {"new", "acked", "ready_for_review", "blocked"}, attempt : 1 .. MaxAttempts,
            approved : BOOLEAN, receipt : Receipt, reportFile : BOOLEAN,
            adoptable : {"yes", "partial", "no", "unknown"}, decision : Decision]
SessionRow == [live : BOOLEAN, base : Files, dirty : SUBSET File, owned : BOOLEAN]
TreeRow == [exists : BOOLEAN, head : Files, work : Files, index : Files,
            unmerged : SUBSET File, spilled : SUBSET File]

\* Types.
TypesOK ==
  /\ config \in Configs /\ task \in TaskRow /\ session \in SessionRow
  /\ worker \in {"none", "running", "ended"} /\ run \in Run
  /\ repo \in Checkout /\ tree \in TreeRow

\* Who works in which phase.
WorkerOK ==
  /\ worker = "running" => task.phase = "acked" /\ session.live
  /\ task.phase = "new" => worker = "none" /\ ~session.live
  /\ worker = "ended" => run \in Runs[task.attempt]
  /\ config.isolated /\ task.phase = "acked" => tree.exists
  /\ config.isolated /\ ~tree.exists => session = NoSession

\* No edit is from an attempt yet to come, and the base of the session has
\* none of its own attempt.
EditsOK ==
  \A f \in File, n \in 1 .. MaxAttempts :
    /\ n \in repo.work[f] \cup repo.head[f] \cup tree.work[f] \cup tree.head[f]
         => n <= task.attempt /\ task.phase # "new"
    /\ session.live /\ n \in session.base[f] => n < task.attempt

\* Nothing is taken out of a file again, and in a worktree the user's edits are
\* where the base of its diff has them, but for what a failed dispatch spilled.
BaseOK ==
  config.isolated =>
    \A f \in File :
      /\ repo.head[f] \subseteq repo.work[f]
      /\ session.base[f] \subseteq tree.head[f] /\ tree.head[f] \subseteq tree.work[f]
      /\ f \notin tree.spilled =>
           /\ UserEdit \in tree.work[f] => UserEdit \in tree.head[f]
           /\ session.live /\ UserEdit \in tree.head[f] => UserEdit \in session.base[f]

IInv == TypesOK /\ WorkerOK /\ EditsOK /\ BaseOK

LEMMA Constants ==
  /\ MaxAttempts \in Nat /\ MaxAttempts >= 1
  /\ Configs \subseteq Config /\ \A c \in Configs : c.snapshot = "tracked" => c.isolated
  /\ Runs \in [1 .. MaxAttempts -> SUBSET Run]
  /\ UserFiles \subseteq File
  BY ConstantsAssumption

LEMMA Literals ==
  /\ NoPatch \in Patch /\ NoReceipt \in Receipt /\ NoRun \in Run
  /\ Undecided \in Decision
  /\ Original \in Files
<1>1. NoPatch \in Patch
  BY DEF NoPatch, Patch
<1>2. NoReceipt \in Receipt
  BY <1>1 DEF NoReceipt, Receipt, Scope, Validation, Commit, Warning, BlockerType
<1>3. NoRun \in Run
  BY <1>2 DEF NoRun, Run, ExecutorErrors
<1>4. Undecided \in Decision
  BY DEF Undecided, Decision
<1>5. Original \in Files
  BY DEF Original, Files, Content
<1> QED
  BY <1>1, <1>2, <1>3, <1>4, <1>5

LEMMA InitOK == Init => IInv
<1> SUFFICES ASSUME Init PROVE IInv
  OBVIOUS
<1>1. TypesOK
  <2>1. NoTree \in TreeRow
    BY Literals DEF NoTree, NewTree, TreeRow
  <2> QED
    BY <2>1, Constants, Literals
       DEF Init, TypesOK, FreshAttempt, TaskRow, NoSession, SessionRow, Checkout, Files
<1>2. WorkerOK
  BY DEF Init, WorkerOK, FreshAttempt, NoSession
<1>3. EditsOK
  BY DEF Init, EditsOK, Original, NoTree, NewTree, NoSession
<1>4. BaseOK
  BY DEF Init, BaseOK, Original, NoTree, NewTree, NoSession
<1> QED
  BY <1>1, <1>2, <1>3, <1>4 DEF IInv
-----------------------------------------------------------------------------
(* Dispatch.                                                               *)

LEMMA WorktreeOK ==
  ASSUME IInv, config.isolated
  PROVE  /\ Worktree \in TreeRow /\ Worktree.exists
         /\ tree.exists => Worktree = tree
         /\ \A f \in File :
              /\ session.base[f] \subseteq Worktree.head[f]
              /\ Worktree.head[f] \subseteq Worktree.work[f]
              /\ f \notin Worktree.spilled =>
                   /\ UserEdit \in Worktree.work[f] => UserEdit \in Worktree.head[f]
                   /\ session.live /\ UserEdit \in Worktree.head[f] => UserEdit \in session.base[f]
         /\ \A f \in File, n \in 1 .. MaxAttempts :
              n \in Worktree.work[f] \cup Worktree.head[f] => n <= task.attempt /\ task.phase # "new"
<1>1. CASE tree.exists
  BY <1>1 DEF IInv, TypesOK, TreeRow, Worktree, BaseOK, EditsOK
<1>2. CASE ~tree.exists
  <2>1. Worktree = NewTree(repo.head) /\ repo.head \in Files
    BY <1>2 DEF Worktree, IInv, TypesOK, Checkout, Files
  <2>2. session = NoSession
    BY <1>2 DEF IInv, WorkerOK
  <2>3. \A f \in File : session.base[f] = {} /\ ~session.live
    BY <2>2 DEF NoSession, Original
  <2> QED
    BY <1>2, <2>1, <2>3 DEF NewTree, TreeRow, IInv, EditsOK
<1> QED
  BY <1>1, <1>2

(* What a dispatch makes of a worktree: edits come in from the repository, *)
(* none goes, and what is committed is what is there.                      *)
Grown(wt, to) ==
  /\ to \in TreeRow /\ to.exists = wt.exists /\ to.spilled = wt.spilled
  /\ \A f \in File :
       /\ wt.work[f] \subseteq to.work[f] /\ to.work[f] \subseteq wt.work[f] \cup repo.work[f]
       /\ to.head[f] \in {wt.head[f], to.work[f]}

LEMMA PatchedIsGrown ==
  ASSUME IInv, config.isolated, NEW wt \in TreeRow, NEW F \in SUBSET File
  PROVE  /\ Grown(wt, Patched(wt, F)) /\ Patched(wt, F).head = wt.head
         /\ F = {} => Patched(wt, F).work = wt.work
<1> DEFINE C == Conflicting(wt, F)
           P == Patched(wt, F)
           W == [f \in File |-> IF f \in C THEN wt.work[f] \cup repo.work[f]
                                ELSE IF f \in F THEN repo.work[f] ELSE wt.work[f]]
           X == [f \in File |-> IF f \in F \ C THEN repo.work[f] ELSE wt.index[f]]
<1>1. /\ repo.work \in Files /\ \A f \in File : repo.head[f] \subseteq repo.work[f]
  BY DEF IInv, TypesOK, Checkout, Files, BaseOK
<1>2. C \subseteq F /\ \A f \in F \ C : wt.work[f] \in {repo.head[f], repo.work[f]}
  BY DEF Conflicting
<1> HIDE DEF C
<1>3. W \in Files /\ X \in Files
  BY <1>1 DEF TreeRow, Files, Content
<1>4. CASE ~PatchStarts(wt, F)
  BY <1>4 DEF Grown, Patched
<1>5. CASE PatchStarts(wt, F)
  <2>1. P = [wt EXCEPT !.work = W, !.index = X, !.unmerged = @ \cup C]
    BY <1>5 DEF Patched, C
  <2>2. /\ P \in TreeRow /\ P.exists = wt.exists /\ P.spilled = wt.spilled /\ P.head = wt.head
        /\ P.work = W
    BY <2>1, <1>2, <1>3 DEF TreeRow
  <2>3. \A f \in File : wt.work[f] \subseteq W[f] /\ W[f] \subseteq wt.work[f] \cup repo.work[f]
    BY <1>1, <1>2
  <2>4. F = {} => W = wt.work
    BY <1>2 DEF TreeRow, Files
  <2> HIDE DEF W, X, P
  <2> QED
    BY <2>2, <2>3, <2>4 DEF Grown, P
<1> QED
  BY <1>4, <1>5

LEMMA GrownTwice ==
  ASSUME NEW wt, NEW mid, NEW to, Grown(wt, mid), Grown(mid, to), mid.head = wt.head
  PROVE  Grown(wt, to)
  BY DEF Grown

LEMMA SnapshotIsFiles == Snapshot \subseteq File
  BY DEF Snapshot, Dirty, Changed

(* The stages of a dispatch on its way to the baseline commit.             *)
LEMMA StagesAreGrown ==
  ASSUME IInv, config.isolated
  PROVE  /\ Grown(Worktree, SnapshotApplied)
         /\ Grown(Worktree, Added(SnapshotApplied))
         /\ Grown(Worktree, BaselineCommit(SnapshotApplied))
         /\ IF Snapshot = {}
            THEN /\ BaselineCommit(SnapshotApplied).work = Worktree.work
                 /\ BaselineCommit(SnapshotApplied).head = Worktree.head
            ELSE BaselineCommit(SnapshotApplied).head = BaselineCommit(SnapshotApplied).work
<1> DEFINE W == Worktree
           A == SnapshotApplied
           D == Added(A)
           B == BaselineCommit(A)
<1>1. Grown(W, A) /\ A.head = W.head /\ (Snapshot = {} => A.work = W.work)
  BY WorktreeOK, SnapshotIsFiles, PatchedIsGrown DEF SnapshotApplied
<1>2. A \in TreeRow
  BY <1>1 DEF Grown
<1> HIDE DEF A, W
<1>3. CASE Snapshot = {}
  BY <1>1, <1>3 DEF Added, BaselineCommit, A, W
<1>4. CASE Snapshot # {}
  <2>1. D = [A EXCEPT !.index = A.work, !.unmerged = {}]
    BY <1>4 DEF Added
  <2>2. D \in TreeRow /\ D.exists = A.exists /\ D.spilled = A.spilled /\ D.work = A.work
        /\ D.head = A.head
    BY <1>2, <2>1 DEF TreeRow
  <2>3. B = [D EXCEPT !.head = A.work]
    BY <1>4 DEF BaselineCommit
  <2> HIDE DEF D
  <2>4. B \in TreeRow /\ B.exists = A.exists /\ B.spilled = A.spilled /\ B.work = A.work
        /\ B.head = A.work
    BY <1>2, <2>2, <2>3 DEF TreeRow
  <2> HIDE DEF B
  <2>5. Grown(W, D) /\ Grown(W, B)
    BY <1>1, <2>2, <2>4 DEF Grown
  <2> QED
    BY <1>1, <1>4, <2>4, <2>5 DEF A, B, D, W
<1> QED
  BY <1>3, <1>4

(* What is left by a dispatch that failed.                                 *)
LEMMA LeftIsGrown ==
  ASSUME IInv, config.isolated, NEW left \in LeftByFailure
  PROVE  left = tree \/ Grown(Worktree, left)
<1>1. CASE left = tree
  BY <1>1
<1>2. CASE left = Worktree
  BY <1>2, WorktreeOK DEF Grown
<1>3. CASE left \in {SnapshotApplied, Added(SnapshotApplied), BaselineCommit(SnapshotApplied)}
  BY <1>3, StagesAreGrown
<1>4. ASSUME NEW staged \in SUBSET Snapshot, left = PartlyApplied(staged)
      PROVE  Grown(Worktree, left)
  <2> DEFINE first == Patched(Worktree, staged)
  <2>1. Grown(Worktree, first) /\ first.head = Worktree.head
    BY WorktreeOK, SnapshotIsFiles, PatchedIsGrown
  <2>2. first \in TreeRow
    BY <2>1 DEF Grown
  <2>3. left \in {first, Patched(first, Snapshot \ staged)}
    BY <1>4 DEF PartlyApplied
  <2> HIDE DEF first
  <2>4. Snapshot \ staged \in SUBSET File
    BY SnapshotIsFiles
  <2>5. Grown(first, Patched(first, Snapshot \ staged))
    BY <2>2, <2>4, PatchedIsGrown
  <2> QED
    BY <2>1, <2>3, <2>5, GrownTwice
<1> QED
  BY <1>1, <1>2, <1>3, <1>4 DEF LeftByFailure

\* The worktree after a dispatch that succeeds.
LEMMA BaselineOK ==
  ASSUME IInv, config.isolated
  PROVE  LET B == Rebased(BaselineCommit(SnapshotApplied)) IN
         /\ B \in TreeRow /\ B.exists
         /\ \A f \in File :
              /\ B.head[f] \subseteq B.work[f]
              /\ f \notin B.spilled => (UserEdit \in B.work[f] => UserEdit \in B.head[f])
         /\ \A f \in File, n \in 1 .. MaxAttempts :
              n \in B.work[f] \cup B.head[f] => n <= task.attempt /\ task.phase # "new"
<1> DEFINE W == Worktree
           D == BaselineCommit(SnapshotApplied)
           B == Rebased(D)
<1>1. Grown(W, D) /\ IF Snapshot = {} THEN D.work = W.work /\ D.head = W.head
                     ELSE D.head = D.work
  BY StagesAreGrown
<1>2. D \in TreeRow /\ D.exists = W.exists /\ D.spilled = W.spilled
  BY <1>1 DEF Grown
<1> HIDE DEF D
<1>3. /\ B.head = D.head /\ B.work = D.work /\ B.exists = D.exists /\ B \in TreeRow
      /\ B.spilled = {f \in D.spilled : D.head[f] # D.work[f]}
  BY <1>2 DEF Rebased, TreeRow
<1> HIDE DEF B, W
<1>4. /\ W.exists
      /\ \A f \in File : /\ W.head[f] \subseteq W.work[f]
                         /\ f \notin W.spilled => (UserEdit \in W.work[f] => UserEdit \in W.head[f])
      /\ \A f \in File, n \in 1 .. MaxAttempts :
           n \in W.work[f] \cup W.head[f] => n <= task.attempt /\ task.phase # "new"
  BY WorktreeOK DEF W
<1>5. \A f \in File : B.head[f] \subseteq B.work[f]
  BY <1>1, <1>3, <1>4
<1>6. \A f \in File : f \notin B.spilled => (UserEdit \in B.work[f] => UserEdit \in B.head[f])
  BY <1>1, <1>2, <1>3, <1>4
<1>7. ASSUME NEW f \in File, NEW n \in 1 .. MaxAttempts, n \in B.work[f] \cup B.head[f]
      PROVE  n <= task.attempt /\ task.phase # "new"
  <2>1. n \in W.work[f] \cup W.head[f] \cup repo.work[f]
    BY <1>1, <1>3, <1>7 DEF Grown
  <2> QED
    BY <2>1, <1>4 DEF IInv, EditsOK
<1> QED
  BY <1>2, <1>3, <1>4, <1>5, <1>6, <1>7 DEF B, D

LEMMA NewSessionOK ==
  ASSUME NEW checkout, NEW dirty, checkout.head \in Files, dirty \subseteq File
  PROVE  NewSession(checkout, dirty) \in SessionRow
  BY DEF NewSession, SessionRow

LEMMA DirtyIsFiles == \A checkout : Dirty(checkout) \subseteq File
  BY DEF Dirty, Changed

(* What a dispatch leaves: attempt is the one it is for.                   *)
LEMMA DispatchOK ==
  ASSUME IInv, DispatchSucceeds, task' \in TaskRow, task'.phase = "acked",
         task'.attempt >= task.attempt, task.phase # "new" => task'.attempt > task.attempt
  PROVE  IInv'
<1> USE Constants
<1>1. /\ session' \in SessionRow /\ tree' \in TreeRow /\ session'.live
      /\ config.isolated => tree'.exists
  <2>1. CASE config.isolated
    <3>1. tree' \in TreeRow /\ tree'.exists /\ session' = NewSession(tree', Dirty(SnapshotApplied))
      BY <2>1, BaselineOK DEF DispatchSucceeds
    <3>2. tree'.head \in Files
      BY <3>1 DEF TreeRow
    <3>3. session' \in SessionRow
      BY <3>1, <3>2, NewSessionOK, DirtyIsFiles
    <3> QED
      BY <3>1, <3>3 DEF NewSession
  <2>2. CASE ~config.isolated
    <3>1. session' = NewSession(repo, Dirty(repo)) /\ tree' = tree
      BY <2>2 DEF DispatchSucceeds
    <3>2. repo.head \in Files /\ tree \in TreeRow
      BY DEF IInv, TypesOK, Checkout, Files
    <3>3. session' \in SessionRow
      BY <3>1, <3>2, NewSessionOK, DirtyIsFiles
    <3> QED
      BY <2>2, <3>1, <3>2, <3>3 DEF NewSession
  <2> QED
    BY <2>1, <2>2
<1>2. TypesOK'
  BY <1>1, Literals DEF IInv, TypesOK, DispatchSucceeds
<1>3. WorkerOK'
  BY <1>1 DEF WorkerOK, DispatchSucceeds
<1>4. task.attempt \in Nat /\ task'.attempt \in Nat
  BY DEF IInv, TypesOK, TaskRow
<1>5. EditsOK'
  <2> SUFFICES ASSUME NEW f \in File, NEW n \in 1 .. MaxAttempts
               PROVE  /\ n \in repo'.work[f] \cup repo'.head[f] \cup tree'.work[f] \cup tree'.head[f]
                            => n <= task'.attempt
                      /\ n \in session'.base[f] => n < task'.attempt
    BY <1>4 DEF EditsOK
  <2>1. CASE config.isolated
    <3>1. n \in repo.work[f] \cup repo.head[f] \cup tree'.work[f] \cup tree'.head[f]
            => n <= task.attempt /\ task.phase # "new"
      BY <2>1, BaselineOK DEF DispatchSucceeds, IInv, EditsOK
    <3>2. session'.base[f] = tree'.head[f] /\ repo' = repo
      BY <2>1 DEF DispatchSucceeds, NewSession
    <3> QED
      BY <3>1, <3>2, <1>4
  <2>2. CASE ~config.isolated
    <3>1. n \in repo.work[f] \cup repo.head[f] \cup tree.work[f] \cup tree.head[f]
            => n <= task.attempt /\ task.phase # "new"
      BY DEF IInv, EditsOK
    <3>2. session'.base[f] = repo.head[f] /\ repo' = repo /\ tree' = tree
      BY <2>2 DEF DispatchSucceeds, NewSession
    <3> QED
      BY <3>1, <3>2, <1>4
  <2> QED
    BY <2>1, <2>2
<1>6. BaseOK'
  BY BaselineOK DEF BaseOK, DispatchSucceeds, NewSession, IInv
<1> QED
  BY <1>2, <1>3, <1>5, <1>6 DEF IInv

(* The worktree after a dispatch that fails.                               *)
LEMMA FailedTree ==
  ASSUME IInv, DispatchFails, config.isolated
  PROVE  /\ tree' \in TreeRow /\ (tree.exists => tree'.exists)
         /\ \A f \in File :
              /\ session.base[f] \subseteq tree'.head[f] /\ tree'.head[f] \subseteq tree'.work[f]
              /\ tree.exists => tree.head[f] \subseteq tree'.head[f]
              /\ f \notin tree'.spilled =>
                   /\ UserEdit \in tree'.work[f] => UserEdit \in tree'.head[f]
                   /\ session.live /\ UserEdit \in tree'.head[f] => UserEdit \in session.base[f]
         /\ \A f \in File, n \in 1 .. MaxAttempts :
              n \in tree'.work[f] \cup tree'.head[f] => n <= task.attempt /\ task.phase # "new"
<1>1. PICK left \in LeftByFailure :
        tree' = [left EXCEPT !.spilled = @ \cup Changed(Worktree.work, left.work)]
  BY DEF DispatchFails
<1> DEFINE W == Worktree
           S == Changed(W.work, left.work)
<1>2. S \subseteq File /\ \A f \in File \ S : left.work[f] = W.work[f]
  BY DEF Changed
<1>3. tree' = [left EXCEPT !.spilled = @ \cup S]
  BY <1>1
<1> HIDE DEF S
<1>4. CASE left = tree
  <2>1. /\ tree' \in TreeRow /\ tree'.exists = tree.exists /\ tree'.head = tree.head
        /\ tree'.work = tree.work /\ tree'.spilled = tree.spilled \cup S
    BY <1>2, <1>3, <1>4 DEF IInv, TypesOK, TreeRow
  <2> QED
    BY <2>1 DEF IInv, BaseOK, EditsOK
<1>5. CASE Grown(W, left)
  <2>1. left \in TreeRow
    BY <1>5 DEF Grown
  <2>2. /\ tree' \in TreeRow /\ tree'.exists = left.exists /\ tree'.head = left.head
        /\ tree'.work = left.work /\ tree'.spilled = left.spilled \cup S
    BY <1>2, <1>3, <2>1 DEF TreeRow
  <2>3. /\ W.exists /\ (tree.exists => W = tree)
        /\ \A f \in File :
             /\ session.base[f] \subseteq W.head[f] /\ W.head[f] \subseteq W.work[f]
             /\ f \notin W.spilled =>
                  /\ UserEdit \in W.work[f] => UserEdit \in W.head[f]
                  /\ session.live /\ UserEdit \in W.head[f] => UserEdit \in session.base[f]
        /\ \A f \in File, n \in 1 .. MaxAttempts :
             n \in W.work[f] \cup W.head[f] => n <= task.attempt /\ task.phase # "new"
    BY WorktreeOK
  <2> HIDE DEF W
  <2>4. ASSUME NEW f \in File
        PROVE  /\ W.work[f] \subseteq left.work[f]
               /\ left.work[f] \subseteq W.work[f] \cup repo.work[f]
               /\ left.head[f] \in {W.head[f], left.work[f]}
    BY <1>5 DEF Grown
  <2>5. ASSUME NEW f \in File
        PROVE  /\ session.base[f] \subseteq left.head[f] /\ left.head[f] \subseteq left.work[f]
               /\ W.head[f] \subseteq left.head[f]
    BY <2>3, <2>4
  <2>6. ASSUME NEW f \in File, f \notin left.spilled \cup S
        PROVE  /\ UserEdit \in left.work[f] => UserEdit \in left.head[f]
               /\ session.live /\ UserEdit \in left.head[f] => UserEdit \in session.base[f]
    <3>1. left.work[f] = W.work[f] /\ f \notin W.spilled
      BY <1>2, <1>5, <2>6 DEF Grown
    <3> QED
      BY <3>1, <2>3, <2>4
  <2>7. ASSUME NEW f \in File, NEW n \in 1 .. MaxAttempts, n \in left.work[f] \cup left.head[f]
        PROVE  n <= task.attempt /\ task.phase # "new"
    <3>1. n \in W.work[f] \cup W.head[f] \cup repo.work[f]
      BY <2>4, <2>7
    <3> QED
      BY <3>1, <2>3 DEF IInv, EditsOK
  <2>8. tree'.exists /\ (tree.exists => W = tree)
    BY <1>5, <2>2, <2>3 DEF Grown
  <2> QED
    BY <2>2, <2>5, <2>6, <2>7, <2>8
<1> QED
  BY <1>4, <1>5, LeftIsGrown

LEMMA DispatchFailsOK ==
  ASSUME IInv, DispatchFails, task' \in TaskRow, task'.phase \in {"blocked", "ready_for_review"},
         task'.attempt = task.attempt, task.phase = "new" \/ UNCHANGED task
  PROVE  IInv'
<1>1. UNCHANGED <<config, session, worker, run, repo>> /\ (~config.isolated => tree' = tree)
  BY DEF DispatchFails
<1>2. tree' \in TreeRow
  BY <1>1, FailedTree DEF IInv, TypesOK
<1>3. TypesOK'
  BY <1>1, <1>2 DEF IInv, TypesOK
<1>4. WorkerOK'
  BY <1>1, FailedTree DEF IInv, WorkerOK
<1>5. EditsOK'
  <2>1. CASE config.isolated
    BY <1>1, <2>1, FailedTree DEF IInv, EditsOK
  <2>2. CASE ~config.isolated
    BY <1>1, <2>2 DEF IInv, EditsOK
  <2> QED
    BY <2>1, <2>2
<1>6. BaseOK'
  BY <1>1, FailedTree DEF IInv, BaseOK
<1> QED
  BY <1>3, <1>4, <1>5, <1>6 DEF IInv
-----------------------------------------------------------------------------
(* The executor and the user.                                              *)

(* An executor edits in its worktree, or in the repository.                *)
LEMMA WorkerEditsDoes ==
  ASSUME IInv, NEW f \in File, WorkerEdits(f)
  PROVE  LET more == [g \in File |-> IF g = f THEN {task.attempt} ELSE {}] IN
         /\ task.attempt \in 1 .. MaxAttempts /\ task.phase = "acked"
         /\ repo' \in Checkout /\ tree' \in TreeRow
         /\ repo'.head = repo.head
         /\ tree'.head = tree.head /\ tree'.exists = tree.exists /\ tree'.spilled = tree.spilled
         /\ IF config.isolated
            THEN repo' = repo /\ \A g \in File : tree'.work[g] = tree.work[g] \cup more[g]
            ELSE tree' = tree /\ \A g \in File : repo'.work[g] = repo.work[g] \cup more[g]
<1>1. /\ repo \in Checkout /\ tree \in TreeRow /\ task.attempt \in 1 .. MaxAttempts
      /\ task.phase = "acked"
  BY DEF IInv, TypesOK, TaskRow, WorkerOK, WorkerEdits
<1>2. {task.attempt} \in SUBSET (0 .. MaxAttempts)
  BY <1>1, Constants
<1>3. CASE config.isolated
  <2>1. /\ repo' = repo
        /\ tree' = [tree EXCEPT !.work = [tree.work EXCEPT ![f] = @ \cup {task.attempt}]]
    BY <1>1, <1>3 DEF WorkerEdits, TreeRow
  <2>2. [tree.work EXCEPT ![f] = @ \cup {task.attempt}] \in Files
    BY <1>1, <1>2 DEF TreeRow, Files, Content
  <2> QED
    BY <1>1, <1>3, <2>1, <2>2 DEF TreeRow, Files
<1>4. CASE ~config.isolated
  <2>1. /\ tree' = tree
        /\ repo' = [repo EXCEPT !.work = [repo.work EXCEPT ![f] = @ \cup {task.attempt}]]
    BY <1>1, <1>4 DEF WorkerEdits, Checkout
  <2>2. [repo.work EXCEPT ![f] = @ \cup {task.attempt}] \in Files
    BY <1>1, <1>2 DEF Checkout, Files, Content
  <2> QED
    BY <1>1, <1>4, <2>1, <2>2 DEF Checkout, Files
<1> QED
  BY <1>3, <1>4

LEMMA WorkerEditsOK ==
  ASSUME IInv, NEW f \in File, WorkerEdits(f)
  PROVE  IInv' /\ \A g \in File : repo.work[g] \subseteq repo'.work[g]
<1> DEFINE more == [g \in File |-> IF g = f THEN {task.attempt} ELSE {}]
<1>1. /\ task.attempt \in 1 .. MaxAttempts /\ task.phase = "acked"
      /\ repo' \in Checkout /\ tree' \in TreeRow
      /\ repo'.head = repo.head
      /\ tree'.head = tree.head /\ tree'.exists = tree.exists /\ tree'.spilled = tree.spilled
      /\ IF config.isolated
         THEN repo' = repo /\ \A g \in File : tree'.work[g] = tree.work[g] \cup more[g]
         ELSE tree' = tree /\ \A g \in File : repo'.work[g] = repo.work[g] \cup more[g]
  BY WorkerEditsDoes
<1>2. UNCHANGED <<config, task, session, worker, run>>
  BY DEF WorkerEdits
<1>3. \A g \in File : more[g] \subseteq {task.attempt}
  OBVIOUS
<1> HIDE DEF more
<1>4. TypesOK' /\ WorkerOK'
  BY <1>1, <1>2 DEF IInv, TypesOK, WorkerOK
<1>5. EditsOK'
  <2> SUFFICES ASSUME NEW g \in File, NEW n \in 1 .. MaxAttempts
               PROVE  /\ n \in repo'.work[g] \cup repo'.head[g] \cup tree'.work[g] \cup tree'.head[g]
                            => n <= task.attempt
                      /\ session.live /\ n \in session.base[g] => n < task.attempt
    BY <1>1, <1>2 DEF EditsOK
  <2>1. n \in repo'.work[g] \cup repo'.head[g] \cup tree'.work[g] \cup tree'.head[g]
          => n \in repo.work[g] \cup repo.head[g] \cup tree.work[g] \cup tree.head[g]
               \/ n = task.attempt
    <3>1. CASE config.isolated
      BY <3>1, <1>1, <1>3
    <3>2. CASE ~config.isolated
      BY <3>2, <1>1, <1>3
    <3> QED
      BY <3>1, <3>2
  <2> QED
    BY <1>1, <2>1, Constants DEF IInv, EditsOK
<1>6. BaseOK'
  <2> SUFFICES ASSUME config.isolated, NEW g \in File
               PROVE  /\ repo'.head[g] \subseteq repo'.work[g]
                      /\ session.base[g] \subseteq tree'.head[g] /\ tree'.head[g] \subseteq tree'.work[g]
                      /\ g \notin tree'.spilled =>
                           /\ UserEdit \in tree'.work[g] => UserEdit \in tree'.head[g]
                           /\ session.live /\ UserEdit \in tree'.head[g]
                                => UserEdit \in session.base[g]
    BY <1>2 DEF BaseOK
  <2>1. UserEdit \in tree'.work[g] => UserEdit \in tree.work[g]
    <3>1. UserEdit # task.attempt
      BY <1>1 DEF UserEdit
    <3> QED
      BY <3>1, <1>1, <1>3
  <2> QED
    BY <1>1, <2>1 DEF IInv, BaseOK
<1>7. \A g \in File : repo.work[g] \subseteq repo'.work[g]
  BY <1>1
<1> QED
  BY <1>4, <1>5, <1>6, <1>7 DEF IInv

LEMMA WorkerCommitsOK ==
  ASSUME IInv, WorkerCommits
  PROVE  IInv' /\ repo'.work = repo.work
<1>1. repo \in Checkout /\ tree \in TreeRow
  BY DEF IInv, TypesOK
<1>2. /\ repo' \in Checkout /\ repo'.work = repo.work /\ tree' \in TreeRow
      /\ tree'.work = tree.work /\ tree'.exists = tree.exists /\ tree'.spilled = tree.spilled
      /\ IF config.isolated THEN repo' = repo /\ tree'.head = tree.work
         ELSE tree' = tree /\ repo'.head = repo.work
  <2>1. CASE config.isolated
    BY <1>1, <2>1 DEF WorkerCommits, TreeRow
  <2>2. CASE ~config.isolated
    BY <1>1, <2>2 DEF WorkerCommits, Checkout
  <2> QED
    BY <2>1, <2>2
<1>3. /\ session' \in SessionRow /\ session'.live = session.live
      /\ session'.base = session.base
  <2>1. session \in SessionRow
    BY DEF IInv, TypesOK
  <2>2. PICK named \in BOOLEAN : session' = [session EXCEPT !.owned = @ \/ named]
    BY DEF WorkerCommits
  <2>3. (session.owned \/ named) \in BOOLEAN
    BY <2>1 DEF SessionRow
  <2> QED
    BY <2>1, <2>2, <2>3 DEF SessionRow
<1>4. UNCHANGED <<config, task, worker, run>> /\ worker = "running"
  BY DEF WorkerCommits
<1>5. TypesOK'
  BY <1>2, <1>3, <1>4 DEF IInv, TypesOK
<1>6. WorkerOK'
  BY <1>2, <1>3, <1>4 DEF IInv, WorkerOK
<1>7. EditsOK'
  BY <1>2, <1>3, <1>4 DEF IInv, EditsOK
<1>8. BaseOK'
  BY <1>2, <1>3, <1>4 DEF IInv, BaseOK
<1> QED
  BY <1>2, <1>5, <1>6, <1>7, <1>8 DEF IInv

LEMMA WorkerEndsOK == ASSUME IInv, WorkerEnds PROVE IInv'
<1>1. run' \in Runs[task.attempt] /\ run' \in Run
  <2>1. task.attempt \in 1 .. MaxAttempts
    BY DEF IInv, TypesOK, TaskRow
  <2> QED
    BY <2>1, Constants DEF WorkerEnds
<1>2. TypesOK' /\ WorkerOK'
  BY <1>1 DEF IInv, TypesOK, WorkerOK, WorkerEnds, files
<1>3. EditsOK' /\ BaseOK'
  BY DEF IInv, EditsOK, BaseOK, WorkerEnds, files
<1> QED
  BY <1>2, <1>3 DEF IInv

LEMMA UserEditsOK ==
  ASSUME IInv, NEW f \in File, UserEdits(f)
  PROVE  IInv' /\ \A g \in File : repo.work[g] \subseteq repo'.work[g]
<1>1. repo \in Checkout
  BY DEF IInv, TypesOK
<1>2. /\ repo'.head = repo.head /\ repo' \in Checkout
      /\ \A g \in File : repo'.work[g] = IF g = f THEN repo.work[g] \cup {UserEdit} ELSE repo.work[g]
  <2>1. repo' = [repo EXCEPT !.work = [repo.work EXCEPT ![f] = @ \cup {UserEdit}]]
    BY <1>1 DEF UserEdits, Checkout
  <2>2. [repo.work EXCEPT ![f] = @ \cup {UserEdit}] \in Files
    BY <1>1, Constants DEF Checkout, Files, Content, UserEdit
  <2> QED
    BY <1>1, <2>1, <2>2 DEF Checkout, Files
<1>3. TypesOK' /\ WorkerOK' /\ BaseOK'
  BY <1>2 DEF IInv, TypesOK, WorkerOK, BaseOK, UserEdits
<1>4. EditsOK'
  BY <1>2 DEF IInv, EditsOK, UserEdits, UserEdit
<1> QED
  BY <1>2, <1>3, <1>4 DEF IInv
-----------------------------------------------------------------------------
(* Applying a patch.                                                       *)

(* The files grow from the base of the diff on, and what the user has      *)
(* edited was in it then, or was spilled.                                  *)
LEMMA DiffBaseHasIt ==
  ASSUME IInv, config.isolated, NEW f \in File
  PROVE  /\ DiffBase[f] \subseteq tree.work[f]
         /\ f \notin tree.spilled /\ UserEdit \in tree.work[f] => UserEdit \in DiffBase[f]
  BY DEF IInv, BaseOK, DiffBase

LEMMA ApplyOK ==
  ASSUME IInv, NEW force \in BOOLEAN, Apply(force)
  PROVE  /\ IInv'
         /\ \A f \in File : UserEdit \in repo.work[f] => UserEdit \in repo'.work[f]
<1>1. /\ repo \in Checkout /\ tree \in TreeRow
  BY DEF IInv, TypesOK
<1>2. /\ repo'.head = repo.head /\ repo' \in Checkout
      /\ \A f \in File : repo'.work[f] = IF f \in Diff THEN tree.work[f] ELSE repo.work[f]
  <2>1. repo' = [repo EXCEPT !.work = [f \in File |-> IF f \in Diff THEN tree.work[f]
                                                      ELSE repo.work[f]]]
    BY <1>1 DEF Apply, Checkout
  <2>2. [f \in File |-> IF f \in Diff THEN tree.work[f] ELSE repo.work[f]] \in Files
    BY <1>1 DEF Checkout, TreeRow, Files
  <2> QED
    BY <1>1, <2>1, <2>2 DEF Checkout, Files
<1>3. TypesOK' /\ WorkerOK'
  BY <1>2 DEF IInv, TypesOK, WorkerOK, Apply
<1>4. EditsOK'
  BY <1>2 DEF IInv, EditsOK, Apply
<1>5. ASSUME NEW f \in File
      PROVE  repo.work[f] \subseteq repo'.work[f]
  <2>1. CASE f \in Diff
    <3>1. repo.work[f] = DiffBase[f] /\ config.isolated
      BY <2>1 DEF Apply, PatchApplies
    <3> QED
      BY <1>2, <1>5, <2>1, <3>1, DiffBaseHasIt
  <2>2. CASE f \notin Diff
    BY <1>2, <1>5, <2>2
  <2> QED
    BY <2>1, <2>2
<1>6. BaseOK'
  BY <1>2, <1>5 DEF IInv, BaseOK, Apply
<1> QED
  BY <1>2, <1>3, <1>4, <1>5, <1>6 DEF IInv

LEMMA CleanupOK == ASSUME IInv, Cleanup PROVE IInv'
<1>1. /\ session' \in SessionRow /\ ~session'.live
      /\ task.phase \in {"ready_for_review", "blocked"}
  BY DEF IInv, TypesOK, Cleanup, SessionRow
<1>2. TypesOK'
  BY <1>1 DEF IInv, TypesOK, Cleanup, files
<1>3. WorkerOK'
  <2>1. session.live /\ (session = NoSession => ~session.live)
    BY DEF Cleanup, NoSession
  <2> QED
    BY <1>1, <2>1 DEF IInv, WorkerOK, Cleanup, files
<1>4. session'.base = session.base
  BY DEF IInv, TypesOK, SessionRow, Cleanup
<1>5. EditsOK' /\ BaseOK'
  BY <1>1, <1>4 DEF IInv, EditsOK, BaseOK, Cleanup, files
<1> QED
  BY <1>2, <1>3, <1>5 DEF IInv
-----------------------------------------------------------------------------
(* The rules: types.                                                       *)

LEMMA DiffIsFiles == ASSUME TypesOK PROVE Diff \subseteq File
  BY DEF Diff, Changed, TypesOK, TreeRow

LEMMA BlockedType ==
  ASSUME NEW r \in Receipt, NEW type \in BlockerType
  PROVE  /\ Blocked(r, type) \in Receipt
         /\ Blocked(r, type).status = "BLOCKED" /\ Blocked(r, type).blocker = type
         /\ Blocked(r, type).scope = r.scope
  BY DEF Blocked, Receipt

LEMMA OwnReceipts ==
  /\ NothingReported \in Receipt /\ ReportSalvaged \in Receipt /\ CommitFound \in Receipt
  /\ \A r \in {NothingReported, ReportSalvaged, CommitFound} :
       /\ r.status # "BLOCKED" /\ r.blocker = "none" /\ r.says /\ r.changed = {}
       /\ r.scope = "clean" /\ r.validation = "not_run"
<1>1. /\ NothingReported \in Receipt
      /\ NothingReported.status = "EVIDENCE_PACK" /\ NothingReported.says
      /\ NothingReported.scope = "clean" /\ NothingReported.validation = "not_run"
      /\ NothingReported.changed = {} /\ NothingReported.blocker = "none"
  <2>1. NoReceipt \in Receipt
    BY Literals
  <2>2. NoReceipt.changed = {} /\ NoReceipt.blocker = "none"
    BY DEF NoReceipt
  <2> QED
    BY <2>1, <2>2 DEF NothingReported, Receipt, Scope, Validation
<1>2. /\ ReportSalvaged \in Receipt
      /\ ReportSalvaged.status = "EVIDENCE_PACK" /\ ReportSalvaged.says
      /\ ReportSalvaged.scope = "clean" /\ ReportSalvaged.validation = "not_run"
      /\ ReportSalvaged.changed = {} /\ ReportSalvaged.blocker = "none"
  BY <1>1 DEF ReportSalvaged, Receipt
<1>3. /\ CommitFound \in Receipt
      /\ CommitFound.status = "COMMITTED" /\ CommitFound.says
      /\ CommitFound.scope = "clean" /\ CommitFound.validation = "not_run"
      /\ CommitFound.changed = {} /\ CommitFound.blocker = "none"
  BY <1>1 DEF CommitFound, Receipt, Commit
<1> QED
  BY <1>1, <1>2, <1>3

(* What poll makes of an executor that is over: a receipt of agpair's own, *)
(* a blocked one, or the claim, which then has what poll asks for.         *)
LEMMA ArbitrateIs ==
  ASSUME NEW c, NEW r \in Run, NEW committed \in BOOLEAN
  PROVE  LET a == Arbitrate(c, r, committed) IN
         /\ a \in Receipt
         /\ \/ a.status = "BLOCKED" /\ a.blocker # "none"
            \/ a = NothingReported /\ r.end = "zero" /\ r.log = "none"
            \/ a = ReportSalvaged /\ r.report
            \/ /\ a = CommitFound
               /\ \/ r.end = "zero" /\ r.log = "none"
                  \/ r.end = "died" /\ committed
                  \/ r.end = "hung"
            \/ /\ a = r.claim /\ r.log = "receipt"
               /\ a.status = "BLOCKED" \/ a.scope # "violated"
               /\ RequiredMissing(a, ReadOnly(c)) = {}
<1> DEFINE a == Arbitrate(c, r, committed)
           Good == \/ a.status = "BLOCKED" /\ a.blocker # "none"
                   \/ a = NothingReported /\ r.end = "zero" /\ r.log = "none"
                   \/ a = ReportSalvaged /\ r.report
                   \/ /\ a = CommitFound
                      /\ \/ r.end = "zero" /\ r.log = "none"
                         \/ r.end = "died" /\ committed
                         \/ r.end = "hung"
                   \/ /\ a = r.claim /\ r.log = "receipt"
                      /\ a.status = "BLOCKED" \/ a.scope # "violated"
                      /\ RequiredMissing(a, ReadOnly(c)) = {}
<1> SUFFICES a \in Receipt /\ Good
  OBVIOUS
<1>1. /\ r.end \in {"zero", "nonzero", "died", "hung", "waiting"}
      /\ r.log \in {"none", "malformed", "receipt"} /\ r.claim \in Receipt
      /\ r.report \in BOOLEAN /\ r.error \in ExecutorErrors
  BY DEF Run
<1>2. ASSUME NEW q \in Receipt, NEW type \in BlockerType \ {"none"}, a = Blocked(q, type)
      PROVE  a \in Receipt /\ a.status = "BLOCKED" /\ a.blocker # "none"
  BY <1>2, BlockedType
<1>3. /\ r.error \in BlockerType \ {"none"}
      /\ {"executor_waiting_for_input", "validation_failure", "report_output_missing",
           "terminal_receipt_missing"} \subseteq BlockerType \ {"none"}
  BY <1>1 DEF BlockerType, ExecutorErrors, CompletionBlockers, GlobalHardBlockers
<1>4. CASE r.end = "hung"
  BY <1>4, OwnReceipts DEF Arbitrate
<1>5. CASE r.end = "waiting"
  <2>1. a = Blocked(NoReceipt, "executor_waiting_for_input")
    BY <1>5 DEF Arbitrate
  <2> QED
    BY <2>1, <1>2, <1>3, Literals
<1>6. CASE r.end = "died"
  <2>1. a = AfterDeath(c, r, committed)
    BY <1>6 DEF Arbitrate
  <2>2. \/ a = CommitFound /\ committed
        \/ a = ReportSalvaged /\ r.report
        \/ a = Blocked(NoReceipt, "report_output_missing")
        \/ a = Blocked(NoReceipt, "terminal_receipt_missing")
    BY <2>1 DEF AfterDeath
  <2> QED
    BY <2>2, <1>2, <1>3, <1>6, Literals, OwnReceipts
<1>7. CASE r.end \in {"zero", "nonzero"} /\ r.log = "receipt"
  <2>1. a = FromStructuredLog(c, r.claim)
    BY <1>7 DEF Arbitrate
  <2>2. \/ a = Blocked(r.claim, "validation_failure")
        \/ /\ a = r.claim
           /\ a.status = "BLOCKED" \/ a.scope # "violated"
           /\ RequiredMissing(a, ReadOnly(c)) = {}
    BY <2>1 DEF FromStructuredLog
  <2> QED
    <3>1. CASE a = Blocked(r.claim, "validation_failure")
      BY <3>1, <1>1, <1>2, <1>3
    <3>2. CASE /\ a = r.claim
               /\ a.status = "BLOCKED" \/ a.scope # "violated"
               /\ RequiredMissing(a, ReadOnly(c)) = {}
      BY <3>2, <1>1, <1>7
    <3> QED
      BY <2>2, <3>1, <3>2
<1>8. CASE r.end \in {"zero", "nonzero"} /\ r.log = "malformed"
  <2>1. a = Blocked(NoReceipt, "validation_failure")
    BY <1>8 DEF Arbitrate
  <2> QED
    BY <2>1, <1>2, <1>3, Literals
<1>9. CASE r.end \in {"zero", "nonzero"} /\ r.log = "none"
  <2>1. a = AfterExit(c, r, committed)
    BY <1>9 DEF Arbitrate
  <2>2. \/ a = CommitFound /\ r.end = "zero"
        \/ a = ReportSalvaged /\ r.report
        \/ a = NothingReported /\ r.end = "zero"
        \/ a = Blocked(NoReceipt, r.error)
        \/ a = Blocked(NoReceipt, "report_output_missing")
    BY <2>1, <1>9 DEF AfterExit
  <2> QED
    <3>1. CASE a = Blocked(NoReceipt, r.error)
      BY <3>1, <1>2, <1>3, Literals
    <3>2. CASE a = Blocked(NoReceipt, "report_output_missing")
      BY <3>2, <1>2, <1>3, Literals
    <3>3. CASE a = CommitFound /\ r.end = "zero"
      <4>1. a \in Receipt
        BY <3>3, OwnReceipts
      <4>2. Good
        BY <3>3, <1>9
      <4> QED
        BY <4>1, <4>2
    <3>4. CASE a = ReportSalvaged /\ r.report
      BY <3>4, OwnReceipts
    <3>5. CASE a = NothingReported /\ r.end = "zero"
      BY <3>5, <1>9, OwnReceipts
    <3> QED
      BY <2>2, <3>1, <3>2, <3>3, <3>4, <3>5
<1> QED
  BY <1>1, <1>4, <1>5, <1>6, <1>7, <1>8, <1>9

(* The facts of a receipt that putting in the diff leaves alone.           *)
LEMMA MergeIs ==
  ASSUME NEW c, NEW r \in Receipt, NEW diff \in SUBSET File, NEW applies \in BOOLEAN
  PROVE  LET m == MergeWorktreeEvidence(c, r, diff, applies)
             merges == c.isolated /\ EffectivePolicy(c) # "report" IN
         /\ m \in Receipt
         /\ m.status = r.status /\ m.blocker = r.blocker /\ m.scope = r.scope
         /\ m.validation = r.validation /\ m.report = r.report /\ m.commit = r.commit
         /\ m.asks = r.asks /\ m.warns = r.warns
         /\ ~merges => m = r
         /\ merges => /\ m.says /\ m.changed = IF r.says THEN r.changed ELSE diff
                      /\ m.patch.given /\ m.patch.files = diff
                      /\ m.patch.ok = (diff # {} /\ applies)
<1> DEFINE P == [given |-> TRUE, files |-> diff, ok |-> diff # {} /\ applies,
                 why |-> IF diff = {} THEN "diff_missing"
                         ELSE IF applies THEN "none" ELSE "apply_conflict"]
<1>1. /\ P \in Patch /\ P.given /\ P.files = diff /\ P.ok = (diff # {} /\ applies)
  BY DEF Patch
<1> HIDE DEF P
<1>2. CASE ~c.isolated \/ EffectivePolicy(c) = "report"
  BY <1>2 DEF MergeWorktreeEvidence
<1>3. CASE c.isolated /\ EffectivePolicy(c) # "report"
  <2>1. MergeWorktreeEvidence(c, r, diff, applies)
          = [r EXCEPT !.says = TRUE, !.changed = IF r.says THEN r.changed ELSE diff, !.patch = P]
    BY <1>3 DEF MergeWorktreeEvidence, P, Receipt
  <2> QED
    BY <1>1, <1>3, <2>1 DEF Receipt
<1> QED
  BY <1>2, <1>3

LEMMA CheckedIs ==
  ASSUME NEW c, NEW r \in Receipt
  PROVE  /\ Checked(c, r) \in Receipt
         /\ Checked(c, r).status = r.status /\ Checked(c, r).blocker = r.blocker
         /\ Checked(c, r).scope = r.scope /\ Checked(c, r).validation = r.validation
         /\ Checked(c, r).report = r.report /\ Checked(c, r).commit = r.commit
         /\ Checked(c, r).asks = r.asks /\ Checked(c, r).says = r.says
         /\ Checked(c, r).changed = r.changed /\ Checked(c, r).patch = r.patch
  BY DEF Checked, Receipt, Warning

LEMMA StoredIs ==
  ASSUME NEW r \in Receipt, NEW reason \in BlockerType
  PROVE  /\ Stored(r, reason) \in Receipt
         /\ Stored(r, reason).blocker \in {r.blocker, reason}
         /\ reason = "none" => Stored(r, reason) = r
         /\ Stored(r, reason).changed = r.changed
         /\ Stored(r, reason).validation = r.validation
         /\ Stored(r, reason).status = IF reason = "none" THEN r.status ELSE "BLOCKED"
  BY DEF Stored, Receipt

LEMMA EvaluateIs ==
  ASSUME NEW c, NEW r \in Receipt, NEW reportFile \in BOOLEAN
  PROVE  LET reason == EvaluateCompletion(c, r, reportFile) IN
         /\ reason \in BlockerType
         /\ reason = "none" => r.status # "BLOCKED"
         /\ reason # "none" =>
              \/ r.status = "BLOCKED"
              \/ r.scope = "violated"
              \/ RequiredMissing(r, ReportOnly(c)) # {} /\ ~Softened(c, r)
              \/ EffectivePolicy(c) = "commit" /\ r.commit = "none"
              \/ EffectivePolicy(c) = "report" /\ ~reportFile
         /\ reason \in GlobalHardBlockers => r.status = "BLOCKED" /\ r.blocker = reason
<1>1. r.blocker \in BlockerType
  BY DEF Receipt
<1> QED
  BY <1>1 DEF EvaluateCompletion, BlockerType, CompletionBlockers, GlobalHardBlockers
-----------------------------------------------------------------------------
(* The rules: adoption.                                                    *)

ScopeSays == [given : BOOLEAN, undeclared : SUBSET File, missing : SUBSET File]
ArtifactRow == [kind : ArtifactKind, state : {"usable", "needs_review", "blocked"},
                blockers : SUBSET Blocker]
Class == [state : {"usable", "needs_review", "blocked"},
          primary : ArtifactKind \cup {"nothing_useful"}, global : SUBSET Blocker]

LEMMA ArtifactType ==
  ASSUME NEW kind \in ArtifactKind, NEW state \in {"usable", "needs_review", "blocked"},
         NEW blockers \in SUBSET Blocker
  PROVE  /\ Artifact(kind, state, blockers) \in ArtifactRow
         /\ Artifact(kind, state, blockers).kind = kind
         /\ Artifact(kind, state, blockers).state = state
         /\ Artifact(kind, state, blockers).blockers = blockers
  BY DEF Artifact, ArtifactRow

\* The diff is an artifact without blockers when its patch applies and all
\* its files were declared.
LEMMA DiffArtifactIs ==
  ASSUME NEW patch \in Patch, NEW scope \in ScopeSays
  PROVE  /\ DiffArtifact(patch, scope) \in SUBSET ArtifactRow
         /\ \A a \in DiffArtifact(patch, scope) :
              /\ a.kind = "diff"
              /\ a.blockers = {} => patch.ok /\ scope.undeclared = {} /\ scope.missing = {}
         /\ DiffArtifact(patch, scope) = {} => patch.files = {}
<1> DEFINE B == (IF patch.ok THEN {} ELSE {patch.why})
                  \cup (IF scope.undeclared # {} THEN {"undeclared_changes"} ELSE {})
                  \cup (IF scope.missing # {} THEN {"missing_declared_changes"} ELSE {})
<1>1. patch.why \in {"none", "apply_conflict", "diff_missing"}
  BY DEF Patch
<1>2. B \in SUBSET Blocker
  BY <1>1 DEF Blocker, BlockerType
<1>3. B = {} => patch.ok /\ scope.undeclared = {} /\ scope.missing = {}
  OBVIOUS
<1>4. DiffArtifact(patch, scope)
        = IF patch.files = {} THEN {}
          ELSE {Artifact("diff", IF B = {} THEN "usable" ELSE "blocked", B)}
  BY DEF DiffArtifact
<1> HIDE DEF B
<1> QED
  BY <1>2, <1>3, <1>4, ArtifactType DEF ArtifactKind

LEMMA ArtifactsType ==
  ASSUME NEW r \in Receipt, NEW reportFile \in BOOLEAN, NEW stdout \in BOOLEAN,
         NEW scope \in ScopeSays
  PROVE  Artifacts(r, reportFile, stdout, scope) \in SUBSET ArtifactRow
<1>1. /\ Artifact("report", "usable", {}) \in ArtifactRow
      /\ Artifact("stdout_salvage", "needs_review", {}) \in ArtifactRow
      /\ Artifact("diff", "needs_review", {}) \in ArtifactRow
      /\ Artifact("patch_or_commit", "needs_review", {}) \in ArtifactRow
      /\ Artifact("evidence", "usable", {}) \in ArtifactRow
      /\ Artifact("evidence", "needs_review", {}) \in ArtifactRow
  BY ArtifactType DEF ArtifactKind
<1>2. DiffArtifact(r.patch, scope) \in SUBSET ArtifactRow
  BY DiffArtifactIs DEF Receipt
<1> QED
  BY <1>1, <1>2 DEF Artifacts

LEMMA ClassifyIs ==
  ASSUME NEW r \in Receipt, NEW artifacts \in SUBSET ArtifactRow
  PROVE  LET art == Classify(r, artifacts) IN
         /\ art.state \in {"usable", "needs_review", "blocked"}
         /\ art.global \in SUBSET Blocker
         /\ r.blocker \in GlobalHardBlockers => art.state = "blocked" /\ art.global = {r.blocker}
         /\ r.blocker \notin GlobalHardBlockers => art.global \in SUBSET {"no_useful_artifact"}
         /\ art.state = "usable" => \A a \in artifacts : a.state = "usable"
<1>1. r.blocker \in BlockerType
  BY DEF Receipt
<1> QED
  BY <1>1 DEF Classify, Blocker

LEMMA FirstType ==
  ASSUME NEW r \in Receipt, NEW artifacts \in SUBSET ArtifactRow
  PROVE  /\ FirstBlockers(r, artifacts) \in SUBSET Blocker
         /\ FirstBlockers(r, artifacts) = {} => r.status # "BLOCKED"
<1> DEFINE ofArtifacts == UNION {a.blockers : a \in artifacts}
           ofReceipt == IF r.blocker # "none" THEN {r.blocker}
                        ELSE IF r.status = "BLOCKED" THEN {"blocked_terminal_result"} ELSE {}
<1>1. r.blocker \in Blocker /\ "blocked_terminal_result" \in Blocker
  BY DEF Receipt, Blocker
<1>2. ofArtifacts \in SUBSET Blocker
  BY DEF ArtifactRow
<1>3. ofReceipt \in SUBSET Blocker /\ (ofReceipt = {} => r.status # "BLOCKED")
  BY <1>1
<1>4. FirstBlockers(r, artifacts) = ofArtifacts \cup ofReceipt
  BY DEF FirstBlockers
<1> HIDE DEF ofArtifacts, ofReceipt
<1> QED
  BY <1>2, <1>3, <1>4

LEMMA ScopeBlockersIs ==
  ASSUME NEW r \in Receipt, NEW scope \in ScopeSays
  PROVE  /\ ScopeBlockers(r, scope) \in SUBSET Blocker
         /\ ScopeBlockers(r, scope) = {} =>
              scope.undeclared = {} /\ scope.missing = {} /\ r.scope # "violated"
  BY DEF ScopeBlockers, Blocker

Judged == [result : {"yes", "partial", "no"}, blockers : SUBSET Blocker]

LEMMA ReportAdoptionIs ==
  ASSUME NEW r \in Receipt, NEW artifacts \in SUBSET ArtifactRow, NEW art
  PROVE  /\ ReportAdoption(r, art, artifacts) \in Judged
         /\ ReportAdoption(r, art, artifacts).result = "yes" =>
              /\ art.state = "usable" /\ r.status # "BLOCKED"
              /\ \E a \in artifacts : a.kind \in {"report", "stdout_salvage"}
  BY FirstType DEF ReportAdoption, Judged, Blocker

LEMMA CommitAdoptionIs ==
  ASSUME NEW r \in Receipt, NEW artifacts \in SUBSET ArtifactRow, NEW art, NEW scope \in ScopeSays
  PROVE  /\ CommitAdoption(r, art, artifacts, scope) \in Judged
         /\ CommitAdoption(r, art, artifacts, scope).result # "yes"
  BY FirstType, ScopeBlockersIs DEF CommitAdoption, Judged, Blocker

\* What the evidence policy asks for before it says yes.
EvidenceYes(r, artifacts, art, scope) ==
  /\ art.state \notin {"blocked", "needs_review"} /\ r.status # "BLOCKED" /\ r.scope # "violated"
  /\ scope.undeclared = {} /\ (r.patch.given => r.patch.ok)
  /\ r.validation = "absent" => \E a \in artifacts : a.kind \in {"report", "stdout_salvage"}

LEMMA EvidenceAdoptionIs ==
  ASSUME NEW r \in Receipt, NEW artifacts \in SUBSET ArtifactRow, NEW scope \in ScopeSays,
         NEW art, art.global \in SUBSET Blocker
  PROVE  /\ EvidenceAdoption(r, art, artifacts, scope) \in Judged
         /\ EvidenceAdoption(r, art, artifacts, scope).result = "yes"
              => EvidenceYes(r, artifacts, art, scope)
<1> DEFINE changed == IF r.changed # {} THEN r.changed ELSE r.patch.files
           hasReport == \E a \in artifacts : a.kind \in {"report", "stdout_salvage"}
           reportOnly == hasReport /\ changed = {} /\ ~\E a \in artifacts : IsCode(a)
           late == FirstBlockers(r, artifacts)
                     \cup (IF changed # {} /\ scope.given /\ scope.missing # {}
                           THEN {"changed_files_not_present"} ELSE {})
                     \cup ScopeBlockers(r, scope)
                     \cup (IF r.patch.given /\ ~r.patch.ok THEN {r.patch.why} ELSE {})
                     \cup (IF r.validation = "absent" /\ ~reportOnly THEN {"validation_missing"} ELSE {})
           none == art.state = "blocked" \/ ~(hasReport \/ \E a \in InReach(artifacts) : IsCode(a))
           E == EvidenceAdoption(r, art, artifacts, scope)
<1>1. E = IF none
          THEN [result |-> "no",
                blockers |-> FirstBlockers(r, artifacts) \cup art.global \cup {"evidence_missing"}]
          ELSE [result |-> IF late # {} \/ art.state = "needs_review" \/ r.warns # {}
                           THEN "partial" ELSE "yes",
                blockers |-> late]
  BY DEF EvidenceAdoption
<1>2. r.patch.why \in Blocker
  BY DEF Receipt, Patch, Blocker, BlockerType
<1>3. FirstBlockers(r, artifacts) \in SUBSET Blocker /\ ScopeBlockers(r, scope) \in SUBSET Blocker
  BY FirstType, ScopeBlockersIs
<1>4. late \in SUBSET Blocker
  BY <1>2, <1>3 DEF Blocker
<1>5. late = {} => /\ r.status # "BLOCKED" /\ r.scope # "violated"
                   /\ scope.undeclared = {} /\ scope.missing = {}
                   /\ r.patch.given => r.patch.ok
                   /\ r.validation # "absent" \/ hasReport
  BY FirstType, ScopeBlockersIs
<1>6. "evidence_missing" \in Blocker
  BY DEF Blocker
<1> HIDE DEF none, late, E
<1>7. E \in Judged
  BY <1>1, <1>3, <1>4, <1>6 DEF Judged
<1>8. E.result = "yes" => ~none /\ late = {} /\ art.state # "needs_review"
  BY <1>1
<1> QED
  BY <1>5, <1>7, <1>8 DEF none, E, EvidenceYes

\* When every artifact is usable there is no commit, validation was not left
\* out, and a report was written.
LEMMA UsableArtifacts ==
  ASSUME NEW r \in Receipt, NEW reportFile \in BOOLEAN, NEW stdout \in BOOLEAN,
         NEW scope \in ScopeSays,
         \A a \in Artifacts(r, reportFile, stdout, scope) : a.state = "usable"
  PROVE  /\ r.commit = "none" /\ r.validation # "not_run"
         /\ (\E a \in Artifacts(r, reportFile, stdout, scope) :
               a.kind \in {"report", "stdout_salvage"}) => r.report \/ reportFile
<1> DEFINE A == Artifacts(r, reportFile, stdout, scope)
           reports == IF r.report \/ reportFile THEN {Artifact("report", "usable", {})} ELSE {}
           salvage == IF stdout /\ ~(r.report \/ reportFile)
                      THEN {Artifact("stdout_salvage", "needs_review", {})} ELSE {}
           diffs == IF r.patch.given THEN DiffArtifact(r.patch, scope)
                    ELSE IF r.changed # {} THEN {Artifact("diff", "needs_review", {})} ELSE {}
           commits == IF r.commit # "none"
                      THEN {Artifact("patch_or_commit", "needs_review", {})} ELSE {}
           evidence == IF r.validation = "absent" THEN {}
                       ELSE {Artifact("evidence",
                                      IF r.validation = "ran" THEN "usable" ELSE "needs_review", {})}
<1>1. A = reports \cup salvage \cup diffs \cup commits \cup evidence
  BY DEF Artifacts
<1>2. /\ \A k \in ArtifactKind : Artifact(k, "needs_review", {}).state = "needs_review"
      /\ \A k \in ArtifactKind : Artifact(k, "needs_review", {}).kind = k
      /\ \A k \in ArtifactKind : Artifact(k, "usable", {}).kind = k
  BY DEF Artifact
<1>3. {"report", "stdout_salvage", "diff", "patch_or_commit", "evidence"} = ArtifactKind
  BY DEF ArtifactKind
<1>4. r.commit = "none"
  <2>1. \A a \in commits : a.state = "usable"
    BY <1>1
  <2> QED
    BY <2>1, <1>2, <1>3
<1>5. r.validation # "not_run"
  <2>1. \A a \in evidence : a.state = "usable"
    BY <1>1
  <2> QED
    BY <2>1, <1>2, <1>3
<1>6. ASSUME NEW a \in A, a.kind \in {"report", "stdout_salvage"}
      PROVE  r.report \/ reportFile
  <2>1. a \in diffs => a.kind = "diff"
    BY <1>2, <1>3, DiffArtifactIs DEF Receipt
  <2>2. a \in commits => a.kind = "patch_or_commit"
    BY <1>2, <1>3
  <2>3. a \in evidence => a.kind = "evidence"
    <3>1. CASE r.validation = "ran"
      BY <3>1, <1>2, <1>3
    <3>2. CASE r.validation # "ran"
      BY <3>2, <1>2, <1>3
    <3> QED
      BY <3>1, <3>2
  <2>4. a \notin salvage
    <3>1. a.state = "usable"
      OBVIOUS
    <3> QED
      BY <3>1, <1>2, <1>3
  <2>5. a \in reports
    BY <1>1, <1>6, <2>1, <2>2, <2>3, <2>4
  <2> QED
    BY <2>5
<1> QED
  BY <1>4, <1>5, <1>6

LEMMA PolicyIs ==
  ASSUME NEW c \in Config
  PROVE  EffectivePolicy(c) \in {"report", "evidence", "commit"}
  BY DEF Config, EffectivePolicy

\* What an adoption that is yes tells of the receipt, and what a fatal
\* blocker makes of every adoption.
LEMMA AdoptionIs ==
  ASSUME NEW c \in Config, NEW r \in Receipt, NEW reportFile \in BOOLEAN, NEW stdout \in BOOLEAN,
         NEW scope \in ScopeSays, NEW rework \in Rework
  PROVE  LET d == Adoption(c, r, reportFile, stdout, scope, rework) IN
         /\ d \in Decision /\ d.result \in {"yes", "partial", "no"}
         /\ d.state \in {"usable", "needs_review", "blocked"}
         /\ d.result = "yes" =>
              /\ r.status # "BLOCKED" /\ r.commit = "none" /\ r.validation # "not_run"
              /\ EffectivePolicy(c) # "commit"
              /\ EffectivePolicy(c) = "report" => r.report \/ reportFile
              /\ EffectivePolicy(c) = "evidence" =>
                   /\ r.scope # "violated" /\ scope.undeclared = {}
                   /\ r.patch.given => r.patch.ok
                   /\ r.validation = "absent" => r.report \/ reportFile
         /\ r.blocker \in GlobalHardBlockers =>
              d.state = "blocked" /\ d.action = "inspect_evidence" /\ r.blocker \in d.hard
<1> DEFINE policy == EffectivePolicy(c)
           artifacts == Artifacts(r, reportFile, stdout, scope)
           art == Classify(r, artifacts)
           fatal == art.global \ {"no_useful_artifact"}
           judged == IF fatal # {} THEN [result |-> "no", blockers |-> fatal]
                     ELSE CASE policy = "report" -> ReportAdoption(r, art, artifacts)
                            [] policy = "commit" -> CommitAdoption(r, art, artifacts, scope)
                            [] policy = "evidence" -> EvidenceAdoption(r, art, artifacts, scope)
           d == AgentResult(policy, judged, art, artifacts, rework)
<1>1. policy \in {"report", "evidence", "commit"}
  BY PolicyIs
<1>2. artifacts \in SUBSET ArtifactRow
  BY ArtifactsType
<1>3. /\ (\A a \in artifacts : a.state = "usable") =>
             /\ r.commit = "none" /\ r.validation # "not_run"
             /\ (\E a \in artifacts : a.kind \in {"report", "stdout_salvage"}) => r.report \/ reportFile
  BY UsableArtifacts
<1> HIDE DEF artifacts
<1>4. /\ art.state \in {"usable", "needs_review", "blocked"}
      /\ art.global \in SUBSET Blocker
      /\ r.blocker \in GlobalHardBlockers => art.state = "blocked" /\ art.global = {r.blocker}
      /\ art.state = "usable" => \A a \in artifacts : a.state = "usable"
  BY <1>2, ClassifyIs
<1>5. r.blocker \in GlobalHardBlockers => fatal = {r.blocker}
  BY <1>4 DEF GlobalHardBlockers
<1> HIDE DEF art
<1>6. /\ judged \in Judged
      /\ fatal # {} => judged.result = "no" /\ judged.blockers = fatal
      /\ judged.result = "yes" =>
           /\ art.state = "usable" /\ r.status # "BLOCKED" /\ policy # "commit"
           /\ policy = "report" => \E a \in artifacts : a.kind \in {"report", "stdout_salvage"}
           /\ policy = "evidence" =>
                /\ r.scope # "violated" /\ scope.undeclared = {}
                /\ r.patch.given => r.patch.ok
                /\ \/ r.validation # "absent"
                   \/ \E a \in artifacts : a.kind \in {"report", "stdout_salvage"}
  <2>1. CASE fatal # {}
    BY <2>1, <1>4 DEF Judged
  <2>2. CASE fatal = {} /\ policy = "report"
    BY <2>2, <1>2, ReportAdoptionIs
  <2>3. CASE fatal = {} /\ policy = "commit"
    BY <2>3, <1>2, CommitAdoptionIs
  <2>4. CASE fatal = {} /\ policy = "evidence"
    <3>1. judged = EvidenceAdoption(r, art, artifacts, scope)
      BY <2>4
    <3> HIDE DEF judged
    <3>2. judged \in Judged
      BY <3>1, <1>2, <1>4, EvidenceAdoptionIs
    <3>3. judged.result = "yes" => EvidenceYes(r, artifacts, art, scope)
      BY <3>1, <1>2, <1>4, EvidenceAdoptionIs
    <3> QED
      BY <2>4, <3>2, <3>3, <1>4 DEF EvidenceYes
  <2> QED
    BY <2>1, <2>2, <2>3, <2>4, <1>1
<1> HIDE DEF judged, fatal
<1>7. /\ d \in Decision /\ d.result = judged.result
      /\ d.state \in {"usable", "needs_review", "blocked"}
      /\ art.state = "blocked" => d.state = "blocked"
      /\ d.state # "usable" => d.hard = art.global \cup judged.blockers
      /\ d.action = ControllerAction(policy, art, artifacts)
  <2>1. ControllerAction(policy, art, artifacts)
          \in {"use_result", "review_then_apply", "inspect_evidence", "retry_or_switch_executor"}
    BY DEF ControllerAction
  <2> QED
    BY <2>1, <1>4, <1>6 DEF AgentResult, Decision, Judged
<1>8. art.state = "blocked" /\ art.global # {"no_useful_artifact"} => d.action = "inspect_evidence"
  BY <1>7 DEF ControllerAction
<1>9. Adoption(c, r, reportFile, stdout, scope, rework) = d
  BY DEF Adoption, d, judged, fatal, art, artifacts
<1> HIDE DEF d
<1>10. r.blocker \in GlobalHardBlockers =>
         d.state = "blocked" /\ d.action = "inspect_evidence" /\ r.blocker \in d.hard
  BY <1>4, <1>7, <1>8 DEF GlobalHardBlockers
<1>11. d.result \in {"yes", "partial", "no"}
  BY <1>6, <1>7 DEF Judged
<1>12. ASSUME d.result = "yes"
       PROVE  /\ r.status # "BLOCKED" /\ r.commit = "none" /\ r.validation # "not_run"
              /\ policy # "commit"
              /\ policy = "report" => r.report \/ reportFile
              /\ policy = "evidence" =>
                   /\ r.scope # "violated" /\ scope.undeclared = {}
                   /\ r.patch.given => r.patch.ok
                   /\ r.validation = "absent" => r.report \/ reportFile
  BY <1>12, <1>3, <1>4, <1>6, <1>7
<1> QED
  BY <1>7, <1>9, <1>10, <1>11, <1>12
-----------------------------------------------------------------------------
(* The verdict and the second look.                                        *)

(* What Finalize computes.                                                 *)
Claimed == Arbitrate(config, run, HasCommitted)
Merged == MergeWorktreeEvidence(config, Claimed, Diff, PatchApplies)
ScopeNow == ValidateChangedFiles(Merged.changed, ActualChanges(Merged), session.dirty)
Judge == Checked(config, Merged)
ReportNow == Judge.report \/ run.report
Reason == EvaluateCompletion(config, Judge, ReportNow)
Offer == Adoption(config, Judge, ReportNow, run.report, ScopeNow, "minor")

LEMMA FinalizeIs ==
  Finalize <=>
    /\ worker = "ended" /\ task.phase = "acked" /\ session.live
    /\ task' = [task EXCEPT
                  !.phase = IF Reason = "none" THEN "ready_for_review" ELSE "blocked",
                  !.receipt = Stored(Judge, Reason),
                  !.reportFile = ReportNow,
                  !.adoptable = Offer.result,
                  !.decision = Offer]
    /\ UNCHANGED <<config, session, worker, run, files>>
  BY DEF Finalize, Claimed, Merged, ScopeNow, Judge, ReportNow, Reason, Offer

LEMMA FinalizeTypes ==
  ASSUME TypesOK
  PROVE  /\ Claimed \in Receipt /\ Merged \in Receipt /\ Judge \in Receipt
         /\ ScopeNow \in ScopeSays /\ ReportNow \in BOOLEAN
         /\ Reason \in BlockerType /\ Stored(Judge, Reason) \in Receipt
         /\ Offer \in Decision /\ Offer.result \in {"yes", "partial", "no"}
         /\ HasCommitted \in BOOLEAN /\ config \in Config /\ run.report \in BOOLEAN
<1>1. config \in Config /\ run \in Run /\ run.report \in BOOLEAN
  BY Constants DEF TypesOK, Run
<1>2. HasCommitted \in BOOLEAN
  BY DEF HasCommitted, TypesOK, SessionRow
<1>3. Claimed \in Receipt
  BY <1>1, <1>2, ArbitrateIs DEF Claimed
<1>4. Merged \in Receipt
  <2>1. Diff \in SUBSET File /\ PatchApplies \in BOOLEAN
    BY DiffIsFiles DEF PatchApplies
  <2> QED
    BY <1>3, <2>1, MergeIs DEF Merged
<1>5. Judge \in Receipt
  BY <1>4, CheckedIs DEF Judge
<1>6. ScopeNow \in ScopeSays
  <2>1. Merged.changed \in SUBSET File
    BY <1>4 DEF Receipt
  <2>2. ActualChanges(Merged) \in SUBSET File
    BY DEF ActualChanges, Dirty, Changed
  <2> QED
    BY <2>1, <2>2 DEF ScopeNow, ValidateChangedFiles, ScopeSays
<1>7. ReportNow \in BOOLEAN
  BY <1>1, <1>5 DEF ReportNow, Receipt
<1>8. Reason \in BlockerType
  BY <1>5, <1>7, EvaluateIs DEF Reason
<1>9. Stored(Judge, Reason) \in Receipt
  BY <1>5, <1>8, StoredIs
<1>10. Offer \in Decision /\ Offer.result \in {"yes", "partial", "no"}
  <2>1. "minor" \in Rework
    BY DEF Rework
  <2> QED
    BY <1>1, <1>5, <1>6, <1>7, <2>1, AdoptionIs DEF Offer
<1> QED
  BY <1>1, <1>2, <1>3, <1>4, <1>5, <1>6, <1>7, <1>8, <1>9, <1>10

LEMMA FinalizeOK == ASSUME IInv, Finalize PROVE IInv'
<1>1. /\ task' \in TaskRow /\ task'.attempt = task.attempt
      /\ task'.phase \in {"ready_for_review", "blocked"}
  <2>1. task \in TaskRow
    BY DEF IInv, TypesOK
  <2> QED
    BY <2>1, FinalizeIs, FinalizeTypes DEF IInv, TaskRow
<1>2. task.phase = "acked" /\ worker = "ended" /\ UNCHANGED <<config, session, worker, run, repo, tree>>
  BY FinalizeIs DEF files
<1>3. TypesOK' /\ WorkerOK'
  BY <1>1, <1>2 DEF IInv, TypesOK, WorkerOK
<1>4. EditsOK' /\ BaseOK'
  BY <1>1, <1>2 DEF IInv, EditsOK, BaseOK
<1> QED
  BY <1>3, <1>4 DEF IInv

(* What Adopt computes.                                                    *)
SecondLook(rework) ==
  Adoption(config, IF task.phase \in {"ready_for_review", "blocked"} THEN task.receipt ELSE NoReceipt,
           task.reportFile, run.report, NoScope, rework)

LEMMA AdoptIs ==
  ASSUME Adopt
  PROVE  /\ \E result \in {"yes", "partial", "no"}, rework \in Rework :
              task' = [task EXCEPT !.approved = TRUE, !.adoptable = result,
                                   !.decision = SecondLook(rework)]
         /\ UNCHANGED <<config, session, worker, run, files>>
         /\ task.receipt.status # "none" \/ session.live
  BY DEF Adopt, SecondLook

LEMMA AdoptOK ==
  ASSUME IInv, Adopt
  PROVE  /\ IInv'
         /\ task'.approved
         /\ \E rework \in Rework : task'.decision = SecondLook(rework)
         /\ task'.receipt = task.receipt /\ task'.phase = task.phase
<1>1. PICK result \in {"yes", "partial", "no"}, rework \in Rework :
        task' = [task EXCEPT !.approved = TRUE, !.adoptable = result, !.decision = SecondLook(rework)]
  BY AdoptIs
<1>2. SecondLook(rework) \in Decision
  <2>1. /\ task.receipt \in Receipt /\ task.reportFile \in BOOLEAN /\ run.report \in BOOLEAN
        /\ config \in Config
    BY Constants DEF IInv, TypesOK, TaskRow, Run
  <2>2. NoScope \in ScopeSays
    BY DEF NoScope, ScopeSays
  <2>3. (IF task.phase \in {"ready_for_review", "blocked"} THEN task.receipt ELSE NoReceipt) \in Receipt
    BY <2>1, Literals
  <2> QED
    BY <2>1, <2>2, <2>3, AdoptionIs DEF SecondLook
<1>3. /\ task' \in TaskRow /\ task'.attempt = task.attempt /\ task'.phase = task.phase
      /\ task'.approved /\ task'.decision = SecondLook(rework) /\ task'.receipt = task.receipt
  BY <1>1, <1>2 DEF IInv, TypesOK, TaskRow
<1>4. UNCHANGED <<config, session, worker, run, repo, tree>>
  BY AdoptIs DEF files
<1>5. /\ TypesOK'
      /\ task.phase = "new" => ~session.live
  BY <1>3, <1>4 DEF IInv, TypesOK, WorkerOK
<1>6. WorkerOK'
  BY <1>3, <1>4 DEF IInv, WorkerOK
<1>7. EditsOK' /\ BaseOK'
  BY <1>3, <1>4 DEF IInv, EditsOK, BaseOK
<1> QED
  BY <1>3, <1>5, <1>6, <1>7 DEF IInv
-----------------------------------------------------------------------------
(* All steps.                                                              *)

LEMMA StartOK == ASSUME IInv, Start PROVE IInv'
<1>1. task \in TaskRow /\ task.phase = "new"
  BY DEF IInv, TypesOK, Start
<1>2. CASE DispatchSucceeds /\ task' = [task EXCEPT !.phase = "acked"]
  <2>1. task' \in TaskRow /\ task'.phase = "acked" /\ task'.attempt = task.attempt
    BY <1>1, <1>2 DEF TaskRow
  <2>2. task.attempt \in Nat
    BY <1>1, Constants DEF TaskRow
  <2> QED
    BY <1>1, <1>2, <2>1, <2>2, DispatchOK
<1>3. CASE DispatchFails /\ task' = [task EXCEPT !.phase = "blocked"]
  <2>1. task' \in TaskRow /\ task'.phase = "blocked" /\ task'.attempt = task.attempt
    BY <1>1, <1>3 DEF TaskRow
  <2> QED
    BY <1>1, <1>3, <2>1, DispatchFailsOK
<1> QED
  BY <1>2, <1>3 DEF Start

NextTry == [FreshAttempt EXCEPT !.phase = "acked", !.attempt = task.attempt + 1]

LEMMA NextTryIs ==
  ASSUME TypesOK, task.attempt < MaxAttempts
  PROVE  /\ NextTry \in TaskRow /\ NextTry.phase = "acked" /\ NextTry.attempt = task.attempt + 1
         /\ NextTry.receipt = NoReceipt
<1>1. /\ FreshAttempt \in TaskRow /\ FreshAttempt.receipt = NoReceipt
  BY Literals, Constants DEF FreshAttempt, TaskRow
<1>2. task.attempt + 1 \in 1 .. MaxAttempts
  BY Constants DEF TypesOK, TaskRow
<1> QED
  BY <1>1, <1>2 DEF NextTry, TaskRow

LEMMA RetryOK ==
  ASSUME IInv, Retry
  PROVE  /\ IInv'
         /\ \/ task' = NextTry /\ task.attempt < MaxAttempts /\ DispatchSucceeds
            \/ task' = task /\ DispatchFails
<1>1. task \in TaskRow /\ task.phase \in {"ready_for_review", "blocked"}
      /\ task.attempt < MaxAttempts
  BY DEF IInv, TypesOK, Retry
<1>2. CASE DispatchSucceeds /\ task' = NextTry
  <2>1. task' \in TaskRow /\ task'.phase = "acked" /\ task'.attempt = task.attempt + 1
    BY <1>1, <1>2, NextTryIs DEF IInv
  <2>2. task.attempt \in Nat
    BY <1>1, Constants DEF TaskRow
  <2>3. task'.attempt >= task.attempt /\ task'.attempt > task.attempt
    BY <2>1, <2>2
  <2>4. IInv'
    BY <1>1, <1>2, <2>1, <2>3, DispatchOK
  <2> QED
    BY <1>1, <1>2, <2>4
<1>3. CASE DispatchFails /\ UNCHANGED task
  <2>1. task' \in TaskRow /\ task'.phase \in {"blocked", "ready_for_review"}
    BY <1>1, <1>3
  <2>2. IInv'
    BY <1>1, <1>3, <2>1, DispatchFailsOK
  <2> QED
    BY <1>3, <2>2
<1> QED
  BY <1>2, <1>3 DEF Retry, NextTry

LEMMA StepOK == ASSUME IInv, [Next]_vars PROVE IInv'
<1>1. CASE Start
  BY <1>1, StartOK
<1>2. CASE Retry
  BY <1>2, RetryOK
<1>3. CASE \E f \in File : WorkerEdits(f) \/ UserEdits(f)
  BY <1>3, WorkerEditsOK, UserEditsOK
<1>4. CASE WorkerCommits
  BY <1>4, WorkerCommitsOK
<1>5. CASE WorkerEnds
  BY <1>5, WorkerEndsOK
<1>6. CASE Finalize
  BY <1>6, FinalizeOK
<1>7. CASE Cleanup
  BY <1>7, CleanupOK
<1>8. CASE Adopt
  BY <1>8, AdoptOK
<1>9. CASE \E force \in BOOLEAN : Apply(force)
  BY <1>9, ApplyOK
<1>10. CASE UNCHANGED vars
  BY <1>10 DEF vars, files, IInv, TypesOK, WorkerOK, EditsOK, BaseOK
<1> QED
  BY <1>1, <1>2, <1>3, <1>4, <1>5, <1>6, <1>7, <1>8, <1>9, <1>10 DEF Next

\* The inductive invariant: types, who works when, from which attempts the
\* edits in the files are, and where the user's are.
THEOREM OutcomeInvariance == Spec => []IInv
<1>1. Init => IInv
  BY InitOK
<1>2. IInv /\ [Next]_vars => IInv'
  BY StepOK
<1> QED
  BY <1>1, <1>2, PTL DEF Spec

\* Whatever the tasks and runs are, every variable has its type and an
\* executor that works belongs to an acked attempt with a session.
THEOREM OutcomeTypes == Spec => []TypeOK
<1>1. IInv => TypeOK
  BY DEF IInv, TypesOK, WorkerOK, TypeOK, TaskRow, SessionRow, TreeRow, Checkout, Files
<1> QED
  BY <1>1, OutcomeInvariance, PTL

\* The patch that agpair offers of a worktree has no edit of the user that
\* was not in the base of its diff, after every sequence of snapshots,
\* baseline commits, retries, commits and cleanups; only where a dispatch that
\* failed has spilled its snapshot into a file may it be there.
THEOREM PatchHasNoUserEdit == Spec => []PatchIsTheWorkers
<1>1. IInv => PatchIsTheWorkers
  <2> SUFFICES ASSUME IInv, config.isolated, NEW f \in Diff \ tree.spilled,
                      UserEdit \in tree.work[f]
               PROVE  UserEdit \in DiffBase[f]
    BY DEF PatchIsTheWorkers
  <2>1. f \in File
    BY DiffIsFiles DEF IInv
  <2> QED
    BY <2>1, DiffBaseHasIt
<1> QED
  BY <1>1, OutcomeInvariance, PTL

\* As long as the session is there, no edit of its attempt is missing from
\* the diff.
THEOREM DiffHasEveryEdit == Spec => []DiffIsComplete
<1>1. IInv => DiffIsComplete
  <2> SUFFICES ASSUME IInv, config.isolated, session.live,
                      NEW f \in File, task.attempt \in tree.work[f]
               PROVE  f \in Diff
    BY DEF DiffIsComplete
  <2>1. task.attempt \in 1 .. MaxAttempts
    BY DEF IInv, TypesOK, TaskRow
  <2>2. task.attempt \notin session.base[f]
    BY <2>1 DEF IInv, EditsOK
  <2> QED
    BY <2>2 DEF Diff, DiffBase, Changed
<1> QED
  BY <1>1, OutcomeInvariance, PTL

\* Both together: the patch is what its attempt did to the files.
THEOREM DiffIsWhatWasDone == Spec => []DiffIsTheWorkers
<1>1. PatchIsTheWorkers /\ DiffIsComplete => DiffIsTheWorkers
  BY DEF DiffIsTheWorkers
<1> QED
  BY <1>1, PatchHasNoUserEdit, DiffHasEveryEdit, PTL

\* No step of agpair or of an executor takes an edit of the user out of the
\* repository: a patch is applied only over files that are as they were at
\* its base, and the patch keeps what was there.
THEOREM UserKeepsEdits == Spec => UserEditsAreKept
<1> DEFINE Kept == \A f \in File : UserEdit \in repo.work[f] => UserEdit \in repo'.work[f]
<1>1. IInv /\ [Next]_vars => [Kept]_vars
  <2> SUFFICES ASSUME IInv, [Next]_vars PROVE Kept \/ UNCHANGED vars
    OBVIOUS
  <2>1. CASE UNCHANGED repo
    BY <2>1
  <2>2. CASE \E f \in File : WorkerEdits(f) \/ UserEdits(f)
    BY <2>2, WorkerEditsOK, UserEditsOK
  <2>3. CASE WorkerCommits
    BY <2>3, WorkerCommitsOK
  <2>4. CASE \E force \in BOOLEAN : Apply(force)
    BY <2>4, ApplyOK
  <2>5. CASE Start \/ Retry \/ WorkerEnds \/ Finalize \/ Cleanup \/ Adopt
    <3>1. UNCHANGED repo
      BY <2>5 DEF Start, Retry, DispatchSucceeds, DispatchFails, WorkerEnds, Finalize, Cleanup,
                  Adopt, files
    <3> QED
      BY <3>1
  <2> QED
    BY <2>2, <2>3, <2>4, <2>5 DEF Next
<1>2. UserEditsAreKept <=> [][Kept]_vars
  BY PTL DEF UserEditsAreKept
<1> HIDE DEF Kept
<1> QED
  BY <1>1, <1>2, OutcomeInvariance, PTL DEF Spec
=============================================================================
