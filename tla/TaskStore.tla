----------------------------- MODULE TaskStore -----------------------------
(***************************************************************************)
(* The task repository of agpair (src/agpair/storage/tasks.py): the row of *)
(* the tasks table, the row of the task_attempts table, the table of legal *)
(* phase transitions, and one operator per SQL statement.                  *)
(*                                                                         *)
(* Every writer of the repository is two separate connections: get_task    *)
(* followed by _check_transition, then the UPDATE keyed by task_id alone.  *)
(* The operators here are the second half; the modules that use them       *)
(* decide what may happen between the two.                                 *)
(*                                                                         *)
(* A row keeps the columns that decisions are made on.  Timestamps are the *)
(* business of the modules that read them.                                 *)
(***************************************************************************)
EXTENDS Integers

CONSTANT Task  \* task ids

(* The executor session is identified by a positive number, 0 being SQL    *)
(* NULL.  The evidence of a row is the session whose terminal receipt it   *)
(* stores, 0 when terminal_receipt_json is NULL, RepoEvidence when the     *)
(* receipt was synthesised from a commit found in the repository.          *)
NoSession == 0
RepoEvidence == -1

SuccessPhases == {"ready_for_review", "evidence_ready", "committed"}
TerminalPhases == SuccessPhases \cup {"blocked", "stuck", "abandoned"}
Phases == TerminalPhases \cup {"new", "acked"}

(* _VALID_TRANSITIONS: the phases a phase may be entered from.  None in    *)
(* the code means any phase.                                               *)
ValidSources(target) ==
  CASE target = "acked" -> Phases \ {"acked"}
    [] target = "ready_for_review" -> {"acked", "evidence_ready", "committed"}
    [] target = "evidence_ready" -> {"acked"}
    [] target = "blocked" -> {"acked", "new"} \cup SuccessPhases
    [] target = "committed" -> {"acked", "evidence_ready", "ready_for_review"}
    [] target = "stuck" -> {"acked"}
    [] target \in {"abandoned", "new"} -> Phases

TaskRow == [phase : Phases, attempt : Nat, session : Nat, retries : Nat,
            retryRec : BOOLEAN, approved : BOOLEAN, evidence : Nat \cup {RepoEvidence}]

AttemptRow == [phase : Phases, session : Nat, evidence : Nat \cup {RepoEvidence}]

FreshTask == [phase |-> "new", attempt |-> 1, session |-> NoSession, retries |-> 0,
              retryRec |-> FALSE, approved |-> FALSE, evidence |-> 0]

FreshAttempt == [phase |-> "new", session |-> NoSession, evidence |-> 0]

(* get_task: the session of the task's current attempt when it has one,    *)
(* else the one of the tasks row.                                          *)
JoinedSession(row, history) ==
  IF row.attempt \in DOMAIN history /\ history[row.attempt].session # NoSession
  THEN history[row.attempt].session
  ELSE row.session

-----------------------------------------------------------------------------
(* The UPDATE statements, as functions of the row they overwrite.          *)

SetAcked(row, session) ==
  [row EXCEPT !.phase = "acked", !.session = session, !.retryRec = FALSE]

SetReadyForReview(row, evidence) ==
  [row EXCEPT !.phase = "ready_for_review", !.evidence = evidence]

(* COALESCE keeps the stored receipt when the caller brings none.          *)
SetBlocked(row, evidence) ==
  [row EXCEPT !.phase = "blocked", !.evidence = IF evidence = 0 THEN @ ELSE evidence]

SetStuck(row) == [row EXCEPT !.phase = "stuck"]

SetAbandoned(row) == [row EXCEPT !.phase = "abandoned"]

SetRetryRecommended(row, staleRetries) ==
  [row EXCEPT !.retryRec = TRUE, !.retries = staleRetries]

SetNextAttempt(readAttempt, readRetries) ==
  [phase |-> "new", attempt |-> readAttempt + 1, session |-> NoSession,
   retries |-> readRetries + 1, retryRec |-> FALSE, approved |-> FALSE, evidence |-> 0]

(* The UPDATE of the phase a caller is moving the task to.                 *)
SetPhase(row, target, session, evidence) ==
  CASE target = "acked" -> SetAcked(row, session)
    [] target = "ready_for_review" -> SetReadyForReview(row, evidence)
    [] target = "blocked" -> SetBlocked(row, evidence)
    [] target = "stuck" -> SetStuck(row)
    [] target = "abandoned" -> SetAbandoned(row)

(* Statements on task_attempts: an UPDATE whose WHERE names an attempt     *)
(* number that has no row changes nothing.                                 *)
AckAttempt(history, n, session) ==
  [k \in DOMAIN history |->
     IF k = n THEN [history[k] EXCEPT !.phase = "acked", !.session = session] ELSE history[k]]

EndAttempt(history, n, target, evidence) ==
  [k \in DOMAIN history |->
     IF k = n THEN [history[k] EXCEPT !.phase = target, !.evidence = evidence] ELSE history[k]]

(* Mutant: the new attempt takes the place of the earlier ones.            *)
InsertReplacing(table, key, row) == [k \in {key} |-> row]

(* An INSERT: a table is a function from its primary key.  It fails when   *)
(* the key is there already, which is for the caller to see.               *)
Insert(table, key, row) ==
  [k \in DOMAIN table \cup {key} |-> IF k = key THEN row ELSE table[k]]
=============================================================================
