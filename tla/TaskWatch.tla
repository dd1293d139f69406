----------------------------- MODULE TaskWatch -----------------------------
(***************************************************************************)
(* Who decides that a task makes no progress, and what follows: the        *)
(* liveness of src/agpair/runtime_liveness.py, the waits of                *)
(* src/agpair/cli/wait.py and the commands that run them, the guards of    *)
(* task retry and task abandon, the daemon's signals and its watchdog, all *)
(* over the row of one task.                                               *)
(*                                                                         *)
(* Time is relative: an age says how long ago something happened, counted  *)
(* in units of a minute or more and no further than MaxAge, past which no  *)
(* reader tells the difference.  A timestamp that is NULL is as old.  Time *)
(* may pass between any two steps.  The execution budget, which begins     *)
(* with the task and not with its attempt, may be of any length: of it is  *)
(* known whether there is one and whether it is over.                      *)
(*                                                                         *)
(* How a session ends and its receipt is booked is TaskLifecycle's; here   *)
(* it is one step.                                                         *)
(***************************************************************************)
EXTENDS Integers

CONSTANTS
  Wait,          \* processes that wait for the task
  NoWait         \* no process

CONSTANTS
  Window,        \* DEFAULT_FRESHNESS_SECONDS, the same as the silence a wait allows
  ReportWindow,  \* REPORT_ONLY_NO_PROGRESS_SECONDS
  WatchdogAge,   \* watchdog_seconds of the daemon
  LeaseTime,     \* controller_wait_seconds of the kinds that have one
  Timeout        \* --timeout-seconds

CONSTANTS
  Starts,        \* what task start is asked for
  Retries,       \* what task retry is asked for
  MaxAttempts    \* bound: retry and abandon are run on earlier attempts only

MaxAge == WatchdogAge
Old == MaxAge

Kinds == {"quick_review", "deep_review", "implementation", "test_fix", "research",
          "smoke", "generic"}
Policies == {"terminal", "lease", "background", "strict"}
Profiles == {"report", "readonly", "mutating"}
Unset == "unset"
NoLease == -1

(* An option of a command line may be left out.                            *)
Ask == [profile : Profiles \cup {Unset}, kind : Kinds \cup {Unset},
        policy : Policies \cup {Unset}, lease : Nat \cup {NoLease}, bg : {"yes", "no", Unset},
        exec : {"yes", Unset}]
NothingAsked == [profile |-> Unset, kind |-> Unset, policy |-> Unset, lease |-> NoLease, bg |-> Unset,
                 exec |-> Unset]

ASSUME WatchAssumption ==
  /\ NoWait \notin Wait
  /\ Window \in Nat /\ ReportWindow \in Nat /\ WatchdogAge \in Nat
  /\ 0 < ReportWindow /\ ReportWindow < Window /\ Window <= WatchdogAge
  /\ LeaseTime \in Nat /\ Timeout \in Nat
  /\ \A s \in Starts : s \in Ask /\ s.profile # Unset
  /\ Retries \subseteq Ask
  /\ MaxAttempts \in Nat

VARIABLES
  row,    \* the row of the task; its retry_recommended is the attempt the
          \* recommendation was made for, or 0
  out,    \* age of the newest useful line in the logs of its session
  noise,  \* whether the logs hold bootstrap noise and nothing useful
  alive,  \* whether the executor of its newest session runs
  active, \* the process whose row of the waiters table is active, or NoWait
  wait,   \* what each waiting process is doing
  daemon, \* the write the daemon is about to make
  cmd     \* task retry or task abandon

vars == <<row, out, noise, alive, active, wait, daemon, cmd>>

SuccessPhases == {"ready_for_review", "evidence_ready", "committed"}
TerminalPhases == SuccessPhases \cup {"blocked", "stuck", "abandoned"}

Least(a, b) == IF a < b THEN a ELSE b

-----------------------------------------------------------------------------
(* Wait budgets.                                                           *)

DefaultBudget(kind) ==
  CASE kind = "generic" -> [policy |-> "terminal", lease |-> NoLease, bg |-> FALSE, exec |-> FALSE]
    [] kind = "smoke" -> [policy |-> "strict", lease |-> LeaseTime, bg |-> FALSE, exec |-> TRUE]
    [] OTHER -> [policy |-> "lease", lease |-> LeaseTime, bg |-> TRUE, exec |-> TRUE]

(* Mutant: a strict task keeps what was asked for the background.          *)
BudgetAsAsked(ask) ==
  LET kind == IF ask.kind = Unset THEN "generic" ELSE ask.kind
      default == DefaultBudget(kind)
  IN [kind |-> kind, policy |-> IF ask.policy = Unset THEN default.policy ELSE ask.policy,
      lease |-> IF ask.lease = NoLease THEN default.lease ELSE ask.lease,
      bg |-> IF ask.bg = Unset THEN default.bg ELSE ask.bg = "yes",
      exec |-> ask.exec = "yes" \/ default.exec]

(* resolve_wait_budget: terminal and strict waits never go to the          *)
(* background.                                                             *)
ResolveWaitBudget(ask) ==
  LET kind == IF ask.kind = Unset THEN "generic" ELSE ask.kind
      default == DefaultBudget(kind)
      policy == IF ask.policy = Unset THEN default.policy ELSE ask.policy
  IN [kind |-> kind, policy |-> policy,
      lease |-> IF ask.lease = NoLease THEN default.lease ELSE ask.lease,
      bg |-> /\ policy \notin {"terminal", "strict"}
             /\ IF ask.bg = Unset THEN default.bg ELSE ask.bg = "yes",
      exec |-> ask.exec = "yes" \/ default.exec]

(* What a retry asks for comes over what the row has.                      *)
OverRow(ask, r) ==
  [profile |-> IF ask.profile = Unset THEN r.profile ELSE ask.profile,
   kind |-> IF ask.kind = Unset THEN r.kind ELSE ask.kind,
   policy |-> IF ask.policy = Unset THEN r.policy ELSE ask.policy,
   lease |-> IF ask.lease = NoLease THEN r.lease ELSE ask.lease,
   bg |-> IF ask.bg # Unset THEN ask.bg ELSE IF r.bg THEN "yes" ELSE "no",
   exec |-> IF ask.exec = "yes" \/ r.exec THEN "yes" ELSE Unset]

Overrides(ask) == [ask EXCEPT !.profile = Unset] # NothingAsked

RetryBudget(ask, r) ==
  IF ~Overrides(ask)
  THEN [kind |-> r.kind, policy |-> r.policy, lease |-> r.lease, bg |-> r.bg, exec |-> r.exec]
  ELSE ResolveWaitBudget(OverRow(ask, r))

(* A task that writes code cannot be read-only.  start asks this always,   *)
(* retry when it is given a new wait budget.                               *)
KindFits(profile, kind) == kind \in {"implementation", "test_fix"} => profile # "readonly"

-----------------------------------------------------------------------------
(* Liveness.                                                               *)

EffectiveWindow(r) ==
  IF r.profile \in {"report", "readonly"} THEN Least(Window, ReportWindow) ELSE Window

(* classify_liveness, by what is younger than the window.                  *)
ClassifyLiveness(r, window) ==
  CASE r.hb < window /\ r.ws < window -> "active_via_both"
    [] r.hb < window /\ r.ws >= window -> "active_via_heartbeat"
    [] r.hb >= window /\ r.ws < window -> "active_via_workspace"
    [] r.hb >= window /\ r.ws >= window /\ out < window -> "active_via_output"
    [] OTHER -> "silent"

(* is_task_live, for the guards: always with the default window.           *)
IsTaskLive(r) == ClassifyLiveness(r, Window) # "silent"

(* Mutant: silence is measured from the signals alone.                     *)
WatchdogWithoutGrace(r) ==
  r.phase = "acked" /\ ClassifyLiveness(r, EffectiveWindow(r)) = "silent"

(* is_watchdog_triggered.                                                  *)
WatchdogTriggered(r) ==
  /\ r.phase = "acked"
  /\ ClassifyLiveness(r, EffectiveWindow(r)) = "silent"
  /\ r.rec # 0 \/ (r.act >= EffectiveWindow(r) /\ r.upd >= EffectiveWindow(r))

(* recommend_controller_action for an acked task, as the status of the     *)
(* task shows it. An execution budget that is over, or bootstrap noise     *)
(* alone, speaks against the executor whatever else is known.              *)
Silence(r) == Least(Least(r.hb, r.ws), out)
ControllerAction(r) ==
  LET silent == ClassifyLiveness(r, EffectiveWindow(r)) = "silent"
      failed == r.over \/ noise
  IN
  CASE failed -> "retry_or_switch_executor"
    [] ~failed /\ silent /\ r.bg -> "inspect_logs_or_continue_background"
    [] ~failed /\ silent /\ ~r.bg -> "retry_or_switch_executor"
    [] ~failed /\ ~silent /\ r.bg /\ r.lease # NoLease /\ Silence(r) >= r.lease -> "detach_and_continue"
    [] OTHER -> "continue_waiting"

-----------------------------------------------------------------------------
(* Init: task start has created the row.                                   *)

NewRow(profile, budget) ==
  [phase |-> "new", attempt |-> 1, hb |-> Old, ws |-> Old, act |-> 0, upd |-> 0,
   rec |-> 0, profile |-> profile, kind |-> budget.kind, policy |-> budget.policy,
   lease |-> budget.lease, bg |-> budget.bg, exec |-> budget.exec, over |-> FALSE]

NotWaiting == [pc |-> "idle", elapsed |-> 0, lease |-> NoLease, bg |-> FALSE,
               strict |-> TRUE, of |-> 0, late |-> FALSE]

NoJob == [job |-> "none", of |-> 0, age |-> 0]

Init ==
  /\ \E s \in Starts :
       /\ KindFits(s.profile, ResolveWaitBudget(s).kind)
       /\ row = NewRow(s.profile, ResolveWaitBudget(s))
  /\ out = Old /\ noise = FALSE /\ alive = FALSE
  /\ active = NoWait
  /\ wait = [w \in Wait |-> NotWaiting]
  /\ daemon = NoJob
  /\ cmd = [pc |-> "idle", ask |-> NothingAsked]

Older(age) == Least(age + 1, MaxAge)

(* Time passes, and the execution budget may be over.                      *)
Pass ==
  /\ \E over \in {row.over, row.exec} :
       row' = [row EXCEPT !.hb = Older(@), !.ws = Older(@), !.act = Older(@), !.upd = Older(@),
                          !.over = over]
  /\ out' = Older(out)
  /\ wait' = [w \in Wait |->
                [wait[w] EXCEPT !.elapsed = IF wait[w].pc = "idle" THEN @ ELSE Least(@ + 1, Timeout)]]
  /\ daemon' = [daemon EXCEPT !.age = IF daemon.job \in {"heartbeat", "workspace"} THEN Older(@) ELSE @]
  /\ UNCHANGED <<noise, alive, active, cmd>>

-----------------------------------------------------------------------------
(* The task: dispatched by start or by the daemon, run, and ended.         *)

Acked(r) == [r EXCEPT !.phase = "acked", !.hb = Old, !.ws = Old, !.act = 0, !.upd = 0, !.rec = 0]

Dispatch ==
  /\ row.phase = "new" /\ cmd.pc # "launched"
  /\ row' = Acked(row)
  /\ alive' = TRUE /\ out' = Old /\ noise' = FALSE
  /\ UNCHANGED <<active, wait, daemon, cmd>>

Output ==
  /\ alive
  /\ out' = 0 /\ noise' = FALSE
  /\ UNCHANGED <<row, alive, active, wait, daemon, cmd>>

BootstrapNoise ==
  /\ alive /\ out = Old
  /\ noise' = TRUE
  /\ UNCHANGED <<row, out, alive, active, wait, daemon, cmd>>

ExecutorExits ==
  /\ alive /\ alive' = FALSE
  /\ UNCHANGED <<row, out, noise, active, wait, daemon, cmd>>

Ended(r, phase) == [r EXCEPT !.phase = phase, !.act = 0, !.upd = 0]

(* The daemon books the receipt of a session that is over, or declares the *)
(* task stuck: by its execution budget if it has one, else by its silence. *)
DaemonEnds ==
  /\ row.phase = "acked"
  /\ \/ ~alive /\ \E phase \in {"ready_for_review", "blocked"} : row' = Ended(row, phase)
     \/ /\ IF row.exec THEN row.over
           ELSE row.act >= WatchdogAge /\ row.hb >= WatchdogAge /\ row.ws >= WatchdogAge
        /\ row' = Ended(row, "stuck")
  /\ UNCHANGED <<out, noise, alive, active, wait, daemon, cmd>>

(* The daemon reads the row, looks at the session or at the files of the   *)
(* repository, and then writes to the row by its id.                       *)
DaemonReads ==
  /\ daemon.job = "none" /\ row.phase = "acked"
  /\ \/ alive /\ daemon' = [daemon EXCEPT !.job = "heartbeat"]
     \/ \E age \in 0 .. (Window - 1) :
          daemon' = [daemon EXCEPT !.job = "workspace", !.age = age]
     \/ /\ row.rec = 0
        /\ row.act >= WatchdogAge /\ row.hb >= WatchdogAge /\ row.ws >= WatchdogAge
        /\ daemon' = [daemon EXCEPT !.job = "recommend", !.of = row.attempt]
  /\ UNCHANGED <<row, out, noise, alive, active, wait, cmd>>

(* record_heartbeat with the time the tick began, update_workspace_activity *)
(* with the time of the newest change of a file, recommend_retry.          *)
DaemonWrites ==
  /\ daemon.job # "none"
  /\ row' = CASE daemon.job = "heartbeat" -> [row EXCEPT !.hb = daemon.age, !.upd = daemon.age]
              [] daemon.job = "workspace" -> [row EXCEPT !.ws = daemon.age, !.upd = 0]
              [] daemon.job = "recommend" -> [row EXCEPT !.rec = daemon.of, !.upd = 0]
  /\ daemon' = NoJob
  /\ UNCHANGED <<out, noise, alive, active, wait, cmd>>

-----------------------------------------------------------------------------
(* Waits: task wait, and the wait a command ends with.                     *)

(* The command reads how long it may wait off the row.  A command whose    *)
(* task runs in the background does not wait; task wait does.              *)
BeginWait(w) ==
  /\ wait[w].pc = "idle"
  /\ wait' = [wait EXCEPT ![w] =
                [pc |-> "register", elapsed |-> 0, lease |-> row.lease, bg |-> row.bg,
                 strict |-> row.policy \in {"terminal", "strict"}, of |-> row.attempt,
                 late |-> FALSE]]
  /\ UNCHANGED <<row, out, noise, alive, active, daemon, cmd>>

(* start_waiter: the unique index lets one active row of a task be; a      *)
(* process that comes second waits without one.                            *)
Register(w) ==
  /\ wait[w].pc = "register"
  /\ active' = IF active = NoWait THEN w ELSE active
  /\ wait' = [wait EXCEPT ![w].pc = "look", ![w].late = cmd.pc = "guarded"]
  /\ UNCHANGED <<row, out, noise, alive, daemon, cmd>>

(* Mutant: the lease is over only once its end is past.                    *)
OutcomePastTheLease(me, r) ==
  CASE r.phase \in SuccessPhases -> "terminal_success"
    [] r.phase \in TerminalPhases \ SuccessPhases -> "terminal_failure"
    [] WatchdogTriggered(r) -> IF me.bg /\ ~me.strict THEN "soft_no_progress" ELSE "watchdog"
    [] OTHER ->
         IF me.bg /\ me.lease # NoLease /\ me.elapsed > me.lease /\ r.phase = "acked"
         THEN "controller_lease_expired"
         ELSE IF me.elapsed >= Timeout THEN "strict_timeout" ELSE "none"

(* Mutant: only a task that was acked can be waited for too long.          *)
OutcomeOnceAcked(me, r) ==
  CASE r.phase \in SuccessPhases -> "terminal_success"
    [] r.phase \in TerminalPhases \ SuccessPhases -> "terminal_failure"
    [] WatchdogTriggered(r) -> IF me.bg /\ ~me.strict THEN "soft_no_progress" ELSE "watchdog"
    [] OTHER ->
         IF r.phase # "acked" THEN "none"
         ELSE IF me.bg /\ me.lease # NoLease /\ me.elapsed >= me.lease
              THEN "controller_lease_expired"
              ELSE IF me.elapsed >= Timeout THEN "strict_timeout" ELSE "none"

(* What a round of the wait makes of the row it has read, in the order of  *)
(* the checks.                                                             *)
Outcome(me, r) ==
  CASE r.phase \in SuccessPhases -> "terminal_success"
    [] r.phase \in TerminalPhases \ SuccessPhases -> "terminal_failure"
    [] WatchdogTriggered(r) -> IF me.bg /\ ~me.strict THEN "soft_no_progress" ELSE "watchdog"
    [] OTHER ->
         IF me.bg /\ me.lease # NoLease /\ me.elapsed >= me.lease /\ r.phase = "acked"
         THEN "controller_lease_expired"
         ELSE IF me.elapsed >= Timeout THEN "strict_timeout" ELSE "none"

Remaining(me) ==
  (IF me.lease = NoLease THEN Timeout ELSE Least(Timeout, me.lease)) - me.elapsed

(* One round: get_task, the inline poll, which books a session that is     *)
(* over unless something fails, and the checks on the row read after it.   *)
(* With no time left before the next deadline the round is repeated at     *)
(* once.                                                                   *)
Look(w) ==
  /\ wait[w].pc \in {"look", "again"}
  /\ \/ row' = row
     \/ /\ row.phase = "acked" /\ ~alive
        /\ \E phase \in {"ready_for_review", "blocked"} : row' = Ended(row, phase)
  /\ LET outcome == Outcome(wait[w], row') IN
       IF outcome = "none"
       THEN /\ wait' = [wait EXCEPT ![w].pc = IF Remaining(wait[w]) <= 0 THEN "again" ELSE "asleep"]
            /\ UNCHANGED active
       ELSE /\ wait' = [wait EXCEPT ![w] = NotWaiting]
            /\ active' = IF active = w THEN NoWait ELSE active
  /\ UNCHANGED <<out, noise, alive, daemon, cmd>>

Wake(w) ==
  /\ wait[w].pc = "asleep"
  /\ wait' = [wait EXCEPT ![w].pc = "look"]
  /\ UNCHANGED <<row, out, noise, alive, active, daemon, cmd>>

-----------------------------------------------------------------------------
(* task retry and task abandon, without --force.                           *)

(* Mutant: the waiters table is not looked at.                             *)
GuardsLive(ask) ==
  /\ cmd.pc = "idle" /\ row.attempt < MaxAttempts
  /\ row.phase = "acked" => ~IsTaskLive(row)
  /\ Overrides(ask) => KindFits(OverRow(ask, row).profile, RetryBudget(ask, row).kind)
  /\ cmd' = [pc |-> "guarded", ask |-> ask]
  /\ UNCHANGED <<row, out, noise, alive, active, wait, daemon>>

(* _guard_active_waiter and _guard_live_task, on the row read first.       *)
Guards(ask) ==
  /\ cmd.pc = "idle" /\ row.attempt < MaxAttempts
  /\ active = NoWait
  /\ row.phase = "acked" => ~IsTaskLive(row)
  /\ Overrides(ask) => KindFits(OverRow(ask, row).profile, RetryBudget(ask, row).kind)
  /\ cmd' = [pc |-> "guarded", ask |-> ask]
  /\ UNCHANGED <<row, out, noise, alive, active, wait, daemon>>

(* A new session is dispatched, and apply_retry_dispatch opens the next    *)
(* attempt over whatever the row has by now. created_at stays: a budget    *)
(* that was over is, and another one may be over from the start.           *)
RetryApplies ==
  /\ cmd.pc = "guarded"
  /\ LET budget == RetryBudget(cmd.ask, row)
         another == budget.exec /\ (cmd.ask.exec = "yes" \/ ~row.exec)
     IN \E over \in IF another THEN BOOLEAN ELSE {row.over} :
          row' = [NewRow(OverRow(cmd.ask, row).profile, budget) EXCEPT
                    !.attempt = row.attempt + 1, !.over = over]
  /\ alive' = TRUE /\ out' = Old /\ noise' = FALSE
  /\ cmd' = [pc |-> "launched", ask |-> NothingAsked]
  /\ UNCHANGED <<active, wait, daemon>>

(* The dispatch fails.                                                     *)
RetryFails ==
  /\ cmd.pc = "guarded"
  /\ cmd' = [pc |-> "idle", ask |-> NothingAsked]
  /\ UNCHANGED <<row, out, noise, alive, active, wait, daemon>>

(* mark_acked.                                                             *)
RetryAcks ==
  /\ cmd.pc = "launched"
  /\ row' = IF row.phase = "acked" THEN row ELSE Acked(row)
  /\ cmd' = [pc |-> "idle", ask |-> NothingAsked]
  /\ UNCHANGED <<out, noise, alive, active, wait, daemon>>

(* abandon makes the same two guards and cancels the session.              *)
AbandonApplies ==
  /\ cmd.pc = "guarded" /\ cmd.ask = NothingAsked
  /\ row' = Ended(row, "abandoned")
  /\ alive' = FALSE
  /\ cmd' = [pc |-> "idle", ask |-> NothingAsked]
  /\ UNCHANGED <<out, noise, active, wait, daemon>>

Next ==
  \/ Pass
  \/ Dispatch \/ Output \/ BootstrapNoise \/ ExecutorExits
  \/ DaemonEnds \/ DaemonReads \/ DaemonWrites
  \/ \E w \in Wait : BeginWait(w) \/ Register(w) \/ Look(w) \/ Wake(w)
  \/ \E ask \in Retries \cup {NothingAsked} : Guards(ask)
  \/ RetryApplies \/ RetryFails \/ RetryAcks \/ AbandonApplies

Spec == Init /\ [][Next]_vars

(* Time passes, and a waiting process goes on.                             *)
Fairness ==
  /\ WF_vars(Pass)
  /\ \A w \in Wait : WF_vars(Register(w)) /\ WF_vars(Look(w)) /\ WF_vars(Wake(w))

FairSpec == Spec /\ Fairness

-----------------------------------------------------------------------------
(* Properties. *)

Age == 0 .. MaxAge
Lease == Nat \cup {NoLease}
Row == [phase : TerminalPhases \cup {"new", "acked"}, attempt : Nat, hb : Age, ws : Age, act : Age,
        upd : Age, rec : Nat, profile : Profiles, kind : Kinds, policy : Policies,
        lease : Lease, bg : BOOLEAN, exec : BOOLEAN, over : BOOLEAN]
WaitState == [pc : {"idle", "register", "look", "again", "asleep"}, elapsed : Nat, lease : Lease,
              bg : BOOLEAN, strict : BOOLEAN, of : Nat, late : BOOLEAN]

(* Also: a task that is to be waited for to its end never goes to the      *)
(* background, whatever budgets retries put over each other, and an active *)
(* row of the waiters table is that of a process that is waiting: no wait  *)
(* is killed here, whose row TaskLifecycle leaves orphaned.                *)
TypeOK ==
  /\ row \in Row /\ out \in Age /\ noise \in BOOLEAN /\ alive \in BOOLEAN
  /\ active \in Wait \cup {NoWait} /\ wait \in [Wait -> WaitState]
  /\ daemon \in [job : {"none", "heartbeat", "workspace", "recommend"}, of : Nat, age : Age]
  /\ cmd \in [pc : {"idle", "guarded", "launched"}, ask : Ask]
  /\ row.bg => row.policy \notin {"terminal", "strict"}
  /\ active # NoWait => wait[active].pc \in {"look", "again", "asleep"}

(* Without --force no attempt is replaced under a wait that had its row in *)
(* the waiters table when the guards were made: only a wait that came      *)
(* between the guards and the new attempt finds itself waiting for         *)
(* another attempt than it began with, or one that has no row because      *)
(* another process had it.                                                 *)
RetrySparesWaits ==
  [][row'.attempt # row.attempt => active = NoWait \/ wait[active].late]_vars

Verdict(w) == Outcome(wait[w], row')
GivesUp(w) == Look(w) /\ Verdict(w) \in {"watchdog", "soft_no_progress"}
Advice(outcome) ==
  IF outcome = "watchdog" THEN "retry_or_switch_executor" ELSE "inspect_logs_or_continue_background"

(* When a wait gives a task up for lack of progress,                       *)
(*   - the attempt had its whole window since it was acked, unless the     *)
(*     daemon's recommendation was made for an earlier attempt and came    *)
(*     late;                                                               *)
(*   - task retry, which the wait tells the user to run, is not refused as *)
(*     live, unless the task is report-only: the guard knows one window;   *)
(*   - the status of the task recommends the same, unless the wait began   *)
(*     with an earlier attempt, or the task is in the background and its   *)
(*     execution budget is over or its logs hold bootstrap noise alone:    *)
(*     the status then says to retry, the wait to go on.                   *)
GiveUpIsSound ==
  [][\A w \in Wait : GivesUp(w) =>
       /\ row'.act >= EffectiveWindow(row') \/ row'.rec \notin {0, row'.attempt}
       /\ EffectiveWindow(row') = Window => ~IsTaskLive(row')
       /\ wait[w].of = row'.attempt =>
            \/ ControllerAction(row') = Advice(Verdict(w))
            \/ row'.bg /\ (row'.over \/ noise)]_vars

(* The interval between two looks is positive, as wait_for_terminal_phase  *)
(* says, except once the lease is over and does not end the wait: then the *)
(* wait polls without a pause up to its timeout.                           *)
WaitSleeps ==
  [][\A w \in Wait : Look(w) /\ wait'[w].pc = "again" =>
       /\ wait[w].lease # NoLease /\ wait[w].elapsed >= wait[w].lease
       /\ wait[w].bg => row'.phase = "new"]_vars

(* Every wait ends, whatever becomes of the task, the daemon and retries.  *)
WaitEnds == \A w \in Wait : wait[w].pc # "idle" ~> wait[w].pc = "idle"
=============================================================================
