-------------------------- MODULE TaskWatch_proofs --------------------------
(***************************************************************************)
(* Proofs about TaskWatch, for every number of waiting processes, every    *)
(* window, lease and timeout, and whatever is asked for.                   *)
(***************************************************************************)
EXTENDS TaskWatch, TLAPS

Phases == TerminalPhases \cup {"new", "acked"}
WaitPcs == {"idle", "register", "look", "again", "asleep"}
Budget == [kind : Kinds, policy : Policies, lease : Lease, bg : BOOLEAN, exec : BOOLEAN]
DaemonState == [job : {"none", "heartbeat", "workspace", "recommend"}, of : Nat, age : Age]
CmdState == [pc : {"idle", "guarded", "launched"}, ask : Ask]

\* A budget that waits to the end does not go to the background.
Consistent(b) == b.bg => b.policy \notin {"terminal", "strict"}

LEMMA Windows ==
  /\ Window \in Nat /\ ReportWindow \in Nat /\ MaxAge \in Nat /\ Window <= MaxAge
  /\ 0 < ReportWindow /\ ReportWindow < Window /\ WatchdogAge = MaxAge
  /\ 0 \in Age /\ Old \in Age /\ Timeout \in Nat /\ LeaseTime \in Lease /\ NoLease \in Lease
  /\ NoLease \notin Nat
  BY WatchAssumption DEF MaxAge, Age, Old, Lease, NoLease

LEMMA OlderIs ==
  ASSUME NEW age \in Age
  PROVE  Older(age) \in Age /\ Older(age) >= age
  BY Windows DEF Age, Older, Least

LEMMA WindowIs ==
  ASSUME NEW r \in Row
  PROVE  /\ EffectiveWindow(r) \in Nat /\ EffectiveWindow(r) <= Window
         /\ EffectiveWindow(r) \in {Window, ReportWindow}
  BY Windows DEF EffectiveWindow, Least

-----------------------------------------------------------------------------
(* Budgets. *)

LEMMA AskIs ==
  /\ NothingAsked \in Ask
  /\ \A ask \in Ask : /\ ask.profile \in Profiles \cup {Unset} /\ ask.kind \in Kinds \cup {Unset}
                      /\ ask.policy \in Policies \cup {Unset} /\ ask.lease \in Lease
                      /\ ask.bg \in {"yes", "no", Unset} /\ ask.exec \in {"yes", Unset}
  BY DEF NothingAsked, Ask, Lease, NoLease, Unset

LEMMA UnsetIsNone == Unset \notin Kinds /\ Unset \notin Policies /\ Unset \notin Profiles
  BY DEF Unset, Kinds, Policies, Profiles

LEMMA DefaultIs ==
  ASSUME NEW kind \in Kinds
  PROVE  DefaultBudget(kind) \in [policy : Policies, lease : Lease, bg : BOOLEAN, exec : BOOLEAN]
  BY Windows DEF DefaultBudget, Policies

LEMMA BudgetIs ==
  ASSUME NEW ask \in Ask
  PROVE  ResolveWaitBudget(ask) \in Budget /\ Consistent(ResolveWaitBudget(ask))
<1> DEFINE kind == IF ask.kind = Unset THEN "generic" ELSE ask.kind
           default == DefaultBudget(kind)
           policy == IF ask.policy = Unset THEN default.policy ELSE ask.policy
           lease == IF ask.lease = NoLease THEN default.lease ELSE ask.lease
           bg == /\ policy \notin {"terminal", "strict"}
                 /\ IF ask.bg = Unset THEN default.bg ELSE ask.bg = "yes"
           exec == ask.exec = "yes" \/ default.exec
<1>1. kind \in Kinds
  BY AskIs DEF Kinds
<1>2. default \in [policy : Policies, lease : Lease, bg : BOOLEAN, exec : BOOLEAN]
  BY <1>1, DefaultIs
<1>3. policy \in Policies /\ lease \in Lease
  BY <1>2, AskIs
<1>4. bg \in BOOLEAN /\ exec \in BOOLEAN
  BY <1>2
<1>5. ResolveWaitBudget(ask) =
        [kind |-> kind, policy |-> policy, lease |-> lease, bg |-> bg, exec |-> exec]
  BY DEF ResolveWaitBudget
<1>6. bg => policy \notin {"terminal", "strict"}
  OBVIOUS
<1> HIDE DEF kind, default, policy, lease, bg, exec
<1>7. ResolveWaitBudget(ask) \in Budget
  BY <1>1, <1>3, <1>4, <1>5 DEF Budget
<1>8. ResolveWaitBudget(ask).bg = bg /\ ResolveWaitBudget(ask).policy = policy
  BY <1>5
<1> QED
  BY <1>6, <1>7, <1>8 DEF Consistent

LEMMA RowIs ==
  ASSUME NEW r \in Row
  PROVE  /\ r.phase \in Phases /\ r.attempt \in Nat /\ r.hb \in Age /\ r.ws \in Age /\ r.act \in Age
         /\ r.upd \in Age /\ r.rec \in Nat /\ r.profile \in Profiles /\ r.kind \in Kinds
         /\ r.policy \in Policies /\ r.lease \in Lease /\ r.bg \in BOOLEAN
         /\ r.exec \in BOOLEAN /\ r.over \in BOOLEAN
  BY DEF Row, Phases

LEMMA OverRowIs ==
  ASSUME NEW ask \in Ask, NEW r \in Row
  PROVE  OverRow(ask, r) \in Ask /\ OverRow(ask, r).profile \in Profiles
<1> DEFINE profile == IF ask.profile = Unset THEN r.profile ELSE ask.profile
           kind == IF ask.kind = Unset THEN r.kind ELSE ask.kind
           policy == IF ask.policy = Unset THEN r.policy ELSE ask.policy
           lease == IF ask.lease = NoLease THEN r.lease ELSE ask.lease
           bg == IF ask.bg # Unset THEN ask.bg ELSE IF r.bg THEN "yes" ELSE "no"
           exec == IF ask.exec = "yes" \/ r.exec THEN "yes" ELSE Unset
<1>1. /\ profile \in Profiles /\ kind \in Kinds /\ policy \in Policies /\ lease \in Lease
      /\ bg \in {"yes", "no", Unset} /\ exec \in {"yes", Unset}
  BY AskIs, RowIs
<1>2. OverRow(ask, r) = [profile |-> profile, kind |-> kind, policy |-> policy, lease |-> lease,
                         bg |-> bg, exec |-> exec]
  BY DEF OverRow
<1> HIDE DEF profile, kind, policy, lease, bg, exec
<1> QED
  BY <1>1, <1>2 DEF Ask, Lease

LEMMA RetryBudgetIs ==
  ASSUME NEW ask \in Ask, NEW r \in Row, Consistent(r)
  PROVE  RetryBudget(ask, r) \in Budget /\ Consistent(RetryBudget(ask, r))
<1>1. CASE Overrides(ask)
  BY <1>1, OverRowIs, BudgetIs DEF RetryBudget
<1>2. CASE ~Overrides(ask)
  <2>1. RetryBudget(ask, r) = [kind |-> r.kind, policy |-> r.policy, lease |-> r.lease,
                               bg |-> r.bg, exec |-> r.exec]
    BY <1>2 DEF RetryBudget
  <2> QED
    BY <2>1, RowIs DEF Budget, Consistent
<1> QED
  BY <1>1, <1>2

-----------------------------------------------------------------------------
(* What becomes of the row. *)

LEMMA NewRowIs ==
  ASSUME NEW profile \in Profiles, NEW b \in Budget, Consistent(b)
  PROVE  /\ NewRow(profile, b) \in Row /\ Consistent(NewRow(profile, b))
         /\ NewRow(profile, b).phase = "new"
<1>1. /\ b.kind \in Kinds /\ b.policy \in Policies /\ b.lease \in Lease /\ b.bg \in BOOLEAN
      /\ b.exec \in BOOLEAN
  BY DEF Budget
<1>2. /\ NewRow(profile, b) \in Row /\ NewRow(profile, b).phase = "new"
      /\ NewRow(profile, b).bg = b.bg /\ NewRow(profile, b).policy = b.policy
  BY <1>1, Windows DEF NewRow, Row
<1> QED
  BY <1>2 DEF Consistent

\* A row with another attempt and another standing of its execution budget.
NextAttempt(r, n, over) == [r EXCEPT !.attempt = n, !.over = over]

LEMMA NextAttemptIs ==
  ASSUME NEW r \in Row, Consistent(r), NEW n \in Nat, NEW over \in BOOLEAN
  PROVE  LET new == NextAttempt(r, n, over)
         IN  new \in Row /\ Consistent(new) /\ new.phase = r.phase /\ new.attempt = n
<1> DEFINE new == NextAttempt(r, n, over)
<1>1. /\ new \in Row /\ new.phase = r.phase /\ new.attempt = n
      /\ new.bg = r.bg /\ new.policy = r.policy
  BY DEF Row, NextAttempt
<1> HIDE DEF new
<1>2. Consistent(new)
  BY <1>1 DEF Consistent
<1> QED
  BY <1>1, <1>2 DEF new

\* The parts of a row that only a retry changes.
SameAsk(new, r) ==
  /\ new \in Row /\ new.attempt = r.attempt /\ new.bg = r.bg /\ new.policy = r.policy
  /\ new.profile = r.profile

LEMMA AckedIs ==
  ASSUME NEW r \in Row
  PROVE  SameAsk(Acked(r), r) /\ Acked(r).phase = "acked" /\ Acked(r).rec = 0
  BY Windows DEF Acked, Row, SameAsk

LEMMA EndedIs ==
  ASSUME NEW r \in Row, NEW phase \in TerminalPhases
  PROVE  SameAsk(Ended(r, phase), r) /\ Ended(r, phase).phase = phase
  BY Windows DEF Ended, Row, SameAsk

LEMMA OlderRowIs ==
  ASSUME NEW r \in Row, NEW over \in BOOLEAN
  PROVE  LET new == [r EXCEPT !.hb = Older(r.hb), !.ws = Older(r.ws), !.act = Older(r.act),
                              !.upd = Older(r.upd), !.over = over]
         IN  /\ SameAsk(new, r) /\ new.phase = r.phase /\ new.rec = r.rec
             /\ new.act = Older(r.act)
<1>1. /\ Older(r.hb) \in Age /\ Older(r.ws) \in Age /\ Older(r.act) \in Age
      /\ Older(r.upd) \in Age
  BY RowIs, OlderIs
<1> QED
  BY <1>1 DEF Row, SameAsk

-----------------------------------------------------------------------------
(* Types. *)

WaitsOK == wait \in [Wait -> WaitState]
RowOK == row \in Row /\ Consistent(row)
ActiveOK ==
  active \in Wait \cup {NoWait} /\ (active # NoWait => wait[active].pc \in {"look", "again", "asleep"})

LEMMA TypesAre ==
  TypeOK <=> /\ RowOK /\ out \in Age /\ noise \in BOOLEAN /\ alive \in BOOLEAN
             /\ ActiveOK /\ WaitsOK /\ daemon \in DaemonState /\ cmd \in CmdState
  BY DEF TypeOK, RowOK, ActiveOK, WaitsOK, DaemonState, CmdState, Consistent

LEMMA WaitIs ==
  ASSUME WaitsOK, NEW w \in Wait
  PROVE  /\ wait[w] \in WaitState /\ wait[w].pc \in WaitPcs /\ wait[w].elapsed \in Nat
         /\ wait[w].lease \in Lease /\ wait[w].bg \in BOOLEAN /\ wait[w].strict \in BOOLEAN
         /\ wait[w].of \in Nat /\ wait[w].late \in BOOLEAN
<1>1. wait[w] \in WaitState
  BY DEF WaitsOK
<1> QED
  BY <1>1 DEF WaitState, WaitPcs

\* One waiting process has become another record.
WaitSet(w, m) ==
  wait'[w] = m /\ \A v \in Wait : v # w => wait'[v] = wait[v]

LEMMA WaitSetIs ==
  ASSUME WaitsOK, NEW w \in Wait, NEW m \in WaitState, wait' = [wait EXCEPT ![w] = m]
  PROVE  WaitsOK' /\ WaitSet(w, m)
  BY DEF WaitsOK, WaitSet

\* One waiting process has got somewhere else.
WaitAt(w, pc) ==
  /\ WaitsOK' /\ wait'[w].pc = pc /\ wait'[w].of = wait[w].of /\ wait'[w].bg = wait[w].bg
  /\ wait'[w].strict = wait[w].strict /\ wait'[w].late = wait[w].late
  /\ \A v \in Wait : v # w => wait'[v] = wait[v]

LEMMA WaitAtIs ==
  ASSUME WaitsOK, NEW w \in Wait, NEW pc \in WaitPcs, wait' = [wait EXCEPT ![w].pc = pc]
  PROVE  WaitAt(w, pc)
<1> DEFINE m == [wait[w] EXCEPT !.pc = pc]
<1>1. /\ m \in WaitState /\ m.pc = pc /\ m.of = wait[w].of /\ m.bg = wait[w].bg
      /\ m.strict = wait[w].strict /\ m.late = wait[w].late
  BY WaitIs DEF WaitState, WaitPcs
<1>2. wait' = [wait EXCEPT ![w] = m]
  OBVIOUS
<1> HIDE DEF m
<1>3. WaitsOK' /\ WaitSet(w, m)
  BY <1>1, <1>2, WaitSetIs
<1> QED
  BY <1>1, <1>3 DEF WaitAt, WaitSet

LEMMA NotWaitingIs == NotWaiting \in WaitState
  BY Windows DEF NotWaiting, WaitState

\* Time does not change what a process waits for.
LEMMA PassIs ==
  ASSUME TypeOK, Pass
  PROVE  /\ row' \in Row /\ SameAsk(row', row) /\ row'.phase = row.phase /\ row'.rec = row.rec
         /\ row'.act = Older(row.act)
         /\ out' \in Age /\ daemon' \in DaemonState
         /\ daemon'.job = daemon.job /\ daemon'.of = daemon.of
         /\ WaitsOK'
         /\ \A w \in Wait : /\ wait'[w].pc = wait[w].pc /\ wait'[w].of = wait[w].of
                            /\ wait'[w].bg = wait[w].bg /\ wait'[w].strict = wait[w].strict
                            /\ wait'[w].late = wait[w].late
         /\ UNCHANGED <<noise, alive, active, cmd>>
<1>1. RowOK /\ out \in Age /\ WaitsOK /\ daemon \in DaemonState
  BY TypesAre
<1>2. PICK over \in {row.over, row.exec} :
        row' = [row EXCEPT !.hb = Older(row.hb), !.ws = Older(row.ws), !.act = Older(row.act),
                           !.upd = Older(row.upd), !.over = over]
  BY DEF Pass
<1>3. /\ SameAsk(row', row) /\ row'.phase = row.phase /\ row'.rec = row.rec
      /\ row'.act = Older(row.act)
  <2>1. row \in Row /\ over \in BOOLEAN
    BY <1>1, RowIs DEF RowOK
  <2> QED
    BY <1>2, <2>1, OlderRowIs
<1>4. out' \in Age
  BY <1>1, OlderIs DEF Pass
<1>5. /\ daemon' \in DaemonState
      /\ daemon'.job = daemon.job /\ daemon'.of = daemon.of
  <2> DEFINE age == IF daemon.job \in {"heartbeat", "workspace"} THEN Older(daemon.age) ELSE daemon.age
  <2>1. daemon.age \in Age
    BY <1>1 DEF DaemonState
  <2>2. age \in Age
    BY <2>1, OlderIs
  <2>3. daemon' = [daemon EXCEPT !.age = age]
    BY DEF Pass
  <2> HIDE DEF age
  <2> QED
    BY <1>1, <2>2, <2>3 DEF DaemonState
<1>6. ASSUME NEW w \in Wait
      PROVE  /\ wait'[w] \in WaitState
             /\ wait'[w].pc = wait[w].pc /\ wait'[w].of = wait[w].of
             /\ wait'[w].bg = wait[w].bg /\ wait'[w].strict = wait[w].strict
             /\ wait'[w].late = wait[w].late
  <2> DEFINE e == IF wait[w].pc = "idle" THEN wait[w].elapsed ELSE Least(wait[w].elapsed + 1, Timeout)
  <2>1. wait[w] \in WaitState /\ wait[w].elapsed \in Nat
    BY <1>1, WaitIs
  <2>2. e \in Nat
    BY <2>1, Windows DEF Least
  <2>3. wait'[w] = [wait[w] EXCEPT !.elapsed = e]
    BY DEF Pass
  <2> HIDE DEF e
  <2> QED
    BY <2>1, <2>2, <2>3 DEF WaitState
<1>7. WaitsOK'
  BY <1>6 DEF Pass, WaitsOK
<1> QED
  BY <1>3, <1>4, <1>5, <1>6, <1>7 DEF Pass, SameAsk

LEMMA DaemonReadsIs ==
  ASSUME TypeOK, DaemonReads
  PROVE  /\ daemon' \in DaemonState
         /\ daemon'.job = "recommend" =>
              row.phase = "acked" /\ row.act >= WatchdogAge /\ daemon'.of = row.attempt
         /\ UNCHANGED <<row, out, noise, alive, active, wait, cmd>>
<1>1. daemon \in DaemonState /\ row.attempt \in Nat
  BY TypesAre, RowIs DEF RowOK
<1>2. CASE daemon' = [daemon EXCEPT !.job = "heartbeat"]
  BY <1>1, <1>2 DEF DaemonReads, DaemonState
<1>3. ASSUME NEW age \in 0 .. (Window - 1), daemon' = [daemon EXCEPT !.job = "workspace", !.age = age]
      PROVE  daemon' \in DaemonState /\ daemon'.job = "workspace"
  <2>1. age \in Age
    BY Windows DEF Age
  <2> QED
    BY <1>1, <1>3, <2>1 DEF DaemonState
<1>4. CASE /\ row.act >= WatchdogAge
           /\ daemon' = [daemon EXCEPT !.job = "recommend", !.of = row.attempt]
  BY <1>1, <1>4 DEF DaemonReads, DaemonState
<1> QED
  BY <1>2, <1>3, <1>4 DEF DaemonReads

LEMMA DaemonWritesIs ==
  ASSUME TypeOK, DaemonWrites
  PROVE  /\ SameAsk(row', row) /\ row'.phase = row.phase /\ row'.act = row.act
         /\ daemon' \in DaemonState /\ daemon'.job = "none"
         /\ row'.rec = row.rec \/ (daemon.job = "recommend" /\ row'.rec = daemon.of)
         /\ UNCHANGED <<out, noise, alive, active, wait, cmd>>
<1>1. /\ daemon \in DaemonState /\ row \in Row /\ daemon.age \in Age /\ daemon.of \in Nat
      /\ 0 \in Age /\ daemon.job \in {"heartbeat", "workspace", "recommend"}
  BY TypesAre, Windows DEF RowOK, DaemonState, DaemonWrites
<1>2. /\ daemon' = [job |-> "none", of |-> 0, age |-> 0]
      /\ UNCHANGED <<out, noise, alive, active, wait, cmd>>
  BY DEF DaemonWrites, NoJob
<1>3. daemon' \in DaemonState /\ daemon'.job = "none"
  BY <1>1, <1>2 DEF DaemonState
<1>4. CASE daemon.job = "heartbeat"
  <2>1. row' = [row EXCEPT !.hb = daemon.age, !.upd = daemon.age]
    BY <1>4 DEF DaemonWrites
  <2>2. SameAsk(row', row) /\ row'.phase = row.phase /\ row'.act = row.act /\ row'.rec = row.rec
    BY <1>1, <2>1 DEF Row, SameAsk
  <2> QED
    BY <1>2, <1>3, <1>4, <2>2
<1>5. CASE daemon.job = "workspace"
  <2>1. row' = [row EXCEPT !.ws = daemon.age, !.upd = 0]
    BY <1>5 DEF DaemonWrites
  <2>2. SameAsk(row', row) /\ row'.phase = row.phase /\ row'.act = row.act /\ row'.rec = row.rec
    BY <1>1, <2>1 DEF Row, SameAsk
  <2> QED
    BY <1>2, <1>3, <1>5, <2>2
<1>6. CASE daemon.job = "recommend"
  <2>1. row' = [row EXCEPT !.rec = daemon.of, !.upd = 0]
    BY <1>6 DEF DaemonWrites
  <2>2. /\ SameAsk(row', row) /\ row'.phase = row.phase /\ row'.act = row.act
        /\ row'.rec = daemon.of
    BY <1>1, <2>1 DEF Row, SameAsk
  <2> QED
    BY <1>2, <1>3, <1>6, <2>2
<1> QED
  BY <1>1, <1>4, <1>5, <1>6

LEMMA BeginWaitIs ==
  ASSUME TypeOK, NEW w \in Wait, BeginWait(w)
  PROVE  /\ wait[w].pc = "idle" /\ UNCHANGED <<row, out, noise, alive, active, daemon, cmd>>
         /\ WaitsOK' /\ wait'[w].pc = "register" /\ wait'[w].of = row.attempt
         /\ wait'[w].bg = row.bg /\ (wait'[w].bg => ~wait'[w].strict)
         /\ \A v \in Wait : v # w => wait'[v] = wait[v]
<1> DEFINE m == [pc |-> "register", elapsed |-> 0, lease |-> row.lease, bg |-> row.bg,
                 strict |-> row.policy \in {"terminal", "strict"}, of |-> row.attempt,
                 late |-> FALSE]
<1>1. RowOK /\ WaitsOK
  BY TypesAre
<1>2. m \in WaitState
  BY <1>1, RowIs DEF RowOK, WaitState
<1>3. m.bg => ~m.strict
  BY <1>1 DEF RowOK, Consistent
<1>4. wait' = [wait EXCEPT ![w] = m]
  BY DEF BeginWait
<1>5. m.pc = "register" /\ m.of = row.attempt /\ m.bg = row.bg
  OBVIOUS
<1> HIDE DEF m
<1>6. WaitsOK' /\ WaitSet(w, m)
  BY <1>1, <1>2, <1>4, WaitSetIs
<1> QED
  BY <1>3, <1>5, <1>6 DEF BeginWait, WaitSet

LEMMA RegisterIs ==
  ASSUME TypeOK, NEW w \in Wait, Register(w)
  PROVE  /\ wait[w].pc = "register" /\ UNCHANGED <<row, out, noise, alive, daemon, cmd>>
         /\ active' = IF active = NoWait THEN w ELSE active
         /\ WaitsOK' /\ wait'[w].pc = "look" /\ wait'[w].late = (cmd.pc = "guarded")
         /\ wait'[w].of = wait[w].of /\ wait'[w].bg = wait[w].bg /\ wait'[w].strict = wait[w].strict
         /\ \A v \in Wait : v # w => wait'[v] = wait[v]
<1> DEFINE m == [wait[w] EXCEPT !.pc = "look", !.late = (cmd.pc = "guarded")]
<1>1. WaitsOK /\ wait[w] \in WaitState
  BY TypesAre, WaitIs
<1>2. (cmd.pc = "guarded") \in BOOLEAN
  OBVIOUS
<1>3. /\ m \in WaitState /\ m.pc = "look" /\ m.late = (cmd.pc = "guarded") /\ m.of = wait[w].of
      /\ m.bg = wait[w].bg /\ m.strict = wait[w].strict
  BY <1>1, <1>2 DEF WaitState
<1>4. wait' = [wait EXCEPT ![w] = m]
  BY DEF Register
<1> HIDE DEF m
<1>5. WaitsOK' /\ WaitSet(w, m)
  BY <1>1, <1>3, <1>4, WaitSetIs
<1> QED
  BY <1>3, <1>5 DEF Register, WaitSet

LEMMA LookIs ==
  ASSUME TypeOK, NEW w \in Wait, Look(w)
  PROVE  /\ wait[w].pc \in {"look", "again"} /\ UNCHANGED <<out, noise, alive, daemon, cmd>>
         /\ SameAsk(row', row)
         /\ row' = row \/ (row.phase = "acked" /\ row'.phase \in TerminalPhases)
         /\ \/ /\ Outcome(wait[w], row') = "none" /\ UNCHANGED active
               /\ WaitAt(w, IF Remaining(wait[w]) <= 0 THEN "again" ELSE "asleep")
            \/ /\ Outcome(wait[w], row') # "none" /\ WaitsOK' /\ WaitSet(w, NotWaiting)
               /\ active' = IF active = w THEN NoWait ELSE active
<1>1. RowOK /\ WaitsOK
  BY TypesAre
<1>2. /\ wait[w].pc \in {"look", "again"} /\ UNCHANGED <<out, noise, alive, daemon, cmd>>
  BY DEF Look
<1>3. /\ SameAsk(row', row)
      /\ row' = row \/ (row.phase = "acked" /\ row'.phase \in TerminalPhases)
  <2>1. CASE row' = row
    BY <1>1, <2>1 DEF RowOK, SameAsk
  <2>2. ASSUME NEW phase \in {"ready_for_review", "blocked"}, row.phase = "acked",
               row' = Ended(row, phase)
        PROVE  SameAsk(row', row) /\ row'.phase \in TerminalPhases
    <3>1. phase \in TerminalPhases
      BY DEF TerminalPhases, SuccessPhases
    <3> QED
      BY <1>1, <2>2, <3>1, EndedIs DEF RowOK
  <2> QED
    BY <2>1, <2>2 DEF Look
<1>4. CASE Outcome(wait[w], row') = "none"
  <2> DEFINE pc == IF Remaining(wait[w]) <= 0 THEN "again" ELSE "asleep"
  <2>1. wait' = [wait EXCEPT ![w].pc = pc] /\ UNCHANGED active
    BY <1>4 DEF Look
  <2>2. pc \in WaitPcs
    BY DEF WaitPcs
  <2> HIDE DEF pc
  <2>3. WaitAt(w, pc)
    BY <1>1, <2>1, <2>2, WaitAtIs
  <2> QED
    BY <1>2, <1>3, <1>4, <2>1, <2>3 DEF pc
<1>5. CASE Outcome(wait[w], row') # "none"
  <2>1. /\ wait' = [wait EXCEPT ![w] = NotWaiting]
        /\ active' = IF active = w THEN NoWait ELSE active
    BY <1>5 DEF Look
  <2>2. WaitsOK' /\ WaitSet(w, NotWaiting)
    BY <1>1, <2>1, NotWaitingIs, WaitSetIs
  <2> QED
    BY <1>2, <1>3, <1>5, <2>1, <2>2
<1> QED
  BY <1>4, <1>5

LEMMA WakeIs ==
  ASSUME TypeOK, NEW w \in Wait, Wake(w)
  PROVE  /\ wait[w].pc = "asleep" /\ UNCHANGED <<row, out, noise, alive, active, daemon, cmd>>
         /\ WaitAt(w, "look")
  BY TypesAre, WaitAtIs DEF Wake, WaitPcs

\* The commands.
LEMMA GuardsIs ==
  ASSUME TypeOK, NEW ask \in Retries \cup {NothingAsked}, Guards(ask)
  PROVE  /\ active = NoWait /\ cmd' \in CmdState /\ cmd'.pc = "guarded"
         /\ UNCHANGED <<row, out, noise, alive, active, wait, daemon>>
<1>1. ask \in Ask
  BY AskIs, WatchAssumption
<1>2. cmd' = [pc |-> "guarded", ask |-> ask] /\ active = NoWait
      /\ UNCHANGED <<row, out, noise, alive, active, wait, daemon>>
  BY DEF Guards
<1> QED
  BY <1>1, <1>2 DEF CmdState

LEMMA RetryAppliesIs ==
  ASSUME TypeOK, RetryApplies
  PROVE  /\ cmd.pc = "guarded" /\ row' \in Row /\ Consistent(row')
         /\ row'.attempt = row.attempt + 1 /\ row'.phase = "new"
         /\ out' \in Age /\ noise' \in BOOLEAN /\ alive' \in BOOLEAN
         /\ cmd' \in CmdState /\ cmd'.pc = "launched"
         /\ UNCHANGED <<active, wait, daemon>>
<1>1. RowOK /\ cmd \in CmdState /\ cmd.ask \in Ask
  BY TypesAre DEF CmdState
<1> DEFINE profile == OverRow(cmd.ask, row).profile
           budget == RetryBudget(cmd.ask, row)
           another == budget.exec /\ (cmd.ask.exec = "yes" \/ ~row.exec)
<1>2. profile \in Profiles /\ budget \in Budget /\ Consistent(budget)
  BY <1>1, OverRowIs, RetryBudgetIs DEF RowOK
<1>3. row.attempt + 1 \in Nat
  BY <1>1, RowIs DEF RowOK
<1>4. PICK over \in BOOLEAN :
        row' = [NewRow(profile, budget) EXCEPT !.attempt = row.attempt + 1, !.over = over]
  <2>1. row.over \in BOOLEAN
    BY <1>1, RowIs DEF RowOK
  <2>2. \E over \in IF another THEN BOOLEAN ELSE {row.over} :
          row' = [NewRow(profile, budget) EXCEPT !.attempt = row.attempt + 1, !.over = over]
    BY DEF RetryApplies
  <2> HIDE DEF profile, budget, another
  <2> QED
    BY <2>1, <2>2
<1> HIDE DEF profile, budget, another
<1>5. /\ row' \in Row /\ Consistent(row')
      /\ row'.attempt = row.attempt + 1 /\ row'.phase = "new"
  <2>1. PICK r \in Row : r = NewRow(profile, budget) /\ Consistent(r) /\ r.phase = "new"
    BY <1>2, NewRowIs
  <2>2. row' = NextAttempt(r, row.attempt + 1, over)
    BY <1>4, <2>1 DEF NextAttempt
  <2> QED
    BY <1>3, <2>1, <2>2, NextAttemptIs
<1>6. /\ cmd.pc = "guarded" /\ cmd' = [pc |-> "launched", ask |-> NothingAsked]
      /\ alive' = TRUE /\ out' = Old /\ noise' = FALSE /\ UNCHANGED <<active, wait, daemon>>
  BY DEF RetryApplies
<1>7. cmd' \in CmdState /\ cmd'.pc = "launched"
  BY <1>6, AskIs DEF CmdState
<1> QED
  BY <1>5, <1>6, <1>7, Windows

\* A command that is over.
CommandEnds == cmd' \in CmdState /\ cmd'.pc = "idle"

LEMMA CommandEndsIs ==
  ASSUME cmd' = [pc |-> "idle", ask |-> NothingAsked]
  PROVE  CommandEnds
  BY AskIs DEF CommandEnds, CmdState

LEMMA RetryAcksIs ==
  ASSUME TypeOK, RetryAcks
  PROVE  /\ cmd.pc = "launched" /\ CommandEnds /\ SameAsk(row', row) /\ row'.phase = "acked"
         /\ row' = row \/ row'.rec = 0
         /\ UNCHANGED <<out, noise, alive, active, wait, daemon>>
<1>1. row \in Row
  BY TypesAre DEF RowOK
<1>2. /\ SameAsk(row', row) /\ row'.phase = "acked" /\ (row' = row \/ row'.rec = 0)
  BY <1>1, AckedIs DEF RetryAcks, SameAsk
<1> QED
  BY <1>2, CommandEndsIs DEF RetryAcks

LEMMA AbandonIs ==
  ASSUME TypeOK, AbandonApplies
  PROVE  /\ CommandEnds /\ SameAsk(row', row) /\ row'.phase \in TerminalPhases
         /\ cmd.pc = "guarded" /\ alive' \in BOOLEAN
         /\ UNCHANGED <<out, noise, active, wait, daemon>>
<1>1. row \in Row /\ "abandoned" \in TerminalPhases
  BY TypesAre DEF RowOK, TerminalPhases
<1> QED
  BY <1>1, EndedIs, CommandEndsIs DEF AbandonApplies

LEMMA DaemonEndsIs ==
  ASSUME TypeOK, DaemonEnds
  PROVE  /\ row.phase = "acked" /\ SameAsk(row', row) /\ row'.phase \in TerminalPhases
         /\ UNCHANGED <<out, noise, alive, active, wait, daemon, cmd>>
<1>1. row \in Row
  BY TypesAre DEF RowOK
<1>2. PICK phase \in {"ready_for_review", "blocked", "stuck"} : row' = Ended(row, phase)
  BY DEF DaemonEnds
<1>3. phase \in TerminalPhases
  BY DEF TerminalPhases, SuccessPhases
<1> QED
  BY <1>1, <1>2, <1>3, EndedIs DEF DaemonEnds

LEMMA DispatchIs ==
  ASSUME TypeOK, Dispatch
  PROVE  /\ row.phase = "new" /\ cmd.pc # "launched"
         /\ SameAsk(row', row) /\ row'.phase = "acked" /\ row'.rec = 0
         /\ out' \in Age /\ noise' \in BOOLEAN /\ alive' \in BOOLEAN
         /\ UNCHANGED <<active, wait, daemon, cmd>>
<1>1. row \in Row
  BY TypesAre DEF RowOK
<1> QED
  BY <1>1, AckedIs, Windows DEF Dispatch

\* The session writes or ends.
LEMMA SessionIs ==
  ASSUME TypeOK, Output \/ BootstrapNoise \/ ExecutorExits
  PROVE  /\ out' \in Age /\ noise' \in BOOLEAN /\ alive' \in BOOLEAN
         /\ UNCHANGED <<row, active, wait, daemon, cmd>>
  BY TypesAre, Windows DEF Output, BootstrapNoise, ExecutorExits

LEMMA TypeNext ==
  ASSUME RowOK', out' \in Age, noise' \in BOOLEAN, alive' \in BOOLEAN, ActiveOK', WaitsOK',
         daemon' \in DaemonState, cmd' \in CmdState
  PROVE  TypeOK'
  BY DEF TypeOK, RowOK, ActiveOK, WaitsOK, DaemonState, CmdState, Consistent

LEMMA SameAskKeeps ==
  ASSUME RowOK, SameAsk(row', row)
  PROVE  RowOK'
  BY DEF RowOK, SameAsk, Consistent

LEMMA WaitersTypes ==
  ASSUME TypeOK, NEW w \in Wait, BeginWait(w) \/ Register(w) \/ Look(w) \/ Wake(w)
  PROVE  TypeOK'
<1>1. /\ RowOK /\ out \in Age /\ noise \in BOOLEAN /\ alive \in BOOLEAN /\ ActiveOK
      /\ WaitsOK /\ daemon \in DaemonState /\ cmd \in CmdState
  BY TypesAre
<1>2. CASE BeginWait(w)
  <2>1. ActiveOK'
    BY <1>1, <1>2, BeginWaitIs DEF ActiveOK
  <2> QED
    BY <1>1, <1>2, <2>1, BeginWaitIs, TypeNext DEF RowOK, Consistent
<1>3. CASE Register(w)
  <2>1. ActiveOK'
    BY <1>1, <1>3, RegisterIs DEF ActiveOK
  <2> QED
    BY <1>1, <1>3, <2>1, RegisterIs, TypeNext DEF RowOK, Consistent
<1>4. CASE Look(w)
  <2>1. RowOK' /\ WaitsOK'
    BY <1>1, <1>4, LookIs, SameAskKeeps DEF WaitAt
  <2>2. ActiveOK'
    BY <1>1, <1>4, LookIs DEF ActiveOK, WaitAt, WaitSet
  <2>3. UNCHANGED <<out, noise, alive, daemon, cmd>>
    BY <1>4, LookIs
  <2> QED
    BY <1>1, <2>1, <2>2, <2>3, TypeNext
<1>5. CASE Wake(w)
  <2>1. ActiveOK' /\ WaitsOK'
    BY <1>1, <1>5, WakeIs DEF ActiveOK, WaitAt
  <2> QED
    BY <1>1, <1>5, <2>1, WakeIs, TypeNext DEF RowOK, Consistent
<1> QED
  BY <1>2, <1>3, <1>4, <1>5

LEMMA TypeStep ==
  ASSUME TypeOK, [Next]_vars
  PROVE  TypeOK'
<1>1. /\ RowOK /\ out \in Age /\ noise \in BOOLEAN /\ alive \in BOOLEAN /\ ActiveOK
      /\ WaitsOK /\ daemon \in DaemonState /\ cmd \in CmdState
  BY TypesAre
<1>2. /\ UNCHANGED wait => WaitsOK'
      /\ UNCHANGED <<wait, active>> => ActiveOK'
      /\ UNCHANGED row => RowOK'
  BY <1>1 DEF WaitsOK, ActiveOK, RowOK, Consistent
<1> USE TypeNext
<1>3. CASE Pass
  <2>1. RowOK'
    BY <1>1, <1>3, PassIs, SameAskKeeps
  <2>2. ActiveOK'
    BY <1>1, <1>3, PassIs DEF ActiveOK
  <2> QED
    BY <1>1, <1>3, <2>1, <2>2, PassIs
<1>4. CASE Dispatch
  BY <1>1, <1>2, <1>4, DispatchIs, SameAskKeeps
<1>5. CASE Output \/ BootstrapNoise \/ ExecutorExits
  BY <1>1, <1>2, <1>5, SessionIs
<1>6. CASE DaemonEnds
  BY <1>1, <1>2, <1>6, DaemonEndsIs, SameAskKeeps
<1>7. CASE DaemonReads
  BY <1>1, <1>2, <1>7, DaemonReadsIs
<1>8. CASE DaemonWrites
  BY <1>1, <1>2, <1>8, DaemonWritesIs, SameAskKeeps
<1>9. CASE \E w \in Wait : BeginWait(w) \/ Register(w) \/ Look(w) \/ Wake(w)
  BY <1>9, WaitersTypes
<1>10. CASE \E ask \in Retries \cup {NothingAsked} : Guards(ask)
  BY <1>1, <1>2, <1>10, GuardsIs
<1>11. CASE RetryApplies
  <2>1. RowOK'
    BY <1>11, RetryAppliesIs DEF RowOK
  <2> QED
    BY <1>1, <1>2, <1>11, <2>1, RetryAppliesIs
<1>12. CASE RetryFails
  BY <1>1, <1>2, <1>12, CommandEndsIs DEF RetryFails, CommandEnds
<1>13. CASE RetryAcks
  BY <1>1, <1>2, <1>13, RetryAcksIs, SameAskKeeps DEF CommandEnds
<1>14. CASE AbandonApplies
  BY <1>1, <1>2, <1>14, AbandonIs, SameAskKeeps DEF CommandEnds
<1>15. CASE UNCHANGED vars
  BY <1>1, <1>2, <1>15 DEF vars
<1> QED
  BY <1>3, <1>4, <1>5, <1>6, <1>7, <1>8, <1>9, <1>10, <1>11, <1>12, <1>13, <1>14, <1>15 DEF Next

LEMMA InitTypes ==
  ASSUME Init
  PROVE  TypeOK
<1>1. RowOK
  <2>1. PICK s \in Starts : row = NewRow(s.profile, ResolveWaitBudget(s))
    BY DEF Init
  <2>2. s \in Ask /\ s.profile \in Profiles
    BY AskIs, WatchAssumption
  <2>3. PICK b \in Budget : b = ResolveWaitBudget(s) /\ Consistent(b)
    BY <2>2, BudgetIs
  <2>4. NewRow(s.profile, b) \in Row /\ Consistent(NewRow(s.profile, b))
    BY <2>2, <2>3, NewRowIs
  <2> QED
    BY <2>1, <2>3, <2>4 DEF RowOK
<1>2. WaitsOK /\ ActiveOK
  BY NotWaitingIs DEF Init, WaitsOK, ActiveOK
<1>3. daemon \in DaemonState /\ cmd \in CmdState
  BY AskIs, Windows DEF Init, NoJob, DaemonState, CmdState
<1> QED
  BY <1>1, <1>2, <1>3, TypesAre, Windows DEF Init

\* For every number of waits, every window, lease and timeout, and whatever is
\* asked for: the types, that a task which is to be waited for to its end never
\* goes to the background, and that an active waiter is one that waits.
THEOREM WatchTypes == Spec => []TypeOK
  BY InitTypes, TypeStep, PTL DEF Spec

-----------------------------------------------------------------------------
(* What ties the writes under way, the command and the waits to the row.   *)

\* A retry that has opened an attempt finds it as it opened it.
RetryLaunched == cmd.pc = "launched" => row.phase = "new"

\* A recommendation that the daemon is about to write was due when it read.
AdviceIsDue ==
  daemon.job = "recommend" =>
    /\ daemon.of <= row.attempt
    /\ daemon.of = row.attempt =>
         row.phase # "new" /\ (row.phase = "acked" => row.act >= WatchdogAge)

\* One that the row has was made for this attempt when due, or for an earlier one.
AdviceIsOld ==
  row.phase = "acked" /\ row.rec # 0 =>
    row.rec <= row.attempt /\ (row.rec = row.attempt => row.act >= WatchdogAge)

\* Between the guards and the new attempt only a late wait has come.
GuardHolds == cmd.pc = "guarded" => active = NoWait \/ wait[active].late

\* A wait knows its attempt's budget.
WaitAgrees(w) ==
  wait[w].pc # "idle" =>
    /\ wait[w].of <= row.attempt
    /\ wait[w].of = row.attempt => wait[w].bg = row.bg
    /\ wait[w].bg => ~wait[w].strict

WatchInv ==
  RetryLaunched /\ AdviceIsDue /\ AdviceIsOld /\ GuardHolds /\ \A w \in Wait : WaitAgrees(w)

LEMMA AcksAreNoAdvice ==
  ASSUME TypeOK, WatchInv, SameAsk(row', row), row.phase = "new", row'.phase = "acked",
         row'.rec = 0, cmd'.pc # "launched", UNCHANGED daemon
  PROVE  RetryLaunched' /\ AdviceIsDue' /\ AdviceIsOld'
  BY DEF WatchInv, RetryLaunched, AdviceIsDue, AdviceIsOld, SameAsk

LEMMA EndsAreNoAdvice ==
  ASSUME TypeOK, WatchInv, SameAsk(row', row), row'.phase \in TerminalPhases,
         cmd'.pc # "launched", UNCHANGED daemon
  PROVE  RetryLaunched' /\ AdviceIsDue' /\ AdviceIsOld'
<1>1. row'.phase # "new" /\ row'.phase # "acked"
  BY DEF TerminalPhases, SuccessPhases
<1> QED
  BY <1>1 DEF WatchInv, RetryLaunched, AdviceIsDue, AdviceIsOld, SameAsk

LEMMA SameRowAdvice ==
  ASSUME WatchInv, UNCHANGED <<row, daemon>>, cmd'.pc = "launched" => cmd.pc = "launched"
  PROVE  RetryLaunched' /\ AdviceIsDue' /\ AdviceIsOld'
  BY DEF WatchInv, RetryLaunched, AdviceIsDue, AdviceIsOld

LEMMA SameWaitsAgree ==
  ASSUME WatchInv, SameAsk(row', row), UNCHANGED wait
  PROVE  \A w \in Wait : WaitAgrees(w)'
  BY DEF WatchInv, WaitAgrees, SameAsk

LEMMA SameGuardHolds ==
  ASSUME WatchInv, UNCHANGED <<active, wait>>, cmd'.pc = "guarded" => cmd.pc = "guarded"
  PROVE  GuardHolds'
  BY DEF WatchInv, GuardHolds

LEMMA WaitersWatch ==
  ASSUME TypeOK, WatchInv, NEW w \in Wait,
         BeginWait(w) \/ Register(w) \/ Look(w) \/ Wake(w)
  PROVE  WatchInv'
<1>1. /\ row \in Row /\ ActiveOK /\ NoWait \notin Wait /\ row.attempt \in Nat
  BY TypesAre, RowIs, WatchAssumption DEF RowOK
<1>2. SameAsk(row, row)
  BY <1>1 DEF SameAsk
<1>3. CASE BeginWait(w)
  <2>1. RetryLaunched' /\ AdviceIsDue' /\ AdviceIsOld'
    BY <1>3, BeginWaitIs, SameRowAdvice
  <2>2. GuardHolds'
    BY <1>1, <1>3, BeginWaitIs DEF WatchInv, GuardHolds, ActiveOK
  <2>3. \A v \in Wait : WaitAgrees(v)'
    BY <1>1, <1>3, BeginWaitIs DEF WatchInv, WaitAgrees
  <2> QED
    BY <2>1, <2>2, <2>3 DEF WatchInv
<1>4. CASE Register(w)
  <2>1. RetryLaunched' /\ AdviceIsDue' /\ AdviceIsOld'
    BY <1>4, RegisterIs, SameRowAdvice
  <2>2. GuardHolds'
    BY <1>1, <1>4, RegisterIs DEF WatchInv, GuardHolds, ActiveOK
  <2>3. \A v \in Wait : WaitAgrees(v)'
    BY <1>4, RegisterIs DEF WatchInv, WaitAgrees
  <2> QED
    BY <2>1, <2>2, <2>3 DEF WatchInv
<1>5. CASE Look(w)
  <2>1. /\ SameAsk(row', row)
        /\ row' = row \/ (row.phase = "acked" /\ row'.phase \in TerminalPhases)
        /\ UNCHANGED <<daemon, cmd>>
        /\ \/ UNCHANGED active /\ \E pc \in WaitPcs : WaitAt(w, pc)
           \/ WaitSet(w, NotWaiting) /\ active' = IF active = w THEN NoWait ELSE active
    <3>1. (IF Remaining(wait[w]) <= 0 THEN "again" ELSE "asleep") \in WaitPcs
      BY DEF WaitPcs
    <3> QED
      BY <1>5, <3>1, LookIs
  <2>2. RetryLaunched' /\ AdviceIsDue' /\ AdviceIsOld'
    <3>1. CASE row' = row
      BY <2>1, <3>1, SameRowAdvice
    <3>2. CASE row.phase = "acked" /\ row'.phase \in TerminalPhases
      <4>1. cmd.pc # "launched"
        BY <3>2 DEF WatchInv, RetryLaunched, TerminalPhases, SuccessPhases
      <4>2. cmd'.pc # "launched" /\ UNCHANGED daemon
        BY <2>1, <4>1
      <4> QED
        BY <2>1, <3>2, <4>2, EndsAreNoAdvice
    <3> QED
      BY <2>1, <3>1, <3>2
  <2>3. GuardHolds'
    BY <1>1, <2>1 DEF WatchInv, GuardHolds, ActiveOK, WaitAt, WaitSet
  <2>4. \A v \in Wait : WaitAgrees(v)'
    <3>1. wait[w].pc # "idle"
      BY <1>5 DEF Look
    <3>2. NotWaiting.pc = "idle"
      BY DEF NotWaiting
    <3>3. /\ wait'[w].pc = "idle" \/ (/\ wait'[w].of = wait[w].of /\ wait'[w].bg = wait[w].bg
                                    /\ wait'[w].strict = wait[w].strict)
          /\ \A v \in Wait : v # w => wait'[v] = wait[v]
      BY <2>1, <3>2 DEF WaitAt, WaitSet
    <3>4. row'.attempt = row.attempt /\ row'.bg = row.bg
      BY <2>1 DEF SameAsk
    <3>5. WaitAgrees(w)'
      BY <3>1, <3>3, <3>4 DEF WatchInv, WaitAgrees
    <3>6. ASSUME NEW v \in Wait, v # w PROVE WaitAgrees(v)'
      BY <3>3, <3>4, <3>6 DEF WatchInv, WaitAgrees
    <3> QED
      BY <3>5, <3>6
  <2> QED
    BY <2>2, <2>3, <2>4 DEF WatchInv
<1>6. CASE Wake(w)
  <2>1. RetryLaunched' /\ AdviceIsDue' /\ AdviceIsOld'
    BY <1>6, WakeIs, SameRowAdvice
  <2>2. GuardHolds'
    BY <1>1, <1>6, WakeIs DEF WatchInv, GuardHolds, ActiveOK, WaitAt
  <2>3. \A v \in Wait : WaitAgrees(v)'
    BY <1>6, WakeIs DEF WatchInv, WaitAgrees, WaitAt
  <2> QED
    BY <2>1, <2>2, <2>3 DEF WatchInv
<1> QED
  BY <1>3, <1>4, <1>5, <1>6

LEMMA DaemonWatch ==
  ASSUME TypeOK, WatchInv, DaemonEnds \/ DaemonReads \/ DaemonWrites
  PROVE  WatchInv'
<1>1. row \in Row /\ row.attempt \in Nat /\ daemon.of \in Nat
  BY TypesAre, RowIs DEF RowOK, DaemonState
<1>2. SameAsk(row, row)
  BY <1>1 DEF SameAsk
<1>3. CASE DaemonEnds
  <2>1. cmd.pc # "launched"
    BY <1>3, DaemonEndsIs DEF WatchInv, RetryLaunched
  <2>2. RetryLaunched' /\ AdviceIsDue' /\ AdviceIsOld'
    BY <1>3, <2>1, DaemonEndsIs, EndsAreNoAdvice
  <2> QED
    BY <1>3, <2>2, DaemonEndsIs, SameGuardHolds, SameWaitsAgree DEF WatchInv
<1>4. CASE DaemonReads
  <2>1. RetryLaunched' /\ AdviceIsDue' /\ AdviceIsOld'
    BY <1>1, <1>4, DaemonReadsIs DEF WatchInv, RetryLaunched, AdviceIsDue, AdviceIsOld
  <2> QED
    BY <1>2, <1>4, <2>1, DaemonReadsIs, SameGuardHolds, SameWaitsAgree DEF WatchInv
<1>5. CASE DaemonWrites
  <2>1. RetryLaunched' /\ AdviceIsDue' /\ AdviceIsOld'
    BY <1>1, <1>5, DaemonWritesIs DEF WatchInv, RetryLaunched, AdviceIsDue, AdviceIsOld, SameAsk
  <2> QED
    BY <1>5, <2>1, DaemonWritesIs, SameGuardHolds, SameWaitsAgree DEF WatchInv
<1> QED
  BY <1>3, <1>4, <1>5

LEMMA CommandsWatch ==
  ASSUME TypeOK, WatchInv,
         \/ \E ask \in Retries \cup {NothingAsked} : Guards(ask)
         \/ RetryApplies \/ RetryFails \/ RetryAcks \/ AbandonApplies
  PROVE  WatchInv'
<1>1. row \in Row /\ row.attempt \in Nat /\ daemon.of \in Nat
  BY TypesAre, RowIs DEF RowOK, DaemonState
<1>2. SameAsk(row, row)
  BY <1>1 DEF SameAsk
<1>3. ASSUME NEW ask \in Retries \cup {NothingAsked}, Guards(ask)
      PROVE  WatchInv'
  <2>1. /\ active = NoWait /\ cmd'.pc = "guarded"
        /\ UNCHANGED <<row, active, wait, daemon>>
    BY <1>3, GuardsIs
  <2>2. GuardHolds' /\ (RetryLaunched' /\ AdviceIsDue' /\ AdviceIsOld')
    BY <2>1, SameRowAdvice DEF GuardHolds
  <2> QED
    BY <1>2, <2>1, <2>2, SameWaitsAgree DEF WatchInv
<1>4. CASE RetryApplies
  <2>1. /\ row'.attempt = row.attempt + 1 /\ row'.phase = "new" /\ cmd'.pc = "launched"
        /\ UNCHANGED <<active, wait, daemon>>
    BY <1>4, RetryAppliesIs
  <2>2. \A w \in Wait : WaitAgrees(w)'
    <3>1. ASSUME NEW w \in Wait PROVE WaitAgrees(w)'
      <4>1. wait[w].of \in Nat
        BY TypesAre, WaitIs
      <4> QED
        BY <1>1, <2>1, <4>1 DEF WatchInv, WaitAgrees
    <3> QED
      BY <3>1
  <2>3. RetryLaunched' /\ AdviceIsDue' /\ AdviceIsOld' /\ GuardHolds'
    BY <1>1, <2>1 DEF WatchInv, RetryLaunched, AdviceIsDue, AdviceIsOld, GuardHolds
  <2> QED
    BY <2>2, <2>3 DEF WatchInv
<1>5. CASE RetryFails
  <2>1. UNCHANGED <<row, active, wait, daemon>> /\ cmd'.pc = "idle"
    BY <1>5 DEF RetryFails
  <2> QED
    BY <1>2, <2>1, SameRowAdvice, SameGuardHolds, SameWaitsAgree DEF WatchInv
<1>6. CASE RetryAcks
  <2>1. /\ row.phase = "new" /\ SameAsk(row', row) /\ row'.phase = "acked" /\ row'.rec = 0
        /\ cmd'.pc = "idle" /\ UNCHANGED <<active, wait, daemon>>
    <3>1. row.phase = "new"
      BY <1>6, RetryAcksIs DEF WatchInv, RetryLaunched
    <3> QED
      BY <1>6, <3>1, RetryAcksIs DEF CommandEnds
  <2>2. RetryLaunched' /\ AdviceIsDue' /\ AdviceIsOld'
    BY <2>1, AcksAreNoAdvice
  <2> QED
    BY <2>1, <2>2, SameGuardHolds, SameWaitsAgree DEF WatchInv
<1>7. CASE AbandonApplies
  <2>1. /\ SameAsk(row', row) /\ row'.phase \in TerminalPhases
        /\ cmd'.pc = "idle" /\ UNCHANGED <<active, wait, daemon>>
    BY <1>7, AbandonIs DEF CommandEnds
  <2>2. RetryLaunched' /\ AdviceIsDue' /\ AdviceIsOld'
    BY <2>1, EndsAreNoAdvice
  <2> QED
    BY <2>1, <2>2, SameGuardHolds, SameWaitsAgree DEF WatchInv
<1> QED
  BY <1>3, <1>4, <1>5, <1>6, <1>7

LEMMA WatchStep ==
  ASSUME TypeOK, WatchInv, [Next]_vars
  PROVE  WatchInv'
<1>1. row \in Row
  BY TypesAre DEF RowOK
<1>2. SameAsk(row, row)
  BY <1>1 DEF SameAsk
<1>3. CASE Pass
  <2>1. row.act \in Nat /\ row'.act \in Nat /\ row'.act >= row.act /\ WatchdogAge \in Nat
    BY <1>1, <1>3, RowIs, PassIs, OlderIs, Windows DEF Age
  <2>2. AdviceIsDue' /\ AdviceIsOld'
    BY <1>3, <2>1, PassIs DEF WatchInv, AdviceIsDue, AdviceIsOld, SameAsk
  <2>3. RetryLaunched'
    BY <1>3, PassIs DEF WatchInv, RetryLaunched
  <2>4. GuardHolds'
    BY <1>3, PassIs, TypesAre DEF WatchInv, GuardHolds, ActiveOK
  <2>5. \A w \in Wait : WaitAgrees(w)'
    BY <1>3, PassIs DEF WatchInv, WaitAgrees, SameAsk
  <2> QED
    BY <2>2, <2>3, <2>4, <2>5 DEF WatchInv
<1>4. CASE Dispatch
  <2>1. RetryLaunched' /\ AdviceIsDue' /\ AdviceIsOld'
    BY <1>4, DispatchIs, AcksAreNoAdvice
  <2> QED
    BY <1>4, <2>1, DispatchIs, SameGuardHolds, SameWaitsAgree DEF WatchInv
<1>5. CASE Output \/ BootstrapNoise \/ ExecutorExits
  BY <1>2, <1>5, SessionIs, SameRowAdvice, SameGuardHolds, SameWaitsAgree DEF WatchInv
<1>6. CASE DaemonEnds \/ DaemonReads \/ DaemonWrites
  BY <1>6, DaemonWatch
<1>7. CASE \E w \in Wait : BeginWait(w) \/ Register(w) \/ Look(w) \/ Wake(w)
  BY <1>7, WaitersWatch
<1>8. CASE \/ \E ask \in Retries \cup {NothingAsked} : Guards(ask)
           \/ RetryApplies \/ RetryFails \/ RetryAcks \/ AbandonApplies
  BY <1>8, CommandsWatch
<1>9. CASE UNCHANGED vars
  <2>1. UNCHANGED <<row, active, wait, daemon, cmd>>
    BY <1>9 DEF vars
  <2> QED
    BY <1>2, <2>1, SameRowAdvice, SameGuardHolds, SameWaitsAgree DEF WatchInv
<1> QED
  BY <1>3, <1>4, <1>5, <1>6, <1>7, <1>8, <1>9 DEF Next

LEMMA InitWatch ==
  ASSUME Init
  PROVE  WatchInv
<1>1. row.phase = "new"
  BY DEF Init, NewRow
<1>2. cmd.pc = "idle" /\ daemon.job = "none"
  BY DEF Init, NoJob
<1>3. \A w \in Wait : wait[w].pc = "idle"
  BY DEF Init, NotWaiting
<1> QED
  BY <1>1, <1>2, <1>3
     DEF WatchInv, RetryLaunched, AdviceIsDue, AdviceIsOld, GuardHolds, WaitAgrees

\* The invariant of the proofs below: a retry that has opened an attempt finds
\* it as it opened it (task.py between apply_retry_dispatch and mark_acked), a
\* recommendation is due or comes from an earlier attempt, only a late wait has
\* come between the guards and the retry, and a wait knows its attempt's budget.
THEOREM WatchInvariant == Spec => [](TypeOK /\ WatchInv)
<1>1. Init => TypeOK /\ WatchInv
  BY InitTypes, InitWatch
<1>2. TypeOK /\ WatchInv /\ [Next]_vars => (TypeOK /\ WatchInv)'
  BY TypeStep, WatchStep
<1> QED
  BY <1>1, <1>2, PTL DEF Spec

-----------------------------------------------------------------------------
(* What follows of retries. *)

LEMMA RetrySparesStep ==
  ASSUME TypeOK, WatchInv, [Next]_vars, row'.attempt # row.attempt
  PROVE  active = NoWait \/ wait[active].late
<1> USE DEF SameAsk
<1>1. CASE Pass \/ Dispatch
  BY <1>1, PassIs, DispatchIs
<1>2. CASE Output \/ BootstrapNoise \/ ExecutorExits
  BY <1>2, SessionIs
<1>3. CASE DaemonEnds \/ DaemonReads \/ DaemonWrites
  BY <1>3, DaemonEndsIs, DaemonReadsIs, DaemonWritesIs
<1>4. CASE \E w \in Wait : BeginWait(w) \/ Register(w) \/ Look(w) \/ Wake(w)
  BY <1>4, BeginWaitIs, RegisterIs, LookIs, WakeIs
<1>5. CASE \E ask \in Retries \cup {NothingAsked} : Guards(ask)
  BY <1>5, GuardsIs
<1>6. CASE RetryApplies
  BY <1>6, RetryAppliesIs DEF WatchInv, GuardHolds
<1>7. CASE RetryFails
  BY <1>7 DEF RetryFails
<1>8. CASE RetryAcks \/ AbandonApplies
  BY <1>8, RetryAcksIs, AbandonIs
<1>9. CASE UNCHANGED vars
  BY <1>9 DEF vars
<1> QED
  BY <1>1, <1>2, <1>3, <1>4, <1>5, <1>6, <1>7, <1>8, <1>9 DEF Next

\* Without --force no attempt is replaced under a wait that had its row in the
\* waiters table when the guards of task retry were made: only under one that
\* came between them and the new attempt.
THEOREM WaitsAreSpared == Spec => RetrySparesWaits
<1> DEFINE A == row'.attempt # row.attempt => active = NoWait \/ wait[active].late
<1>1. TypeOK /\ WatchInv /\ [Next]_vars => [A]_vars
  BY RetrySparesStep
<1>2. RetrySparesWaits <=> [][A]_vars
  BY DEF RetrySparesWaits
<1> HIDE DEF A
<1> QED
  BY <1>1, <1>2, WatchInvariant, PTL DEF Spec

-----------------------------------------------------------------------------
(* What follows of verdicts. *)

LEMMA TriggeredIs ==
  ASSUME NEW r, WatchdogTriggered(r)
  PROVE  /\ r.phase = "acked" /\ ClassifyLiveness(r, EffectiveWindow(r)) = "silent"
         /\ r.rec # 0 \/ r.act >= EffectiveWindow(r)
  BY DEF WatchdogTriggered

\* A wait gives up on what the watchdog says alone.
LEMMA GivesUpIs ==
  ASSUME NEW me, NEW r, Outcome(me, r) \in {"watchdog", "soft_no_progress"}
  PROVE  /\ WatchdogTriggered(r)
         /\ Outcome(me, r) = IF me.bg /\ ~me.strict THEN "soft_no_progress" ELSE "watchdog"
  BY DEF Outcome

\* The status of a silent task.
LEMMA ActionIs ==
  ASSUME NEW r \in Row, noise \in BOOLEAN, ClassifyLiveness(r, EffectiveWindow(r)) = "silent"
  PROVE  ControllerAction(r) = IF r.bg /\ ~(r.over \/ noise)
                               THEN "inspect_logs_or_continue_background"
                               ELSE "retry_or_switch_executor"
<1> DEFINE silent == ClassifyLiveness(r, EffectiveWindow(r)) = "silent"
           failed == r.over \/ noise
<1>1. silent /\ r.bg \in BOOLEAN /\ failed \in BOOLEAN
  BY RowIs
<1>2. ControllerAction(r) =
        CASE failed -> "retry_or_switch_executor"
          [] ~failed /\ silent /\ r.bg -> "inspect_logs_or_continue_background"
          [] ~failed /\ silent /\ ~r.bg -> "retry_or_switch_executor"
          [] ~failed /\ ~silent /\ r.bg /\ r.lease # NoLease /\ Silence(r) >= r.lease -> "detach_and_continue"
          [] OTHER -> "continue_waiting"
  BY DEF ControllerAction
<1> HIDE DEF silent, failed
<1>3. ControllerAction(r) = IF r.bg /\ ~failed THEN "inspect_logs_or_continue_background"
                            ELSE "retry_or_switch_executor"
  BY <1>1, <1>2
<1> QED
  BY <1>3 DEF failed

LEMMA GiveUpStep ==
  ASSUME TypeOK, WatchInv, NEW w \in Wait, GivesUp(w)
  PROVE  /\ row'.act >= EffectiveWindow(row') \/ row'.rec \notin {0, row'.attempt}
         /\ EffectiveWindow(row') = Window => ~IsTaskLive(row')
         /\ wait[w].of = row'.attempt =>
              \/ ControllerAction(row') = Advice(Verdict(w))
              \/ row'.bg /\ (row'.over \/ noise)
<1>1. /\ WatchdogTriggered(row')
      /\ Verdict(w) = IF wait[w].bg /\ ~wait[w].strict THEN "soft_no_progress" ELSE "watchdog"
  BY GivesUpIs DEF GivesUp, Verdict
<1>2. /\ row'.phase = "acked" /\ ClassifyLiveness(row', EffectiveWindow(row')) = "silent"
      /\ row'.rec # 0 \/ row'.act >= EffectiveWindow(row')
  BY <1>1, TriggeredIs
<1>3. row' = row /\ wait[w].pc # "idle"
  BY <1>2, LookIs DEF GivesUp, TerminalPhases, SuccessPhases
<1>4. PICK r \in Row : r = row /\ r = row'
  BY <1>3, TypesAre DEF RowOK
<1>5. r.act >= EffectiveWindow(r) \/ r.rec \notin {0, r.attempt}
  <2>1. EffectiveWindow(r) \in Nat /\ EffectiveWindow(r) <= WatchdogAge /\ WatchdogAge \in Nat
    BY WindowIs, Windows
  <2>2. r.act \in Nat
    BY RowIs DEF Age
  <2>3. r.rec # 0 /\ r.rec = r.attempt => r.act >= WatchdogAge
    BY <1>2, <1>4 DEF WatchInv, AdviceIsOld
  <2>4. r.rec # 0 \/ r.act >= EffectiveWindow(r)
    BY <1>2, <1>4
  <2> QED
    BY <2>1, <2>2, <2>3, <2>4
<1>6. EffectiveWindow(r) = Window => ~IsTaskLive(r)
  BY <1>2, <1>4 DEF IsTaskLive
<1>7. ASSUME wait[w].of = r.attempt, ~(r.bg /\ (r.over \/ noise))
      PROVE  ControllerAction(r) = Advice(Verdict(w))
  <2>1. wait[w].bg = r.bg /\ (wait[w].bg => ~wait[w].strict)
    BY <1>3, <1>4, <1>7 DEF WatchInv, WaitAgrees
  <2>2. Verdict(w) = IF r.bg THEN "soft_no_progress" ELSE "watchdog"
    BY <1>1, <2>1
  <2>3. ControllerAction(r) = IF r.bg THEN "inspect_logs_or_continue_background"
                              ELSE "retry_or_switch_executor"
    <3>1. noise \in BOOLEAN /\ ClassifyLiveness(r, EffectiveWindow(r)) = "silent"
      BY <1>2, <1>4, TypesAre
    <3>2. ControllerAction(r) = IF r.bg /\ ~(r.over \/ noise)
                                THEN "inspect_logs_or_continue_background"
                                ELSE "retry_or_switch_executor"
      BY <3>1, ActionIs
    <3> QED
      BY <1>7, <3>2
  <2> QED
    BY <2>2, <2>3 DEF Advice
<1> QED
  BY <1>4, <1>5, <1>6, <1>7

\* When a wait gives a task up for lack of progress, the attempt had its whole
\* window since it was acked, or the daemon's recommendation was made for an
\* earlier attempt; task retry would not refuse the task as live, unless the
\* task is report-only; and its status recommends what the wait says, unless
\* the wait began with an earlier attempt, or the task is in the background and
\* its execution budget is over or its logs hold only noise.
THEOREM GivingUpIsSound == Spec => GiveUpIsSound
<1> DEFINE A ==
      \A w \in Wait : GivesUp(w) =>
        /\ row'.act >= EffectiveWindow(row') \/ row'.rec \notin {0, row'.attempt}
        /\ EffectiveWindow(row') = Window => ~IsTaskLive(row')
        /\ wait[w].of = row'.attempt =>
             \/ ControllerAction(row') = Advice(Verdict(w))
             \/ row'.bg /\ (row'.over \/ noise)
<1>1. TypeOK /\ WatchInv /\ [Next]_vars => [A]_vars
  BY GiveUpStep
<1>2. GiveUpIsSound <=> [][A]_vars
  BY DEF GiveUpIsSound
<1> HIDE DEF A
<1> QED
  BY <1>1, <1>2, WatchInvariant, PTL DEF Spec

-----------------------------------------------------------------------------
(* What follows of deadlines. *)

LEMMA PollsAgainIs ==
  ASSUME NEW me \in WaitState, NEW r \in Row, Outcome(me, r) = "none", Remaining(me) <= 0
  PROVE  /\ me.lease # NoLease /\ me.elapsed >= me.lease
         /\ me.bg => r.phase = "new"
<1>1. me.elapsed \in Nat /\ me.lease \in Nat \cup {NoLease} /\ Timeout \in Nat
  BY Windows DEF WaitState, Lease
<1>2. r.phase \notin TerminalPhases /\ r.phase \in TerminalPhases \cup {"new", "acked"}
  BY RowIs DEF Outcome, Phases, TerminalPhases
<1>3. /\ ~(me.bg /\ me.lease # NoLease /\ me.elapsed >= me.lease /\ r.phase = "acked")
      /\ ~(me.elapsed >= Timeout)
  BY <1>2 DEF Outcome
<1>4. me.lease # NoLease /\ me.elapsed >= me.lease
  <2>1. CASE me.lease = NoLease
    BY <1>1, <1>3, <2>1 DEF Remaining
  <2>2. CASE me.lease # NoLease
    BY <1>1, <1>3, <2>2 DEF Remaining, Least
  <2> QED
    BY <2>1, <2>2
<1> QED
  BY <1>2, <1>3, <1>4

LEMMA SleepStep ==
  ASSUME TypeOK, NEW w \in Wait, Look(w), wait'[w].pc = "again"
  PROVE  /\ wait[w].lease # NoLease /\ wait[w].elapsed >= wait[w].lease
         /\ wait[w].bg => row'.phase = "new"
<1>1. Outcome(wait[w], row') = "none" /\ Remaining(wait[w]) <= 0
  BY LookIs DEF WaitAt, WaitSet, NotWaiting
<1>2. wait[w] \in WaitState /\ row' \in Row
  BY TypesAre, WaitIs, LookIs DEF SameAsk
<1> QED
  BY <1>1, <1>2, PollsAgainIs

\* A wait polls without a pause only once its lease is over and does not end
\* it: that of a wait which is not in the background never does, in the
\* background it does not before the task is acked.  For every lease and timeout.
THEOREM WaitsSleep == Spec => WaitSleeps
<1> DEFINE A ==
      \A w \in Wait : Look(w) /\ wait'[w].pc = "again" =>
        /\ wait[w].lease # NoLease /\ wait[w].elapsed >= wait[w].lease
        /\ wait[w].bg => row'.phase = "new"
<1>1. TypeOK /\ [Next]_vars => [A]_vars
  BY SleepStep
<1>2. WaitSleeps <=> [][A]_vars
  BY DEF WaitSleeps
<1> HIDE DEF A
<1> QED
  BY <1>1, <1>2, WatchTypes, PTL DEF Spec
=============================================================================
