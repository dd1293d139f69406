----------------------------- MODULE Delegation -----------------------------
(***************************************************************************)
(* The companion extension takes TASK messages of the agent bus, starts an *)
(* editor session for each and returns an ACK and one terminal status over *)
(* the bus. It is one JavaScript process: what runs between two awaits is  *)
(* one action here, and between the awaits of a handler, of a poll of the  *)
(* receipts or of the replay of ACKs the others run. The tracker is on     *)
(* disk, everything else is lost when the editor stops.                    *)
(*                                                                         *)
(* register puts a new object into the tracker, so a poll that listed the  *)
(* old one keeps it: rows is the heap of these objects and cur[t] the one  *)
(* that the tracker holds for task t.                                      *)
(***************************************************************************)
EXTENDS Naturals, FiniteSets, Sequences

CONSTANTS Task, Message, TaskOf,     \* TASK messages and the task each is for
          MaxRecoveries,             \* recoveryMaxRetries
          Handler, Poller,           \* batches handled, and polls run, at once
          Scenarios,                 \* which messages, handlers, polls and faults
          MaxRows                    \* a bound on the registrations

ASSUME DelegationAssumption ==
  /\ TaskOf \in [Message -> Task]
  /\ MaxRecoveries \in Nat /\ MaxRows \in Nat
  /\ IsFiniteSet(Handler) /\ IsFiniteSet(Poller)
  /\ Scenarios \subseteq [inbox: SUBSET Message, handlers: SUBSET Handler,
                          polls: SUBSET Poller, faults: Nat]

VARIABLES rows, cur,                 \* DelegationTaskTracker
          receipt,                   \* what lies at a task's receipt path
          handler, poll, replay,     \* what is awaited
          sending, tries,            \* inFlightTerminalTaskIds, recoveryAttempts
          acking,                    \* inFlightAckTaskIds
          settled,                   \* messages the bus does not give out (again)
          bus,                       \* what was sent to the desktop
          cut,                       \* rows whose terminal was in flight at a crash
          left, crashes              \* faults that may still happen

tracker == <<rows, cur>>
memory == <<sending, tries, acking>>
outside == <<receipt, settled, bus, cut, left, crashes>>
vars == <<tracker, handler, poll, replay, memory, outside>>

-----------------------------------------------------------------------------
(* The tracker.                                                            *)

(* A session works, has been silent for staleAfterMs, is over with its     *)
(* receipt written, or is known to be lost.                                *)
Sessions == {"working", "silent", "over", "gone"}

(* pend is the pending terminal: prepared, or inflight while its send runs *)
(* (and after a crash). The pending ACK is owed, or is blank: prepared with *)
(* no body, which is never sent. ids and ackIds count the delivery ids     *)
(* drawn for what is sent, cycle the times the task was reopened.          *)
Row ==
  [task: Task, src: Message, live: Sessions, cycle: Nat,
   ack: BOOLEAN, owed: BOOLEAN, blank: BOOLEAN, ackIds: Nat,
   end: {"none", "abandoned", "delivered"},
   pend: {"none", "prepared", "inflight"}, ids: Nat]

Registered(m) ==
  [task |-> TaskOf[m], src |-> m, live |-> "working", cycle |-> 0,
   ack |-> FALSE, owed |-> FALSE, blank |-> FALSE, ackIds |-> 0,
   end |-> "none", pend |-> "none", ids |-> 0]

Held(t) == rows[cur[t]]
Open(t) == cur[t] # 0 /\ Held(t).end = "none"
Kept == {r \in DOMAIN rows : cur[rows[r].task] = r}

Prepared(row) == [row EXCEPT !.pend = "inflight", !.ids = @ + 1]
(* Mutant: every attempt to send draws a delivery id.                      *)
InflightAnew(row) == [row EXCEPT !.pend = "inflight", !.ids = @ + 1]

Inflight(row) == [row EXCEPT !.pend = "inflight"]
(* Mutant: the marker stays when the send has failed.                      *)
NotCleared(row) == row

NotSent(row) == [row EXCEPT !.pend = IF @ = "none" THEN @ ELSE "prepared"]
Delivered(row) ==
  IF row.end = "none" /\ row.pend # "none"
  THEN [row EXCEPT !.end = "delivered", !.pend = "none"] ELSE row
Abandoned(row) ==
  IF row.end = "none" THEN [row EXCEPT !.end = "abandoned"] ELSE row
AckPrepared(row) ==
  IF row.owed THEN row
  ELSE [row EXCEPT !.owed = TRUE, !.blank = FALSE, !.ackIds = @ + 1]
Acked(row) ==
  IF row.owed THEN [row EXCEPT !.ack = TRUE, !.owed = FALSE] ELSE row

(* reopen and updateSession: only ackSentAt survives.                      *)
Reopened(row) ==
  [row EXCEPT !.end = "none", !.pend = "none", !.owed = FALSE, !.blank = FALSE,
              !.cycle = @ + 1, !.live = "working"]

(* The tracker is asked by task id, whatever object the caller holds.      *)
Track(t, row) == rows' = [rows EXCEPT ![cur[t]] = row] /\ UNCHANGED cur

Ended(r) == [rows EXCEPT ![r].live = "gone"]    \* terminateSession

-----------------------------------------------------------------------------
Idle == [pc |-> "idle"]

Init ==
  /\ rows = <<>> /\ cur = [t \in Task |-> 0]
  /\ \E s \in Scenarios :
       /\ settled = Message \ s.inbox /\ left = s.faults
       /\ handler = [h \in s.handlers |-> Idle] /\ poll = [p \in s.polls |-> Idle]
  /\ receipt = [t \in Task |-> "none"] /\ bus = {} /\ cut = {}
  /\ replay = Idle
  /\ sending = {} /\ acking = {} /\ tries = [t \in Task |-> 0]
  /\ crashes = 0

(* How a call of agent-bus send ends: the message is stored and the call   *)
(* says so, or it fails, or it is stored and the call fails all the same.  *)
Fault == left > 0 /\ left' = left - 1
Ends(ok, wire) ==
  \/ ok /\ bus' = bus \cup {wire} /\ UNCHANGED left
  \/ ~ok /\ Fault /\ bus' \in {bus, bus \cup {wire}}

Wire(kind, t, id, late) ==
  [kind |-> kind, row |-> cur[t], cycle |-> Held(t).cycle, id |-> id, late |-> late]

(* sendAckDurably up to its send, and what it does when the send is over.  *)
AckWire(t) == Wire("ACK", t, AckPrepared(Held(t)).ackIds, FALSE)
AckStarts(t) == Track(t, AckPrepared(Held(t))) /\ acking' = acking \cup {t}
(* Mutant: a failed send leaves the task in inFlightAckTaskIds.            *)
AckEndsHolding(t, ok, wire) ==
  /\ Ends(ok, wire)
  /\ IF ok THEN Track(t, Acked(Held(t))) ELSE UNCHANGED tracker
  /\ acking' = IF ok THEN acking \ {t} ELSE acking

AckEnds(t, ok, wire) ==
  /\ Ends(ok, wire)
  /\ IF ok THEN Track(t, Acked(Held(t))) ELSE UNCHANGED tracker
  /\ acking' = acking \ {t}

-----------------------------------------------------------------------------
(* Handlers of TASK messages. Batches are handled side by side, and a      *)
(* message comes again when its lease runs out before it is settled.       *)

In(h, pc) == handler[h].pc = pc
Goes(h, pc) == handler' = [handler EXCEPT ![h] = [pc |-> pc, msg |-> @.msg]]
TaskAt(h) == TaskOf[handler[h].msg]

Room ==
  Len(rows) + Cardinality({h \in DOMAIN handler : handler[h].pc \in
                             {"terminating", "preempting", "creating"}}) < MaxRows

Redelivered(m) == Open(TaskOf[m]) /\ Held(TaskOf[m]).src = m

(* The first other open task of the workspace is preempted; the model has  *)
(* one workspace and leaves open which of the tasks comes first.           *)
Others(t) == {o \in Task \ {t} : Open(o)}
ToSession(h, m, rws) ==
  \/ /\ Others(TaskOf[m]) = {}
     /\ handler' = [handler EXCEPT ![h] = [pc |-> "creating", msg |-> m]]
     /\ rows' = rws
  \/ \E o \in Others(TaskOf[m]) :
       /\ handler' = [handler EXCEPT ![h] = [pc |-> "preempting", msg |-> m, other |-> o]]
       /\ rows' = [rws EXCEPT ![cur[o]].live = "gone"]

(* Nothing is sent again: the ACK was, or there is no body to send.        *)
Reuse(h, m) ==
  /\ In(h, "idle") /\ m \notin settled /\ Redelivered(m)
  /\ Held(TaskOf[m]).ack \/ Held(TaskOf[m]).blank
  /\ handler' = [handler EXCEPT ![h] = [pc |-> "settling", msg |-> m]]
  /\ UNCHANGED <<tracker, poll, replay, memory, outside>>

ReplayAck(h, m) ==
  /\ In(h, "idle") /\ m \notin settled /\ Redelivered(m)
  /\ ~Held(TaskOf[m]).ack /\ ~Held(TaskOf[m]).blank
  /\ AckStarts(TaskOf[m])
  /\ handler' = [handler EXCEPT ![h] = [pc |-> "acking", msg |-> m, wire |-> AckWire(TaskOf[m])]]
  /\ UNCHANGED <<poll, replay, sending, tries, outside>>

Supersede(h, m) ==
  /\ In(h, "idle") /\ m \notin settled /\ Open(TaskOf[m]) /\ ~Redelivered(m) /\ Room
  /\ handler' = [handler EXCEPT ![h] = [pc |-> "terminating", msg |-> m]]
  /\ rows' = Ended(cur[TaskOf[m]])
  /\ UNCHANGED <<cur, poll, replay, memory, outside>>

TakeUp(h, m) ==
  /\ In(h, "idle") /\ m \notin settled /\ ~Open(TaskOf[m]) /\ Room
  /\ ToSession(h, m, rows)
  /\ UNCHANGED <<cur, poll, replay, memory, outside>>

Superseded(h) ==
  /\ In(h, "terminating")
  /\ LET t == TaskAt(h) IN
     ToSession(h, handler[h].msg, [rows EXCEPT ![cur[t]] = Abandoned(@)])
  /\ UNCHANGED <<cur, poll, replay, memory, outside>>

Preempted(h) ==
  /\ In(h, "preempting")
  /\ Track(handler[h].other, Abandoned(Held(handler[h].other))) /\ Goes(h, "creating")
  /\ UNCHANGED <<poll, replay, memory, outside>>

(* A BLOCKED reply; if it fails, the handler throws and the message comes  *)
(* again.                                                                  *)
Block(h, ok) ==
  IF ok THEN Goes(h, "settling") /\ UNCHANGED left
  ELSE Fault /\ handler' = [handler EXCEPT ![h] = Idle]

(* createBackgroundSession fails, takes too long or makes a phantom.       *)
NoSession(h, ok) ==
  /\ In(h, "creating") /\ Block(h, ok)
  /\ UNCHANGED <<tracker, poll, replay, memory, receipt, settled, bus, cut, crashes>>

(* register refuses a task that somebody has opened meanwhile.             *)
Refused(h, ok) ==
  /\ In(h, "creating") /\ Open(TaskAt(h)) /\ Block(h, ok)
  /\ UNCHANGED <<tracker, poll, replay, memory, receipt, settled, bus, cut, crashes>>

Register(h) ==
  /\ In(h, "creating") /\ ~Open(TaskAt(h))
  /\ LET m == handler[h].msg   r == Len(rows) + 1 IN
     /\ rows' = Append(rows, AckPrepared(Registered(m)))
     /\ cur' = [cur EXCEPT ![TaskOf[m]] = r]
     /\ acking' = acking \cup {TaskOf[m]}
     /\ handler' = [handler EXCEPT ![h] =
          [pc |-> "acking", msg |-> m,
           wire |-> [kind |-> "ACK", row |-> r, cycle |-> 0, id |-> 1, late |-> FALSE]]]
  /\ UNCHANGED <<poll, replay, sending, tries, outside>>

HandlerAckEnds(h, ok) ==
  /\ In(h, "acking") /\ AckEnds(TaskAt(h), ok, handler[h].wire) /\ Goes(h, "settling")
  /\ UNCHANGED <<poll, replay, sending, tries, receipt, settled, cut, crashes>>

(* settleClaim, whose failure the watcher reports and forgets.             *)
Settle(h, ok) ==
  /\ In(h, "settling")
  /\ handler' = [handler EXCEPT ![h] = Idle]
  /\ IF ok THEN settled' = settled \cup {handler[h].msg} /\ UNCHANGED left
     ELSE Fault /\ UNCHANGED settled
  /\ UNCHANGED <<tracker, poll, replay, memory, receipt, bus, cut, crashes>>

-----------------------------------------------------------------------------
(* retryPendingAckDeliveries. One that lists empty ACKs only does nothing. *)

Due(r) == rows[r].task \notin acking /\ ~Held(rows[r].task).ack

BeginReplay ==
  /\ replay = Idle /\ \E r \in Kept : rows[r].owed /\ Due(r)
  /\ replay' = [pc |-> "listing", todo |-> {r \in Kept : rows[r].owed \/ rows[r].blank}]
  /\ UNCHANGED <<tracker, handler, poll, memory, outside>>

(* The body is the listed object's: with neither it nor the tracker's own  *)
(* pending ACK left by a recovery, an empty one is prepared and not sent.  *)
ReplayNext(r) ==
  /\ replay.pc = "listing" /\ r \in replay.todo /\ Due(r)
  /\ LET t == rows[r].task   rest == replay.todo \ {r} IN
     IF rows[r].owed \/ Held(t).owed
     THEN /\ AckStarts(t)
          /\ replay' = [pc |-> "acking", todo |-> rest, wire |-> AckWire(t)]
     ELSE /\ Track(t, [Held(t) EXCEPT !.blank = TRUE]) /\ UNCHANGED acking
          /\ replay' = [pc |-> "listing", todo |-> rest]
  /\ UNCHANGED <<handler, poll, sending, tries, outside>>

ReplayAckEnds(ok) ==
  /\ replay.pc = "acking" /\ AckEnds(rows[replay.wire.row].task, ok, replay.wire)
  /\ replay' = [pc |-> "listing", todo |-> replay.todo]
  /\ UNCHANGED <<handler, poll, sending, tries, receipt, settled, cut, crashes>>

EndReplay ==
  /\ replay.pc = "listing" /\ \A r \in replay.todo : ~Due(r)
  /\ replay' = Idle
  /\ UNCHANGED <<tracker, handler, poll, memory, outside>>

-----------------------------------------------------------------------------
(* poll of the receipt watcher: first the pending deliveries, then the     *)
(* receipts and the lost sessions. A new poll begins even if one still     *)
(* waits.                                                                  *)

Polls(p, pc) == poll[p].pc = pc
PollGoes(p, pc, todo) == poll' = [poll EXCEPT ![p] = [pc |-> pc, todo |-> todo]]
PollWaits(p, pc, r) == poll' = [poll EXCEPT ![p] = [pc |-> pc, todo |-> @.todo \ {r}, at |-> r]]

Pending == {r \in Kept : rows[r].pend # "none" /\ rows[r].end = "none"}
Unfinished == {r \in Kept : rows[r].end = "none"}

MayRetry(r) ==
  /\ rows[r].ack /\ Open(rows[r].task)
  /\ rows[r].task \notin sending /\ Held(rows[r].task).pend # "none"

File(r) == receipt[rows[r].task]

(* Mutant: a receipt does not wait for the ACK.                            *)
ToCheckUnacked(r) ==
  ~(Open(rows[r].task) /\ Held(rows[r].task).pend # "none") /\ File(r) # "bad"

(* A file that is no receipt is skipped, and as it is there nobody asks    *)
(* what became of the session either.                                      *)
ToCheck(r) ==
  /\ rows[r].ack /\ ~(Open(rows[r].task) /\ Held(rows[r].task).pend # "none")
  /\ File(r) # "bad"

(* A poll that finds nothing to do is none.                                *)
BeginCheck(p) ==
  /\ \/ Polls(p, "idle") /\ \A r \in Pending : ~MayRetry(r)
     \/ Polls(p, "retrying") /\ \A r \in poll[p].todo : ~MayRetry(r)
  /\ IF \E r \in Unfinished : ToCheck(r)
     THEN PollGoes(p, "checking", Unfinished)
     ELSE Polls(p, "retrying") /\ poll' = [poll EXCEPT ![p] = Idle]
  /\ UNCHANGED <<tracker, handler, replay, memory, outside>>

BeginPoll(p) ==
  /\ Polls(p, "idle") /\ \E r \in Pending : MayRetry(r)
  /\ PollGoes(p, "retrying", Pending)
  /\ UNCHANGED <<tracker, handler, replay, memory, outside>>

(* The two phases' sends; file says whether the receipt goes afterwards.   *)
Sends(p, r, row, file) ==
  LET t == rows[r].task IN
  /\ rows' = [rows EXCEPT ![cur[t]] = row] /\ UNCHANGED cur
  /\ sending' = sending \cup {t}
  /\ poll' = [poll EXCEPT ![p] =
       [pc |-> IF Polls(p, "retrying") THEN "resending" ELSE "sending",
        todo |-> @.todo \ {r}, file |-> file,
        wire |-> Wire("TERMINAL", t, row.ids, cur[t] # r)]]

(* In flight, but not by this process: it was sent before a crash.         *)
TakeForSent(p, r) ==
  /\ Polls(p, "retrying") /\ r \in poll[p].todo /\ MayRetry(r)
  /\ Held(rows[r].task).pend = "inflight"
  /\ Track(rows[r].task, Delivered(Held(rows[r].task)))
  /\ receipt' = [receipt EXCEPT ![rows[r].task] = "none"]
  /\ PollGoes(p, "retrying", poll[p].todo \ {r})
  /\ UNCHANGED <<handler, replay, memory, settled, bus, cut, left, crashes>>

Resend(p, r) ==
  /\ Polls(p, "retrying") /\ r \in poll[p].todo /\ MayRetry(r)
  /\ Held(rows[r].task).pend = "prepared"
  /\ Sends(p, r, Inflight(Held(rows[r].task)), TRUE)
  /\ UNCHANGED <<handler, replay, acking, tries, outside>>

(* What prepareAndSendTerminal asks before it prepares.                    *)
MayPrepare(t) == Open(t) /\ Held(t).pend = "none" /\ t \notin sending

PrepareAndSend(p, r, file) ==
  IF MayPrepare(rows[r].task)
  THEN Sends(p, r, Prepared(Held(rows[r].task)), file)
  ELSE PollGoes(p, "checking", poll[p].todo \ {r}) /\ UNCHANGED <<tracker, sending>>

SendReceipt(p, r) ==
  /\ Polls(p, "checking") /\ r \in poll[p].todo /\ ToCheck(r)
  /\ File(r) = "good"
  /\ PrepareAndSend(p, r, TRUE)
  /\ UNCHANGED <<handler, replay, acking, tries, outside>>

AskForLoss(p, r) ==
  /\ Polls(p, "checking") /\ r \in poll[p].todo /\ ToCheck(r)
  /\ File(r) = "none"
  /\ PollWaits(p, "asking", r)
  /\ UNCHANGED <<tracker, handler, replay, memory, outside>>

Lost(r) == rows[r].live = "gone"
Stale(r) == rows[r].live \in {"silent", "over"}

Fine(p) ==
  /\ Polls(p, "asking") /\ ~Lost(poll[p].at) /\ ~Stale(poll[p].at)
  /\ PollGoes(p, "checking", poll[p].todo)
  /\ UNCHANGED <<tracker, handler, replay, memory, outside>>

DelayedReceipt(p) ==
  /\ Polls(p, "asking") /\ Lost(poll[p].at) /\ File(poll[p].at) = "good"
  /\ PrepareAndSend(p, poll[p].at, TRUE)
  /\ UNCHANGED <<handler, replay, acking, tries, outside>>

ToRecover(p) ==
  /\ Polls(p, "asking")
  /\ Stale(poll[p].at) \/ (Lost(poll[p].at) /\ File(poll[p].at) # "good")

(* Mutant: a recovery is not counted.                                      *)
RecoverUncounted(p) ==
  /\ ToRecover(p) /\ tries[rows[poll[p].at].task] < MaxRecoveries
  /\ rows' = Ended(poll[p].at)
  /\ PollWaits(p, "recovering", poll[p].at)
  /\ UNCHANGED <<cur, handler, replay, memory, outside>>

(* Mutant: one recovery more than allowed.                                 *)
RecoverOnceMore(p) ==
  /\ ToRecover(p) /\ tries[rows[poll[p].at].task] <= MaxRecoveries
  /\ tries' = [tries EXCEPT ![rows[poll[p].at].task] = @ + 1]
  /\ rows' = Ended(poll[p].at)
  /\ PollWaits(p, "recovering", poll[p].at)
  /\ UNCHANGED <<cur, handler, replay, sending, acking, outside>>

Recover(p) ==
  /\ ToRecover(p) /\ tries[rows[poll[p].at].task] < MaxRecoveries
  /\ tries' = [tries EXCEPT ![rows[poll[p].at].task] = @ + 1]
  /\ rows' = Ended(poll[p].at)
  /\ PollWaits(p, "recovering", poll[p].at)
  /\ UNCHANGED <<cur, handler, replay, sending, acking, outside>>

GiveUp(p) ==
  /\ ToRecover(p) /\ tries[rows[poll[p].at].task] >= MaxRecoveries
  /\ PrepareAndSend(p, poll[p].at, FALSE)
  /\ UNCHANGED <<handler, replay, acking, tries, outside>>

Recovered(p) ==
  /\ Polls(p, "recovering")
  /\ Track(rows[poll[p].at].task, Reopened(Held(rows[poll[p].at].task)))
  /\ PollGoes(p, "checking", poll[p].todo)
  /\ UNCHANGED <<handler, replay, memory, outside>>

RecoveryFails(p) ==
  /\ Polls(p, "recovering")
  /\ PrepareAndSend(p, poll[p].at, FALSE)
  /\ UNCHANGED <<handler, replay, acking, tries, outside>>

TerminalEnds(p, ok) ==
  /\ poll[p].pc \in {"resending", "sending"}
  /\ LET t == rows[poll[p].wire.row].task IN
     /\ Ends(ok, poll[p].wire)
     /\ Track(t, IF ok THEN Delivered(Held(t)) ELSE NotSent(Held(t)))
     /\ receipt' = IF ok /\ poll[p].file THEN [receipt EXCEPT ![t] = "none"] ELSE receipt
     /\ sending' = sending \ {t}
  /\ PollGoes(p, IF Polls(p, "resending") THEN "retrying" ELSE "checking", poll[p].todo)
  /\ UNCHANGED <<handler, replay, acking, tries, settled, cut, crashes>>

EndPoll(p) ==
  /\ Polls(p, "checking") /\ \A r \in poll[p].todo : ~ToCheck(r)
  /\ poll' = [poll EXCEPT ![p] = Idle]
  /\ UNCHANGED <<tracker, handler, replay, memory, outside>>

-----------------------------------------------------------------------------
(* Sessions, and the editor that stops and starts again. What becomes of   *)
(* the session of an ended task matters only to a poll that asks for it,   *)
(* unless it still writes its receipt.                                     *)

Watched(r) == r \in Unfinished \/ \E p \in DOMAIN poll : Polls(p, "asking") /\ poll[p].at = r

SessionGoes(r, from, to) ==
  /\ rows[r].live \in from /\ rows' = [rows EXCEPT ![r].live = to]
  /\ UNCHANGED <<cur, handler, poll, replay, memory, settled, bus, cut, crashes>>
Writes(r, file) == receipt' = [receipt EXCEPT ![rows[r].task] = file]

WriteReceipt(r) ==
  SessionGoes(r, {"working", "silent"}, "over") /\ Writes(r, "good") /\ UNCHANGED left

(* A file that is empty, malformed, of another task or of no known status; *)
(* the session leaves it at that or may yet write the receipt.             *)
SpoilReceipt(r) ==
  /\ Fault /\ Writes(r, "bad")
  /\ \E to \in {rows[r].live, "over"} : SessionGoes(r, {"working", "silent"}, to)

FallSilent(r) ==
  Watched(r) /\ SessionGoes(r, {"working"}, "silent") /\ UNCHANGED <<receipt, left>>
Vanish(r) ==
  /\ Watched(r) /\ SessionGoes(r, Sessions \ {"gone"}, "gone")
  /\ UNCHANGED <<receipt, left>>

(* What is being sent when the editor stops is stored or it is not.        *)
Wires(procs) == {procs[x].wire : x \in {y \in DOMAIN procs :
                   procs[y].pc \in {"acking", "sending", "resending"}}}
InTheAir == Wires(handler) \cup Wires(poll) \cup Wires([x \in {0} |-> replay])

Stop ==
  /\ Fault /\ crashes' = crashes + 1
  /\ \E stored \in SUBSET InTheAir :
       /\ bus' = bus \cup stored
       /\ cut' = cut \cup {w.row : w \in {x \in InTheAir \ stored : x.kind = "TERMINAL"}}
  /\ handler' = [h \in DOMAIN handler |-> Idle] /\ poll' = [p \in DOMAIN poll |-> Idle]
  /\ replay' = Idle
  /\ sending' = {} /\ acking' = {} /\ tries' = [t \in Task |-> 0]
  /\ UNCHANGED <<receipt, settled>>

Crash == Stop /\ UNCHANGED tracker

(* After register has written the task and before preparePendingAck has.   *)
CrashInRegister(h) ==
  /\ In(h, "creating") /\ ~Open(TaskAt(h)) /\ Stop
  /\ rows' = Append(rows, Registered(handler[h].msg))
  /\ cur' = [cur EXCEPT ![TaskAt(h)] = Len(rows) + 1]

-----------------------------------------------------------------------------
HandlerStep(h) ==
  \/ \E m \in Message : Reuse(h, m) \/ ReplayAck(h, m) \/ Supersede(h, m) \/ TakeUp(h, m)
  \/ Superseded(h) \/ Preempted(h) \/ Register(h)
  \/ \E ok \in BOOLEAN : NoSession(h, ok) \/ Refused(h, ok) \/ HandlerAckEnds(h, ok) \/ Settle(h, ok)

ReplayStep ==
  \/ BeginReplay \/ EndReplay
  \/ \E r \in DOMAIN rows : ReplayNext(r)
  \/ \E ok \in BOOLEAN : ReplayAckEnds(ok)

PollStep(p) ==
  \/ BeginPoll(p) \/ BeginCheck(p) \/ Fine(p) \/ DelayedReceipt(p) \/ Recover(p) \/ GiveUp(p)
  \/ Recovered(p) \/ RecoveryFails(p) \/ EndPoll(p)
  \/ \E r \in DOMAIN rows : TakeForSent(p, r) \/ Resend(p, r) \/ SendReceipt(p, r) \/ AskForLoss(p, r)
  \/ \E ok \in BOOLEAN : TerminalEnds(p, ok)

SessionStep(r) == WriteReceipt(r) \/ SpoilReceipt(r) \/ FallSilent(r) \/ Vanish(r)

Next ==
  \/ \E h \in DOMAIN handler : HandlerStep(h) \/ CrashInRegister(h)
  \/ \E p \in DOMAIN poll : PollStep(p)
  \/ \E r \in DOMAIN rows : SessionStep(r)
  \/ ReplayStep \/ Crash

Spec == Init /\ [][Next]_vars

(* Awaited calls return, timers fire, and a session writes its receipt, is *)
(* lost or falls silent.                                                   *)
FairSpec ==
  /\ Spec
  /\ \A h \in Handler : WF_vars(h \in DOMAIN handler /\ HandlerStep(h))
  /\ \A p \in Poller : WF_vars(p \in DOMAIN poll /\ PollStep(p))
  /\ WF_vars(ReplayStep)
  /\ \A r \in 1..MaxRows : WF_vars(r \in DOMAIN rows /\ SessionStep(r))

-----------------------------------------------------------------------------
Handlers ==
  [pc: {"idle"}] \cup [pc: {"terminating", "creating", "settling"}, msg: Message]
Wiring == [kind: {"ACK", "TERMINAL"}, row: DOMAIN rows, cycle: Nat, id: Nat \ {0}, late: BOOLEAN]

(* Types: objects, processes and messages are what the code knows, a task  *)
(* is tracked by an object of its own, and no two recoveries of the row a  *)
(* poll waits for are one.                                                 *)
TypeOK ==
  /\ rows \in Seq(Row) /\ Len(rows) <= MaxRows
  /\ cur \in [Task -> 0..Len(rows)]
  /\ \A t \in Task : cur[t] # 0 => Held(t).task = t
  /\ receipt \in [Task -> {"none", "good", "bad"}] /\ settled \subseteq Message
  /\ sending \subseteq Task /\ acking \subseteq Task
  /\ tries \in [Task -> 0..MaxRecoveries]
  /\ bus \subseteq Wiring /\ cut \subseteq DOMAIN rows
  /\ DOMAIN handler \subseteq Handler /\ DOMAIN poll \subseteq Poller
  /\ \A h \in DOMAIN handler :
       \/ handler[h] \in Handlers
       \/ handler[h] \in [pc: {"preempting"}, msg: Message, other: Task]
       \/ handler[h] \in [pc: {"acking"}, msg: Message, wire: Wiring]
  /\ \A p \in DOMAIN poll :
       \/ poll[p] = Idle
       \/ poll[p] \in [pc: {"retrying", "checking"}, todo: SUBSET DOMAIN rows]
       \/ poll[p] \in [pc: {"asking", "recovering"}, todo: SUBSET DOMAIN rows, at: DOMAIN rows]
       \/ poll[p] \in [pc: {"resending", "sending"}, todo: SUBSET DOMAIN rows,
                       file: BOOLEAN, wire: Wiring]
  /\ \/ replay = Idle
     \/ replay \in [pc: {"listing"}, todo: SUBSET DOMAIN rows]
     \/ replay \in [pc: {"acking"}, todo: SUBSET DOMAIN rows, wire: Wiring]
  /\ left \in Nat /\ crashes \in Nat

(* Nothing about a task is returned before its ACK is: the desktop would   *)
(* take a terminal of a task it has not seen accepted. The one way around  *)
(* is a poll that waited on the object of an earlier registration. The     *)
(* handler's own BLOCKED replies, for a TASK that got no session, are not  *)
(* on this bus.                                                            *)
AckFirst == \A w \in bus : w.kind = "TERMINAL" /\ ~w.late => rows[w.row].ack

(* Whatever is sent again carries the delivery id it carried before, so    *)
(* the desktop can drop it: over failed calls, crashes, redelivered TASKs  *)
(* and polls that overlap, one ACK and one terminal per cycle of a task.   *)
OneDelivery ==
  \A v, w \in bus : v.kind = w.kind /\ v.row = w.row /\ v.cycle = w.cycle => v.id = w.id

(* A task taken for delivered was: its terminal of this cycle is on the    *)
(* bus, unless the editor stopped while it was being sent.                 *)
DeliveredWasSent ==
  \A r \in DOMAIN rows :
    rows[r].end = "delivered" =>
      \/ r \in cut
      \/ \E w \in bus : w.kind = "TERMINAL" /\ w.row = r /\ w.cycle = rows[r].cycle

(* Polls that overlap do not start more sessions between them than the     *)
(* retries allow; only a restart of the editor forgets the count.          *)
RecoveryBudget ==
  \A r \in DOMAIN rows : rows[r].cycle <= MaxRecoveries * (crashes + 1)

(* A task that is taken up comes to an end, whatever becomes of its        *)
(* session, of the sends and of the editor. Two wait for ever: one whose   *)
(* ACK nothing will ever send - its pending ACK was wiped by a recovery of *)
(* its predecessor, or never prepared, or prepared empty, and the TASK     *)
(* does not come again - and one with a file at its receipt path that is   *)
(* no receipt, as long as the file is there.                               *)
Forgotten(r) == ~rows[r].ack /\ ~rows[r].owed /\ rows[r].src \in settled
TaskReturns ==
  \A r \in 1..MaxRows :
    \/ <>[](r \in DOMAIN rows /\ File(r) = "bad")
    \/ r \in DOMAIN rows ~> (r \in DOMAIN rows /\ (rows[r].end # "none" \/ Forgotten(r)))
=============================================================================
