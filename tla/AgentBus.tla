---- MODULE AgentBus ----
(***************************************************************************)
(* One side of the relay database: table messages with the read mark, the  *)
(* claim and the lease of one reader ("desktop" or "code"), and that       *)
(* side's consumers.  The columns of the two readers are disjoint and no   *)
(* statement touches both, so the sides do not interact.                   *)
(*                                                                         *)
(* Time is relative: left is what remains of a lease, counted down by      *)
(* Tick; lag is how long ago a reserve read the clock, because it reads    *)
(* it before it waits for the write lock.                                  *)
(***************************************************************************)
EXTENDS Integers, FiniteSets

CONSTANTS
  Clients,      \* consumers; a batch a watcher works on is a client of its own
  Daemons,      \* the clients that are `agpair daemon`
  Pullers,      \* the clients that are `agent-bus pull`; the others watch
  NoOne,
  Topics,       \* what the WHERE clauses tell apart: task ids, repositories
  Filters,      \* [Clients -> SUBSET SUBSET Topics], one reserve per element
  Knows,        \* [Clients -> SUBSET Topics], tasks in the daemon's own store
  Kinds,        \* kinds of message sent: a subset of MessageKinds
  Limit,        \* LIMIT of a reserve
  Lease,        \* --lease-ms
  MaxLag,       \* how long a reserve can wait for the lock
  Serials,      \* bound on the claims a client holds on one message
  MaxMessages,  \* bound on the messages sent
  MaxFaults,    \* bound on crashes, failed calls and throwing handlers
  ManualAck     \* does somebody run `agent-bus ack`?

Ids == 1 .. MaxMessages

\* RUNNING, ACK, and the statuses that end an attempt.
MessageKinds == {"progress", "ack", "terminal"}

ASSUME ClientAssumption ==
  /\ Daemons \subseteq Clients /\ Pullers \subseteq Clients
  /\ Daemons \intersect Pullers = {}
  /\ NoOne \notin Clients
  /\ Filters \in [Clients -> SUBSET SUBSET Topics]
  /\ Knows \in [Clients -> SUBSET Topics]
ASSUME BoundAssumption ==
  /\ {Limit, Lease, MaxLag, MaxMessages, MaxFaults} \subseteq Nat
  /\ Limit > 0 /\ Serials \subseteq Nat
  /\ Kinds \subseteq MessageKinds
  /\ ManualAck \in BOOLEAN

VARIABLES
  sent,      \* messages 1 .. sent are in the table
  rows,      \* [Ids -> Row]
  pc,        \* what each client is doing
  asks,      \* the reserves it has still to make this round
  ask,       \* the filter of the reserve it is in
  lag,
  batch,     \* the messages it was given and is not done with
  cur,       \* the one it is working on
  receipts,  \* table receipts of each daemon: message ids
  last,      \* last_receipt_id of each task, 0 for NULL
  applied,   \* the messages each client has acted upon (history)
  acked,     \* the messages marked read by `agent-bus ack` (history)
  faults     \* faults so far (bound)

clientVars == <<pc, asks, ask, lag, batch, cur>>
storeVars == <<receipts, last, applied>>
vars == <<sent, rows, clientVars, storeVars, acked, faults>>

Claim == [by : Clients \union {NoOne}, id : Nat, no : Nat]
NoClaim == [by |-> NoOne, id |-> 0, no |-> 0]

\* Below Floor no reserve, however late, can tell two leases apart.
Floor == -(MaxLag + 1)
Left == Floor .. Lease
Row == [topic : Topics \union {NoOne}, kind : MessageKinds,
        read : BOOLEAN, claim : Claim, left : Left]
Hold == [id : Ids, claim : Claim, left : Left, ask : SUBSET Topics]
NoHold == [id |-> 0, claim |-> NoClaim, left |-> Floor, ask |-> {}]
Pcs == {"idle", "asking", "reserving", "handling", "applying", "settling", "printing"}

TypeOK ==
  /\ sent \in 0 .. MaxMessages
  /\ rows \in [Ids -> Row]
  /\ pc \in [Clients -> Pcs]
  /\ asks \in [Clients -> SUBSET SUBSET Topics]
  /\ ask \in [Clients -> SUBSET Topics]
  /\ lag \in [Clients -> 0 .. MaxLag]
  /\ batch \in [Clients -> SUBSET Hold]
  /\ cur \in [Clients -> Hold \union {NoHold}]
  /\ receipts \in [Clients -> SUBSET Ids]
  /\ last \in [Clients -> [Topics -> 0 .. MaxMessages]]
  /\ applied \in [Clients -> SUBSET Ids]
  /\ acked \in SUBSET Ids
  /\ faults \in 0 .. MaxFaults

Init ==
  /\ sent = 0
  /\ rows = [i \in Ids |-> [topic |-> NoOne, kind |-> "progress", read |-> FALSE,
                            claim |-> NoClaim, left |-> Floor]]
  /\ pc = [c \in Clients |-> "idle"]
  /\ asks = [c \in Clients |-> {}]
  /\ ask = [c \in Clients |-> {}]
  /\ lag = [c \in Clients |-> 0]
  /\ batch = [c \in Clients |-> {}]
  /\ cur = [c \in Clients |-> NoHold]
  /\ receipts = [c \in Clients |-> {}]
  /\ last = [c \in Clients |-> [t \in Topics |-> 0]]
  /\ applied = [c \in Clients |-> {}]
  /\ acked = {}
  /\ faults = 0

-----------------------------------------------------------------------------
(* The statements. *)

\* cmd_send: INSERT.  The message is there even if the sender never hears so.
Send(t, k) ==
  /\ sent < MaxMessages
  /\ sent' = sent + 1
  /\ rows' = [rows EXCEPT ![sent + 1] = [topic |-> t, kind |-> k, read |-> FALSE,
                                         claim |-> NoClaim, left |-> Floor]]
  /\ UNCHANGED <<clientVars, storeVars, acked, faults>>

\* Mutant: the clock is taken for later than it is.
FreeAhead(row, late) ==
  /\ ~row.read
  /\ row.claim = NoClaim \/ row.left - late < 0

\* Mutant: a claim is for ever.
FreeUnclaimed(row, late) ==
  ~row.read /\ row.claim = NoClaim

\* The WHERE clause of _reserve_messages, with a clock read `late` ago.
Free(row, late) ==
  /\ ~row.read
  /\ row.claim = NoClaim \/ row.left + late < 0

Candidates(c) ==
  {i \in 1 .. sent : rows[i].topic \in ask[c] /\ Free(rows[i], lag[c])}

\* ORDER BY id ASC LIMIT ?
Picked(c) ==
  {i \in Candidates(c) : Cardinality({j \in Candidates(c) : j < i}) < Limit}

ClaimBy(c, i, n) == [by |-> c, id |-> i, no |-> n]
Unused(c, i) ==
  {n \in Serials : ClaimBy(c, i, n) \notin {h.claim : h \in batch[c]} \union {rows[i].claim}}
NewClaim(c, i) == ClaimBy(c, i, CHOOSE n \in Serials : n \in Unused(c, i))

\* Mutant: the lease runs longer the longer the lock took.
NewLeftAddsWait(c) == Lease + lag[c]

NewLeft(c) == Lease - lag[c]

Leased(row, k, left) == [row EXCEPT !.claim = k, !.left = left]

MarkClaimed(c) ==
  rows' = [i \in Ids |-> IF i \in Picked(c) THEN Leased(rows[i], NewClaim(c, i), NewLeft(c))
                                           ELSE rows[i]]

Given(c) ==
  {[id |-> i, claim |-> NewClaim(c, i), left |-> NewLeft(c), ask |-> ask[c]] : i \in Picked(c)}

\* Mutant: the messages of the claims, whoever claims them by now.
SettledById(ks) == {i \in Ids : i \in {k.id : k \in ks} /\ ~rows[i].read}

\* The rows an UPDATE ... WHERE claim IN (ks) AND read IS NULL touches.
Settled(ks) == {i \in Ids : rows[i].claim \in ks /\ ~rows[i].read}

MarkedRead(row) == [row EXCEPT !.read = TRUE, !.claim = NoClaim, !.left = Floor]

MarkSettled(ks) ==
  rows' = [i \in Ids |-> IF i \in Settled(ks) THEN MarkedRead(rows[i]) ELSE rows[i]]

\* cmd_ack: by message id; the claim stays where it is.
Acknowledge(i) ==
  /\ ManualAck
  /\ i <= sent /\ ~rows[i].read
  /\ rows' = [rows EXCEPT ![i].read = TRUE]
  /\ acked' = acked \union {i}
  /\ UNCHANGED <<sent, clientVars, storeVars, faults>>

Fault == faults < MaxFaults /\ faults' = faults + 1

-----------------------------------------------------------------------------
(* Fetching: a daemon tick reserves once for every task it lists, a        *)
(* watcher and a pull reserve once.                                        *)

BeginRound(c) ==
  /\ pc[c] = "idle" /\ Filters[c] # {}
  /\ asks' = [asks EXCEPT ![c] = Filters[c]]
  /\ pc' = [pc EXCEPT ![c] = "asking"]
  /\ UNCHANGED <<sent, acked, rows, ask, lag, batch, cur, storeVars, faults>>

\* now and lease_until are computed here, before the lock is asked for.
ReserveCall(c) ==
  /\ pc[c] = "asking"
  /\ \E f \in asks[c] :
       /\ ask' = [ask EXCEPT ![c] = f]
       /\ asks' = [asks EXCEPT ![c] = @ \ {f}]
  /\ lag' = [lag EXCEPT ![c] = 0]
  /\ pc' = [pc EXCEPT ![c] = "reserving"]
  /\ UNCHANGED <<sent, acked, rows, batch, cur, storeVars, faults>>

AfterReserve(c) ==
  /\ pc' = [pc EXCEPT ![c] = IF asks[c] = {} THEN "handling" ELSE "asking"]
  /\ lag' = [lag EXCEPT ![c] = 0]
  /\ UNCHANGED <<sent, acked, asks, ask, cur, storeVars>>

Reserve(c) ==
  /\ pc[c] = "reserving"
  /\ \A i \in Picked(c) : Unused(c, i) # {}
  /\ MarkClaimed(c)
  /\ batch' = [batch EXCEPT ![c] = @ \union Given(c)]
  /\ AfterReserve(c)
  /\ UNCHANGED faults

\* The database stayed locked, or the command failed: nothing was claimed.
ReserveFails(c) ==
  /\ pc[c] = "reserving"
  /\ Fault
  /\ AfterReserve(c)
  /\ UNCHANGED <<rows, batch>>

\* The claims are committed but the daemon could not read the command's output.
ReserveReplyLost(c) ==
  /\ pc[c] = "reserving" /\ c \in Daemons
  /\ \A i \in Picked(c) : Unused(c, i) # {}
  /\ Fault
  /\ MarkClaimed(c)
  /\ AfterReserve(c)
  /\ UNCHANGED batch

EndRound(c) ==
  /\ pc[c] = "handling" /\ batch[c] = {}
  /\ pc' = [pc EXCEPT ![c] = "idle"]
  /\ UNCHANGED <<sent, acked, rows, asks, ask, lag, batch, cur, storeVars, faults>>

\* The messages of one reserve are handled in the order of their ids; in which
\* order the reserves come is left open.
Heads(c) ==
  {h \in batch[c] : \A g \in batch[c] : g.ask = h.ask => h.id <= g.id}

TakeUp(c, h, stage) ==
  /\ cur' = [cur EXCEPT ![c] = h]
  /\ pc' = [pc EXCEPT ![c] = stage]
  /\ UNCHANGED <<sent, acked, rows, asks, ask, lag, batch, faults>>

PutDown(c) ==
  /\ batch' = [batch EXCEPT ![c] = @ \ {cur[c]}]
  /\ cur' = [cur EXCEPT ![c] = NoHold]
  /\ pc' = [pc EXCEPT ![c] = "handling"]
  /\ UNCHANGED <<sent, acked, asks, ask, lag>>

GiveUp(c) ==
  /\ batch' = [batch EXCEPT ![c] = {}]
  /\ cur' = [cur EXCEPT ![c] = NoHold]
  /\ asks' = [asks EXCEPT ![c] = {}]
  /\ lag' = [lag EXCEPT ![c] = 0]
  /\ pc' = [pc EXCEPT ![c] = "idle"]
  /\ UNCHANGED <<sent, acked, rows, ask, storeVars>>

-----------------------------------------------------------------------------
(* The daemon: ingest_new_receipts. *)

\* Mutant: only the last receipt itself is stale.
IsStaleIfSame(c, i) == rows[i].topic \in Knows[c] /\ i = last[c][rows[i].topic]

IsStale(c, i) == rows[i].topic \in Knows[c] /\ i <= last[c][rows[i].topic]

\* receipts.record, then is_stale_receipt on the task as it is now.
Record(c) ==
  /\ pc[c] = "handling" /\ c \in Daemons
  /\ \E h \in Heads(c) :
       /\ receipts' = [receipts EXCEPT ![c] = @ \union {h.id}]
       /\ TakeUp(c, h, IF h.id \in receipts[c] \/ IsStale(c, h.id)
                       THEN "settling" ELSE "applying")
  /\ UNCHANGED <<last, applied>>

\* record_heartbeat, mark_acked, which clears last_receipt_id, or
\* finalize_executor_receipt went through.
Apply(c) ==
  /\ pc[c] = "applying" /\ c \in Daemons
  /\ LET i == cur[c].id  t == rows[cur[c].id].topic IN
     /\ t \in Knows[c]
     /\ applied' = [applied EXCEPT ![c] = @ \union {i}]
     /\ last' = CASE rows[i].kind = "terminal" -> [last EXCEPT ![c][t] = i]
                 [] rows[i].kind = "ack"      -> [last EXCEPT ![c][t] = 0]
                 [] rows[i].kind = "progress" -> last
  /\ pc' = [pc EXCEPT ![c] = "settling"]
  /\ UNCHANGED <<sent, acked, rows, asks, ask, lag, batch, cur, receipts, faults>>

\* TaskNotFoundError, IllegalTransitionError, an invalid ACK or an unknown
\* task: `continue`, which leaves the claim to expire.
Refuse(c) ==
  /\ pc[c] = "applying" /\ c \in Daemons
  /\ PutDown(c)
  /\ UNCHANGED <<rows, storeVars, faults>>

\* `task retry` clears last_receipt_id.
Retry(c, t) ==
  /\ c \in Daemons /\ t \in Knows[c] /\ last[c][t] # 0
  /\ last' = [last EXCEPT ![c][t] = 0]
  /\ UNCHANGED <<sent, acked, rows, clientVars, receipts, applied, faults>>

-----------------------------------------------------------------------------
(* The watcher: handleReservedMessages; and `agent-bus pull`. *)

Watches(c) == c \notin Daemons \union Pullers

HandOver(c) ==
  /\ pc[c] = "handling" /\ Watches(c)
  /\ \E h \in Heads(c) :
       /\ applied' = [applied EXCEPT ![c] = @ \union {h.id}]
       /\ TakeUp(c, h, "settling")
  /\ UNCHANGED <<receipts, last>>

\* Mutant: the batch is settled in a finally.
HandOverThrowsSettling(c) ==
  /\ pc[c] = "handling" /\ Watches(c) /\ batch[c] # {}
  /\ Fault
  /\ MarkSettled({h.claim : h \in batch[c]})
  /\ batch' = [batch EXCEPT ![c] = {}]
  /\ pc' = [pc EXCEPT ![c] = "idle"]
  /\ UNCHANGED <<sent, acked, asks, ask, lag, cur, storeVars>>

\* onMessages throws: the rest of the batch is not looked at.
HandOverThrows(c) ==
  /\ pc[c] = "handling" /\ Watches(c) /\ batch[c] # {}
  /\ Fault
  /\ GiveUp(c)

Settle(c) ==
  /\ pc[c] = "settling"
  /\ MarkSettled({cur[c].claim})
  /\ PutDown(c)
  /\ UNCHANGED <<storeVars, faults>>

\* The daemon journals the failure and goes on, the watcher drops its batch.
SettleFails(c) ==
  /\ pc[c] = "settling"
  /\ Fault
  /\ IF Watches(c) THEN GiveUp(c)
                   ELSE PutDown(c) /\ UNCHANGED <<rows, storeVars>>

PullSettle(c) ==
  /\ pc[c] = "handling" /\ c \in Pullers /\ batch[c] # {}
  /\ MarkSettled({h.claim : h \in batch[c]})
  /\ pc' = [pc EXCEPT ![c] = "printing"]
  /\ UNCHANGED <<sent, acked, asks, ask, lag, batch, cur, storeVars, faults>>

PullPrint(c) ==
  /\ pc[c] = "printing"
  /\ applied' = [applied EXCEPT ![c] = @ \union {h.id : h \in batch[c]}]
  /\ batch' = [batch EXCEPT ![c] = {}]
  /\ pc' = [pc EXCEPT ![c] = "idle"]
  /\ UNCHANGED <<sent, acked, rows, asks, ask, lag, cur, receipts, last, faults>>

-----------------------------------------------------------------------------

\* The process is killed, or a settle of `agent-bus pull` fails and it exits.
Crash(c) ==
  /\ pc[c] # "idle"
  /\ Fault
  /\ GiveUp(c)

Older(left) == IF left > Floor THEN left - 1 ELSE left

Tick ==
  /\ \A c \in Clients : pc[c] = "reserving" => lag[c] < MaxLag
  /\ lag' = [c \in Clients |-> IF pc[c] = "reserving" THEN lag[c] + 1 ELSE lag[c]]
  /\ rows' = [i \in Ids |-> [rows[i] EXCEPT !.left = Older(@)]]
  /\ batch' = [c \in Clients |-> {[h EXCEPT !.left = Older(@)] : h \in batch[c]}]
  /\ cur' = [c \in Clients |-> [cur[c] EXCEPT !.left = Older(@)]]
  /\ UNCHANGED <<sent, acked, pc, asks, ask, storeVars, faults>>

Works(c) ==
  \/ BeginRound(c) \/ ReserveCall(c) \/ Reserve(c) \/ EndRound(c)
  \/ Record(c) \/ Apply(c) \/ HandOver(c) \/ Settle(c)
  \/ PullSettle(c) \/ PullPrint(c)

Fails(c) ==
  \/ ReserveFails(c) \/ ReserveReplyLost(c) \/ HandOverThrows(c)
  \/ SettleFails(c) \/ Crash(c)

Next ==
  \/ \E t \in Topics, k \in Kinds : Send(t, k)
  \/ \E c \in Clients : Works(c) \/ Refuse(c) \/ Fails(c)
  \/ \E c \in Clients, t \in Topics : Retry(c, t)
  \/ \E i \in Ids : Acknowledge(i)
  \/ Tick

Spec == Init /\ [][Next]_vars

\* Consumers poll for ever and go on with what they began; time passes.
FairSpec == Spec /\ WF_vars(Tick) /\ \A c \in Clients : WF_vars(Works(c) \/ Refuse(c))

-----------------------------------------------------------------------------
(* Properties. *)

\* A lease that has not expired is the only one on its message: whatever the
\* order of lock waits, crashes, late settles and acks, two consumers are never
\* both entitled to one message (the lease test of _reserve_messages).
OneLiveHolder ==
  \A c, d \in Clients : \A h \in batch[c], g \in batch[d] :
     /\ h.id = g.id
     /\ h.left >= 0 /\ g.left >= 0
     => c = d /\ h = g

\* While a consumer's lease lives the message stays claimed by it, and unread
\* unless a person acked it: nobody re-claims it, and the late settle of an
\* earlier, expired claim does not take it away (_settle_claims).
LeaseIsHonoured ==
  \A c \in Clients : \A h \in batch[c] :
     h.left >= 0 =>
       \/ rows[h.id].claim = h.claim /\ (rows[h.id].read => h.id \in acked)
       \/ rows[h.id].read /\ pc[c] = "printing"

\* A lease is one reader's, and is worth something while it lasts.
LeasesHold == OneLiveHolder /\ LeaseIsHonoured

\* last_receipt_id moves forward or is cleared by an ACK or a retry: a terminal
\* receipt that a crash or a lost reply delayed is not applied over a later one
\* of the attempt (is_stale_receipt, between receipts.record and the mark).
TerminalsInOrder ==
  [][\A c \in Daemons, t \in Topics : last'[c][t] >= last[c][t] \/ last'[c][t] = 0]_vars

\* Where messages are handed over before they are settled (the watcher), a read
\* mark means that somebody acted on the message, over crashes and throws.
ReadIsHandled ==
  \A i \in 1 .. sent :
     rows[i].read => i \in acked \/ \E c \in Clients : i \in applied[c]

\* Every message sent is handled and marked read, although consumers crash,
\* calls fail and handlers throw a bounded number of times.
EveryMessageRead ==
  \A i \in Ids : (i <= sent) ~> (i <= sent /\ rows[i].read)

\* The abstract queue: the owner of a message is the client whose lease on it lives.
Owner ==
  [i \in Ids |-> IF rows[i].claim # NoClaim /\ rows[i].left >= 0 /\ ~rows[i].read
                 THEN rows[i].claim.by ELSE NoOne]
Done == {i \in Ids : rows[i].read}

Queue == INSTANCE MessageQueue
  WITH Readers <- Clients, posted <- 1 .. sent, owner <- Owner,
       done <- Done, withdrawn <- acked

\* The relay table with its leases implements the queue.
IsAQueue == Queue!Spec

====
