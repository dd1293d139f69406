-------------------------- MODULE Delivery_proofs --------------------------
(***************************************************************************)
(* What Delegation delivers: the order of ACK and terminal, the delivery   *)
(* ids, what is taken for delivered, and the recoveries.  Everything rests *)
(* on Steps of Delegation_proofs, which names the kinds of steps there are.*)
(***************************************************************************)
EXTENDS Delegation_proofs

-----------------------------------------------------------------------------
(* Messages and delivery ids.                                              *)

(* A message is about an earlier cycle of its object, or is the one that   *)
(* belongs to the object as it is.                                         *)
WireOK(w, rs) ==
  /\ w \in [kind: {"ACK", "TERMINAL"}, row: DOMAIN rs, cycle: Nat, id: Nat \ {0}, late: BOOLEAN]
  /\ w.kind = "TERMINAL" => w.late \/ rs[w.row].ack
  /\ w.cycle <= rs[w.row].cycle
  /\ w.cycle = rs[w.row].cycle /\ w.kind = "TERMINAL" =>
       w.id = rs[w.row].ids /\ (rs[w.row].pend # "none" \/ rs[w.row].end # "none")
  /\ w.cycle = rs[w.row].cycle /\ w.kind = "ACK" =>
       w.id = rs[w.row].ackIds /\ (rs[w.row].ack \/ rs[w.row].owed)

SameDelivery(v, w) == v.kind = w.kind /\ v.row = w.row /\ v.cycle = w.cycle
WiresOK ==
  /\ \A w \in Known : WireOK(w, rows)
  /\ \A v, w \in Known : SameDelivery(v, w) => v.id = w.id

LEMMA FreshIsOK ==
  ASSUME NEW rs, \A r \in DOMAIN rs : rs[r].cycle \in Nat, NEW w, Fresh(w, rs)
  PROVE  WireOK(w, rs) /\ w.cycle = rs[w.row].cycle
<1>1. w.row \in DOMAIN rs /\ w.cycle = rs[w.row].cycle /\ rs[w.row].cycle \in Nat
  BY DEF Fresh
<1> QED
  BY <1>1 DEF Fresh, WireOK

LEMMA WireStays ==
  ASSUME RowsOK, Moved, NEW w, WireOK(w, rows)
  PROVE  WireOK(w, rows')
<1> DEFINE old == rows[w.row]
           new == rows'[w.row]
<1>1. w.row \in DOMAIN rows /\ w.row \in DOMAIN rows' /\ old \in GoodRow /\ Evolves(old, new)
  BY RowsIs DEF WireOK, Moved
<1>2. w \in [kind: {"ACK", "TERMINAL"}, row: DOMAIN rows', cycle: Nat, id: Nat \ {0}, late: BOOLEAN]
      /\ w.cycle \in Nat /\ w.kind \in {"ACK", "TERMINAL"}
  BY <1>1 DEF WireOK
<1>3. old.cycle \in Nat /\ old.ack \in BOOLEAN /\ new.ack \in BOOLEAN
  BY <1>1, RowIs DEF Evolves
<1>4. w.cycle <= old.cycle /\ (w.kind = "TERMINAL" => w.late \/ old.ack)
  BY DEF WireOK
<1>5. (w.kind = "TERMINAL" => w.late \/ new.ack)
  BY <1>1, <1>4 DEF Evolves
<1>6. CASE new.cycle = old.cycle + 1
  <2>1. w.cycle <= new.cycle /\ w.cycle # new.cycle
    BY <1>2, <1>3, <1>4, <1>6
  <2> QED
    BY <1>2, <1>5, <2>1 DEF WireOK
<1>7. CASE /\ new.cycle = old.cycle
           /\ new.ids = old.ids \/ (old.end = "none" /\ old.pend = "none")
           /\ (old.end # "none" \/ old.pend # "none") => (new.end # "none" \/ new.pend # "none")
           /\ new.ackIds = old.ackIds \/ (~old.ack /\ ~old.owed)
           /\ (old.ack \/ old.owed) => (new.ack \/ new.owed)
  BY <1>2, <1>4, <1>5, <1>7 DEF WireOK
<1> QED
  BY <1>1, <1>6, <1>7 DEF Evolves

LEMMA WiresStep == ASSUME Base, WiresOK, Step PROVE WiresOK'
<1>1. RowsOK /\ Moved /\ Advances /\ RowsOK'
  BY BaseIs DEF Step, Moved
<1>2. \A r \in DOMAIN rows' : rows'[r].cycle \in Nat
  <2>1. \A r \in DOMAIN rows' : rows'[r] \in GoodRow
    BY <1>1, LenProperties, ElementOfSeq DEF RowsOK
  <2> QED
    BY <2>1, RowIs
<1>3. \A w \in Known' : w \in Known \/ Fresh(w, rows')
  BY <1>1 DEF Advances
<1>4. \A w \in Known' : WireOK(w, rows')
  BY <1>1, <1>2, <1>3, WireStays, FreshIsOK DEF WiresOK
<1>5. ASSUME NEW v \in Known', NEW w \in Known', SameDelivery(v, w) PROVE v.id = w.id
  <2>1. CASE v \in Known /\ w \in Known
    BY <1>5, <2>1 DEF WiresOK
  <2>2. CASE v.cycle = rows'[v.row].cycle
    <3>1. w.row = v.row /\ w.kind = v.kind /\ w.cycle = rows'[w.row].cycle
      BY <1>5, <2>2 DEF SameDelivery
    <3>2. WireOK(v, rows') /\ WireOK(w, rows')
      BY <1>4
    <3> QED
      BY <2>2, <3>1, <3>2 DEF WireOK
  <2>3. CASE w \notin Known
    BY <1>2, <1>3, <1>5, <2>2, <2>3, FreshIsOK DEF SameDelivery
  <2>4. CASE v \notin Known
    BY <1>2, <1>3, <2>2, <2>4, FreshIsOK
  <2> QED
    BY <2>1, <2>3, <2>4
<1> QED
  BY <1>4, <1>5 DEF WiresOK

LEMMA InitWires == Init => WiresOK
<1> SUFFICES ASSUME Init PROVE WiresOK
  OBVIOUS
<1>1. PICK s \in Scenarios :
        handler = [h \in s.handlers |-> Idle] /\ poll = [p \in s.polls |-> Idle]
  BY DEF Init
<1>2. ~Carries(Idle.pc)
  BY DEF Idle, Carries
<1>3. \A w : w \notin Wires(handler) /\ w \notin Wires(poll)
  BY <1>1, <1>2, WiresIs
<1>4. \A w : w \notin Wires([x \in {0} |-> replay])
  BY <1>2, ReplayWire DEF Init
<1>5. Known = {}
  BY <1>3, <1>4 DEF Known, InTheAir, Init
<1> QED
  BY <1>5 DEF WiresOK

(* Delivery ids agree over everything that was given to a send, and fit    *)
(* the objects they are about.                                             *)
THEOREM WiresInvariance == Spec => []WiresOK
<1>1. Base /\ WiresOK /\ [Next]_vars => WiresOK'
  BY Steps, WiresStep
<1> QED
  BY <1>1, InitWires, DelegationInvariance, PTL DEF Spec

(* No terminal is on the bus before the ACK of its registration, but one   *)
(* that a poll sent over an earlier object.                                *)
THEOREM AcknowledgedFirst == Spec => []AckFirst
<1>1. WiresOK => AckFirst
  BY DEF WiresOK, WireOK, AckFirst, Known
<1> QED
  BY <1>1, WiresInvariance, PTL

(* Everything that is sent again carries the delivery id it had.           *)
THEOREM DeliveredOnce == Spec => []OneDelivery
<1>1. WiresOK => OneDelivery
  BY DEF WiresOK, SameDelivery, OneDelivery, Known
<1> QED
  BY <1>1, WiresInvariance, PTL

-----------------------------------------------------------------------------
(* Terminals that are being sent, and those that were.                     *)

Senders == {p \in DOMAIN poll : poll[p].pc \in Sending}
SendsFor(p) == rows[poll[p].wire.row].task

Sent(r) ==
  \/ r \in cut
  \/ \E w \in bus : w.kind = "TERMINAL" /\ w.row = r /\ w.cycle = rows[r].cycle

(* inFlightTerminalTaskIds has the tasks of the polls that send, each of   *)
(* one poll.                                                               *)
SendersOK ==
  /\ \A p \in Senders : SendsFor(p) \in sending
  /\ \A p, q \in Senders : SendsFor(p) = SendsFor(q) => p = q
  /\ \A t \in sending : \E p \in Senders : SendsFor(p) = t

(* What is pending while a poll sends is what it sends.                    *)
PendingIsSent ==
  \A p \in Senders :
    LET t == SendsFor(p) IN
    Held(t).end = "none" /\ Held(t).pend # "none" =>
      poll[p].wire.row = cur[t] /\ poll[p].wire.cycle = Held(t).cycle

(* In flight, but not by this process: a crash came after the send began.  *)
InflightWasSent ==
  \A t \in Task \ sending :
    cur[t] # 0 /\ Held(t).end = "none" /\ Held(t).pend = "inflight" => Sent(cur[t])

SentOK == SendersOK /\ PendingIsSent /\ InflightWasSent /\ DeliveredWasSent

LEMMA DeliveredIsSent ==
  DeliveredWasSent <=> \A r \in DOMAIN rows : rows[r].end = "delivered" => Sent(r)
  BY DEF DeliveredWasSent, Sent

LEMMA SentStays ==
  ASSUME NEW r, Sent(r), bus \subseteq bus', cut \subseteq cut', rows'[r].cycle = rows[r].cycle
  PROVE  Sent(r)'
  BY DEF Sent

(* An object that has something pending after a step that sends nothing    *)
(* had it before, and one that is delivered was delivered.                 *)
Steady ==
  \A r \in DOMAIN rows' :
    /\ rows'[r].end = "none" /\ rows'[r].pend # "none" =>
         /\ r \in DOMAIN rows /\ rows[r].end = "none" /\ rows[r].pend = rows'[r].pend
         /\ rows'[r].cycle = rows[r].cycle
    /\ rows'[r].end = "delivered" =>
         r \in DOMAIN rows /\ rows[r].end = "delivered" /\ rows'[r].cycle = rows[r].cycle

LEMMA CalmIsSteady == ASSUME Calm \/ Gentle PROVE Steady
  BY DEF Calm, Gentle, Similar, Blank, Steady

LEMMA HeldSteady ==
  ASSUME RowsOK, Moved, Steady, \A t \in Task : cur'[t] = cur[t] \/ cur'[t] \notin DOMAIN rows,
         NEW t \in Task, cur'[t] # 0, Held(t)'.end = "none", Held(t)'.pend # "none"
  PROVE  /\ cur'[t] = cur[t] /\ cur[t] # 0 /\ cur[t] \in DOMAIN rows
         /\ Held(t).end = "none" /\ Held(t).pend = Held(t)'.pend
         /\ rows'[cur[t]].cycle = rows[cur[t]].cycle
<1>1. cur'[t] \in DOMAIN rows'
  <2>1. RowsOK'
    BY DEF Moved
  <2>2. DOMAIN rows' = 1 .. Len(rows')
    BY <2>1, LenProperties DEF RowsOK
  <2> QED
    BY <2>1, <2>2, LenProperties DEF RowsOK
<1>2. /\ cur'[t] \in DOMAIN rows /\ rows[cur'[t]].end = "none"
      /\ rows[cur'[t]].pend = rows'[cur'[t]].pend /\ rows'[cur'[t]].cycle = rows[cur'[t]].cycle
  BY <1>1 DEF Steady, Held
<1>3. cur'[t] = cur[t]
  BY <1>2
<1> QED
  BY <1>2, <1>3 DEF Held

LEMMA SenderIs ==
  ASSUME Base, NEW p \in Senders
  PROVE  /\ poll[p].wire \in Wiring /\ poll[p].wire.kind = "TERMINAL" /\ poll[p].wire \in InTheAir
         /\ poll[p].wire.row \in DOMAIN rows /\ SendsFor(p) \in Task /\ cur[SendsFor(p)] # 0
<1>1. /\ poll[p].wire \in Wiring /\ poll[p].wire.kind = "TERMINAL"
  BY PollKnows DEF Senders
<1>2. poll[p].wire.row \in DOMAIN rows
  BY <1>1 DEF Wiring
<1>3. poll[p].wire \in InTheAir
  BY WiresIs DEF Senders, InTheAir, Carries, Sending
<1> QED
  BY <1>1, <1>2, <1>3, BaseIs DEF SendsFor

LEMMA DeliveredSteady ==
  ASSUME Steady, DeliveredWasSent, bus \subseteq bus', cut \subseteq cut'
  PROVE  DeliveredWasSent'
<1>1. \A r \in DOMAIN rows' : rows'[r].end = "delivered" => Sent(r)'
  BY SentStays, DeliveredIsSent DEF Steady
<1> QED
  BY <1>1 DEF DeliveredWasSent, Sent

LEMMA CalmSent == ASSUME Base, Moved, SentOK, Calm PROVE SentOK'
<1>1. RowsOK /\ Steady /\ bus \subseteq bus' /\ cut \subseteq cut' /\ sending' = sending
      /\ \A t \in Task : cur'[t] = cur[t] \/ cur'[t] \notin DOMAIN rows
  BY BaseIs, CalmIsSteady DEF Calm
<1>2. Senders' = Senders /\ \A p \in Senders : poll'[p] = poll[p]
  BY DEF Calm, Senders
<1>3. \A p \in Senders : SendsFor(p)' = SendsFor(p)
  <2> SUFFICES ASSUME NEW p \in Senders PROVE SendsFor(p)' = SendsFor(p)
    OBVIOUS
  <2>1. poll[p].wire.row \in DOMAIN rows /\ poll'[p] = poll[p]
    BY <1>2, SenderIs
  <2> QED
    BY <2>1 DEF SendsFor, Moved, Evolves
<1>4. SendersOK'
  BY <1>1, <1>2, <1>3 DEF SentOK, SendersOK
<1>5. PendingIsSent'
  <2> SUFFICES ASSUME NEW p \in Senders, NEW t, t = SendsFor(p),
                      Held(t)'.end = "none", Held(t)'.pend # "none"
               PROVE  poll[p].wire.row = cur'[t] /\ poll[p].wire.cycle = Held(t)'.cycle
    BY <1>2, <1>3 DEF PendingIsSent
  <2>1. t \in Task /\ cur'[t] # 0
    BY SenderIs DEF Moved
  <2>2. /\ cur'[t] = cur[t] /\ Held(t).end = "none" /\ Held(t).pend # "none"
        /\ rows'[cur[t]].cycle = rows[cur[t]].cycle
    BY <1>1, <2>1, HeldSteady
  <2>3. poll[p].wire.row = cur[t] /\ poll[p].wire.cycle = Held(t).cycle
    BY <2>2 DEF SentOK, PendingIsSent
  <2> QED
    BY <2>2, <2>3 DEF Held
<1>6. InflightWasSent'
  <2> SUFFICES ASSUME NEW t \in Task \ sending, cur'[t] # 0,
                      Held(t)'.end = "none", Held(t)'.pend = "inflight"
               PROVE  Sent(cur[t])' /\ cur'[t] = cur[t]
    BY <1>1 DEF InflightWasSent, Sent
  <2>1. /\ cur'[t] = cur[t] /\ cur[t] # 0 /\ Held(t).end = "none" /\ Held(t).pend = "inflight"
        /\ rows'[cur[t]].cycle = rows[cur[t]].cycle
    BY <1>1, HeldSteady
  <2>2. Sent(cur[t])
    BY <2>1 DEF SentOK, InflightWasSent
  <2> QED
    BY <1>1, <2>1, <2>2 DEF Sent
<1>7. DeliveredWasSent'
  BY <1>1, DeliveredSteady DEF SentOK
<1> QED
  BY <1>4, <1>5, <1>6, <1>7 DEF SentOK

(* One object changes, the one that the tracker holds for a task.          *)
OnlyHeld(t) ==
  /\ t \in Task /\ cur[t] # 0 /\ cur' = cur
  /\ DOMAIN rows' = DOMAIN rows /\ cur[t] \in DOMAIN rows
  /\ \A i \in DOMAIN rows : i # cur[t] => rows'[i] = rows[i]
  /\ bus \subseteq bus' /\ cut \subseteq cut'

LEMMA OthersStay ==
  ASSUME Base, SentOK, NEW t, OnlyHeld(t)
  PROVE  /\ \A u \in Task \ {t} : cur[u] # 0 => Held(u)' = Held(u)
         /\ \A u \in (Task \ sending) \ {t} :
              cur'[u] # 0 /\ Held(u)'.end = "none" /\ Held(u)'.pend = "inflight" => Sent(cur[u])'
         /\ \A r \in DOMAIN rows : r # cur[t] /\ rows'[r].end = "delivered" => Sent(r)'
<1>1. ASSUME NEW u \in Task \ {t}, cur[u] # 0
      PROVE  rows'[cur[u]] = rows[cur[u]] /\ cur[u] \in DOMAIN rows
  <2>1. cur[u] \in DOMAIN rows /\ Held(u).task = u /\ Held(t).task = t
    BY <1>1, BaseIs, RowsIs DEF OnlyHeld, RowsOK
  <2>2. cur[u] # cur[t]
    BY <1>1, <2>1 DEF Held
  <2> QED
    BY <2>1, <2>2 DEF OnlyHeld
<1>2. \A u \in Task \ {t} : cur[u] # 0 => Held(u)' = Held(u)
  BY <1>1 DEF OnlyHeld, Held
<1>3. ASSUME NEW u \in (Task \ sending) \ {t}, cur'[u] # 0,
             Held(u)'.end = "none", Held(u)'.pend = "inflight"
      PROVE  Sent(cur[u])'
  <2>1. cur[u] # 0 /\ Held(u)' = Held(u) /\ rows'[cur[u]] = rows[cur[u]] /\ cur'[u] = cur[u]
    BY <1>1, <1>2, <1>3 DEF OnlyHeld
  <2>2. Sent(cur[u])
    BY <1>3, <2>1 DEF SentOK, InflightWasSent
  <2> QED
    BY <2>1, <2>2 DEF Sent, OnlyHeld
<1>4. \A r \in DOMAIN rows : r # cur[t] /\ rows'[r].end = "delivered" => Sent(r)'
  <2> SUFFICES ASSUME NEW r \in DOMAIN rows, r # cur[t], rows'[r].end = "delivered"
               PROVE  Sent(r)'
    OBVIOUS
  <2>1. rows'[r] = rows[r] /\ bus \subseteq bus' /\ cut \subseteq cut'
    BY DEF OnlyHeld
  <2>2. Sent(r)
    BY <2>1, DeliveredIsSent DEF SentOK
  <2> QED
    BY <2>1, <2>2, SentStays
<1> QED
  BY <1>2, <1>3, <1>4

(* A poll that goes on sending for another task.                           *)
LEMMA OtherSenders ==
  ASSUME Base, Moved, SentOK, NEW t, OnlyHeld(t), NEW q \in Senders, poll'[q] = poll[q],
         SendsFor(q) # t
  PROVE  /\ SendsFor(q)' = SendsFor(q)
         /\ Held(SendsFor(q))'.end = "none" /\ Held(SendsFor(q))'.pend # "none" =>
              /\ poll'[q].wire.row = cur'[SendsFor(q)']
              /\ poll'[q].wire.cycle = Held(SendsFor(q))'.cycle
<1> DEFINE u == SendsFor(q)
<1>1. poll[q].wire.row \in DOMAIN rows /\ u \in Task \ {t} /\ cur[u] # 0
  BY SenderIs
<1>2. SendsFor(q)' = SendsFor(q)
  BY <1>1 DEF SendsFor, Moved, Evolves
<1>3. Held(SendsFor(q))' = rows'[cur'[SendsFor(q)']]
  BY DEF Held
<1>4. rows'[cur'[u]] = Held(u) /\ cur' = cur
  BY <1>1, OthersStay DEF OnlyHeld, Held
<1>5. Held(u).end = "none" /\ Held(u).pend # "none" =>
        poll[q].wire.row = cur[u] /\ poll[q].wire.cycle = Held(u).cycle
  BY DEF SentOK, PendingIsSent
<1> QED
  BY <1>2, <1>3, <1>4, <1>5

(* A poll begins to send.                                                  *)
LEMMA SendSent ==
  ASSUME Base, Step, SentOK, NEW p \in DOMAIN poll, NEW t, SendStep(p, t)
  PROVE  SentOK'
<1>1. OnlyHeld(t) /\ Moved /\ RowsOK /\ sending' = sending \cup {t} /\ t \notin sending
  BY BaseIs DEF SendStep, OnlyHeld, Step
<1>2. Senders' = Senders \cup {p} /\ p \notin Senders
  BY DEF SendStep, Senders
<1>3. \A q \in Senders : poll'[q] = poll[q] /\ SendsFor(q) \in sending /\ SendsFor(q) # t
  BY <1>1, <1>2 DEF SendStep, SentOK, SendersOK, Senders
<1>4. \A q \in Senders : SendsFor(q)' = SendsFor(q)
  BY <1>1, <1>3, OtherSenders
<1>5. SendsFor(p)' = t
  <2>1. rows'[cur'[t]].task = t /\ poll'[p].wire.row = cur'[t]
    BY <1>1 DEF SendStep, Moved, RowsOK, Held
  <2> QED
    BY <2>1 DEF SendsFor
<1>6. SendersOK'
  BY <1>1, <1>2, <1>3, <1>4, <1>5 DEF SentOK, SendersOK
<1>7. PendingIsSent'
  <2> SUFFICES ASSUME NEW q \in Senders',
                      Held(SendsFor(q))'.end = "none", Held(SendsFor(q))'.pend # "none"
               PROVE  /\ poll'[q].wire.row = cur'[SendsFor(q)']
                      /\ poll'[q].wire.cycle = Held(SendsFor(q))'.cycle
    BY DEF PendingIsSent
  <2>1. CASE q = p
    <3>1. cur'[t] = cur[t] /\ Held(SendsFor(p))' = rows'[cur[t]]
      BY <1>1, <1>5 DEF OnlyHeld, Held
    <3> QED
      BY <1>5, <2>1, <3>1 DEF SendStep
  <2>2. CASE q \in Senders
    BY <1>1, <1>3, <2>2, OtherSenders
  <2> QED
    BY <1>2, <2>1, <2>2
<1>8. InflightWasSent'
  <2> SUFFICES ASSUME NEW u \in (Task \ sending) \ {t}, cur'[u] # 0,
                      Held(u)'.end = "none", Held(u)'.pend = "inflight"
               PROVE  Sent(cur[u])' /\ cur'[u] = cur[u]
    BY <1>1 DEF InflightWasSent, Sent
  <2> QED
    BY <1>1, OthersStay DEF OnlyHeld
<1>9. DeliveredWasSent'
  <2>1. \A r \in DOMAIN rows' : rows'[r].end = "delivered" => Sent(r)'
    BY <1>1, OthersStay DEF OnlyHeld, SendStep
  <2> QED
    BY <2>1 DEF DeliveredWasSent, Sent
<1> QED
  BY <1>6, <1>7, <1>8, <1>9 DEF SentOK

(* A send ends.                                                            *)
LEMMA EndSent ==
  ASSUME Base, Step, SentOK, NEW p \in DOMAIN poll, NEW ok \in BOOLEAN, TerminalEnds(p, ok)
  PROVE  SentOK'
<1>0. p \in Senders /\ SendsFor(p) \in Task
  <2>1. p \in Senders
    BY DEF TerminalEnds, Senders, Sending
  <2> QED
    BY <2>1, SenderIs
<1> PICK t \in Task : t = SendsFor(p)
  BY <1>0
<1> DEFINE new == IF ok THEN Delivered(Held(t)) ELSE NotSent(Held(t))
<1>1. p \in Senders /\ t = SendsFor(p) /\ cur[t] # 0 /\ t \in sending
  BY <1>0, SenderIs DEF SentOK, SendersOK
<1>2. /\ Ends(ok, poll[p].wire) /\ Track(t, new) /\ sending' = sending \ {t} /\ cut' = cut
      /\ PollGoes(p, IF Polls(p, "resending") THEN "retrying" ELSE "checking", poll[p].todo)
  BY <1>1 DEF TerminalEnds, SendsFor
<1>3. Held(t) \in GoodRow /\ cur[t] \in DOMAIN rows /\ RowsOK /\ Moved
  BY <1>1, BaseIs, RowsIs DEF Step
<1>4. Evolves(Held(t), new) /\ new.cycle = Held(t).cycle
  BY <1>3, DeliveredOK, NotSentOK
<1>5. ~(new.end = "none" /\ new.pend = "inflight")
  <2>1. CASE ok
    <3>1. IF Held(t).end = "none" /\ Held(t).pend # "none"
          THEN new.end = "delivered" ELSE new = Held(t)
      BY <1>3, <2>1, DeliveredOK
    <3> QED
      BY <3>1
  <2>2. CASE ~ok
    BY <1>3, <2>2, NotSentOK
  <2> QED
    BY <2>1, <2>2
<1>6. new.end = "delivered" =>
        Held(t).end = "delivered" \/ (ok /\ Held(t).end = "none" /\ Held(t).pend # "none")
  <2>1. CASE ok
    <3>1. IF Held(t).end = "none" /\ Held(t).pend # "none"
          THEN new.end = "delivered" ELSE new = Held(t)
      BY <1>3, <2>1, DeliveredOK
    <3> QED
      BY <2>1, <3>1
  <2>2. CASE ~ok
    BY <1>3, <2>2, NotSentOK
  <2> QED
    BY <2>1, <2>2
<1> HIDE DEF new
<1>7. bus \subseteq bus' /\ (ok => poll[p].wire \in bus')
  BY <1>2 DEF Ends
<1>8. OnlyHeld(t) /\ rows'[cur[t]] = new
  BY <1>1, <1>2, <1>3, <1>4, <1>7, TrackMoved DEF OnlyHeld
<1>9. Senders' = Senders \ {p} /\ \A q \in Senders \ {p} : poll'[q] = poll[q]
  BY <1>2 DEF PollGoes, Senders, Sending
<1>10. \A q \in Senders \ {p} : SendsFor(q) # t /\ SendsFor(q) \in sending
  BY <1>1 DEF SentOK, SendersOK
<1>11. \A q \in Senders \ {p} : SendsFor(q)' = SendsFor(q)
  <2> QED
    BY <1>3, <1>8, <1>9, <1>10, OtherSenders
<1>12. SendersOK'
  <2>1. \A u \in sending \ {t} : \E q \in Senders \ {p} : SendsFor(q) = u
    BY DEF SentOK, SendersOK
  <2> QED
    BY <1>2, <1>9, <1>10, <1>11, <2>1 DEF SentOK, SendersOK
<1>13. PendingIsSent'
  <2> SUFFICES ASSUME NEW q \in Senders',
                      Held(SendsFor(q))'.end = "none", Held(SendsFor(q))'.pend # "none"
               PROVE  /\ poll'[q].wire.row = cur'[SendsFor(q)']
                      /\ poll'[q].wire.cycle = Held(SendsFor(q))'.cycle
    BY DEF PendingIsSent
  <2> QED
    BY <1>3, <1>8, <1>9, <1>10, OtherSenders
<1>14. InflightWasSent'
  <2> SUFFICES ASSUME NEW u \in Task \ (sending \ {t}), cur'[u] # 0,
                      Held(u)'.end = "none", Held(u)'.pend = "inflight"
               PROVE  Sent(cur[u])' /\ cur'[u] = cur[u]
    BY <1>2 DEF InflightWasSent, Sent
  <2>1. u # t
    <3>1. Held(t)' = new
      BY <1>8 DEF OnlyHeld, Held
    <3> QED
      BY <1>5, <3>1
  <2> QED
    BY <1>8, <2>1, OthersStay DEF OnlyHeld
<1>15. DeliveredWasSent'
  <2> PICK i \in DOMAIN rows : i = cur[t]
    BY <1>3
  <2>1. new.end = "delivered" => Sent(i)'
    <3>1. CASE Held(t).end = "delivered"
      <4>1. Sent(i)
        BY <3>1, DeliveredIsSent DEF SentOK, Held
      <4>2. rows'[i].cycle = rows[i].cycle /\ cut \subseteq cut'
        BY <1>2, <1>4, <1>8 DEF Held
      <4> QED
        BY <1>7, <4>1, <4>2, SentStays
    <3>2. CASE ok /\ Held(t).end = "none" /\ Held(t).pend # "none"
      <4>1. poll[p].wire.row = cur[t] /\ poll[p].wire.cycle = Held(t).cycle
        BY <1>1, <3>2 DEF SentOK, PendingIsSent
      <4>2. poll[p].wire.kind = "TERMINAL" /\ poll[p].wire \in bus'
        BY <1>1, <1>7, <3>2, SenderIs
      <4>3. rows'[i].cycle = Held(t).cycle
        BY <1>4, <1>8
      <4> QED
        BY <4>1, <4>2, <4>3 DEF Sent
    <3> QED
      BY <1>6, <3>1, <3>2
  <2>2. \A r \in DOMAIN rows' : rows'[r].end = "delivered" => Sent(r)'
    BY <1>8, <2>1, OthersStay DEF OnlyHeld
  <2> QED
    BY <2>2 DEF DeliveredWasSent, Sent
<1> QED
  BY <1>12, <1>13, <1>14, <1>15 DEF SentOK

(* What was in flight at a crash is taken for delivered.                   *)
LEMMA TakenSent ==
  ASSUME Base, Step, SentOK, NEW p \in DOMAIN poll, NEW r \in DOMAIN rows, TakeForSent(p, r)
  PROVE  SentOK'
<1> PICK t \in Task : t = rows[r].task
  BY BaseIs
<1> DEFINE new == Delivered(Held(t))
<1>1. /\ t \in Task \ sending /\ cur[t] # 0 /\ Held(t).end = "none" /\ Held(t).pend = "inflight"
      /\ Track(t, new) /\ UNCHANGED <<sending, bus, cut>>
      /\ PollGoes(p, "retrying", poll[p].todo \ {r}) /\ poll[p].pc = "retrying"
  BY BaseIs DEF TakeForSent, MayRetry, Open, Polls, memory
<1>2. Held(t) \in GoodRow /\ cur[t] \in DOMAIN rows /\ RowsOK /\ Moved
  BY <1>1, BaseIs, RowsIs DEF Step
<1>3. Evolves(Held(t), new) /\ new.cycle = Held(t).cycle /\ new.end = "delivered"
  BY <1>1, <1>2, DeliveredOK
<1> HIDE DEF new
<1>4. OnlyHeld(t) /\ rows'[cur[t]] = new
  BY <1>1, <1>2, <1>3, TrackMoved DEF OnlyHeld
<1>5. Senders' = Senders /\ \A q \in Senders : poll'[q] = poll[q]
  BY <1>1 DEF PollGoes, Senders, Sending
<1>6. \A q \in Senders : SendsFor(q) # t
  BY <1>1 DEF SentOK, SendersOK
<1>7. \A q \in Senders : SendsFor(q)' = SendsFor(q)
  BY <1>2, <1>4, <1>5, <1>6, OtherSenders
<1>8. SendersOK'
  BY <1>1, <1>5, <1>7 DEF SentOK, SendersOK
<1>9. PendingIsSent'
  <2> SUFFICES ASSUME NEW q \in Senders',
                      Held(SendsFor(q))'.end = "none", Held(SendsFor(q))'.pend # "none"
               PROVE  /\ poll'[q].wire.row = cur'[SendsFor(q)']
                      /\ poll'[q].wire.cycle = Held(SendsFor(q))'.cycle
    BY DEF PendingIsSent
  <2> QED
    BY <1>2, <1>4, <1>5, <1>6, OtherSenders
<1>10. InflightWasSent'
  <2> SUFFICES ASSUME NEW u \in Task \ sending, cur'[u] # 0,
                      Held(u)'.end = "none", Held(u)'.pend = "inflight"
               PROVE  Sent(cur[u])' /\ cur'[u] = cur[u]
    BY <1>1 DEF InflightWasSent, Sent
  <2>1. u # t
    BY <1>3, <1>4 DEF OnlyHeld, Held
  <2> QED
    BY <1>4, <2>1, OthersStay DEF OnlyHeld
<1>11. DeliveredWasSent'
  <2>1. Sent(cur[t])
    BY <1>1 DEF SentOK, InflightWasSent
  <2> PICK j \in DOMAIN rows : j = cur[t]
    BY <1>2
  <2>2. Sent(j)'
    <3>1. rows'[j].cycle = rows[j].cycle /\ bus \subseteq bus' /\ cut \subseteq cut'
      BY <1>1, <1>3, <1>4 DEF Held
    <3> QED
      BY <2>1, <3>1, SentStays
  <2>3. \A i \in DOMAIN rows' : rows'[i].end = "delivered" => Sent(i)'
    BY <1>4, <2>2, OthersStay DEF OnlyHeld
  <2> QED
    BY <2>3 DEF DeliveredWasSent, Sent
<1> QED
  BY <1>8, <1>9, <1>10, <1>11 DEF SentOK

(* The editor stops: what was in the air is on the bus, or cut off.        *)
LEMMA StopSent ==
  ASSUME Base, Step, SentOK, Stop, Gentle
  PROVE  SentOK'
<1>1. PICK stored \in SUBSET InTheAir :
        /\ bus' = bus \cup stored
        /\ cut' = cut \cup {w.row : w \in {x \in InTheAir \ stored : x.kind = "TERMINAL"}}
  BY DEF Stop
<1>2. bus \subseteq bus' /\ cut \subseteq cut' /\ RowsOK /\ Moved /\ Steady
      /\ \A t \in Task : cur'[t] = cur[t] \/ cur'[t] \notin DOMAIN rows
  BY <1>1, BaseIs, CalmIsSteady DEF Step, Gentle
<1>3. sending' = {} /\ Senders' = {}
  BY DEF Stop, Senders, Sending, Idle
<1>4. SendersOK' /\ PendingIsSent'
  BY <1>3 DEF SendersOK, PendingIsSent
<1>5. InflightWasSent'
  <2> SUFFICES ASSUME NEW t \in Task, cur'[t] # 0,
                      Held(t)'.end = "none", Held(t)'.pend = "inflight"
               PROVE  Sent(cur[t])' /\ cur'[t] = cur[t]
    BY <1>3 DEF InflightWasSent, Sent
  <2>1. /\ cur'[t] = cur[t] /\ cur[t] # 0 /\ cur[t] \in DOMAIN rows
        /\ Held(t).end = "none" /\ Held(t).pend = "inflight"
        /\ rows'[cur[t]].cycle = rows[cur[t]].cycle
    BY <1>2, HeldSteady
  <2>2. CASE t \notin sending
    <3>1. Sent(cur[t])
      BY <2>1, <2>2 DEF SentOK, InflightWasSent
    <3> QED
      BY <1>2, <2>1, <3>1, SentStays
  <2>3. CASE t \in sending
    <3>1. PICK p \in Senders : SendsFor(p) = t
      BY <2>3 DEF SentOK, SendersOK
    <3> DEFINE w == poll[p].wire
    <3>2. w.row = cur[t] /\ w.cycle = Held(t).cycle
      BY <2>1, <3>1 DEF SentOK, PendingIsSent
    <3>3. w \in InTheAir /\ w.kind = "TERMINAL"
      BY SenderIs
    <3>4. w \in bus' \/ w.row \in cut'
      BY <1>1, <3>3
    <3> HIDE DEF w
    <3> QED
      BY <2>1, <3>2, <3>3, <3>4 DEF Sent, Held
  <2> QED
    BY <2>1, <2>2, <2>3
<1>6. DeliveredWasSent'
  BY <1>2, DeliveredSteady DEF SentOK
<1> QED
  BY <1>4, <1>5, <1>6 DEF SentOK

LEMMA InitSent == Init => SentOK
<1> SUFFICES ASSUME Init PROVE SentOK
  OBVIOUS
<1>1. PICK s \in Scenarios : poll = [p \in s.polls |-> Idle]
  BY DEF Init
<1>2. rows = <<>> /\ DOMAIN rows = {} /\ cur = [t \in Task |-> 0] /\ sending = {}
  BY DEF Init
<1>3. Senders = {}
  BY <1>1 DEF Senders, Sending, Idle
<1> QED
  BY <1>2, <1>3 DEF SentOK, SendersOK, PendingIsSent, InflightWasSent, DeliveredWasSent

(* A task taken for delivered was, unless its terminal was cut off.        *)
THEOREM DeliveredForSure == Spec => []DeliveredWasSent
<1>1. ASSUME Base, SentOK, [Next]_vars PROVE SentOK'
  <2>1. Step /\ Kinds /\ Moved
    BY <1>1, Steps DEF Step
  <2>2. CASE Calm
    BY <1>1, <2>1, <2>2, CalmSent
  <2>3. CASE \E p \in DOMAIN poll : \E t \in Task : SendStep(p, t)
    BY <1>1, <2>1, <2>3, SendSent
  <2>4. CASE \E p \in DOMAIN poll : \E r \in DOMAIN rows : TakeForSent(p, r)
    BY <1>1, <2>1, <2>4, TakenSent
  <2>5. CASE \E p \in DOMAIN poll : \E ok \in BOOLEAN : TerminalEnds(p, ok)
    BY <1>1, <2>1, <2>5, EndSent
  <2>6. CASE Stop /\ Gentle
    BY <1>1, <2>1, <2>6, StopSent
  <2> QED
    BY <2>1, <2>2, <2>3, <2>4, <2>5, <2>6 DEF Kinds
<1>2. SentOK => DeliveredWasSent
  BY DEF SentOK
<1> QED
  BY <1>1, <1>2, InitSent, DelegationInvariance, PTL DEF Spec

-----------------------------------------------------------------------------
(* The recoveries of a task.                                               *)

(* The polls that wait for a new session of a task; they have been counted *)
(* and have not reopened it yet.                                           *)
Recovering(t) == {p \in DOMAIN poll : poll[p].pc = "recovering" /\ rows[poll[p].at].task = t}

(* What the starts of the editor before this one may have used up.         *)
Spent == MaxRecoveries * crashes
Allowed(t) == Spent + tries[t]

(* A count is made before the object is reopened, whatever object it is    *)
(* then: the recoveries under way are part of the count.                   *)
BudgetOK ==
  /\ \A t \in Task : Cardinality(Recovering(t)) <= Allowed(t)
  /\ \A t \in Task : cur[t] # 0 => Held(t).cycle + Cardinality(Recovering(t)) <= Allowed(t)
  /\ \A r \in DOMAIN rows : rows[r].cycle <= Spent + MaxRecoveries

LEMMA RecoveringFinite ==
  ASSUME Base
  PROVE  \A t : IsFiniteSet(Recovering(t)) /\ Cardinality(Recovering(t)) \in Nat
<1>1. \A t : Recovering(t) \subseteq Poller
  BY BaseIs DEF PollsOK, Recovering
<1> QED
  BY <1>1, Constants, FS_Subset, FS_CardinalityType

LEMMA SpentIs ==
  ASSUME Base
  PROVE  /\ Spent \in Nat /\ MaxRecoveries \in Nat
         /\ \A t \in Task : tries[t] \in 0 .. MaxRecoveries /\ Allowed(t) \in Nat
         /\ Spent + MaxRecoveries = MaxRecoveries * (crashes + 1)
<1>1. crashes \in Nat /\ MaxRecoveries \in Nat /\ \A t \in Task : tries[t] \in 0 .. MaxRecoveries
  BY BaseIs, Constants DEF MemoryOK
<1>2. MaxRecoveries * crashes \in Nat /\ MaxRecoveries * (crashes + 1) = MaxRecoveries * crashes + MaxRecoveries
  BY <1>1
<1> QED
  BY <1>1, <1>2 DEF Spent, Allowed

LEMMA CyclesAre ==
  ASSUME Base
  PROVE  /\ \A r \in DOMAIN rows : rows[r].cycle \in Nat
         /\ \A t \in Task : cur[t] # 0 => cur[t] \in DOMAIN rows /\ Held(t).cycle \in Nat
<1>1. \A r \in DOMAIN rows : rows[r].cycle \in Nat
  BY BaseIs, RowsIs, RowIs
<1> QED
  BY <1>1, BaseIs, RowsIs DEF Held

(* Cycles stay in a step, and a task may get a new object.                 *)
LEMMA HeldCycles ==
  ASSUME Base, Step, CycleStays, \A t \in Task : cur'[t] = cur[t] \/ cur'[t] \notin DOMAIN rows,
         NEW t \in Task, cur'[t] # 0
  PROVE  (cur[t] # 0 /\ Held(t)'.cycle = Held(t).cycle) \/ Held(t)'.cycle = 0
<1>1. cur'[t] \in DOMAIN rows'
  <2>1. Base'
    BY DEF Step
  <2>2. RowsOK'
    BY <2>1 DEF Base
  <2> QED
    BY <2>2, LenProperties DEF RowsOK
<1>2. Held(t)' = rows'[cur'[t]]
  BY DEF Held
<1>3. CASE cur'[t] = cur[t]
  <2>1. cur[t] \in DOMAIN rows
    BY <1>3, CyclesAre
  <2> QED
    BY <1>1, <1>2, <1>3, <2>1 DEF CycleStays, Held
<1>4. CASE cur'[t] \notin DOMAIN rows
  BY <1>1, <1>2, <1>4 DEF CycleStays
<1> QED
  BY <1>3, <1>4

(* The polls that recover, when at most one begins to.                     *)
LEMMA RecoveringStays ==
  ASSUME Base, Moved, DOMAIN poll' = DOMAIN poll, NEW S,
         \A q \in DOMAIN poll : q \notin S /\ poll'[q].pc = "recovering" => poll'[q] = poll[q],
         NEW t
  PROVE  Recovering(t)' \subseteq Recovering(t) \cup S
<1> SUFFICES ASSUME NEW q \in DOMAIN poll, poll'[q].pc = "recovering",
                    rows'[poll'[q].at].task = t, q \notin S
             PROVE  q \in Recovering(t)
  BY DEF Recovering
<1>1. poll'[q] = poll[q] /\ poll[q].pc = "recovering"
  OBVIOUS
<1>2. poll[q].at \in DOMAIN rows
  BY <1>1, PollKnows
<1>3. rows[poll[q].at].task = t
  BY <1>1, <1>2 DEF Moved, Evolves
<1> QED
  BY <1>1, <1>3 DEF Recovering

LEMMA FrugalBudget == ASSUME Base, Step, BudgetOK, Frugal PROVE BudgetOK'
<1>1. Base' /\ Moved
  BY DEF Step
<1>2. UNCHANGED <<tries, crashes>> /\ Spent' = Spent
  BY DEF Frugal, Spent
<1>3. ASSUME NEW t \in Task
      PROVE  /\ Cardinality(Recovering(t))' <= Cardinality(Recovering(t))
             /\ Cardinality(Recovering(t))' \in Nat
  <2>1. Recovering(t)' \subseteq Recovering(t) \cup {}
    <3>1. /\ DOMAIN poll' = DOMAIN poll
          /\ \A q \in DOMAIN poll : q \notin {} /\ poll'[q].pc = "recovering" => poll'[q] = poll[q]
      BY DEF Frugal
    <3> QED
      BY <1>1, <3>1, RecoveringStays
  <2> QED
    BY <2>1, RecoveringFinite, FS_Subset, FS_CardinalityType
<1>4. ASSUME NEW t \in Task
      PROVE  /\ Cardinality(Recovering(t))' \in Nat /\ Cardinality(Recovering(t)) \in Nat
             /\ Allowed(t)' = Allowed(t) /\ Allowed(t) \in Nat
  <2>1. Cardinality(Recovering(t)) \in Nat /\ Allowed(t) \in Nat
    BY RecoveringFinite, SpentIs
  <2> QED
    BY <1>2, <1>3, <2>1 DEF Allowed
<1>5. ASSUME NEW t \in Task PROVE Cardinality(Recovering(t))' <= Allowed(t)'
  BY <1>3, <1>4 DEF BudgetOK
<1>6. ASSUME NEW t \in Task, cur'[t] # 0
      PROVE  Held(t)'.cycle + Cardinality(Recovering(t))' <= Allowed(t)'
  <2>1. CASE cur[t] # 0 /\ Held(t)'.cycle = Held(t).cycle
    <3>1. Held(t).cycle \in Nat
      BY <2>1, CyclesAre
    <3>2. Held(t).cycle + Cardinality(Recovering(t)) <= Allowed(t)
      BY <2>1 DEF BudgetOK
    <3> QED
      BY <1>3, <1>4, <2>1, <3>1, <3>2
  <2>2. CASE Held(t)'.cycle = 0
    BY <1>4, <1>5, <2>2
  <2> QED
    BY <1>6, <2>1, <2>2, HeldCycles DEF Frugal
<1>7. \A r \in DOMAIN rows' : rows'[r].cycle <= Spent' + MaxRecoveries
  <2>1. Spent + MaxRecoveries \in Nat
    BY SpentIs
  <2> QED
    BY <1>2, <2>1 DEF Frugal, CycleStays, BudgetOK
<1> QED
  BY <1>5, <1>6, <1>7 DEF BudgetOK

LEMMA RecoverBudget ==
  ASSUME Base, Step, BudgetOK, Gentle, NEW p \in DOMAIN poll, Recover(p)
  PROVE  BudgetOK'
<1>0. poll[p].pc = "asking" /\ poll[p].at \in DOMAIN rows /\ rows[poll[p].at].task \in Task
  BY PollKnows, BaseIs DEF Recover, ToRecover, Polls
<1> PICK t \in Task : t = rows[poll[p].at].task
  BY <1>0
<1>1. /\ tries' = [tries EXCEPT ![t] = @ + 1] /\ PollWaits(p, "recovering", poll[p].at)
      /\ UNCHANGED <<cur, crashes>>
  BY DEF Recover, outside
<1>2. /\ DOMAIN poll' = DOMAIN poll /\ poll'[p].at = poll[p].at
      /\ \A q \in DOMAIN poll : q # p => poll'[q] = poll[q]
  BY <1>1 DEF PollWaits
<1>3. Moved /\ CycleStays /\ Spent' = Spent
  BY <1>1, GentleCycle DEF Step, Spent
<1>4. p \notin Recovering(t) /\ ~(\E u \in Task \ {t} : p \in Recovering(u)')
  <2>1. rows'[poll'[p].at].task = t
    BY <1>0, <1>2, <1>3 DEF Moved, Evolves
  <2> QED
    BY <1>0, <2>1 DEF Recovering
<1>5. \A u \in Task : Recovering(u)' \subseteq Recovering(u) \cup {p}
  <2>1. \A q \in DOMAIN poll : q \notin {p} /\ poll'[q].pc = "recovering" => poll'[q] = poll[q]
    BY <1>2
  <2> QED
    BY <1>2, <1>3, <2>1, RecoveringStays
<1>6. ASSUME NEW u \in Task
      PROVE  /\ Cardinality(Recovering(u))' \in Nat
             /\ Cardinality(Recovering(u))' <= Cardinality(Recovering(u)) + (IF u = t THEN 1 ELSE 0)
  <2>1. IsFiniteSet(Recovering(u)) /\ Cardinality(Recovering(u)) \in Nat
    BY RecoveringFinite
  <2>2. CASE u = t
    <3>1. IsFiniteSet(Recovering(u) \cup {p})
          /\ Cardinality(Recovering(u) \cup {p}) = Cardinality(Recovering(u)) + 1
      BY <1>4, <2>1, <2>2, FS_AddElement
    <3>2. Recovering(u)' \subseteq Recovering(u) \cup {p}
      BY <1>5
    <3>3. Cardinality(Recovering(u))' <= Cardinality(Recovering(u) \cup {p}) /\ IsFiniteSet(Recovering(u))'
      BY <3>1, <3>2, FS_Subset
    <3> QED
      BY <2>2, <3>1, <3>3, FS_CardinalityType
  <2>3. CASE u # t
    <3>1. Recovering(u)' \subseteq Recovering(u)
      BY <1>4, <1>5, <2>3
    <3>2. Cardinality(Recovering(u))' <= Cardinality(Recovering(u)) /\ IsFiniteSet(Recovering(u))'
      BY <2>1, <3>1, FS_Subset
    <3> QED
      BY <2>1, <2>3, <3>2, FS_CardinalityType
  <2> QED
    BY <2>2, <2>3
<1>7. ASSUME NEW u \in Task
      PROVE  Allowed(u)' = Allowed(u) + (IF u = t THEN 1 ELSE 0) /\ Allowed(u) \in Nat
  <2>1. tries \in [Task -> 0 .. MaxRecoveries] /\ Spent \in Nat /\ MaxRecoveries \in Nat
    BY BaseIs, SpentIs DEF MemoryOK
  <2>2. tries'[u] = tries[u] + (IF u = t THEN 1 ELSE 0) /\ tries[u] \in Nat
    BY <1>1, <2>1
  <2> QED
    BY <1>3, <2>1, <2>2 DEF Allowed
<1>8. ASSUME NEW u \in Task PROVE Cardinality(Recovering(u)) \in Nat
  BY RecoveringFinite
<1>9. \A u \in Task : Cardinality(Recovering(u))' <= Allowed(u)'
  BY <1>6, <1>7, <1>8 DEF BudgetOK
<1>10. ASSUME NEW u \in Task, cur'[u] # 0
       PROVE  Held(u)'.cycle + Cardinality(Recovering(u))' <= Allowed(u)'
  <2>1. CASE cur[u] # 0 /\ Held(u)'.cycle = Held(u).cycle
    <3>1. Held(u).cycle \in Nat
      BY <2>1, CyclesAre
    <3>2. Held(u).cycle + Cardinality(Recovering(u)) <= Allowed(u)
      BY <2>1 DEF BudgetOK
    <3> QED
      BY <1>6, <1>7, <1>8, <2>1, <3>1, <3>2
  <2>2. CASE Held(u)'.cycle = 0
    BY <1>6, <1>9, <2>2
  <2> QED
    BY <1>1, <1>3, <1>10, <2>1, <2>2, HeldCycles
<1>11. \A r \in DOMAIN rows' : rows'[r].cycle <= Spent' + MaxRecoveries
  <2>1. Spent + MaxRecoveries \in Nat
    BY SpentIs
  <2> QED
    BY <1>3, <2>1 DEF CycleStays, BudgetOK
<1> QED
  BY <1>9, <1>10, <1>11 DEF BudgetOK

LEMMA RecoveredBudget ==
  ASSUME Base, Step, BudgetOK, NEW p \in DOMAIN poll, Recovered(p)
  PROVE  BudgetOK'
<1>0. poll[p].pc = "recovering" /\ poll[p].at \in DOMAIN rows /\ rows[poll[p].at].task \in Task
  BY PollKnows, BaseIs DEF Recovered, Polls
<1> PICK t \in Task : t = rows[poll[p].at].task
  BY <1>0
<1> DEFINE new == Reopened(Held(t))
<1>1. /\ Track(t, new) /\ PollGoes(p, "checking", poll[p].todo) /\ UNCHANGED <<tries, crashes>>
      /\ cur[t] # 0 /\ RowsOK /\ cur[t] \in DOMAIN rows /\ Held(t) \in GoodRow
  BY <1>0, BaseIs, RowsIs DEF Recovered, outside, memory
<1>2. Evolves(Held(t), new) /\ new.cycle = Held(t).cycle + 1
  BY <1>1, ReopenedOK
<1> HIDE DEF new
<1>3. /\ Moved /\ DOMAIN rows' = DOMAIN rows /\ cur' = cur /\ rows'[cur[t]] = new
      /\ \A i \in DOMAIN rows : i # cur[t] => rows'[i] = rows[i]
  BY <1>1, <1>2, TrackMoved
<1>4. /\ DOMAIN poll' = DOMAIN poll /\ poll'[p].pc = "checking"
      /\ \A q \in DOMAIN poll : q # p => poll'[q] = poll[q]
  BY <1>1 DEF PollGoes
<1>5. \A u \in Task : Recovering(u)' \subseteq Recovering(u) \cup {}
  <2>1. \A q \in DOMAIN poll : q \notin {} /\ poll'[q].pc = "recovering" => poll'[q] = poll[q]
    BY <1>4
  <2> QED
    BY <1>3, <1>4, <2>1, RecoveringStays
<1>6. p \in Recovering(t) /\ Recovering(t)' \subseteq Recovering(t) \ {p}
  BY <1>0, <1>4, <1>5 DEF Recovering
<1>7. ASSUME NEW u \in Task
      PROVE  /\ Cardinality(Recovering(u))' \in Nat /\ Cardinality(Recovering(u)) \in Nat
             /\ Cardinality(Recovering(u))' + (IF u = t THEN 1 ELSE 0) <= Cardinality(Recovering(u))
  <2>1. IsFiniteSet(Recovering(u)) /\ Cardinality(Recovering(u)) \in Nat
    BY RecoveringFinite
  <2>2. CASE u = t
    <3>1. IsFiniteSet(Recovering(u) \ {p})
          /\ Cardinality(Recovering(u) \ {p}) = Cardinality(Recovering(u)) - 1
      BY <1>6, <2>1, <2>2, FS_RemoveElement
    <3>2. Recovering(u)' \subseteq Recovering(u) \ {p}
      BY <1>6, <2>2
    <3>3. Cardinality(Recovering(u))' <= Cardinality(Recovering(u) \ {p}) /\ IsFiniteSet(Recovering(u))'
      BY <3>1, <3>2, FS_Subset
    <3>4. Cardinality(Recovering(u))' \in Nat /\ Cardinality(Recovering(u) \ {p}) \in Nat
      BY <3>1, <3>3, FS_CardinalityType
    <3> QED
      BY <2>1, <2>2, <3>1, <3>3, <3>4
  <2>3. CASE u # t
    <3>1. Recovering(u)' \subseteq Recovering(u)
      BY <1>5
    <3>2. Cardinality(Recovering(u))' <= Cardinality(Recovering(u)) /\ IsFiniteSet(Recovering(u))'
      BY <2>1, <3>1, FS_Subset
    <3>3. Cardinality(Recovering(u))' \in Nat
      BY <3>2, FS_CardinalityType
    <3> QED
      BY <2>1, <2>3, <3>2, <3>3
  <2> QED
    BY <2>2, <2>3
<1>8. Spent' = Spent /\ \A u \in Task : Allowed(u)' = Allowed(u) /\ Allowed(u) \in Nat
  BY <1>1, SpentIs DEF Spent, Allowed
<1>9. \A u \in Task : Cardinality(Recovering(u))' <= Allowed(u)'
  <2> SUFFICES ASSUME NEW u \in Task PROVE Cardinality(Recovering(u))' <= Allowed(u)'
    OBVIOUS
  <2>1. Cardinality(Recovering(u)) <= Allowed(u)
    BY DEF BudgetOK
  <2> QED
    BY <1>7, <1>8, <2>1
<1>10. ASSUME NEW u \in Task, cur'[u] # 0
       PROVE  Held(u)'.cycle + Cardinality(Recovering(u))' <= Allowed(u)'
  <2>1. Held(u).cycle \in Nat /\ cur[u] \in DOMAIN rows /\ cur[u] # 0
    BY <1>3, <1>10, CyclesAre
  <2>2. Held(u)'.cycle = Held(u).cycle + (IF u = t THEN 1 ELSE 0)
    <3>1. Held(u)' = rows'[cur[u]]
      BY <1>3 DEF Held
    <3>2. CASE u = t
      BY <1>2, <1>3, <3>1, <3>2
    <3>3. CASE u # t
      <4>1. Held(u).task = u /\ Held(t).task = t
        BY <1>1, <2>1 DEF RowsOK
      <4>2. cur[u] # cur[t]
        BY <3>3, <4>1 DEF Held
      <4>3. Held(u)' = Held(u)
        BY <1>3, <2>1, <3>1, <4>2 DEF Held
      <4> QED
        BY <2>1, <3>3, <4>3
    <3> QED
      BY <3>2, <3>3
  <2>3. Held(u).cycle + Cardinality(Recovering(u)) <= Allowed(u)
    BY <2>1 DEF BudgetOK
  <2> QED
    BY <1>7, <1>8, <2>1, <2>2, <2>3
<1>11. \A r \in DOMAIN rows' : rows'[r].cycle <= Spent' + MaxRecoveries
  <2>1. new.cycle <= Spent + MaxRecoveries
    <3>1. /\ Held(t).cycle + Cardinality(Recovering(t)) <= Allowed(t)
          /\ Allowed(t) <= Spent + MaxRecoveries
      BY <1>1, SpentIs DEF BudgetOK, Allowed
    <3>2. 1 <= Cardinality(Recovering(t))
      BY <1>7
    <3>3. Held(t).cycle \in Nat /\ Allowed(t) \in Nat /\ Spent + MaxRecoveries \in Nat
          /\ Cardinality(Recovering(t)) \in Nat
      BY <1>1, <1>7, CyclesAre, SpentIs
    <3> QED
      BY <1>2, <3>1, <3>2, <3>3
  <2> QED
    BY <1>3, <1>8, <2>1 DEF BudgetOK
<1> QED
  BY <1>9, <1>10, <1>11 DEF BudgetOK

(* A start of the editor forgets the counts.                               *)
LEMMA StopBudget ==
  ASSUME Base, Step, BudgetOK, Stop, Gentle
  PROVE  BudgetOK'
<1>1. /\ tries' = [t \in Task |-> 0] /\ crashes' = crashes + 1
      /\ poll' = [p \in DOMAIN poll |-> Idle]
  BY DEF Stop
<1>2. \A t : Recovering(t)' = {}
  BY <1>1 DEF Recovering, Idle
<1>3. Spent' = Spent + MaxRecoveries /\ Spent \in Nat /\ MaxRecoveries \in Nat
  BY <1>1, SpentIs DEF Spent
<1>4. \A t \in Task : Cardinality(Recovering(t))' = 0 /\ Allowed(t)' = Spent + MaxRecoveries
  BY <1>1, <1>2, <1>3, FS_EmptySet DEF Allowed
<1>5. CycleStays /\ \A t \in Task : cur'[t] = cur[t] \/ cur'[t] \notin DOMAIN rows
  BY GentleCycle DEF Gentle
<1>6. ASSUME NEW t \in Task, cur'[t] # 0
      PROVE  Held(t)'.cycle + Cardinality(Recovering(t))' <= Allowed(t)'
  <2>1. CASE cur[t] # 0 /\ Held(t)'.cycle = Held(t).cycle
    <3>1. Held(t).cycle \in Nat /\ Held(t).cycle <= Spent + MaxRecoveries
      BY <2>1, CyclesAre DEF BudgetOK, Held
    <3> QED
      BY <1>4, <2>1, <3>1
  <2>2. CASE Held(t)'.cycle = 0
    BY <1>3, <1>4, <2>2
  <2> QED
    BY <1>5, <1>6, <2>1, <2>2, HeldCycles
<1>7. \A r \in DOMAIN rows' : rows'[r].cycle <= Spent' + MaxRecoveries
  <2>1. \A r \in DOMAIN rows : rows[r].cycle \in Nat /\ rows[r].cycle <= Spent + MaxRecoveries
    BY CyclesAre DEF BudgetOK
  <2>2. ASSUME NEW r \in DOMAIN rows' PROVE rows'[r].cycle <= Spent + MaxRecoveries
    BY <1>3, <1>5, <2>1 DEF CycleStays
  <2>3. ASSUME NEW r \in DOMAIN rows' PROVE rows'[r].cycle \in Nat
    BY <1>5, <2>1 DEF CycleStays
  <2> QED
    BY <1>3, <2>2, <2>3
<1>8. \A t \in Task : Cardinality(Recovering(t))' <= Allowed(t)'
  BY <1>3, <1>4
<1> QED
  BY <1>6, <1>7, <1>8 DEF BudgetOK

LEMMA InitBudget == Init => BudgetOK
<1> SUFFICES ASSUME Init PROVE BudgetOK
  OBVIOUS
<1>1. PICK s \in Scenarios : poll = [p \in s.polls |-> Idle]
  BY DEF Init
<1>2. DOMAIN rows = {} /\ cur = [t \in Task |-> 0] /\ tries = [t \in Task |-> 0] /\ crashes = 0
  BY DEF Init
<1>3. \A t : Recovering(t) = {}
  BY <1>1 DEF Recovering, Idle
<1>4. \A t \in Task : Cardinality(Recovering(t)) = 0 /\ Allowed(t) = 0
  <2>1. \A n \in Nat : n * 0 = 0
    OBVIOUS
  <2>2. Spent = 0
    BY <1>2, <2>1, Constants DEF Spent
  <2>3. \A t \in Task : Allowed(t) = 0
    BY <1>2, <2>2 DEF Allowed
  <2> QED
    BY <1>3, <2>3, FS_EmptySet
<1> QED
  BY <1>2, <1>4 DEF BudgetOK

(* However many polls overlap, a task is reopened as often as the retries  *)
(* of every start of the editor allow, and no more.                        *)
THEOREM BudgetKept == Spec => []RecoveryBudget
<1>1. ASSUME Base, BudgetOK, [Next]_vars PROVE BudgetOK'
  <2>1. Step /\ Kinds
    BY <1>1, Steps
  <2>2. CASE Frugal
    BY <1>1, <2>1, <2>2, FrugalBudget
  <2>3. CASE \E p \in DOMAIN poll : Recover(p)
    BY <1>1, <2>1, <2>3, RecoverOK, RecoverBudget
  <2>4. CASE \E p \in DOMAIN poll : Recovered(p)
    BY <1>1, <2>1, <2>4, RecoveredBudget
  <2>5. CASE Stop /\ Gentle
    BY <1>1, <2>1, <2>5, StopBudget
  <2> QED
    BY <2>1, <2>2, <2>3, <2>4, <2>5 DEF Kinds
<1>2. Base /\ BudgetOK => RecoveryBudget
  BY SpentIs DEF BudgetOK, RecoveryBudget
<1> QED
  BY <1>1, <1>2, InitBudget, DelegationInvariance, PTL DEF Spec
=============================================================================
