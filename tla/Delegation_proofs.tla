------------------------- MODULE Delegation_proofs -------------------------
(***************************************************************************)
(* Proofs about Delegation, for every set of tasks, messages, batches and  *)
(* polls that overlap, every number of retries, faults and crashes.        *)
(***************************************************************************)
EXTENDS Delegation, SequenceTheorems, FiniteSetTheorems, TLAPS

(* An object with a delivery id for whatever it has to send.               *)
GoodRow ==
  {row \in Row : (row.pend # "none" => row.ids > 0) /\ (row.owed => row.ackIds > 0)}

RowsOK ==
  /\ rows \in Seq(GoodRow)
  /\ cur \in [Task -> 0 .. Len(rows)]
  /\ \A t \in Task : cur[t] # 0 => Held(t).task = t
  /\ \A r \in DOMAIN rows : cur[rows[r].task] # 0

MemoryOK ==
  /\ receipt \in [Task -> {"none", "good", "bad"}] /\ settled \subseteq Message
  /\ sending \subseteq Task /\ acking \subseteq Task
  /\ tries \in [Task -> 0 .. MaxRecoveries]
  /\ left \in Nat /\ crashes \in Nat

BusOK == bus \subseteq Wiring /\ cut \subseteq DOMAIN rows

(* What handlers, polls and the replay hold, given the objects, the        *)
(* messages about them, the tracked tasks and the objects with an ACK.  A  *)
(* handler ends or acknowledges tracked tasks only, and a session is asked *)
(* about, or recovered, only after the ACK.                                *)
Tracked == {t \in Task : cur[t] # 0}
AckSent == {r \in DOMAIN rows : rows[r].ack}

HandlerFits(x, wiring, tracked) ==
  /\ x \in Handlers \cup [pc: {"preempting"}, msg: Message, other: Task]
             \cup [pc: {"acking"}, msg: Message, wire: wiring]
  /\ x.pc \in {"terminating", "acking"} => TaskOf[x.msg] \in tracked
  /\ x.pc = "preempting" => x.other \in tracked
  /\ x.pc = "acking" => x.wire.kind = "ACK"
PollFits(x, objects, wiring, acked) ==
  /\ x \in {Idle} \cup [pc: {"retrying", "checking"}, todo: SUBSET objects]
             \cup [pc: {"asking", "recovering"}, todo: SUBSET objects, at: objects]
             \cup [pc: {"resending", "sending"}, todo: SUBSET objects, file: BOOLEAN, wire: wiring]
  /\ x.pc \in {"asking", "recovering"} => x.at \in acked
  /\ x.pc \in {"sending", "resending"} => x.wire.kind = "TERMINAL"
ReplayFits(x, objects, wiring) ==
  /\ x \in {Idle} \cup [pc: {"listing"}, todo: SUBSET objects]
             \cup [pc: {"acking"}, todo: SUBSET objects, wire: wiring]
  /\ x.pc = "acking" => x.wire.kind = "ACK"

HandlersOK ==
  /\ DOMAIN handler \subseteq Handler
  /\ \A h \in DOMAIN handler : HandlerFits(handler[h], Wiring, Tracked)
PollsOK ==
  /\ DOMAIN poll \subseteq Poller
  /\ \A p \in DOMAIN poll : PollFits(poll[p], DOMAIN rows, Wiring, AckSent)
ReplayOK == ReplayFits(replay, DOMAIN rows, Wiring)

(* There is room for the registrations that are under way.                 *)
Arriving == {"terminating", "preempting", "creating"}
Coming == {h \in DOMAIN handler : handler[h].pc \in Arriving}
RoomOK == Len(rows) + Cardinality(Coming) <= MaxRows

Base == RowsOK /\ MemoryOK /\ BusOK /\ HandlersOK /\ PollsOK /\ ReplayOK /\ RoomOK

-----------------------------------------------------------------------------
(* How objects change.                                                     *)

(* Within a cycle, ids are drawn only when nothing is pending or was sent. *)
Evolves(old, new) ==
  /\ new \in GoodRow /\ new.task = old.task /\ (old.ack => new.ack)
  /\ \/ new.cycle = old.cycle + 1
     \/ /\ new.cycle = old.cycle
        /\ new.ids = old.ids \/ (old.end = "none" /\ old.pend = "none")
        /\ (old.end # "none" \/ old.pend # "none") => (new.end # "none" \/ new.pend # "none")
        /\ new.ackIds = old.ackIds \/ (~old.ack /\ ~old.owed)
        /\ (old.ack \/ old.owed) => (new.ack \/ new.owed)

LEMMA Constants ==
  /\ TaskOf \in [Message -> Task]
  /\ MaxRecoveries \in Nat /\ MaxRows \in Nat
  /\ IsFiniteSet(Handler) /\ IsFiniteSet(Poller)
  /\ Scenarios \subseteq [inbox: SUBSET Message, handlers: SUBSET Handler,
                          polls: SUBSET Poller, faults: Nat]
  BY DelegationAssumption

LEMMA RowIs ==
  ASSUME NEW row \in GoodRow
  PROVE  /\ row \in Row /\ row.task \in Task /\ row.cycle \in Nat /\ row.ids \in Nat
         /\ row.ackIds \in Nat /\ row.ack \in BOOLEAN /\ row.owed \in BOOLEAN
         /\ row.blank \in BOOLEAN
         /\ row.live \in Sessions /\ row.pend \in {"none", "prepared", "inflight"}
         /\ row.end \in {"none", "abandoned", "delivered"}
         /\ row.pend # "none" => row.ids > 0
         /\ row.owed => row.ackIds > 0
  BY DEF GoodRow, Row

LEMMA SameEvolves == ASSUME NEW row \in GoodRow PROVE Evolves(row, row)
  BY DEF Evolves

(* What the methods of the tracker do to an object.                        *)
LEMMA AckPreparedOK ==
  ASSUME NEW row \in GoodRow, ~row.ack
  PROVE  LET new == AckPrepared(row) IN
         /\ Evolves(row, new) /\ new.owed /\ new.cycle = row.cycle /\ new.ackIds > 0
         /\ new.pend = row.pend /\ new.end = row.end /\ new.live = row.live
<1>1. row \in Row /\ row.ackIds \in Nat /\ row.ackIds + 1 \in Nat
  BY RowIs
<1>2. CASE row.owed
  BY <1>1, <1>2 DEF AckPrepared, Evolves, GoodRow
<1>3. CASE ~row.owed
  <2> DEFINE new == [row EXCEPT !.owed = TRUE, !.blank = FALSE, !.ackIds = row.ackIds + 1]
  <2>1. /\ new \in Row /\ new.owed /\ new.ackIds = row.ackIds + 1
        /\ new.task = row.task /\ new.cycle = row.cycle /\ new.ids = row.ids
        /\ new.pend = row.pend /\ new.end = row.end /\ new.live = row.live /\ new.ack = row.ack
    BY <1>1 DEF Row
  <2>2. AckPrepared(row) = new
    BY <1>3 DEF AckPrepared
  <2> HIDE DEF new
  <2> QED
    BY <1>1, <1>3, <2>1, <2>2 DEF Evolves, GoodRow
<1> QED
  BY <1>2, <1>3

LEMMA AckedOK ==
  ASSUME NEW row \in GoodRow
  PROVE  LET new == Acked(row) IN
         /\ Evolves(row, new) /\ new.cycle = row.cycle
         /\ new.pend = row.pend /\ new.end = row.end
  BY DEF Acked, Evolves, GoodRow, Row

LEMMA PreparedOK ==
  ASSUME NEW row \in GoodRow, row.end = "none", row.pend = "none"
  PROVE  LET new == Prepared(row) IN
         /\ Evolves(row, new) /\ new.pend = "inflight" /\ new.cycle = row.cycle
         /\ new.ack = row.ack /\ new.ids > 0 /\ new.end = row.end
<1>1. row \in Row /\ row.ids \in Nat /\ row.ids + 1 \in Nat
  BY RowIs
<1> DEFINE new == [row EXCEPT !.pend = "inflight", !.ids = row.ids + 1]
<1>2. /\ new \in Row /\ new.pend = "inflight" /\ new.ids = row.ids + 1
      /\ new.task = row.task /\ new.cycle = row.cycle /\ new.ackIds = row.ackIds
      /\ new.owed = row.owed /\ new.end = row.end /\ new.ack = row.ack
  BY <1>1 DEF Row
<1>3. Prepared(row) = new
  BY DEF Prepared
<1> HIDE DEF new
<1> QED
  BY <1>1, <1>2, <1>3 DEF Evolves, GoodRow

LEMMA InflightOK ==
  ASSUME NEW row \in GoodRow, row.pend = "prepared"
  PROVE  LET new == Inflight(row) IN
         /\ Evolves(row, new) /\ new.pend = "inflight" /\ new.cycle = row.cycle
         /\ new.ack = row.ack /\ new.ids > 0 /\ new.end = row.end /\ new.ids = row.ids
  BY DEF Inflight, Evolves, GoodRow, Row

LEMMA NotSentOK ==
  ASSUME NEW row \in GoodRow
  PROVE  LET new == NotSent(row) IN
         /\ Evolves(row, new) /\ new.cycle = row.cycle /\ new.end = row.end
         /\ new.pend \in {"none", "prepared"} /\ (new.pend = "none" <=> row.pend = "none")
  BY DEF NotSent, Evolves, GoodRow, Row

LEMMA DeliveredOK ==
  ASSUME NEW row \in GoodRow
  PROVE  LET new == Delivered(row) IN
         /\ Evolves(row, new) /\ new.cycle = row.cycle
         /\ IF row.end = "none" /\ row.pend # "none"
            THEN new.end = "delivered" /\ new.pend = "none" ELSE new = row
  BY DEF Delivered, Evolves, GoodRow, Row

LEMMA AbandonedOK ==
  ASSUME NEW row \in GoodRow
  PROVE  LET new == Abandoned(row) IN
         /\ Evolves(row, new) /\ new.cycle = row.cycle /\ new.pend = row.pend
         /\ new.end # "none" /\ (new.end = "delivered" => row.end = "delivered")
  BY DEF Abandoned, Evolves, GoodRow, Row

LEMMA ReopenedOK ==
  ASSUME NEW row \in GoodRow
  PROVE  LET new == Reopened(row) IN
         Evolves(row, new) /\ new.cycle = row.cycle + 1 /\ new.end = "none" /\ new.pend = "none"
<1>1. row \in Row /\ row.cycle \in Nat /\ row.cycle + 1 \in Nat
  BY RowIs
<1> DEFINE new == [row EXCEPT !.end = "none", !.pend = "none", !.owed = FALSE, !.blank = FALSE,
                              !.cycle = row.cycle + 1, !.live = "working"]
<1>2. /\ new \in Row /\ new.pend = "none" /\ new.end = "none" /\ ~new.owed
      /\ new.cycle = row.cycle + 1 /\ new.task = row.task /\ new.ack = row.ack
  BY <1>1 DEF Row, Sessions
<1>3. Reopened(row) = new
  BY DEF Reopened
<1> HIDE DEF new
<1> QED
  BY <1>1, <1>2, <1>3 DEF Evolves, GoodRow

LEMMA LiveOK ==
  ASSUME NEW row \in GoodRow, NEW live \in Sessions
  PROVE  LET new == [row EXCEPT !.live = live] IN
         /\ Evolves(row, new) /\ new.cycle = row.cycle /\ new.pend = row.pend /\ new.end = row.end
         /\ new.ack = row.ack
  BY DEF Evolves, GoodRow, Row

LEMMA BlankedOK ==
  ASSUME NEW row \in GoodRow
  PROVE  LET new == [row EXCEPT !.blank = TRUE] IN
         /\ Evolves(row, new) /\ new.cycle = row.cycle /\ new.ack = row.ack
         /\ new.pend = row.pend /\ new.end = row.end /\ new.live = row.live
  BY DEF Evolves, GoodRow, Row

LEMMA RegisteredOK ==
  ASSUME NEW m \in Message
  PROVE  /\ Registered(m) \in GoodRow /\ AckPrepared(Registered(m)) \in GoodRow
         /\ \A new \in {Registered(m), AckPrepared(Registered(m))} :
              /\ new.task = TaskOf[m] /\ new.cycle = 0 /\ new.end = "none" /\ new.pend = "none"
         /\ AckPrepared(Registered(m)).owed /\ AckPrepared(Registered(m)).ackIds = 1
<1> DEFINE new == Registered(m)
<1>1. /\ new \in Row /\ new.task = TaskOf[m] /\ new.cycle = 0 /\ new.end = "none"
      /\ new.pend = "none" /\ ~new.ack /\ ~new.owed /\ new.ackIds = 0
  BY Constants DEF Registered, Row, Sessions
<1> HIDE DEF new
<1>2. new \in GoodRow
  BY <1>1 DEF GoodRow
<1>3. AckPrepared(new) = [new EXCEPT !.owed = TRUE, !.blank = FALSE, !.ackIds = new.ackIds + 1]
  BY <1>1 DEF AckPrepared
<1>4. AckPrepared(new).ackIds = 1 /\ AckPrepared(new).task = TaskOf[m]
  BY <1>1, <1>3 DEF Row
<1> QED
  BY <1>1, <1>2, <1>4, AckPreparedOK DEF new, Evolves

-----------------------------------------------------------------------------
(* How the heap and the tracker change.                                    *)

LEMMA RowsIs ==
  ASSUME RowsOK
  PROVE  /\ Len(rows) \in Nat /\ DOMAIN rows = 1 .. Len(rows)
         /\ \A r \in DOMAIN rows : rows[r] \in GoodRow /\ rows[r].task \in Task
         /\ \A t \in Task : cur[t] # 0 => cur[t] \in DOMAIN rows /\ Held(t) \in GoodRow
<1>1. Len(rows) \in Nat /\ DOMAIN rows = 1 .. Len(rows)
  BY LenProperties DEF RowsOK
<1>2. \A r \in DOMAIN rows : rows[r] \in GoodRow
  BY <1>1, ElementOfSeq DEF RowsOK
<1>3. \A t \in Task : cur[t] # 0 => cur[t] \in DOMAIN rows
  BY <1>1 DEF RowsOK
<1> QED
  BY <1>1, <1>2, <1>3, RowIs DEF Held

(* One object changes.                                                     *)
LEMMA OneRow ==
  ASSUME NEW rs \in Seq(GoodRow), NEW r \in DOMAIN rs, NEW new, Evolves(rs[r], new)
  PROVE  LET next == [rs EXCEPT ![r] = new] IN
         /\ next \in Seq(GoodRow) /\ Len(next) = Len(rs) /\ DOMAIN next = DOMAIN rs
         /\ next[r] = new
         /\ \A i \in DOMAIN rs : i # r => next[i] = rs[i]
         /\ \A i \in DOMAIN rs : Evolves(rs[i], next[i])
<1>1. DOMAIN rs = 1 .. Len(rs) /\ new \in GoodRow
  BY LenProperties DEF Evolves
<1>2. LET next == [rs EXCEPT ![r] = new] IN
      /\ next \in Seq(GoodRow) /\ Len(next) = Len(rs)
      /\ \A j \in 1 .. Len(rs) : next[j] = IF j = r THEN new ELSE rs[j]
  BY <1>1, ExceptSeq
<1>3. \A i \in DOMAIN rs : rs[i] \in GoodRow
  BY <1>1, ElementOfSeq
<1> QED
  BY <1>1, <1>2, <1>3, SameEvolves

(* A registration appends an object.                                       *)
LEMMA NewRow ==
  ASSUME NEW rs \in Seq(GoodRow), NEW new \in GoodRow
  PROVE  LET next == Append(rs, new) IN
         /\ next \in Seq(GoodRow) /\ Len(next) = Len(rs) + 1
         /\ DOMAIN next = DOMAIN rs \cup {Len(rs) + 1}
         /\ next[Len(rs) + 1] = new
         /\ \A i \in DOMAIN rs : next[i] = rs[i]
<1>1. Len(rs) \in Nat /\ DOMAIN rs = 1 .. Len(rs)
  BY LenProperties
<1>2. LET next == Append(rs, new) IN
      /\ next \in Seq(GoodRow) /\ Len(next) = Len(rs) + 1
      /\ next[Len(rs) + 1] = new
      /\ \A i \in 1 .. Len(rs) : next[i] = rs[i]
  OBVIOUS
<1>3. LET next == Append(rs, new) IN DOMAIN next = 1 .. Len(rs) + 1
  BY <1>1, <1>2, LenProperties
<1> QED
  BY <1>1, <1>2, <1>3

(* What every step does to the tracker.                                    *)
Moved ==
  /\ RowsOK'
  /\ DOMAIN rows \subseteq DOMAIN rows'
  /\ \A r \in DOMAIN rows : Evolves(rows[r], rows'[r])
  /\ \A t \in Task : cur[t] # 0 => cur'[t] # 0

(* An object stays as far as its terminal is concerned, or is abandoned.   *)
Similar(old, new) ==
  /\ new.cycle = old.cycle
  /\ new.end = "abandoned" \/ (new.end = old.end /\ new.pend = old.pend)
Blank(row) == row.cycle = 0 /\ row.end = "none" /\ row.pend = "none"

(* All that steps do to objects which send nothing and recover nothing.    *)
Gentle ==
  /\ \A r \in DOMAIN rows' :
       IF r \in DOMAIN rows THEN Similar(rows[r], rows'[r]) ELSE Blank(rows'[r])
  /\ \A t \in Task : cur'[t] = cur[t] \/ cur'[t] \notin DOMAIN rows

LEMMA StayMoved == ASSUME RowsOK, UNCHANGED tracker PROVE Moved /\ Gentle
<1>1. UNCHANGED <<rows, cur>>
  BY DEF tracker
<1>2. RowsOK'
  BY <1>1 DEF RowsOK, Held
<1>3. Gentle
  BY <1>1 DEF Gentle, Similar
<1> QED
  BY <1>1, <1>2, <1>3, RowsIs, SameEvolves DEF Moved

(* Objects change while the tracker holds the same ones.                   *)
LEMMA SameCurMoved ==
  ASSUME RowsOK, UNCHANGED cur, rows' \in Seq(GoodRow), Len(rows') = Len(rows),
         \A i \in DOMAIN rows : Evolves(rows[i], rows'[i])
  PROVE  Moved /\ DOMAIN rows' = DOMAIN rows
<1>1. DOMAIN rows' = DOMAIN rows
  BY LenProperties DEF RowsOK
<1>2. \A i \in DOMAIN rows : rows'[i].task = rows[i].task
  BY DEF Evolves
<1>3. RowsOK'
  BY <1>1, <1>2, RowsIs DEF RowsOK, Held
<1> QED
  BY <1>1, <1>3 DEF Moved

LEMMA OneMoved ==
  ASSUME RowsOK, NEW r \in DOMAIN rows, NEW new, Evolves(rows[r], new),
         rows' = [rows EXCEPT ![r] = new], UNCHANGED cur
  PROVE  /\ Moved /\ DOMAIN rows' = DOMAIN rows /\ Len(rows') = Len(rows) /\ rows'[r] = new
         /\ \A i \in DOMAIN rows : i # r => rows'[i] = rows[i]
         /\ Similar(rows[r], new) => Gentle
<1>1. /\ rows' \in Seq(GoodRow) /\ Len(rows') = Len(rows) /\ DOMAIN rows' = DOMAIN rows
      /\ rows'[r] = new
      /\ \A i \in DOMAIN rows : i # r => rows'[i] = rows[i]
      /\ \A i \in DOMAIN rows : Evolves(rows[i], rows'[i])
  BY OneRow DEF RowsOK
<1>2. Similar(rows[r], new) => Gentle
  BY <1>1 DEF Gentle, Similar
<1> QED
  BY <1>1, <1>2, SameCurMoved

LEMMA TrackMoved ==
  ASSUME RowsOK, NEW t \in Task, cur[t] # 0, NEW new, Evolves(Held(t), new), Track(t, new)
  PROVE  /\ Moved /\ DOMAIN rows' = DOMAIN rows /\ Len(rows') = Len(rows)
         /\ cur' = cur /\ cur[t] \in DOMAIN rows /\ rows'[cur[t]] = new
         /\ \A i \in DOMAIN rows : i # cur[t] => rows'[i] = rows[i]
         /\ Similar(Held(t), new) => Gentle
<1>1. cur[t] \in DOMAIN rows
  BY RowsIs
<1>2. rows' = [rows EXCEPT ![cur[t]] = new] /\ UNCHANGED cur
  BY DEF Track
<1> QED
  BY <1>1, <1>2, OneMoved DEF Held

LEMMA LiveMoved ==
  ASSUME RowsOK, NEW r \in DOMAIN rows, NEW live \in Sessions,
         rows' = [rows EXCEPT ![r].live = live], UNCHANGED cur
  PROVE  Moved /\ Gentle /\ DOMAIN rows' = DOMAIN rows /\ Len(rows') = Len(rows)
<1> DEFINE new == [rows[r] EXCEPT !.live = live]
<1>1. rows[r] \in GoodRow
  BY RowsIs
<1>2. Evolves(rows[r], new) /\ Similar(rows[r], new)
  BY <1>1, LiveOK DEF Similar
<1>3. rows' = [rows EXCEPT ![r] = new]
  OBVIOUS
<1> HIDE DEF new
<1> QED
  BY <1>2, <1>3, OneMoved

LEMMA RegisterMoved ==
  ASSUME RowsOK, NEW t \in Task, NEW new \in GoodRow, new.task = t, Blank(new),
         rows' = Append(rows, new), cur' = [cur EXCEPT ![t] = Len(rows) + 1]
  PROVE  /\ Moved /\ Gentle /\ DOMAIN rows' = DOMAIN rows \cup {Len(rows) + 1}
         /\ Len(rows') = Len(rows) + 1 /\ rows'[Len(rows) + 1] = new
         /\ cur'[t] = Len(rows) + 1 /\ \A o \in Task \ {t} : cur'[o] = cur[o]
         /\ \A i \in DOMAIN rows : rows'[i] = rows[i]
<1>1. Len(rows) \in Nat /\ DOMAIN rows = 1 .. Len(rows)
  BY RowsIs
<1>2. /\ rows' \in Seq(GoodRow) /\ Len(rows') = Len(rows) + 1
      /\ DOMAIN rows' = DOMAIN rows \cup {Len(rows) + 1} /\ rows'[Len(rows) + 1] = new
      /\ \A i \in DOMAIN rows : rows'[i] = rows[i]
  BY NewRow DEF RowsOK
<1>3. /\ cur' \in [Task -> 0 .. Len(rows')]
      /\ cur'[t] = Len(rows) + 1 /\ \A o \in Task \ {t} : cur'[o] = cur[o]
  BY <1>1, <1>2 DEF RowsOK
<1>4. \A o \in Task : cur'[o] # 0 => rows'[cur'[o]].task = o
  <2> SUFFICES ASSUME NEW o \in Task, cur'[o] # 0 PROVE rows'[cur'[o]].task = o
    OBVIOUS
  <2>1. CASE o = t
    BY <2>1, <1>2, <1>3
  <2>2. CASE o # t
    <3>1. cur'[o] = cur[o] /\ cur[o] \in DOMAIN rows /\ rows[cur[o]].task = o
      BY <2>2, <1>3, RowsIs DEF RowsOK, Held
    <3> QED
      BY <3>1, <1>2
  <2> QED
    BY <2>1, <2>2
<1>5. \A o \in Task : cur[o] # 0 => cur'[o] # 0
  BY <1>1, <1>3
<1>6. \A r \in DOMAIN rows' : cur'[rows'[r].task] # 0
  <2> SUFFICES ASSUME NEW r \in DOMAIN rows' PROVE cur'[rows'[r].task] # 0
    OBVIOUS
  <2>1. CASE r \in DOMAIN rows
    BY <2>1, <1>2, <1>5, RowsIs DEF RowsOK
  <2>2. CASE r = Len(rows) + 1
    BY <2>2, <1>1, <1>2, <1>3
  <2> QED
    BY <2>1, <2>2, <1>2
<1>7. RowsOK'
  BY <1>2, <1>3, <1>4, <1>6 DEF RowsOK, Held
<1>8. Gentle
  BY <1>1, <1>2, <1>3 DEF Gentle, Similar
<1> QED
  BY <1>2, <1>3, <1>5, <1>7, <1>8, RowsIs, SameEvolves DEF Moved

-----------------------------------------------------------------------------
(* What is held still fits when objects are added and change.              *)

LEMMA Grows ==
  ASSUME Moved
  PROVE  /\ DOMAIN rows \subseteq DOMAIN rows' /\ Wiring \subseteq Wiring'
         /\ Tracked \subseteq Tracked' /\ AckSent \subseteq AckSent'
<1>1. DOMAIN rows \subseteq DOMAIN rows' /\ Tracked \subseteq Tracked'
  BY DEF Moved, Tracked
<1>2. Wiring \subseteq Wiring'
  BY <1>1 DEF Wiring
<1>3. AckSent \subseteq AckSent'
  BY <1>1 DEF Moved, Evolves, AckSent
<1> QED
  BY <1>1, <1>2, <1>3

LEMMA HandlerStays ==
  ASSUME NEW A, NEW B, NEW C, NEW D, A \subseteq B, C \subseteq D, NEW x, HandlerFits(x, A, C)
  PROVE  HandlerFits(x, B, D)
  BY DEF HandlerFits

LEMMA PollStays ==
  ASSUME NEW A, NEW B, NEW C, NEW D, NEW E, NEW F, A \subseteq B, C \subseteq D, E \subseteq F,
         NEW x, PollFits(x, A, C, E)
  PROVE  PollFits(x, B, D, F)
  BY DEF PollFits

LEMMA ReplayStays ==
  ASSUME NEW A, NEW B, NEW C, NEW D, A \subseteq B, C \subseteq D, NEW x, ReplayFits(x, A, C)
  PROVE  ReplayFits(x, B, D)
  BY DEF ReplayFits

LEMMA HandlersStay == ASSUME Moved, HandlersOK, UNCHANGED handler PROVE HandlersOK'
  BY Grows, HandlerStays DEF HandlersOK

LEMMA PollsStay == ASSUME Moved, PollsOK, UNCHANGED poll PROVE PollsOK'
  BY Grows, PollStays DEF PollsOK

LEMMA ReplayStaysOK == ASSUME Moved, ReplayOK, UNCHANGED replay PROVE ReplayOK'
  BY Grows, ReplayStays DEF ReplayOK

LEMMA OneHandler ==
  ASSUME Moved, HandlersOK, NEW h \in DOMAIN handler, NEW x,
         handler' = [handler EXCEPT ![h] = x], HandlerFits(x, Wiring', Tracked')
  PROVE  HandlersOK'
<1>1. \A g \in DOMAIN handler : HandlerFits(handler[g], Wiring', Tracked')
  BY Grows, HandlerStays DEF HandlersOK
<1>2. DOMAIN handler' = DOMAIN handler
      /\ \A g \in DOMAIN handler : handler'[g] = IF g = h THEN x ELSE handler[g]
  OBVIOUS
<1> QED
  BY <1>1, <1>2 DEF HandlersOK

LEMMA OnePoll ==
  ASSUME Moved, PollsOK, NEW p \in DOMAIN poll, NEW x,
         poll' = [poll EXCEPT ![p] = x], PollFits(x, DOMAIN rows', Wiring', AckSent')
  PROVE  PollsOK'
<1>1. \A q \in DOMAIN poll : PollFits(poll[q], DOMAIN rows', Wiring', AckSent')
  BY Grows, PollStays DEF PollsOK
<1>2. DOMAIN poll' = DOMAIN poll
      /\ \A q \in DOMAIN poll : poll'[q] = IF q = p THEN x ELSE poll[q]
  OBVIOUS
<1> QED
  BY <1>1, <1>2 DEF PollsOK

(* What fits at each point.                                                *)
LEMMA HandlerForms ==
  ASSUME NEW wiring, NEW tracked, NEW m \in Message
  PROVE  /\ HandlerFits(Idle, wiring, tracked)
         /\ \A pc \in {"creating", "settling"} : HandlerFits([pc |-> pc, msg |-> m], wiring, tracked)
         /\ TaskOf[m] \in tracked => HandlerFits([pc |-> "terminating", msg |-> m], wiring, tracked)
         /\ \A o \in Task \cap tracked :
              HandlerFits([pc |-> "preempting", msg |-> m, other |-> o], wiring, tracked)
         /\ TaskOf[m] \in tracked =>
              \A w \in wiring : w.kind = "ACK" =>
                HandlerFits([pc |-> "acking", msg |-> m, wire |-> w], wiring, tracked)
  BY DEF HandlerFits, Handlers, Idle

LEMMA PollForms ==
  ASSUME NEW objects, NEW wiring, NEW acked, NEW todo \in SUBSET objects
  PROVE  /\ PollFits(Idle, objects, wiring, acked)
         /\ \A pc \in {"retrying", "checking"} : PollFits([pc |-> pc, todo |-> todo], objects, wiring, acked)
         /\ \A pc \in {"asking", "recovering"}, r \in objects \cap acked :
              PollFits([pc |-> pc, todo |-> todo, at |-> r], objects, wiring, acked)
         /\ \A pc \in {"resending", "sending"}, file \in BOOLEAN, w \in wiring : w.kind = "TERMINAL" =>
              PollFits([pc |-> pc, todo |-> todo, file |-> file, wire |-> w], objects, wiring, acked)
  BY DEF PollFits, Idle

LEMMA HandlerIs ==
  ASSUME NEW x, NEW wiring, NEW tracked, HandlerFits(x, wiring, tracked)
  PROVE  /\ x.pc \in {"idle", "terminating", "creating", "settling", "preempting", "acking"}
         /\ x.pc # "idle" => x.msg \in Message /\ TaskOf[x.msg] \in Task
         /\ x.pc \in {"terminating", "acking"} => TaskOf[x.msg] \in tracked
         /\ x.pc = "preempting" => x.other \in tracked /\ x.other \in Task
         /\ x.pc = "acking" => x.wire \in wiring /\ x.wire.kind = "ACK"
  BY Constants DEF HandlerFits, Handlers

LEMMA PollIs ==
  ASSUME NEW x, NEW objects, NEW wiring, NEW acked, PollFits(x, objects, wiring, acked)
  PROVE  /\ x.pc \in {"idle", "retrying", "checking", "asking", "recovering", "resending", "sending"}
         /\ x.pc = "idle" => x = Idle
         /\ x.pc # "idle" => x.todo \in SUBSET objects
         /\ x.pc \in {"asking", "recovering"} => x.at \in objects /\ x.at \in acked
         /\ x.pc \in {"resending", "sending"} =>
              x.wire \in wiring /\ x.wire.kind = "TERMINAL" /\ x.file \in BOOLEAN
  BY DEF PollFits, Idle

LEMMA ReplayIs ==
  ASSUME NEW x, NEW objects, NEW wiring, ReplayFits(x, objects, wiring)
  PROVE  /\ x.pc \in {"idle", "listing", "acking"}
         /\ x.pc = "idle" => x = Idle
         /\ x.pc # "idle" => x.todo \in SUBSET objects
         /\ x.pc = "acking" => x.wire \in wiring /\ x.wire.kind = "ACK"
  BY DEF ReplayFits, Idle

-----------------------------------------------------------------------------
(* Registrations under way.                                                *)

LEMMA ComingFinite == ASSUME HandlersOK PROVE IsFiniteSet(Coming) /\ Cardinality(Coming) \in Nat
<1>1. Coming \subseteq Handler
  BY DEF Coming, HandlersOK
<1> QED
  BY <1>1, Constants, FS_Subset, FS_CardinalityType

LEMMA ComingStays ==
  ASSUME RoomOK, NEW h \in DOMAIN handler, NEW x, handler' = [handler EXCEPT ![h] = x],
         x.pc \in Arriving => handler[h].pc \in Arriving, Len(rows') = Len(rows), HandlersOK,
         Len(rows) \in Nat
  PROVE  RoomOK'
<1>1. Coming' \subseteq Coming
  BY DEF Coming
<1>2. IsFiniteSet(Coming) /\ Cardinality(Coming) \in Nat
  BY ComingFinite
<1>3. Cardinality(Coming') <= Cardinality(Coming) /\ Cardinality(Coming') \in Nat
  BY <1>1, <1>2, FS_Subset, FS_CardinalityType
<1> QED
  BY <1>2, <1>3, Constants DEF RoomOK

LEMMA ComingMore ==
  ASSUME Room, NEW h \in DOMAIN handler, NEW x, handler' = [handler EXCEPT ![h] = x],
         Len(rows') = Len(rows), HandlersOK, Len(rows) \in Nat
  PROVE  RoomOK'
<1>1. Coming' \subseteq Coming \cup {h}
  BY DEF Coming
<1>2. IsFiniteSet(Coming) /\ Cardinality(Coming) \in Nat
  BY ComingFinite
<1>3. /\ IsFiniteSet(Coming \cup {h})
      /\ Cardinality(Coming \cup {h}) <= Cardinality(Coming) + 1
      /\ Cardinality(Coming \cup {h}) \in Nat
  <2>1. /\ IsFiniteSet(Coming \cup {h})
        /\ Cardinality(Coming \cup {h}) =
             IF h \in Coming THEN Cardinality(Coming) ELSE Cardinality(Coming) + 1
    BY <1>2, FS_AddElement
  <2> QED
    BY <2>1, <1>2
<1>4. Cardinality(Coming') <= Cardinality(Coming \cup {h}) /\ Cardinality(Coming') \in Nat
  BY <1>1, <1>3, FS_Subset, FS_CardinalityType
<1>5. Len(rows) + Cardinality(Coming) < MaxRows
  BY DEF Room, Coming, Arriving
<1> HIDE DEF Coming
<1> QED
  BY <1>2, <1>3, <1>4, <1>5, Constants DEF RoomOK

(* A registration turns one that was coming into an object.                *)
LEMMA ComingLess ==
  ASSUME RoomOK, NEW h \in Coming, Coming' \subseteq Coming \ {h},
         Len(rows') = Len(rows) + 1, HandlersOK, Len(rows) \in Nat
  PROVE  RoomOK'
<1>2. IsFiniteSet(Coming) /\ Cardinality(Coming) \in Nat
  BY ComingFinite
<1>3. IsFiniteSet(Coming \ {h}) /\ Cardinality(Coming \ {h}) = Cardinality(Coming) - 1
  BY <1>2, FS_RemoveElement
<1>4. Cardinality(Coming') <= Cardinality(Coming \ {h}) /\ Cardinality(Coming') \in Nat
  BY <1>3, FS_Subset, FS_CardinalityType
<1> QED
  BY <1>2, <1>3, <1>4, Constants DEF RoomOK

LEMMA ComingEnds ==
  ASSUME RoomOK, Coming' \subseteq Coming, Len(rows') = Len(rows), HandlersOK, Len(rows) \in Nat
  PROVE  RoomOK'
<1>2. IsFiniteSet(Coming) /\ Cardinality(Coming) \in Nat
  BY ComingFinite
<1>3. Cardinality(Coming') <= Cardinality(Coming) /\ Cardinality(Coming') \in Nat
  BY <1>2, FS_Subset, FS_CardinalityType
<1> QED
  BY <1>2, <1>3, Constants DEF RoomOK

-----------------------------------------------------------------------------
(* What has been given to a send, and what a step adds to it.              *)

Known == bus \cup InTheAir

(* A message about the object as it is: for it there is a delivery id and  *)
(* something pending or sent, and a terminal has its ACK before it.        *)
Fresh(w, rs) ==
  /\ w \in [kind: {"ACK", "TERMINAL"}, row: DOMAIN rs, cycle: Nat, id: Nat \ {0}, late: BOOLEAN]
  /\ w.cycle = rs[w.row].cycle
  /\ w.kind = "TERMINAL" =>
       /\ w.id = rs[w.row].ids
       /\ rs[w.row].pend # "none" \/ rs[w.row].end # "none"
       /\ w.late \/ rs[w.row].ack
  /\ w.kind = "ACK" => w.id = rs[w.row].ackIds /\ (rs[w.row].ack \/ rs[w.row].owed)

Advances == \A w \in Known' : w \in Known \/ Fresh(w, rows')
Step == Base' /\ Moved /\ Advances

Carries(pc) == pc \in {"acking", "sending", "resending"}

LEMMA WiresIs ==
  ASSUME NEW f, NEW w
  PROVE  w \in Wires(f) <=> \E x \in DOMAIN f : Carries(f[x].pc) /\ w = f[x].wire
  BY DEF Wires, Carries

LEMMA OneWire ==
  ASSUME NEW f, NEW x \in DOMAIN f, NEW v
  PROVE  \A w \in Wires([f EXCEPT ![x] = v]) : w \in Wires(f) \/ (Carries(v.pc) /\ w = v.wire)
<1> DEFINE g == [f EXCEPT ![x] = v]
<1>1. DOMAIN g = DOMAIN f /\ \A y \in DOMAIN f : g[y] = IF y = x THEN v ELSE f[y]
  OBVIOUS
<1> HIDE DEF g
<1>2. \A w \in Wires(g) : w \in Wires(f) \/ (Carries(v.pc) /\ w = v.wire)
  BY <1>1, WiresIs
<1> QED
  BY <1>2 DEF g

LEMMA ReplayWire ==
  ASSUME NEW x, NEW w
  PROVE  w \in Wires([i \in {0} |-> x]) <=> Carries(x.pc) /\ w = x.wire
<1> DEFINE g == [i \in {0} |-> x]
<1>1. DOMAIN g = {0} /\ g[0] = x
  OBVIOUS
<1> HIDE DEF g
<1>2. w \in Wires(g) <=> Carries(x.pc) /\ w = x.wire
  BY <1>1, WiresIs
<1> QED
  BY <1>2 DEF g

LEMMA HandlerAir ==
  ASSUME NEW h \in DOMAIN handler, NEW x, handler' = [handler EXCEPT ![h] = x],
         UNCHANGED <<poll, replay>>
  PROVE  \A w \in InTheAir' : w \in InTheAir \/ (Carries(x.pc) /\ w = x.wire)
  BY OneWire, Zenon DEF InTheAir

LEMMA PollAir ==
  ASSUME NEW p \in DOMAIN poll, NEW x, poll' = [poll EXCEPT ![p] = x],
         UNCHANGED <<handler, replay>>
  PROVE  \A w \in InTheAir' : w \in InTheAir \/ (Carries(x.pc) /\ w = x.wire)
  BY OneWire, Zenon DEF InTheAir

LEMMA ReplayAir ==
  ASSUME NEW x, replay' = x, UNCHANGED <<handler, poll>>
  PROVE  \A w \in InTheAir' : w \in InTheAir \/ (Carries(x.pc) /\ w = x.wire)
<1>1. Wires([i \in {0} |-> replay])' = Wires([i \in {0} |-> x])
  OBVIOUS
<1>2. Wires(handler)' = Wires(handler) /\ Wires(poll)' = Wires(poll)
  OBVIOUS
<1> QED
  BY <1>1, <1>2, ReplayWire DEF InTheAir

LEMMA AirIsWired ==
  ASSUME HandlersOK, PollsOK, ReplayOK
  PROVE  InTheAir \subseteq Wiring
<1>1. Wires(handler) \subseteq Wiring
  BY WiresIs, HandlerIs DEF HandlersOK, Carries
<1>2. Wires(poll) \subseteq Wiring
  BY WiresIs, PollIs DEF PollsOK, Carries
<1>3. Wires([x \in {0} |-> replay]) \subseteq Wiring
  <2>1. Carries(replay.pc) => replay.wire \in Wiring
    BY ReplayIs DEF ReplayOK, Carries
  <2> QED
    BY <2>1, ReplayWire
<1> QED
  BY <1>1, <1>2, <1>3 DEF InTheAir

(* A step of one process, given what the tracker does.                     *)
LEMMA HandlerStepOK ==
  ASSUME Base, Moved, NEW h \in DOMAIN handler, NEW x, handler' = [handler EXCEPT ![h] = x],
         HandlerFits(x, Wiring', Tracked'), UNCHANGED <<poll, replay>>,
         MemoryOK', RoomOK', cut' = cut,
         bus' \subseteq Known, Carries(x.pc) => Fresh(x.wire, rows')
  PROVE  Step
<1>1. HandlersOK' /\ PollsOK' /\ ReplayOK'
  BY OneHandler, PollsStay, ReplayStaysOK DEF Base
<1>2. BusOK'
  BY AirIsWired, Grows DEF Base, BusOK, Known
<1>3. Advances
  BY HandlerAir DEF Advances, Known
<1> QED
  BY <1>1, <1>2, <1>3 DEF Step, Base, Moved

LEMMA PollStepOK ==
  ASSUME Base, Moved, NEW p \in DOMAIN poll, NEW x, poll' = [poll EXCEPT ![p] = x],
         PollFits(x, DOMAIN rows', Wiring', AckSent'), UNCHANGED <<handler, replay>>,
         MemoryOK', Len(rows') = Len(rows), cut' = cut,
         bus' \subseteq Known, Carries(x.pc) => Fresh(x.wire, rows')
  PROVE  Step
<1>1. HandlersOK' /\ PollsOK' /\ ReplayOK'
  BY OnePoll, HandlersStay, ReplayStaysOK DEF Base
<1>2. BusOK'
  BY AirIsWired, Grows DEF Base, BusOK, Known
<1>3. Advances
  BY PollAir DEF Advances, Known
<1>4. RoomOK'
  BY DEF Base, RoomOK, Coming
<1> QED
  BY <1>1, <1>2, <1>3, <1>4 DEF Step, Base, Moved

LEMMA ReplayStepOK ==
  ASSUME Base, Moved, NEW x, replay' = x,
         ReplayFits(x, DOMAIN rows', Wiring'), UNCHANGED <<handler, poll>>,
         MemoryOK', Len(rows') = Len(rows), cut' = cut,
         bus' \subseteq Known, Carries(x.pc) => Fresh(x.wire, rows')
  PROVE  Step
<1>1. HandlersOK' /\ PollsOK' /\ ReplayOK'
  BY PollsStay, HandlersStay DEF Base, ReplayOK
<1>2. BusOK'
  BY AirIsWired, Grows DEF Base, BusOK, Known
<1>3. Advances
  BY ReplayAir DEF Advances, Known
<1>4. RoomOK'
  BY DEF Base, RoomOK, Coming
<1> QED
  BY <1>1, <1>2, <1>3, <1>4 DEF Step, Base, Moved

-----------------------------------------------------------------------------
(* Parts of actions.                                                       *)

LEMMA BaseIs ==
  ASSUME Base
  PROVE  /\ RowsOK /\ MemoryOK /\ BusOK /\ HandlersOK /\ PollsOK /\ ReplayOK /\ RoomOK
         /\ Len(rows) \in Nat
         /\ \A h \in DOMAIN handler : HandlerFits(handler[h], Wiring, Tracked)
         /\ \A p \in DOMAIN poll : PollFits(poll[p], DOMAIN rows, Wiring, AckSent)
         /\ ReplayFits(replay, DOMAIN rows, Wiring)
         /\ \A r \in DOMAIN rows : rows[r].task \in Task /\ cur[rows[r].task] # 0
  BY RowsIs DEF Base, HandlersOK, PollsOK, ReplayOK, RowsOK

LEMMA Room0 ==
  ASSUME Base, NEW h \in DOMAIN handler, NEW x, handler' = [handler EXCEPT ![h] = x],
         x.pc \in Arriving => handler[h].pc \in Arriving, Len(rows') = Len(rows)
  PROVE  RoomOK'
  BY ComingStays, BaseIs

LEMMA EndsOK ==
  ASSUME Base, NEW ok \in BOOLEAN, NEW wire \in Known, Ends(ok, wire)
  PROVE  bus' \subseteq Known /\ left' \in Nat
<1>1. left \in Nat
  BY DEF Base, MemoryOK
<1> QED
  BY <1>1 DEF Ends, Fault, Known

(* The wire of an object that the tracker holds.                           *)
LEMMA WireFresh ==
  ASSUME RowsOK, NEW t \in Task, cur[t] # 0, Moved, DOMAIN rows' = DOMAIN rows,
         rows'[cur[t]].cycle = Held(t).cycle,
         NEW late \in BOOLEAN, NEW kind \in {"ACK", "TERMINAL"}, NEW id \in Nat \ {0},
         kind = "TERMINAL" => /\ id = rows'[cur[t]].ids /\ rows'[cur[t]].pend # "none"
                              /\ late \/ rows'[cur[t]].ack,
         kind = "ACK" => id = rows'[cur[t]].ackIds /\ (rows'[cur[t]].ack \/ rows'[cur[t]].owed)
  PROVE  /\ Fresh(Wire(kind, t, id, late), rows')
         /\ Wire(kind, t, id, late) \in Wiring' /\ Wire(kind, t, id, late).kind = kind
<1> DEFINE w == Wire(kind, t, id, late)
<1>1. /\ w.kind = kind /\ w.row = cur[t] /\ w.cycle = Held(t).cycle /\ w.id = id /\ w.late = late
      /\ w = [kind |-> w.kind, row |-> w.row, cycle |-> w.cycle, id |-> w.id, late |-> w.late]
  BY DEF Wire
<1>2. cur[t] \in DOMAIN rows /\ Held(t).cycle \in Nat
  BY RowsIs, RowIs
<1> HIDE DEF w
<1>3. w \in [kind: {"ACK", "TERMINAL"}, row: DOMAIN rows', cycle: Nat, id: Nat \ {0}, late: BOOLEAN]
  BY <1>1, <1>2
<1>4. Fresh(w, rows')
  BY <1>1, <1>2, <1>3 DEF Fresh
<1> QED
  BY <1>1, <1>3, <1>4 DEF w, Wiring

LEMMA AckStartsOK ==
  ASSUME Base, NEW t \in Task, cur[t] # 0, ~Held(t).ack, AckStarts(t),
         UNCHANGED <<sending, tries, outside>>
  PROVE  /\ Moved /\ DOMAIN rows' = DOMAIN rows /\ Len(rows') = Len(rows)
         /\ MemoryOK' /\ bus' \subseteq Known
         /\ Fresh(AckWire(t), rows') /\ AckWire(t) \in Wiring' /\ AckWire(t).kind = "ACK"
<1> DEFINE new == AckPrepared(Held(t))
<1>1. RowsOK /\ Held(t) \in GoodRow
  BY RowsIs, BaseIs
<1>2. /\ Evolves(Held(t), new) /\ new.owed /\ new.cycle = Held(t).cycle /\ new.ackIds > 0
      /\ new \in GoodRow /\ new.ackIds \in Nat \ {0}
  BY <1>1, AckPreparedOK, RowIs DEF Evolves
<1>3. Track(t, new) /\ acking' = acking \cup {t}
  BY DEF AckStarts
<1>4. AckWire(t) = Wire("ACK", t, new.ackIds, FALSE)
  BY DEF AckWire
<1> HIDE DEF new
<1>5. /\ Moved /\ DOMAIN rows' = DOMAIN rows /\ Len(rows') = Len(rows)
      /\ cur' = cur /\ cur[t] \in DOMAIN rows /\ rows'[cur[t]] = new
  BY <1>1, <1>2, <1>3, TrackMoved
<1>6. MemoryOK' /\ bus' \subseteq Known
  BY <1>3 DEF Base, MemoryOK, outside, Known
<1>7. /\ Fresh(Wire("ACK", t, new.ackIds, FALSE), rows')
      /\ Wire("ACK", t, new.ackIds, FALSE) \in Wiring'
      /\ Wire("ACK", t, new.ackIds, FALSE).kind = "ACK"
  BY <1>1, <1>2, <1>5, WireFresh
<1> QED
  BY <1>4, <1>5, <1>6, <1>7

LEMMA AckEndsOK ==
  ASSUME Base, NEW t \in Task, cur[t] # 0, NEW ok \in BOOLEAN, NEW wire \in Known,
         AckEnds(t, ok, wire), UNCHANGED <<sending, tries, receipt, settled, cut, crashes>>
  PROVE  Moved /\ Len(rows') = Len(rows) /\ MemoryOK' /\ bus' \subseteq Known
<1>1. RowsOK /\ Held(t) \in GoodRow
  BY RowsIs, BaseIs
<1>2. Ends(ok, wire) /\ acking' = acking \ {t}
  BY DEF AckEnds
<1>3. bus' \subseteq Known /\ left' \in Nat
  BY <1>2, EndsOK
<1>4. MemoryOK'
  BY <1>2, <1>3 DEF Base, MemoryOK
<1>5. CASE ok
  <2>1. Evolves(Held(t), Acked(Held(t)))
    BY <1>1, AckedOK
  <2> QED
    BY <1>1, <1>3, <1>4, <1>5, <2>1, TrackMoved DEF AckEnds
<1>6. CASE ~ok
  BY <1>1, <1>3, <1>4, <1>6, StayMoved DEF AckEnds, tracker
<1> QED
  BY <1>5, <1>6

LEMMA AckEndsGentle ==
  ASSUME Base, NEW t \in Task, cur[t] # 0, NEW ok \in BOOLEAN, NEW wire, AckEnds(t, ok, wire)
  PROVE  Gentle /\ bus \subseteq bus'
<1>1. RowsOK /\ Held(t) \in GoodRow
  BY RowsIs, BaseIs
<1>2. bus \subseteq bus'
  BY DEF AckEnds, Ends
<1>3. CASE ok
  <2>1. Evolves(Held(t), Acked(Held(t))) /\ Similar(Held(t), Acked(Held(t)))
    BY <1>1, AckedOK DEF Similar
  <2> QED
    BY <1>1, <1>2, <1>3, <2>1, TrackMoved DEF AckEnds
<1>4. CASE ~ok
  BY <1>1, <1>2, <1>4, StayMoved DEF AckEnds
<1> QED
  BY <1>3, <1>4

LEMMA SendsOK ==
  ASSUME Base, NEW p \in DOMAIN poll, NEW r \in DOMAIN rows, NEW row, NEW file \in BOOLEAN,
         poll[p].pc # "idle", Sends(p, r, row, file), row.pend = "inflight", row.ids > 0,
         Evolves(Held(rows[r].task), row), row.cycle = Held(rows[r].task).cycle,
         row.ack = Held(rows[r].task).ack, rows[r].ack,
         UNCHANGED <<handler, replay, acking, tries, outside>>
  PROVE  Step
<1> DEFINE t == rows[r].task
           w == Wire("TERMINAL", t, row.ids, cur[t] # r)
           pc == IF Polls(p, "retrying") THEN "resending" ELSE "sending"
           x == [pc |-> pc, todo |-> poll[p].todo \ {r}, file |-> file, wire |-> w]
<1>1. RowsOK /\ t \in Task /\ cur[t] # 0 /\ Held(t) \in GoodRow
  BY RowsIs, BaseIs
<1>2. /\ rows' = [rows EXCEPT ![cur[t]] = row] /\ UNCHANGED cur
      /\ sending' = sending \cup {t} /\ poll' = [poll EXCEPT ![p] = x]
  BY DEF Sends
<1>3. row \in GoodRow /\ row.ids \in Nat \ {0}
  BY RowIs DEF Evolves
<1>4. Track(t, row)
  BY <1>2 DEF Track
<1>5. /\ Moved /\ DOMAIN rows' = DOMAIN rows /\ Len(rows') = Len(rows)
      /\ cur' = cur /\ rows'[cur[t]] = row
  BY <1>1, <1>4, TrackMoved
<1>6. cur[t] # r \/ row.ack
  BY DEF Held
<1>7. Fresh(w, rows') /\ w \in Wiring' /\ w.kind = "TERMINAL"
  BY <1>1, <1>3, <1>5, <1>6, WireFresh
<1>8. poll[p].todo \ {r} \in SUBSET DOMAIN rows'
  BY <1>5, BaseIs, PollIs
<1>9. pc \in {"resending", "sending"} /\ x.wire = w
  OBVIOUS
<1> HIDE DEF w, pc
<1>10. PollFits(x, DOMAIN rows', Wiring', AckSent')
  BY <1>7, <1>8, <1>9, PollForms
<1>11. MemoryOK' /\ bus' \subseteq Known /\ cut' = cut
  BY <1>1, <1>2 DEF Base, MemoryOK, outside, Known
<1> HIDE DEF x
<1> QED
  BY <1>2, <1>5, <1>7, <1>9, <1>10, <1>11, PollStepOK

(* A poll goes on; nothing but its list changes.                           *)
LEMMA PollGoesOK ==
  ASSUME Base, NEW p \in DOMAIN poll, NEW pc \in {"retrying", "checking"},
         NEW todo \in SUBSET DOMAIN rows, PollGoes(p, pc, todo),
         Moved, Len(rows') = Len(rows), MemoryOK', bus' \subseteq Known, cut' = cut,
         UNCHANGED <<handler, replay>>
  PROVE  Step
<1> DEFINE x == [pc |-> pc, todo |-> todo]
<1>1. poll' = [poll EXCEPT ![p] = x] /\ ~Carries(x.pc)
  BY DEF PollGoes, Carries
<1>2. PollFits(x, DOMAIN rows', Wiring', AckSent')
  BY Grows, PollForms
<1> HIDE DEF x
<1> QED
  BY <1>1, <1>2, PollStepOK

LEMMA PollWaitsOK ==
  ASSUME Base, NEW p \in DOMAIN poll, NEW pc \in {"asking", "recovering"},
         NEW r \in DOMAIN rows, rows[r].ack, poll[p].pc # "idle", PollWaits(p, pc, r),
         Moved, Len(rows') = Len(rows), MemoryOK', bus' \subseteq Known, cut' = cut,
         UNCHANGED <<handler, replay>>
  PROVE  Step
<1> DEFINE x == [pc |-> pc, todo |-> poll[p].todo \ {r}, at |-> r]
<1>1. poll' = [poll EXCEPT ![p] = x] /\ ~Carries(x.pc)
  BY DEF PollWaits, Carries
<1>2. poll[p].todo \ {r} \in SUBSET DOMAIN rows' /\ r \in DOMAIN rows' /\ r \in AckSent'
  BY Grows, BaseIs, PollIs DEF AckSent
<1>3. PollFits(x, DOMAIN rows', Wiring', AckSent')
  BY <1>2, PollForms
<1> HIDE DEF x
<1> QED
  BY <1>1, <1>3, PollStepOK

LEMMA PrepareOK ==
  ASSUME Base, NEW p \in DOMAIN poll, NEW r \in DOMAIN rows, rows[r].ack, NEW file \in BOOLEAN,
         poll[p].pc # "idle", PrepareAndSend(p, r, file),
         UNCHANGED <<handler, replay, acking, tries, outside>>
  PROVE  Step
<1> DEFINE t == rows[r].task
<1>1. RowsOK /\ t \in Task /\ cur[t] # 0 /\ Held(t) \in GoodRow
  BY RowsIs, BaseIs
<1>2. CASE MayPrepare(t)
  <2> DEFINE row == Prepared(Held(t))
  <2>1. Held(t).end = "none" /\ Held(t).pend = "none"
    BY <1>2 DEF MayPrepare, Open
  <2>2. /\ Evolves(Held(t), row) /\ row.pend = "inflight" /\ row.cycle = Held(t).cycle
        /\ row.ack = Held(t).ack /\ row.ids > 0
    BY <1>1, <2>1, PreparedOK
  <2>3. Sends(p, r, row, file)
    BY <1>2 DEF PrepareAndSend
  <2> HIDE DEF row
  <2> QED
    BY <2>2, <2>3, SendsOK
<1>3. CASE ~MayPrepare(t)
  <2>1. PollGoes(p, "checking", poll[p].todo \ {r}) /\ UNCHANGED <<tracker, sending>>
    BY <1>3 DEF PrepareAndSend
  <2>2. Moved /\ Len(rows') = Len(rows)
    BY <1>1, <2>1, StayMoved DEF tracker
  <2>3. MemoryOK' /\ bus' \subseteq Known /\ cut' = cut
    BY <2>1 DEF Base, MemoryOK, outside, Known
  <2>4. poll[p].todo \ {r} \in SUBSET DOMAIN rows
    BY BaseIs, PollIs
  <2> QED
    BY <2>1, <2>2, <2>3, <2>4, PollGoesOK
<1> QED
  BY <1>2, <1>3

LEMMA TwoMoved ==
  ASSUME RowsOK, NEW r \in DOMAIN rows, NEW s \in DOMAIN rows, r # s, NEW a, NEW b,
         Evolves(rows[r], a), Similar(rows[r], a), Evolves(rows[s], b), Similar(rows[s], b),
         rows' = [[rows EXCEPT ![r] = a] EXCEPT ![s] = b], UNCHANGED cur
  PROVE  Moved /\ Gentle /\ Len(rows') = Len(rows)
<1> DEFINE half == [rows EXCEPT ![r] = a]
<1>1. /\ half \in Seq(GoodRow) /\ Len(half) = Len(rows) /\ DOMAIN half = DOMAIN rows /\ half[r] = a
      /\ \A i \in DOMAIN rows : i # r => half[i] = rows[i]
  BY OneRow DEF RowsOK
<1>2. rows' = [half EXCEPT ![s] = b]
  OBVIOUS
<1> HIDE DEF half
<1>3. /\ rows' \in Seq(GoodRow) /\ Len(rows') = Len(rows) /\ DOMAIN rows' = DOMAIN rows
      /\ rows'[s] = b
      /\ \A i \in DOMAIN rows : i # s => rows'[i] = half[i]
  <2>1. s \in DOMAIN half /\ Evolves(half[s], b)
    BY <1>1
  <2>2. LET next == [half EXCEPT ![s] = b] IN
        /\ next \in Seq(GoodRow) /\ Len(next) = Len(half) /\ DOMAIN next = DOMAIN half
        /\ next[s] = b /\ \A i \in DOMAIN half : i # s => next[i] = half[i]
    BY <1>1, <2>1, OneRow
  <2> QED
    BY <1>1, <1>2, <2>2
<1>4. \A i \in DOMAIN rows :
        rows'[i] = IF i = s THEN b ELSE IF i = r THEN a ELSE rows[i]
  BY <1>1, <1>3
<1>5. \A i \in DOMAIN rows : Evolves(rows[i], rows'[i]) /\ Similar(rows[i], rows'[i])
  BY <1>4, RowsIs, SameEvolves DEF Similar
<1>6. Gentle
  BY <1>3, <1>5 DEF Gentle
<1> QED
  BY <1>3, <1>5, <1>6, SameCurMoved

-----------------------------------------------------------------------------
(* Handlers.                                                               *)

HandlerPcs == {"idle", "terminating", "creating", "settling", "preempting", "acking"}
Quiet == Gentle /\ UNCHANGED <<poll, sending, tries, crashes, cut>> /\ bus \subseteq bus'

LEMMA HandlerKnows ==
  ASSUME Base, NEW h \in DOMAIN handler
  PROVE  /\ handler[h].pc # "idle" =>
              handler[h].msg \in Message /\ TaskOf[handler[h].msg] \in Task
         /\ handler[h].pc \in {"terminating", "acking"} => cur[TaskOf[handler[h].msg]] # 0
         /\ handler[h].pc = "preempting" => handler[h].other \in Task /\ cur[handler[h].other] # 0
<1>1. HandlerFits(handler[h], Wiring, Tracked)
  BY BaseIs
<1>2. /\ handler[h].pc # "idle" =>
           handler[h].msg \in Message /\ TaskOf[handler[h].msg] \in Task
      /\ handler[h].pc \in {"terminating", "acking"} => TaskOf[handler[h].msg] \in Tracked
      /\ handler[h].pc = "preempting" => handler[h].other \in Task /\ handler[h].other \in Tracked
  BY <1>1, HandlerIs
<1> QED
  BY <1>2 DEF Tracked

(* A handler goes on and gives nothing to a send.                          *)
LEMMA HandlerGoesOK ==
  ASSUME Base, Moved, Gentle, NEW h \in DOMAIN handler, NEW x, handler' = [handler EXCEPT ![h] = x],
         HandlerFits(x, Wiring', Tracked'), x.pc # "acking", x.pc \in HandlerPcs,
         Len(rows') = Len(rows), RoomOK', MemoryOK', bus \subseteq bus', bus' \subseteq Known,
         UNCHANGED <<poll, replay, sending, tries, crashes, cut>>
  PROVE  Step /\ Quiet
<1>1. ~Carries(x.pc)
  BY DEF Carries, HandlerPcs
<1> QED
  BY <1>1, HandlerStepOK DEF Quiet

LEMMA StaysMemory ==
  ASSUME Base, UNCHANGED <<memory, outside>>
  PROVE  /\ MemoryOK' /\ bus \subseteq bus' /\ bus' \subseteq Known
         /\ UNCHANGED <<sending, tries, crashes, cut>>
  BY DEF Base, MemoryOK, memory, outside, Known

LEMMA ReuseOK ==
  ASSUME Base, NEW h \in DOMAIN handler, NEW m \in Message, Reuse(h, m)
  PROVE  Step /\ Quiet
<1> DEFINE x == [pc |-> "settling", msg |-> m]
<1>1. handler' = [handler EXCEPT ![h] = x] /\ UNCHANGED <<tracker, poll, replay, memory, outside>>
  BY DEF Reuse
<1>2. Moved /\ Gentle /\ Len(rows') = Len(rows)
  BY <1>1, StayMoved, BaseIs DEF tracker
<1>3. HandlerFits(x, Wiring', Tracked')
  BY HandlerForms
<1>4. x.pc = "settling"
  OBVIOUS
<1> HIDE DEF x
<1>5. RoomOK'
  BY <1>1, <1>2, <1>4, Room0 DEF Arriving
<1> QED
  BY <1>1, <1>2, <1>3, <1>4, <1>5, StaysMemory, HandlerGoesOK DEF HandlerPcs

LEMMA ReplayAckOK ==
  ASSUME Base, NEW h \in DOMAIN handler, NEW m \in Message, ReplayAck(h, m)
  PROVE  Step /\ Quiet
<1> DEFINE t == TaskOf[m]
           x == [pc |-> "acking", msg |-> m, wire |-> AckWire(t)]
<1>1. /\ handler' = [handler EXCEPT ![h] = x] /\ AckStarts(t) /\ ~Held(t).ack
      /\ UNCHANGED <<poll, replay, sending, tries, outside>>
      /\ cur[t] # 0 /\ t \in Task
  BY Constants DEF ReplayAck, Redelivered, Open
<1>2. /\ Moved /\ DOMAIN rows' = DOMAIN rows /\ Len(rows') = Len(rows)
      /\ MemoryOK' /\ bus' \subseteq Known
      /\ Fresh(AckWire(t), rows') /\ AckWire(t) \in Wiring' /\ AckWire(t).kind = "ACK"
  BY <1>1, AckStartsOK
<1>3. Gentle
  <2>1. RowsOK /\ Held(t) \in GoodRow
    BY <1>1, RowsIs, BaseIs
  <2>2. LET new == AckPrepared(Held(t)) IN
        Evolves(Held(t), new) /\ Similar(Held(t), new) /\ Track(t, new)
    BY <1>1, <2>1, AckPreparedOK DEF Similar, AckStarts
  <2> QED
    BY <1>1, <2>1, <2>2, TrackMoved
<1>4. HandlerFits(x, Wiring', Tracked')
  <2>1. t \in Tracked'
    BY <1>1, <1>2 DEF Moved, Tracked
  <2> QED
    BY <1>2, <2>1, HandlerForms
<1>5. x.pc = "acking" /\ x.wire = AckWire(t)
  OBVIOUS
<1> HIDE DEF x
<1>6. RoomOK'
  BY <1>1, <1>2, <1>5, Room0 DEF Arriving
<1>7. UNCHANGED <<cut, crashes, bus>>
  BY <1>1 DEF outside
<1> QED
  BY <1>1, <1>2, <1>3, <1>4, <1>5, <1>6, <1>7, HandlerStepOK DEF Quiet

LEMMA SupersedeOK ==
  ASSUME Base, NEW h \in DOMAIN handler, NEW m \in Message, Supersede(h, m)
  PROVE  Step /\ Quiet
<1> DEFINE t == TaskOf[m]
           x == [pc |-> "terminating", msg |-> m]
<1>1. /\ handler' = [handler EXCEPT ![h] = x] /\ rows' = Ended(cur[t]) /\ Room
      /\ UNCHANGED <<cur, poll, replay, memory, outside>>
      /\ cur[t] # 0 /\ t \in Task
  BY Constants DEF Supersede, Open
<1>2. Moved /\ Gentle /\ Len(rows') = Len(rows)
  BY <1>1, BaseIs, RowsIs, LiveMoved DEF Ended, Sessions
<1>3. HandlerFits(x, Wiring', Tracked')
  <2>1. t \in Tracked'
    BY <1>1 DEF Tracked
  <2> QED
    BY <2>1, HandlerForms
<1>4. x.pc = "terminating"
  OBVIOUS
<1> HIDE DEF x
<1>5. RoomOK'
  BY <1>1, <1>2, BaseIs, ComingMore
<1> QED
  BY <1>1, <1>2, <1>3, <1>4, <1>5, StaysMemory, HandlerGoesOK DEF HandlerPcs

(* A handler goes to its session, or first ends that of another task.      *)
LEMMA SessionNextOK ==
  ASSUME Base, NEW h \in DOMAIN handler, NEW m \in Message, NEW rws, ToSession(h, m, rws),
         UNCHANGED <<cur, poll, replay, memory, outside>>, Moved, Gentle, Len(rows') = Len(rows),
         Room \/ handler[h].pc \in Arriving
  PROVE  Step /\ Quiet
<1>1. PICK x : /\ handler' = [handler EXCEPT ![h] = x] /\ x.pc \in {"creating", "preempting"}
               /\ HandlerFits(x, Wiring', Tracked')
  <2>1. CASE handler' = [handler EXCEPT ![h] = [pc |-> "creating", msg |-> m]]
    <3> DEFINE x == [pc |-> "creating", msg |-> m]
    <3>1. HandlerFits(x, Wiring', Tracked') /\ x.pc = "creating"
      BY HandlerForms
    <3> HIDE DEF x
    <3> QED
      BY <2>1, <3>1 DEF x
  <2>2. CASE \E o \in Others(TaskOf[m]) :
               handler' = [handler EXCEPT ![h] = [pc |-> "preempting", msg |-> m, other |-> o]]
    <3>1. PICK o \in Others(TaskOf[m]) :
               handler' = [handler EXCEPT ![h] = [pc |-> "preempting", msg |-> m, other |-> o]]
      BY <2>2
    <3> DEFINE x == [pc |-> "preempting", msg |-> m, other |-> o]
    <3>2. o \in Task \cap Tracked'
      BY DEF Others, Open, Tracked
    <3>3. HandlerFits(x, Wiring', Tracked') /\ x.pc = "preempting"
      BY <3>2, HandlerForms
    <3> HIDE DEF x
    <3> QED
      BY <3>1, <3>3 DEF x
  <2> QED
    BY <2>1, <2>2 DEF ToSession
<1>2. RoomOK'
  BY <1>1, Room0, BaseIs, ComingMore
<1> QED
  BY <1>1, <1>2, StaysMemory, HandlerGoesOK DEF HandlerPcs

LEMMA TakeUpOK ==
  ASSUME Base, NEW h \in DOMAIN handler, NEW m \in Message, TakeUp(h, m)
  PROVE  Step /\ Quiet
<1>1. ToSession(h, m, rows) /\ UNCHANGED <<cur, poll, replay, memory, outside>> /\ Room
  BY DEF TakeUp
<1>2. Moved /\ Gentle /\ Len(rows') = Len(rows)
  <2>1. CASE rows' = rows
    BY <1>1, <2>1, StayMoved, BaseIs DEF tracker
  <2>2. CASE \E o \in Others(TaskOf[m]) : rows' = [rows EXCEPT ![cur[o]].live = "gone"]
    <3>1. PICK o \in Others(TaskOf[m]) : rows' = [rows EXCEPT ![cur[o]].live = "gone"]
      BY <2>2
    <3>2. cur[o] \in DOMAIN rows
      BY BaseIs, RowsIs DEF Others, Open
    <3> QED
      BY <1>1, <3>1, <3>2, BaseIs, LiveMoved DEF Sessions
  <2> QED
    BY <1>1, <2>1, <2>2 DEF ToSession
<1> QED
  BY <1>1, <1>2, SessionNextOK

LEMMA SupersededOK ==
  ASSUME Base, NEW h \in DOMAIN handler, Superseded(h)
  PROVE  Step /\ Quiet
<1> DEFINE m == handler[h].msg
           t == TaskOf[m]
           a == Abandoned(rows[cur[t]])
           half == [rows EXCEPT ![cur[t]] = a]
<1>1. handler[h].pc = "terminating" /\ m \in Message /\ t \in Task /\ cur[t] # 0
  BY HandlerKnows DEF Superseded, In
<1>2. ToSession(h, m, half) /\ UNCHANGED <<cur, poll, replay, memory, outside>>
  BY DEF Superseded, TaskAt
<1>3. cur[t] \in DOMAIN rows /\ rows[cur[t]] \in GoodRow /\ RowsOK /\ rows[cur[t]].task = t
  BY <1>1, BaseIs, RowsIs DEF Held, RowsOK
<1>4. Evolves(rows[cur[t]], a) /\ Similar(rows[cur[t]], a)
  BY <1>3, AbandonedOK, RowIs DEF Similar, Abandoned, GoodRow, Row
<1> HIDE DEF a
<1>5. Moved /\ Gentle /\ Len(rows') = Len(rows)
  <2>1. CASE rows' = half
    BY <1>2, <1>3, <1>4, <2>1, OneMoved
  <2>2. CASE \E o \in Others(t) : rows' = [half EXCEPT ![cur[o]].live = "gone"]
    <3>1. PICK o \in Others(t) : rows' = [half EXCEPT ![cur[o]].live = "gone"]
      BY <2>2
    <3>2. cur[o] \in DOMAIN rows /\ rows[cur[o]].task = o /\ o # t /\ rows[cur[o]] \in GoodRow
      BY BaseIs, RowsIs DEF Others, Open, Held, RowsOK
    <3>3. cur[o] # cur[t]
      BY <1>3, <3>2
    <3> DEFINE b == [rows[cur[o]] EXCEPT !.live = "gone"]
    <3>4. Evolves(rows[cur[o]], b) /\ Similar(rows[cur[o]], b)
      BY <3>2, LiveOK DEF Similar, Sessions
    <3>5. rows' = [[rows EXCEPT ![cur[t]] = a] EXCEPT ![cur[o]] = b]
      BY <3>1, <3>2, <3>3
    <3> HIDE DEF b
    <3> QED
      BY <1>2, <1>3, <1>4, <3>2, <3>3, <3>4, <3>5, TwoMoved
  <2> QED
    BY <1>2, <2>1, <2>2 DEF ToSession
<1> HIDE DEF half
<1> QED
  BY <1>1, <1>2, <1>5, SessionNextOK DEF Arriving

LEMMA PreemptedOK ==
  ASSUME Base, NEW h \in DOMAIN handler, Preempted(h)
  PROVE  Step /\ Quiet
<1> DEFINE o == handler[h].other
           x == [pc |-> "creating", msg |-> handler[h].msg]
<1>1. handler[h].pc = "preempting" /\ handler[h].msg \in Message /\ o \in Task /\ cur[o] # 0
  BY HandlerKnows DEF Preempted, In
<1>2. /\ Track(o, Abandoned(Held(o))) /\ handler' = [handler EXCEPT ![h] = x]
      /\ UNCHANGED <<poll, replay, memory, outside>>
  BY DEF Preempted, Goes
<1>3. RowsOK /\ Held(o) \in GoodRow
  BY <1>1, BaseIs, RowsIs
<1>4. Evolves(Held(o), Abandoned(Held(o))) /\ Similar(Held(o), Abandoned(Held(o)))
  BY <1>3, AbandonedOK, RowIs DEF Similar, Abandoned, GoodRow, Row
<1>5. Moved /\ Gentle /\ Len(rows') = Len(rows)
  BY <1>1, <1>2, <1>3, <1>4, TrackMoved
<1>6. HandlerFits(x, Wiring', Tracked') /\ x.pc = "creating"
  BY <1>1, HandlerForms
<1> HIDE DEF x
<1>7. RoomOK'
  BY <1>1, <1>2, <1>5, Room0 DEF Arriving
<1> QED
  BY <1>2, <1>5, <1>6, <1>7, StaysMemory, HandlerGoesOK DEF HandlerPcs

(* A reply that is stored or not, and nothing else.                        *)
LEMMA BlockOK ==
  ASSUME Base, NEW h \in DOMAIN handler, NEW ok \in BOOLEAN, In(h, "creating"), Block(h, ok),
         UNCHANGED <<tracker, poll, replay, memory, receipt, settled, bus, cut, crashes>>
  PROVE  Step /\ Quiet
<1>1. handler[h].msg \in Message
  BY BaseIs, HandlerIs DEF In
<1>2. PICK x : /\ handler' = [handler EXCEPT ![h] = x] /\ x.pc \in {"settling", "idle"}
               /\ HandlerFits(x, Wiring', Tracked')
  <2>1. CASE ok
    <3> DEFINE x == [pc |-> "settling", msg |-> handler[h].msg]
    <3>1. HandlerFits(x, Wiring', Tracked') /\ x.pc = "settling"
      BY <1>1, HandlerForms
    <3>2. handler' = [handler EXCEPT ![h] = x]
      BY <2>1 DEF Block, Goes
    <3> HIDE DEF x
    <3> QED
      BY <3>1, <3>2
  <2>2. CASE ~ok
    BY <1>1, <2>2, HandlerForms DEF Block, Idle
  <2> QED
    BY <2>1, <2>2
<1>3. Moved /\ Gentle /\ Len(rows') = Len(rows)
  BY StayMoved, BaseIs DEF tracker
<1>4. RoomOK'
  BY <1>2, <1>3, Room0 DEF Arriving
<1>5. MemoryOK' /\ bus' = bus
  BY DEF Base, MemoryOK, memory, Block, Fault
<1> QED
  BY <1>2, <1>3, <1>4, <1>5, HandlerGoesOK DEF HandlerPcs, memory, Known

LEMMA HandlerAckEndsOK ==
  ASSUME Base, NEW h \in DOMAIN handler, NEW ok \in BOOLEAN, HandlerAckEnds(h, ok)
  PROVE  Step /\ Quiet
<1> DEFINE t == TaskAt(h)
           wire == handler[h].wire
           x == [pc |-> "settling", msg |-> handler[h].msg]
<1>1. handler[h].pc = "acking" /\ handler[h].msg \in Message /\ t \in Task /\ cur[t] # 0
  BY HandlerKnows DEF HandlerAckEnds, In, TaskAt
<1>2. /\ AckEnds(t, ok, wire) /\ handler' = [handler EXCEPT ![h] = x]
      /\ UNCHANGED <<poll, replay, sending, tries, receipt, settled, cut, crashes>>
  BY DEF HandlerAckEnds, Goes
<1>3. wire \in Known
  BY <1>1, WiresIs DEF Known, InTheAir, Carries
<1>4. Moved /\ Len(rows') = Len(rows) /\ MemoryOK' /\ bus' \subseteq Known
  BY <1>1, <1>2, <1>3, AckEndsOK
<1>5. Gentle /\ bus \subseteq bus'
  BY <1>1, <1>2, AckEndsGentle
<1>6. HandlerFits(x, Wiring', Tracked') /\ x.pc = "settling"
  BY <1>1, HandlerForms
<1> HIDE DEF x
<1>7. RoomOK'
  BY <1>2, <1>4, <1>6, Room0 DEF Arriving
<1> QED
  BY <1>2, <1>4, <1>5, <1>6, <1>7, HandlerGoesOK DEF HandlerPcs

LEMMA SettleOK ==
  ASSUME Base, NEW h \in DOMAIN handler, NEW ok \in BOOLEAN, Settle(h, ok)
  PROVE  Step /\ Quiet
<1>1. handler[h].pc = "settling" /\ handler[h].msg \in Message
  BY BaseIs, HandlerIs DEF Settle, In
<1>2. /\ handler' = [handler EXCEPT ![h] = Idle]
      /\ UNCHANGED <<tracker, poll, replay, memory, receipt, bus, cut, crashes>>
  BY DEF Settle
<1>3. Moved /\ Gentle /\ Len(rows') = Len(rows)
  BY <1>2, StayMoved, BaseIs DEF tracker
<1>4. MemoryOK' /\ bus' = bus
  BY <1>1, <1>2 DEF Base, MemoryOK, memory, Settle, Fault
<1>5. HandlerFits(Idle, Wiring', Tracked') /\ Idle.pc = "idle"
  BY <1>1, HandlerForms DEF Idle
<1>6. RoomOK'
  BY <1>2, <1>3, <1>5, Room0 DEF Arriving
<1> QED
  BY <1>2, <1>3, <1>4, <1>5, <1>6, HandlerGoesOK DEF HandlerPcs, memory, Known

LEMMA RegisterOK ==
  ASSUME Base, NEW h \in DOMAIN handler, Register(h)
  PROVE  Step /\ Quiet
<1> DEFINE m == handler[h].msg
           t == TaskOf[m]
           r == Len(rows) + 1
           new == AckPrepared(Registered(m))
           w == [kind |-> "ACK", row |-> r, cycle |-> 0, id |-> 1, late |-> FALSE]
           x == [pc |-> "acking", msg |-> m, wire |-> w]
<1>1. handler[h].pc = "creating" /\ m \in Message /\ t \in Task /\ RowsOK
  BY BaseIs, HandlerIs DEF Register, In
<1>2. /\ rows' = Append(rows, new) /\ cur' = [cur EXCEPT ![t] = r]
      /\ acking' = acking \cup {t} /\ handler' = [handler EXCEPT ![h] = x]
      /\ UNCHANGED <<poll, replay, sending, tries, outside>>
  BY DEF Register
<1>3. new \in GoodRow /\ new.task = t /\ Blank(new) /\ new.owed /\ new.ackIds = 1
  BY <1>1, RegisteredOK DEF Blank
<1> HIDE DEF new
<1>4. /\ Moved /\ Gentle /\ DOMAIN rows' = DOMAIN rows \cup {r} /\ Len(rows') = Len(rows) + 1
      /\ rows'[r] = new /\ cur'[t] = r
  BY <1>1, <1>2, <1>3, RegisterMoved
<1>5. Len(rows) \in Nat
  BY BaseIs
<1>6. Fresh(w, rows') /\ w \in Wiring' /\ w.kind = "ACK"
  BY <1>3, <1>4 DEF Fresh, Wiring, Blank
<1>7. x.pc = "acking" /\ x.wire = w
  OBVIOUS
<1> HIDE DEF w
<1>8. HandlerFits(x, Wiring', Tracked')
  <2>1. t \in Tracked'
    BY <1>1, <1>4, <1>5 DEF Tracked
  <2> QED
    BY <1>1, <1>6, <2>1, HandlerForms
<1> HIDE DEF x
<1>9. RoomOK'
  <2>1. h \in Coming /\ Coming' \subseteq Coming \ {h}
    BY <1>1, <1>2, <1>7 DEF Coming, Arriving
  <2> QED
    BY <1>4, <1>5, <2>1, ComingLess, BaseIs
<1>10. MemoryOK' /\ bus' \subseteq Known /\ bus' = bus /\ UNCHANGED <<cut, crashes>>
  BY <1>1, <1>2 DEF Base, MemoryOK, outside, Known
<1> QED
  BY <1>2, <1>4, <1>6, <1>7, <1>8, <1>9, <1>10, HandlerStepOK DEF Quiet

-----------------------------------------------------------------------------
(* What a step leaves alone of the sends and of the count of recoveries.   *)

Sending == {"sending", "resending"}

Calm ==
  /\ \A r \in DOMAIN rows' :
       IF r \in DOMAIN rows
       THEN Similar(rows[r], rows'[r]) \/ (rows'[r].end = "none" /\ rows'[r].pend = "none")
       ELSE Blank(rows'[r])
  /\ \A t \in Task : cur'[t] = cur[t] \/ cur'[t] \notin DOMAIN rows
  /\ UNCHANGED sending /\ bus \subseteq bus' /\ cut \subseteq cut'
  /\ DOMAIN poll' = DOMAIN poll
  /\ \A p \in DOMAIN poll :
       poll[p].pc \in Sending \/ poll'[p].pc \in Sending => poll'[p] = poll[p]

CycleStays ==
  \A r \in DOMAIN rows' : rows'[r].cycle = IF r \in DOMAIN rows THEN rows[r].cycle ELSE 0

Frugal ==
  /\ UNCHANGED <<tries, crashes>> /\ CycleStays
  /\ \A t \in Task : cur'[t] = cur[t] \/ cur'[t] \notin DOMAIN rows
  /\ DOMAIN poll' = DOMAIN poll
  /\ \A p \in DOMAIN poll : poll'[p].pc = "recovering" => poll'[p] = poll[p]

LEMMA QuietIsCalm == ASSUME Quiet PROVE Calm /\ Frugal
  BY DEF Quiet, Gentle, Calm, Frugal, CycleStays, Similar, Blank

LEMMA PollCalm ==
  ASSUME Gentle, UNCHANGED sending, bus \subseteq bus', cut \subseteq cut',
         NEW p \in DOMAIN poll, NEW x, poll' = [poll EXCEPT ![p] = x],
         poll[p].pc \notin Sending, x.pc \notin Sending
  PROVE  Calm
  BY DEF Calm, Gentle

LEMMA PollFrugal ==
  ASSUME UNCHANGED <<tries, crashes>>, CycleStays,
         \A t \in Task : cur'[t] = cur[t] \/ cur'[t] \notin DOMAIN rows,
         NEW p \in DOMAIN poll, NEW x, poll' = [poll EXCEPT ![p] = x], x.pc # "recovering"
  PROVE  Frugal
  BY DEF Frugal

LEMMA GentleCycle == Gentle => CycleStays
  BY DEF Gentle, CycleStays, Similar, Blank

-----------------------------------------------------------------------------
(* The replay of ACKs.                                                     *)

LEMMA KeptIs == Kept \subseteq DOMAIN rows /\ Pending \subseteq DOMAIN rows /\ Unfinished \subseteq DOMAIN rows
  BY DEF Kept, Pending, Unfinished

LEMMA ReplayForms ==
  ASSUME NEW objects, NEW wiring, NEW todo \in SUBSET objects
  PROVE  /\ ReplayFits(Idle, objects, wiring)
         /\ ReplayFits([pc |-> "listing", todo |-> todo], objects, wiring)
         /\ \A w \in wiring : w.kind = "ACK" =>
              ReplayFits([pc |-> "acking", todo |-> todo, wire |-> w], objects, wiring)
  BY DEF ReplayFits, Idle

LEMMA ReplayGoesOK ==
  ASSUME Base, NEW x, replay' = x, ReplayFits(x, DOMAIN rows, Wiring), x.pc # "acking",
         UNCHANGED <<handler, poll, sending, tries, crashes, cut>>, Moved, Gentle,
         Len(rows') = Len(rows), MemoryOK', bus \subseteq bus', bus' \subseteq Known
  PROVE  Step /\ Quiet
<1>1. ReplayFits(x, DOMAIN rows', Wiring')
  BY Grows, ReplayStays
<1>2. ~Carries(x.pc)
  BY ReplayIs DEF Carries
<1> QED
  BY <1>1, <1>2, ReplayStepOK DEF Quiet

LEMMA BeginReplayOK == ASSUME Base, BeginReplay PROVE Step /\ Quiet
<1> DEFINE x == [pc |-> "listing", todo |-> {r \in Kept : rows[r].owed \/ rows[r].blank}]
<1>1. replay' = x /\ UNCHANGED <<tracker, handler, poll, memory, outside>>
  BY DEF BeginReplay
<1>2. ReplayFits(x, DOMAIN rows, Wiring) /\ x.pc = "listing"
  BY KeptIs, ReplayForms
<1> HIDE DEF x
<1>3. Moved /\ Gentle /\ Len(rows') = Len(rows)
  BY <1>1, StayMoved, BaseIs DEF tracker
<1> QED
  BY <1>1, <1>2, <1>3, StaysMemory, ReplayGoesOK

LEMMA EndReplayOK == ASSUME Base, EndReplay PROVE Step /\ Quiet
<1>1. replay' = Idle /\ UNCHANGED <<tracker, handler, poll, memory, outside>>
  BY DEF EndReplay
<1>2. ReplayFits(Idle, DOMAIN rows, Wiring) /\ Idle.pc = "idle"
  BY ReplayForms DEF Idle
<1>3. Moved /\ Gentle /\ Len(rows') = Len(rows)
  BY <1>1, StayMoved, BaseIs DEF tracker
<1> QED
  BY <1>1, <1>2, <1>3, StaysMemory, ReplayGoesOK

LEMMA ReplaySendsOK ==
  ASSUME Base, NEW r \in DOMAIN rows, ReplayNext(r),
         rows[r].owed \/ Held(rows[r].task).owed
  PROVE  Step /\ Quiet
<1> DEFINE t == rows[r].task
           x == [pc |-> "acking", todo |-> replay.todo \ {r}, wire |-> AckWire(t)]
<1>1. /\ replay' = x /\ AckStarts(t) /\ ~Held(t).ack /\ cur[t] # 0 /\ t \in Task
      /\ UNCHANGED <<handler, poll, sending, tries, outside>>
  BY BaseIs DEF ReplayNext, Due
<1>2. /\ Moved /\ DOMAIN rows' = DOMAIN rows /\ Len(rows') = Len(rows)
      /\ MemoryOK' /\ bus' \subseteq Known
      /\ Fresh(AckWire(t), rows') /\ AckWire(t) \in Wiring' /\ AckWire(t).kind = "ACK"
  BY <1>1, AckStartsOK
<1>3. Gentle
  <2>1. RowsOK /\ Held(t) \in GoodRow
    BY <1>1, RowsIs, BaseIs
  <2>2. LET new == AckPrepared(Held(t)) IN
        Evolves(Held(t), new) /\ Similar(Held(t), new) /\ Track(t, new)
    BY <1>1, <2>1, AckPreparedOK DEF Similar, AckStarts
  <2> QED
    BY <1>1, <2>1, <2>2, TrackMoved
<1>4. ReplayFits(x, DOMAIN rows', Wiring')
  <2>1. replay.todo \ {r} \in SUBSET DOMAIN rows'
    BY <1>2, BaseIs, ReplayIs DEF ReplayNext
  <2> QED
    BY <1>2, <2>1, ReplayForms
<1>5. x.wire = AckWire(t)
  OBVIOUS
<1> HIDE DEF x
<1>6. UNCHANGED <<cut, crashes, bus>>
  BY <1>1 DEF outside
<1> QED
  BY <1>1, <1>2, <1>3, <1>4, <1>5, <1>6, ReplayStepOK DEF Quiet

(* An empty ACK is prepared and not sent.                                  *)
LEMMA ReplaySkipsOK ==
  ASSUME Base, NEW r \in DOMAIN rows, ReplayNext(r),
         ~(rows[r].owed \/ Held(rows[r].task).owed)
  PROVE  Step /\ Quiet
<1> DEFINE t == rows[r].task
           new == [Held(t) EXCEPT !.blank = TRUE]
           x == [pc |-> "listing", todo |-> replay.todo \ {r}]
<1>1. /\ replay' = x /\ Track(t, new) /\ UNCHANGED acking /\ replay.pc = "listing"
      /\ UNCHANGED <<handler, poll, sending, tries, outside>> /\ cur[t] # 0 /\ t \in Task
  BY BaseIs DEF ReplayNext
<1>2. RowsOK /\ Held(t) \in GoodRow
  BY <1>1, RowsIs, BaseIs
<1>3. Evolves(Held(t), new) /\ Similar(Held(t), new)
  BY <1>2, BlankedOK DEF Similar
<1> HIDE DEF new
<1>4. Moved /\ Gentle /\ Len(rows') = Len(rows)
  BY <1>1, <1>2, <1>3, TrackMoved
<1>5. ReplayFits(x, DOMAIN rows, Wiring)
  BY <1>1, BaseIs, ReplayIs, ReplayForms
<1>6. x.pc # "acking"
  OBVIOUS
<1> HIDE DEF x
<1>7. MemoryOK' /\ bus \subseteq bus' /\ bus' \subseteq Known /\ UNCHANGED <<crashes, cut>>
  BY <1>1 DEF Base, MemoryOK, outside, Known
<1> QED
  BY <1>1, <1>4, <1>5, <1>6, <1>7, ReplayGoesOK

LEMMA ReplayNextOK ==
  ASSUME Base, NEW r \in DOMAIN rows, ReplayNext(r)
  PROVE  Step /\ Quiet
  BY ReplaySendsOK, ReplaySkipsOK

LEMMA ReplayAckEndsOK ==
  ASSUME Base, NEW ok \in BOOLEAN, ReplayAckEnds(ok)
  PROVE  Step /\ Quiet
<1> DEFINE w == replay.wire
           t == rows[w.row].task
           x == [pc |-> "listing", todo |-> replay.todo]
<1>1. replay.pc = "acking" /\ w \in Wiring /\ replay.todo \in SUBSET DOMAIN rows
  BY BaseIs, ReplayIs DEF ReplayAckEnds
<1>2. t \in Task /\ cur[t] # 0
  BY <1>1, BaseIs DEF Wiring
<1>3. /\ AckEnds(t, ok, w) /\ replay' = x
      /\ UNCHANGED <<handler, poll, sending, tries, receipt, settled, cut, crashes>>
  BY DEF ReplayAckEnds
<1>4. w \in Known
  BY <1>1, ReplayWire DEF Known, InTheAir, Carries
<1>5. Moved /\ Len(rows') = Len(rows) /\ MemoryOK' /\ bus' \subseteq Known
  BY <1>2, <1>3, <1>4, AckEndsOK
<1>6. Gentle /\ bus \subseteq bus'
  BY <1>2, <1>3, AckEndsGentle
<1>7. ReplayFits(x, DOMAIN rows, Wiring) /\ x.pc = "listing"
  BY <1>1, ReplayForms
<1> HIDE DEF x
<1> QED
  BY <1>3, <1>5, <1>6, <1>7, ReplayGoesOK

-----------------------------------------------------------------------------
(* Polls that neither send nor recover.                                    *)

LEMMA PollKnows ==
  ASSUME Base, NEW p \in DOMAIN poll
  PROVE  /\ poll[p].pc # "idle" => poll[p].todo \in SUBSET DOMAIN rows
         /\ poll[p].pc \in {"asking", "recovering"} =>
              /\ poll[p].at \in DOMAIN rows /\ rows[poll[p].at].ack
              /\ rows[poll[p].at].task \in Task /\ cur[rows[poll[p].at].task] # 0
         /\ poll[p].pc \in Sending =>
              poll[p].wire \in Wiring /\ poll[p].wire.kind = "TERMINAL" /\ poll[p].wire \in Known
<1>1. PollFits(poll[p], DOMAIN rows, Wiring, AckSent)
  BY BaseIs
<1>2. /\ poll[p].pc # "idle" => poll[p].todo \in SUBSET DOMAIN rows
      /\ poll[p].pc \in {"asking", "recovering"} => poll[p].at \in DOMAIN rows /\ poll[p].at \in AckSent
      /\ poll[p].pc \in Sending =>
           poll[p].wire \in Wiring /\ poll[p].wire.kind = "TERMINAL"
  BY <1>1, PollIs DEF Sending
<1>3. poll[p].pc \in Sending => poll[p].wire \in Known
  BY WiresIs DEF Known, InTheAir, Carries, Sending
<1> QED
  BY <1>2, <1>3, BaseIs DEF AckSent

(* A poll goes to its next list and nothing else happens.                  *)
LEMMA ListingOK ==
  ASSUME Base, NEW p \in DOMAIN poll, NEW pc \in {"retrying", "checking"},
         NEW todo \in SUBSET DOMAIN rows, PollGoes(p, pc, todo), poll[p].pc \notin Sending,
         UNCHANGED <<tracker, handler, replay, memory, outside>>
  PROVE  Step /\ Calm /\ Frugal
<1> DEFINE x == [pc |-> pc, todo |-> todo]
<1>1. Moved /\ Gentle /\ Len(rows') = Len(rows)
  BY StayMoved, BaseIs DEF tracker
<1>2. poll' = [poll EXCEPT ![p] = x] /\ x.pc \notin Sending /\ x.pc # "recovering"
  BY DEF PollGoes, Sending
<1> HIDE DEF x
<1>3. Step
  BY <1>1, StaysMemory, PollGoesOK
<1> QED
  BY <1>1, <1>2, <1>3, StaysMemory, PollCalm, PollFrugal, GentleCycle DEF Gentle

LEMMA PollRestsOK ==
  ASSUME Base, NEW p \in DOMAIN poll, poll' = [poll EXCEPT ![p] = Idle], poll[p].pc \notin Sending,
         UNCHANGED <<tracker, handler, replay, memory, outside>>
  PROVE  Step /\ Calm /\ Frugal
<1>1. Moved /\ Gentle /\ Len(rows') = Len(rows)
  BY StayMoved, BaseIs DEF tracker
<1>2. Idle.pc \notin Sending /\ Idle.pc # "recovering" /\ ~Carries(Idle.pc)
  BY DEF Idle, Sending, Carries
<1>3. PollFits(Idle, DOMAIN rows', Wiring', AckSent')
  BY PollForms
<1>4. Step
  BY <1>1, <1>2, <1>3, StaysMemory, PollStepOK
<1> QED
  BY <1>1, <1>2, <1>4, StaysMemory, PollCalm, PollFrugal, GentleCycle DEF Gentle

LEMMA BeginPollOK ==
  ASSUME Base, NEW p \in DOMAIN poll, BeginPoll(p)
  PROVE  Step /\ Calm /\ Frugal
<1>1. poll[p].pc \notin Sending /\ PollGoes(p, "retrying", Pending)
      /\ UNCHANGED <<tracker, handler, replay, memory, outside>>
  BY DEF BeginPoll, Polls, Sending
<1> QED
  BY <1>1, KeptIs, ListingOK

LEMMA BeginCheckOK ==
  ASSUME Base, NEW p \in DOMAIN poll, BeginCheck(p)
  PROVE  Step /\ Calm /\ Frugal
<1>1. poll[p].pc \notin Sending /\ UNCHANGED <<tracker, handler, replay, memory, outside>>
  BY DEF BeginCheck, Polls, Sending
<1>2. PollGoes(p, "checking", Unfinished) \/ poll' = [poll EXCEPT ![p] = Idle]
  BY DEF BeginCheck
<1> QED
  BY <1>1, <1>2, KeptIs, ListingOK, PollRestsOK

LEMMA FineOK ==
  ASSUME Base, NEW p \in DOMAIN poll, Fine(p)
  PROVE  Step /\ Calm /\ Frugal
<1>1. /\ poll[p].pc = "asking" /\ PollGoes(p, "checking", poll[p].todo)
      /\ UNCHANGED <<tracker, handler, replay, memory, outside>>
  BY DEF Fine, Polls
<1>2. poll[p].todo \in SUBSET DOMAIN rows /\ poll[p].pc \notin Sending
  BY <1>1, PollKnows DEF Sending
<1> QED
  BY <1>1, <1>2, ListingOK

LEMMA EndPollOK ==
  ASSUME Base, NEW p \in DOMAIN poll, EndPoll(p)
  PROVE  Step /\ Calm /\ Frugal
  BY PollRestsOK DEF EndPoll, Polls, Sending

LEMMA AskForLossOK ==
  ASSUME Base, NEW p \in DOMAIN poll, NEW r \in DOMAIN rows, AskForLoss(p, r)
  PROVE  Step /\ Calm /\ Frugal
<1> DEFINE x == [pc |-> "asking", todo |-> poll[p].todo \ {r}, at |-> r]
<1>1. /\ poll[p].pc = "checking" /\ rows[r].ack /\ PollWaits(p, "asking", r)
      /\ UNCHANGED <<tracker, handler, replay, memory, outside>>
  BY DEF AskForLoss, Polls, ToCheck
<1>2. Moved /\ Gentle /\ Len(rows') = Len(rows)
  BY <1>1, StayMoved, BaseIs DEF tracker
<1>3. Step
  BY <1>1, <1>2, StaysMemory, PollWaitsOK
<1>4. poll' = [poll EXCEPT ![p] = x] /\ x.pc \notin Sending /\ x.pc # "recovering"
      /\ poll[p].pc \notin Sending
  BY <1>1 DEF PollWaits, Sending
<1> HIDE DEF x
<1> QED
  BY <1>1, <1>2, <1>3, <1>4, StaysMemory, PollCalm, PollFrugal, GentleCycle DEF Gentle

-----------------------------------------------------------------------------
(* Polls that send.                                                        *)

(* The terminal of a task that nobody is sending becomes in flight, and    *)
(* the poll sends it for the object that the tracker holds.                *)
SendStep(p, t) ==
  /\ t \in Task /\ cur[t] # 0 /\ t \notin sending /\ sending' = sending \cup {t}
  /\ cur' = cur /\ DOMAIN rows' = DOMAIN rows /\ cur[t] \in DOMAIN rows
  /\ rows'[cur[t]].cycle = Held(t).cycle /\ rows'[cur[t]].end = "none"
  /\ \A i \in DOMAIN rows : i # cur[t] => rows'[i] = rows[i]
  /\ UNCHANGED <<bus, cut, crashes>>
  /\ DOMAIN poll' = DOMAIN poll /\ poll[p].pc \notin Sending /\ poll'[p].pc \in Sending
  /\ poll'[p].wire.row = cur[t] /\ poll'[p].wire.cycle = Held(t).cycle
  /\ \A q \in DOMAIN poll : q # p => poll'[q] = poll[q]

LEMMA SendsAre ==
  ASSUME Base, NEW p \in DOMAIN poll, NEW r \in DOMAIN rows, NEW row, NEW file \in BOOLEAN,
         poll[p].pc # "idle", poll[p].pc \notin Sending, Sends(p, r, row, file),
         row.pend = "inflight", row.ids > 0,
         Evolves(Held(rows[r].task), row), row.cycle = Held(rows[r].task).cycle,
         row.end = "none", rows[r].task \notin sending,
         row.ack = Held(rows[r].task).ack, rows[r].ack,
         UNCHANGED <<handler, replay, acking, tries, outside>>
  PROVE  Step /\ Frugal /\ SendStep(p, rows[r].task)
<1> DEFINE t == rows[r].task
           w == Wire("TERMINAL", t, row.ids, cur[t] # r)
           x == [pc |-> IF Polls(p, "retrying") THEN "resending" ELSE "sending",
                 todo |-> poll[p].todo \ {r}, file |-> file, wire |-> w]
<1>1. Step
  BY SendsOK
<1>2. RowsOK /\ t \in Task /\ cur[t] # 0
  BY BaseIs
<1>3. /\ Track(t, row) /\ sending' = sending \cup {t} /\ poll' = [poll EXCEPT ![p] = x]
      /\ UNCHANGED <<bus, cut, crashes, tries>>
  BY DEF Sends, Track, outside
<1>4. /\ DOMAIN rows' = DOMAIN rows /\ cur' = cur /\ cur[t] \in DOMAIN rows /\ rows'[cur[t]] = row
      /\ \A i \in DOMAIN rows : i # cur[t] => rows'[i] = rows[i]
  BY <1>2, <1>3, TrackMoved
<1>5. x.pc \in Sending /\ x.wire = w /\ w.row = cur[t] /\ w.cycle = Held(t).cycle
  BY DEF Sending, Wire
<1> HIDE DEF x
<1>6. DOMAIN poll' = DOMAIN poll /\ poll'[p] = x /\ \A q \in DOMAIN poll : q # p => poll'[q] = poll[q]
  BY <1>3
<1>7. SendStep(p, t)
  BY <1>2, <1>3, <1>4, <1>5, <1>6 DEF SendStep
<1>8. CycleStays
  BY <1>4 DEF CycleStays, Held
<1>9. Frugal
  BY <1>3, <1>4, <1>5, <1>8, PollFrugal DEF Sending
<1> QED
  BY <1>1, <1>7, <1>9

SendOrNot(p, t) == Calm \/ SendStep(p, t)

LEMMA PrepareIs ==
  ASSUME Base, NEW p \in DOMAIN poll, NEW r \in DOMAIN rows, rows[r].ack, NEW file \in BOOLEAN,
         poll[p].pc # "idle", poll[p].pc \notin Sending, PrepareAndSend(p, r, file),
         UNCHANGED <<handler, replay, acking, tries, outside>>
  PROVE  Step /\ Frugal /\ SendOrNot(p, rows[r].task)
<1> DEFINE t == rows[r].task
<1>1. CASE MayPrepare(t)
  <2> DEFINE row == Prepared(Held(t))
  <2>1. /\ Held(t).end = "none" /\ Held(t).pend = "none" /\ t \notin sending
        /\ cur[t] # 0 /\ Held(t) \in GoodRow
    BY <1>1, BaseIs, RowsIs DEF MayPrepare, Open
  <2>2. /\ Evolves(Held(t), row) /\ row.pend = "inflight" /\ row.cycle = Held(t).cycle
        /\ row.ack = Held(t).ack /\ row.ids > 0 /\ row.end = Held(t).end
    BY <2>1, PreparedOK
  <2>3. Sends(p, r, row, file)
    BY <1>1 DEF PrepareAndSend
  <2> HIDE DEF row
  <2>4. Step /\ Frugal /\ SendStep(p, t)
    BY <2>1, <2>2, <2>3, SendsAre
  <2> QED
    BY <2>4 DEF SendOrNot
<1>2. CASE ~MayPrepare(t)
  <2>1. PollGoes(p, "checking", poll[p].todo \ {r}) /\ UNCHANGED <<tracker, sending>>
    BY <1>2 DEF PrepareAndSend
  <2>2. UNCHANGED <<tracker, handler, replay, memory, outside>>
    BY <2>1 DEF memory
  <2>3. poll[p].todo \ {r} \in SUBSET DOMAIN rows
    BY PollKnows
  <2> QED
    BY <2>1, <2>2, <2>3, ListingOK DEF SendOrNot
<1> QED
  BY <1>1, <1>2

LEMMA SendReceiptOK ==
  ASSUME Base, NEW p \in DOMAIN poll, NEW r \in DOMAIN rows, SendReceipt(p, r)
  PROVE  Step /\ Frugal /\ SendOrNot(p, rows[r].task)
  BY PrepareIs DEF SendReceipt, Polls, ToCheck, Sending

LEMMA LossSendsOK ==
  ASSUME Base, NEW p \in DOMAIN poll, DelayedReceipt(p) \/ GiveUp(p) \/ RecoveryFails(p)
  PROVE  Step /\ Frugal /\ SendOrNot(p, rows[poll[p].at].task)
<1>1. poll[p].pc \in {"asking", "recovering"}
  BY DEF DelayedReceipt, GiveUp, RecoveryFails, ToRecover, Polls
<1>2. poll[p].at \in DOMAIN rows /\ rows[poll[p].at].ack
  BY <1>1, PollKnows
<1>3. /\ \E file \in BOOLEAN : PrepareAndSend(p, poll[p].at, file)
      /\ UNCHANGED <<handler, replay, acking, tries, outside>>
  BY DEF DelayedReceipt, GiveUp, RecoveryFails
<1> QED
  BY <1>1, <1>2, <1>3, PrepareIs DEF Sending

LEMMA ResendOK ==
  ASSUME Base, NEW p \in DOMAIN poll, NEW r \in DOMAIN rows, Resend(p, r)
  PROVE  Step /\ Frugal /\ SendOrNot(p, rows[r].task)
<1> DEFINE t == rows[r].task
           row == Inflight(Held(t))
<1>1. /\ poll[p].pc = "retrying" /\ rows[r].ack /\ Held(t).end = "none" /\ t \notin sending
      /\ Held(t).pend = "prepared" /\ Sends(p, r, row, TRUE)
      /\ UNCHANGED <<handler, replay, acking, tries, outside>>
  BY DEF Resend, MayRetry, Open, Polls
<1>2. Held(t) \in GoodRow
  BY BaseIs, RowsIs
<1>3. /\ Evolves(Held(t), row) /\ row.pend = "inflight" /\ row.cycle = Held(t).cycle
      /\ row.ack = Held(t).ack /\ row.ids > 0 /\ row.end = Held(t).end
  BY <1>1, <1>2, InflightOK
<1> HIDE DEF row
<1> QED
  BY <1>1, <1>3, SendsAre DEF SendOrNot, Sending

(* What was in flight when the editor stopped is taken for delivered.      *)
LEMMA TakeForSentOK ==
  ASSUME Base, NEW p \in DOMAIN poll, NEW r \in DOMAIN rows, TakeForSent(p, r)
  PROVE  Step /\ Frugal
<1> DEFINE t == rows[r].task
           x == [pc |-> "retrying", todo |-> poll[p].todo \ {r}]
<1>1. /\ poll[p].pc = "retrying" /\ Track(t, Delivered(Held(t)))
      /\ receipt' = [receipt EXCEPT ![t] = "none"]
      /\ PollGoes(p, "retrying", poll[p].todo \ {r})
      /\ UNCHANGED <<handler, replay, memory, settled, bus, cut, left, crashes>>
      /\ t \in Task /\ cur[t] # 0 /\ RowsOK /\ Held(t) \in GoodRow
  BY BaseIs, RowsIs DEF TakeForSent, Polls
<1>2. Evolves(Held(t), Delivered(Held(t))) /\ Delivered(Held(t)).cycle = Held(t).cycle
  BY <1>1, DeliveredOK
<1>3. /\ Moved /\ Len(rows') = Len(rows) /\ DOMAIN rows' = DOMAIN rows /\ cur' = cur
      /\ rows'[cur[t]] = Delivered(Held(t))
      /\ \A i \in DOMAIN rows : i # cur[t] => rows'[i] = rows[i]
  BY <1>1, <1>2, TrackMoved
<1>4. MemoryOK' /\ bus' \subseteq Known /\ cut' = cut
  BY <1>1 DEF Base, MemoryOK, memory, Known
<1>5. poll[p].todo \ {r} \in SUBSET DOMAIN rows
  BY <1>1, PollKnows
<1>6. Step
  BY <1>1, <1>3, <1>4, <1>5, PollGoesOK
<1>7. poll' = [poll EXCEPT ![p] = x] /\ x.pc # "recovering" /\ UNCHANGED <<tries, crashes>>
  BY <1>1 DEF PollGoes, memory
<1> HIDE DEF x
<1>8. CycleStays
  BY <1>2, <1>3 DEF CycleStays, Held
<1>9. Frugal
  BY <1>3, <1>7, <1>8, PollFrugal
<1> QED
  BY <1>6, <1>9

LEMMA TerminalEndsOK ==
  ASSUME Base, NEW p \in DOMAIN poll, NEW ok \in BOOLEAN, TerminalEnds(p, ok)
  PROVE  Step /\ Frugal
<1> DEFINE w == poll[p].wire
           t == rows[w.row].task
           new == IF ok THEN Delivered(Held(t)) ELSE NotSent(Held(t))
           pc == IF Polls(p, "resending") THEN "retrying" ELSE "checking"
           x == [pc |-> pc, todo |-> poll[p].todo]
<1>1. poll[p].pc \in Sending /\ w \in Known /\ poll[p].todo \in SUBSET DOMAIN rows
      /\ w \in Wiring
  BY PollKnows DEF TerminalEnds, Sending
<1>2. t \in Task /\ cur[t] # 0 /\ RowsOK /\ Held(t) \in GoodRow
  BY <1>1, BaseIs, RowsIs DEF Wiring
<1>3. /\ Ends(ok, w) /\ Track(t, new) /\ sending' = sending \ {t}
      /\ receipt' \in {receipt, [receipt EXCEPT ![t] = "none"]}
      /\ PollGoes(p, pc, poll[p].todo)
      /\ UNCHANGED <<handler, replay, acking, tries, settled, cut, crashes>>
  BY DEF TerminalEnds
<1>4. Evolves(Held(t), new) /\ new.cycle = Held(t).cycle
  BY <1>2, DeliveredOK, NotSentOK
<1> HIDE DEF new
<1>5. /\ Moved /\ Len(rows') = Len(rows) /\ DOMAIN rows' = DOMAIN rows /\ cur' = cur
      /\ rows'[cur[t]] = new
      /\ \A i \in DOMAIN rows : i # cur[t] => rows'[i] = rows[i]
  BY <1>2, <1>3, <1>4, TrackMoved
<1>6. bus' \subseteq Known /\ left' \in Nat
  BY <1>1, <1>3, EndsOK
<1>7. MemoryOK'
  BY <1>3, <1>6 DEF Base, MemoryOK
<1>8. pc \in {"retrying", "checking"}
  OBVIOUS
<1>9. poll' = [poll EXCEPT ![p] = x] /\ x.pc # "recovering"
  BY <1>3 DEF PollGoes
<1> HIDE DEF x, pc
<1>10. Step
  BY <1>1, <1>3, <1>5, <1>6, <1>7, <1>8, PollGoesOK
<1>11. CycleStays
  BY <1>4, <1>5 DEF CycleStays, Held
<1>12. Frugal
  BY <1>3, <1>5, <1>9, <1>11, PollFrugal
<1> QED
  BY <1>10, <1>12

-----------------------------------------------------------------------------
(* Recoveries.                                                             *)

LEMMA RecoverOK ==
  ASSUME Base, NEW p \in DOMAIN poll, Recover(p)
  PROVE  Step /\ Calm /\ Gentle
<1> DEFINE r == poll[p].at
           t == rows[r].task
           x == [pc |-> "recovering", todo |-> poll[p].todo \ {r}, at |-> r]
<1>1. /\ poll[p].pc = "asking" /\ tries[t] < MaxRecoveries
      /\ tries' = [tries EXCEPT ![t] = @ + 1] /\ rows' = Ended(r) /\ PollWaits(p, "recovering", r)
      /\ UNCHANGED <<cur, handler, replay, sending, acking, outside>>
  BY DEF Recover, ToRecover, Polls
<1>2. r \in DOMAIN rows /\ rows[r].ack /\ t \in Task
  BY <1>1, PollKnows
<1>3. Moved /\ Gentle /\ Len(rows') = Len(rows)
  BY <1>1, <1>2, BaseIs, LiveMoved DEF Ended, Sessions
<1>4. MemoryOK'
  <2>1. tries[t] + 1 \in 0 .. MaxRecoveries /\ tries \in [Task -> 0 .. MaxRecoveries]
    BY <1>1, <1>2, Constants DEF Base, MemoryOK
  <2>2. tries' \in [Task -> 0 .. MaxRecoveries]
    BY <1>1, <2>1
  <2> QED
    BY <1>1, <2>2 DEF Base, MemoryOK, outside
<1>5. bus' \subseteq Known /\ UNCHANGED <<bus, cut>>
  BY <1>1 DEF outside, Known
<1>6. Step
  BY <1>1, <1>2, <1>3, <1>4, <1>5, PollWaitsOK
<1>7. poll' = [poll EXCEPT ![p] = x] /\ x.pc \notin Sending /\ poll[p].pc \notin Sending
  BY <1>1 DEF PollWaits, Sending
<1> HIDE DEF x
<1>8. Calm
  BY <1>1, <1>3, <1>5, <1>7, PollCalm
<1> QED
  BY <1>3, <1>6, <1>8

LEMMA RecoveredOK ==
  ASSUME Base, NEW p \in DOMAIN poll, Recovered(p)
  PROVE  Step /\ Calm
<1> DEFINE t == rows[poll[p].at].task
           new == Reopened(Held(t))
           x == [pc |-> "checking", todo |-> poll[p].todo]
<1>1. /\ poll[p].pc = "recovering" /\ Track(t, new) /\ PollGoes(p, "checking", poll[p].todo)
      /\ UNCHANGED <<handler, replay, memory, outside>>
  BY DEF Recovered, Polls
<1>2. /\ t \in Task /\ cur[t] # 0 /\ RowsOK /\ Held(t) \in GoodRow
      /\ poll[p].todo \in SUBSET DOMAIN rows
  BY <1>1, PollKnows, BaseIs, RowsIs
<1>3. Evolves(Held(t), new) /\ new.end = "none" /\ new.pend = "none"
  BY <1>2, ReopenedOK
<1> HIDE DEF new
<1>4. /\ Moved /\ Len(rows') = Len(rows) /\ DOMAIN rows' = DOMAIN rows /\ cur' = cur
      /\ rows'[cur[t]] = new
      /\ \A i \in DOMAIN rows : i # cur[t] => rows'[i] = rows[i]
  BY <1>1, <1>2, <1>3, TrackMoved
<1>5. Step
  BY <1>1, <1>2, <1>4, StaysMemory, PollGoesOK
<1>6. poll' = [poll EXCEPT ![p] = x] /\ x.pc \notin Sending /\ poll[p].pc \notin Sending
  BY <1>1 DEF PollGoes, Sending
<1> HIDE DEF x
<1>7. \A i \in DOMAIN rows : Similar(rows[i], rows'[i]) \/ (rows'[i].end = "none" /\ rows'[i].pend = "none")
  BY <1>3, <1>4 DEF Similar
<1>8. Calm
  BY <1>1, <1>4, <1>6, <1>7, StaysMemory DEF Calm
<1> QED
  BY <1>5, <1>8

-----------------------------------------------------------------------------
(* Sessions and crashes.                                                   *)

LEMMA SessionStepOK ==
  ASSUME Base, NEW r \in DOMAIN rows, SessionStep(r)
  PROVE  Step /\ Quiet
<1>1. PICK to \in Sessions : rows' = [rows EXCEPT ![r].live = to]
  BY DEF SessionStep, WriteReceipt, SpoilReceipt, FallSilent, Vanish, SessionGoes, Sessions
<1>2. UNCHANGED <<cur, handler, poll, replay, memory, settled, bus, cut, crashes>>
  BY DEF SessionStep, WriteReceipt, SpoilReceipt, FallSilent, Vanish, SessionGoes
<1>2a. receipt' = receipt \/ \E file \in {"good", "bad"} : Writes(r, file)
  BY DEF SessionStep, WriteReceipt, SpoilReceipt, FallSilent, Vanish
<1>2b. left' = left \/ (left' = left - 1 /\ left > 0)
  BY DEF SessionStep, WriteReceipt, SpoilReceipt, FallSilent, Vanish, Fault
<1>3. Moved /\ Gentle /\ Len(rows') = Len(rows)
  BY <1>1, <1>2, BaseIs, LiveMoved
<1>4. MemoryOK'
  BY <1>2, <1>2a, <1>2b, BaseIs DEF Base, MemoryOK, memory, Writes
<1>5. HandlersOK' /\ PollsOK' /\ ReplayOK'
  BY <1>2, <1>3, HandlersStay, PollsStay, ReplayStaysOK, BaseIs
<1>6. BusOK'
  BY <1>2, <1>3, Grows, BaseIs DEF BusOK
<1>7. RoomOK'
  BY <1>2, <1>3 DEF Base, RoomOK, Coming
<1>8. Advances
  BY <1>2 DEF Advances, Known, InTheAir
<1> QED
  BY <1>2, <1>3, <1>4, <1>5, <1>6, <1>7, <1>8 DEF Step, Base, Moved, Quiet, memory

LEMMA StopOK ==
  ASSUME Base, Stop, Moved, RoomOK'
  PROVE  Step
<1>1. PICK stored \in SUBSET InTheAir :
        /\ bus' = bus \cup stored
        /\ cut' = cut \cup {w.row : w \in {x \in InTheAir \ stored : x.kind = "TERMINAL"}}
  BY DEF Stop
<1>2. InTheAir \subseteq Wiring
  BY AirIsWired, BaseIs
<1>3. BusOK'
  <2>1. \A w \in InTheAir : w.row \in DOMAIN rows
    BY <1>2 DEF Wiring
  <2>2. bus' \subseteq Wiring'
    BY <1>1, <1>2, Grows, BaseIs DEF BusOK
  <2>3. cut' \subseteq DOMAIN rows'
    BY <1>1, <2>1, Grows, BaseIs DEF BusOK
  <2> QED
    BY <2>2, <2>3 DEF BusOK
<1>4. /\ handler' = [h \in DOMAIN handler |-> Idle] /\ poll' = [p \in DOMAIN poll |-> Idle]
      /\ replay' = Idle
  BY DEF Stop
<1>5. HandlersOK' /\ PollsOK' /\ ReplayOK'
  <2>1. HandlerFits(Idle, Wiring', Tracked')
    BY DEF HandlerFits, Idle, Handlers
  <2>2. PollFits(Idle, DOMAIN rows', Wiring', AckSent') /\ ReplayFits(Idle, DOMAIN rows', Wiring')
    BY PollForms, ReplayForms
  <2> QED
    BY <1>4, <2>1, <2>2 DEF HandlersOK, PollsOK, ReplayOK, Base
<1>6. MemoryOK'
  <2>1. 0 \in 0 .. MaxRecoveries
    BY Constants
  <2>2. tries' \in [Task -> 0 .. MaxRecoveries]
    BY <2>1 DEF Stop
  <2>3. left' \in Nat /\ crashes' \in Nat
    BY DEF Stop, Fault, Base, MemoryOK
  <2> QED
    BY <2>2, <2>3 DEF Stop, Base, MemoryOK
<1>7. InTheAir' = {}
  <2>1. ~Carries(Idle.pc)
    BY DEF Idle, Carries
  <2>2. \A w : w \notin Wires(handler') /\ w \notin Wires(poll')
    BY <1>4, <2>1, WiresIs
  <2>3. \A w : w \notin Wires([x \in {0} |-> replay'])
    BY <1>4, <2>1, ReplayWire
  <2> QED
    BY <2>2, <2>3 DEF InTheAir
<1>8. Advances
  BY <1>1, <1>7 DEF Advances, Known
<1> QED
  BY <1>3, <1>5, <1>6, <1>8 DEF Step, Base, Moved

LEMMA CrashOK == ASSUME Base, Crash PROVE Step /\ Gentle
<1>1. Stop /\ Moved /\ Gentle /\ Len(rows') = Len(rows)
  BY StayMoved, BaseIs DEF Crash, tracker
<1>2. Coming' \subseteq Coming
  BY <1>1 DEF Stop, Coming, Idle, Arriving
<1>3. RoomOK'
  BY <1>1, <1>2, ComingEnds, BaseIs
<1> QED
  BY <1>1, <1>3, StopOK

LEMMA CrashInRegisterOK ==
  ASSUME Base, NEW h \in DOMAIN handler, CrashInRegister(h)
  PROVE  Step /\ Gentle
<1> DEFINE m == handler[h].msg
           t == TaskOf[m]
           new == Registered(m)
<1>1. /\ handler[h].pc = "creating" /\ Stop /\ m \in Message /\ t \in Task
      /\ rows' = Append(rows, new) /\ cur' = [cur EXCEPT ![t] = Len(rows) + 1]
  BY HandlerKnows DEF CrashInRegister, In, TaskAt
<1>2. new \in GoodRow /\ new.task = t /\ Blank(new)
  BY <1>1, RegisteredOK DEF Blank
<1> HIDE DEF new
<1>3. Moved /\ Gentle /\ Len(rows') = Len(rows) + 1
  BY <1>1, <1>2, RegisterMoved, BaseIs
<1>4. h \in Coming /\ Coming' \subseteq Coming \ {h}
  BY <1>1 DEF Stop, Coming, Idle, Arriving
<1>5. RoomOK'
  BY <1>3, <1>4, ComingLess, BaseIs
<1> QED
  BY <1>1, <1>3, <1>5, StopOK

-----------------------------------------------------------------------------
(* Every step.                                                             *)

LEMMA HandlerStepIs ==
  ASSUME Base, NEW h \in DOMAIN handler, HandlerStep(h)
  PROVE  Step /\ Quiet
<1>1. CASE \E m \in Message : Reuse(h, m) \/ ReplayAck(h, m) \/ Supersede(h, m) \/ TakeUp(h, m)
  BY <1>1, ReuseOK, ReplayAckOK, SupersedeOK, TakeUpOK
<1>2. CASE Superseded(h) \/ Preempted(h) \/ Register(h)
  BY <1>2, SupersededOK, PreemptedOK, RegisterOK
<1>3. CASE \E ok \in BOOLEAN : HandlerAckEnds(h, ok) \/ Settle(h, ok)
  BY <1>3, HandlerAckEndsOK, SettleOK
<1>4. CASE \E ok \in BOOLEAN : NoSession(h, ok) \/ Refused(h, ok)
  BY <1>4, BlockOK DEF NoSession, Refused
<1> QED
  BY <1>1, <1>2, <1>3, <1>4 DEF HandlerStep

LEMMA ReplayStepIs == ASSUME Base, ReplayStep PROVE Step /\ Quiet
  BY BeginReplayOK, EndReplayOK, ReplayNextOK, ReplayAckEndsOK DEF ReplayStep

LEMMA PollStepIs ==
  ASSUME Base, NEW p \in DOMAIN poll, PollStep(p)
  PROVE  /\ Step
         /\ \/ Calm /\ Frugal
            \/ Frugal /\ \E t \in Task : SendStep(p, t)
            \/ Calm /\ (Recover(p) \/ Recovered(p))
            \/ Frugal /\ \E r \in DOMAIN rows : TakeForSent(p, r)
            \/ Frugal /\ \E ok \in BOOLEAN : TerminalEnds(p, ok)
<1>1. CASE BeginPoll(p) \/ BeginCheck(p) \/ Fine(p) \/ EndPoll(p)
           \/ \E r \in DOMAIN rows : AskForLoss(p, r)
  BY <1>1, BeginPollOK, BeginCheckOK, FineOK, EndPollOK, AskForLossOK
<1>2. CASE DelayedReceipt(p) \/ GiveUp(p) \/ RecoveryFails(p)
  BY <1>2, LossSendsOK DEF SendOrNot, SendStep
<1>3. CASE \E r \in DOMAIN rows : Resend(p, r) \/ SendReceipt(p, r)
  BY <1>3, ResendOK, SendReceiptOK DEF SendOrNot, SendStep
<1>4. CASE Recover(p) \/ Recovered(p)
  BY <1>4, RecoverOK, RecoveredOK
<1>5. CASE \E r \in DOMAIN rows : TakeForSent(p, r)
  BY <1>5, TakeForSentOK
<1>6. CASE \E ok \in BOOLEAN : TerminalEnds(p, ok)
  BY <1>6, TerminalEndsOK
<1> QED
  BY <1>1, <1>2, <1>3, <1>4, <1>5, <1>6 DEF PollStep

LEMMA StutterIs == ASSUME Base, UNCHANGED vars PROVE Step /\ Quiet
<1>1. UNCHANGED <<tracker, handler, poll, replay, memory, outside>>
  BY DEF vars
<1>2. Moved /\ Gentle /\ Len(rows') = Len(rows)
  BY <1>1, StayMoved, BaseIs DEF tracker
<1>3. HandlersOK' /\ PollsOK' /\ ReplayOK'
  BY <1>1, <1>2, HandlersStay, PollsStay, ReplayStaysOK, BaseIs
<1>4. BusOK'
  BY <1>1, <1>2, Grows, BaseIs DEF BusOK, outside
<1>5. RoomOK'
  BY <1>1, <1>2 DEF Base, RoomOK, Coming
<1>6. Advances
  BY <1>1 DEF Advances, Known, InTheAir, outside
<1> QED
  BY <1>1, <1>2, <1>3, <1>4, <1>5, <1>6, StaysMemory DEF Step, Base, Moved, Quiet, outside, memory

(* The kinds of steps, as far as messages, sends and recoveries go.        *)
Kinds ==
  \/ Calm /\ Frugal
  \/ \E p \in DOMAIN poll :
       \/ Frugal /\ \E t \in Task : SendStep(p, t)
       \/ Calm /\ (Recover(p) \/ Recovered(p))
       \/ Frugal /\ \E r \in DOMAIN rows : TakeForSent(p, r)
       \/ Frugal /\ \E ok \in BOOLEAN : TerminalEnds(p, ok)
  \/ Stop /\ Gentle

LEMMA Steps == ASSUME Base, [Next]_vars PROVE Step /\ Kinds
<1>1. CASE \E h \in DOMAIN handler : HandlerStep(h)
  BY <1>1, HandlerStepIs, QuietIsCalm DEF Kinds
<1>2. CASE \E h \in DOMAIN handler : CrashInRegister(h)
  BY <1>2, CrashInRegisterOK DEF Kinds, CrashInRegister
<1>3. CASE \E p \in DOMAIN poll : PollStep(p)
  BY <1>3, PollStepIs DEF Kinds
<1>4. CASE \E r \in DOMAIN rows : SessionStep(r)
  BY <1>4, SessionStepOK, QuietIsCalm DEF Kinds
<1>5. CASE ReplayStep
  BY <1>5, ReplayStepIs, QuietIsCalm DEF Kinds
<1>6. CASE Crash
  BY <1>6, CrashOK DEF Kinds, Crash
<1>7. CASE UNCHANGED vars
  BY <1>7, StutterIs, QuietIsCalm DEF Kinds
<1> QED
  BY <1>1, <1>2, <1>3, <1>4, <1>5, <1>6, <1>7 DEF Next

LEMMA InitBase == Init => Base
<1> SUFFICES ASSUME Init PROVE Base
  OBVIOUS
<1>1. PICK s \in Scenarios :
        /\ settled = Message \ s.inbox /\ left = s.faults
        /\ handler = [h \in s.handlers |-> Idle] /\ poll = [p \in s.polls |-> Idle]
  BY DEF Init
<1>2. s.handlers \subseteq Handler /\ s.polls \subseteq Poller /\ s.faults \in Nat
  BY Constants
<1>3. rows = <<>> /\ cur = [t \in Task |-> 0] /\ Len(rows) = 0 /\ rows \in Seq(GoodRow)
      /\ DOMAIN rows = {}
  BY DEF Init
<1>4. RowsOK
  BY <1>3 DEF RowsOK
<1>5. MemoryOK
  <2>1. 0 \in 0 .. MaxRecoveries
    BY Constants
  <2>2. tries \in [Task -> 0 .. MaxRecoveries]
    BY <2>1 DEF Init
  <2> QED
    BY <1>1, <1>2, <2>2 DEF Init, MemoryOK
<1>6. BusOK
  BY DEF Init, BusOK
<1>7. HandlersOK /\ PollsOK /\ ReplayOK
  <2>1. HandlerFits(Idle, Wiring, Tracked)
    BY DEF HandlerFits, Idle, Handlers
  <2>2. PollFits(Idle, DOMAIN rows, Wiring, AckSent) /\ ReplayFits(Idle, DOMAIN rows, Wiring)
    BY PollForms, ReplayForms
  <2> QED
    BY <1>1, <1>2, <2>1, <2>2 DEF HandlersOK, PollsOK, ReplayOK, Init
<1>8. RoomOK
  <2>1. Coming = {}
    BY <1>1 DEF Coming, Idle, Arriving
  <2> QED
    BY <1>3, <2>1, FS_EmptySet, Constants DEF RoomOK
<1> QED
  BY <1>4, <1>5, <1>6, <1>7, <1>8 DEF Base

(* What the code knows at any time of its objects, of what it awaits and   *)
(* of what it has to send.                                                 *)
THEOREM DelegationInvariance == Spec => []Base
<1>1. Base /\ [Next]_vars => Base'
  BY Steps DEF Step
<1> QED
  BY <1>1, InitBase, PTL DEF Spec

(* The tracker, the flows and the bus keep their types.                    *)
THEOREM DelegationTypes == Spec => []TypeOK
<1>1. Base => TypeOK
  <2> SUFFICES ASSUME Base PROVE TypeOK
    OBVIOUS
  <2>1. rows \in Seq(Row) /\ Len(rows) <= MaxRows
    <3>1. GoodRow \subseteq Row
      BY DEF GoodRow
    <3>2. rows \in Seq(Row)
      BY <3>1, BaseIs DEF RowsOK
    <3>3. Cardinality(Coming) \in Nat
      BY ComingFinite, BaseIs
    <3> QED
      BY <3>2, <3>3, BaseIs, Constants DEF RoomOK
  <2>2. \A h \in DOMAIN handler :
       \/ handler[h] \in Handlers
       \/ handler[h] \in [pc: {"preempting"}, msg: Message, other: Task]
       \/ handler[h] \in [pc: {"acking"}, msg: Message, wire: Wiring]
    BY BaseIs DEF HandlerFits
  <2>3. \A p \in DOMAIN poll :
       \/ poll[p] = Idle
       \/ poll[p] \in [pc: {"retrying", "checking"}, todo: SUBSET DOMAIN rows]
       \/ poll[p] \in [pc: {"asking", "recovering"}, todo: SUBSET DOMAIN rows, at: DOMAIN rows]
       \/ poll[p] \in [pc: {"resending", "sending"}, todo: SUBSET DOMAIN rows,
                       file: BOOLEAN, wire: Wiring]
    BY BaseIs DEF PollFits
  <2>4. \/ replay = Idle
        \/ replay \in [pc: {"listing"}, todo: SUBSET DOMAIN rows]
        \/ replay \in [pc: {"acking"}, todo: SUBSET DOMAIN rows, wire: Wiring]
    BY BaseIs DEF ReplayFits
  <2>5. DOMAIN handler \subseteq Handler /\ DOMAIN poll \subseteq Poller
    BY BaseIs DEF HandlersOK, PollsOK
  <2>6. MemoryOK /\ BusOK /\ RowsOK
    BY BaseIs
  <2> QED
    BY <2>1, <2>2, <2>3, <2>4, <2>5, <2>6 DEF TypeOK, MemoryOK, BusOK, RowsOK
<1> QED
  BY <1>1, DelegationInvariance, PTL
=============================================================================
