---- MODULE AgentBus_proofs ----
(***************************************************************************)
(* Proofs about AgentBus, for every set of consumers, every filter, lease, *)
(* lock wait and bound.                                                    *)
(***************************************************************************)
EXTENDS AgentBus, TLAPS

\* A hold is on a message that was sent, and carries a claim of its holder
\* that no other hold carries.
HoldsOK ==
  \A c \in Clients : \A h \in batch[c] :
     /\ h.id <= sent
     /\ h.claim.by = c
     /\ \A g \in batch[c] : g.claim = h.claim => g = h

\* Rows beyond the last message are blank.
RowsOK == \A i \in Ids : i > sent => rows[i].claim = NoClaim /\ ~rows[i].read

\* Who is working on a message holds it.
CurOK == \A c \in Clients : pc[c] \in {"applying", "settling"} => cur[c] \in batch[c]

\* Holder and table agree on what is left of a lease.
LeaseOK ==
  \A c \in Clients : \A h \in batch[c] :
     rows[h.id].claim = h.claim => rows[h.id].left = h.left

\* A daemon about to apply a message has seen that it is not stale.
AheadOfLast ==
  \A c \in Clients :
     pc[c] = "applying" /\ rows[cur[c].id].topic \in Knows[c]
       => last[c][rows[cur[c].id].topic] < cur[c].id

IInv ==
  /\ TypeOK
  /\ HoldsOK
  /\ RowsOK
  /\ CurOK
  /\ LeaseOK
  /\ OneLiveHolder
  /\ LeaseIsHonoured
  /\ AheadOfLast

LEMMA Constants ==
  /\ Limit \in Nat /\ Lease \in Nat /\ MaxLag \in Nat /\ MaxMessages \in Nat
  /\ MaxFaults \in Nat /\ Serials \subseteq Nat /\ Kinds \subseteq MessageKinds
  /\ NoOne \notin Clients
  /\ Filters \in [Clients -> SUBSET SUBSET Topics]
  /\ Knows \in [Clients -> SUBSET Topics]
  /\ Floor \in Int /\ Floor \in Left /\ Floor = -(MaxLag + 1)
  BY ClientAssumption, BoundAssumption DEF Floor, Left

LEMMA InitOK == Init => IInv
<1>1. Init => TypeOK
  BY Constants DEF Init, TypeOK, Row, MessageKinds, Hold, NoHold, Claim, NoClaim, Ids, Pcs, Left
<1>2. Init => HoldsOK /\ RowsOK /\ CurOK /\ LeaseOK /\ OneLiveHolder /\ LeaseIsHonoured
  BY DEF Init, HoldsOK, RowsOK, CurOK, LeaseOK, OneLiveHolder, LeaseIsHonoured
<1>3. Init => AheadOfLast
  BY DEF Init, AheadOfLast
<1> QED
  BY <1>1, <1>2, <1>3 DEF IInv

-----------------------------------------------------------------------------
(* Steps that leave the table alone: the holds only shrink.                *)

LEMMA ShrinkKeeps ==
  ASSUME IInv, TypeOK', UNCHANGED <<sent, rows, acked>>,
         \A c \in Clients : batch'[c] \subseteq batch[c],
         \A c \in Clients : pc[c] = "printing" => pc'[c] = "printing" \/ batch'[c] = {},
         CurOK', AheadOfLast'
  PROVE  IInv'
<1>1. HoldsOK'
  BY DEF IInv, HoldsOK
<1>2. RowsOK'
  BY DEF IInv, RowsOK
<1>3. LeaseOK'
  BY DEF IInv, LeaseOK
<1>4. OneLiveHolder'
  BY DEF IInv, OneLiveHolder
<1>5. LeaseIsHonoured'
  <2> SUFFICES ASSUME NEW c \in Clients, NEW h \in batch'[c], h.left >= 0
               PROVE  \/ rows[h.id].claim = h.claim /\ (rows[h.id].read => h.id \in acked)
                      \/ rows[h.id].read /\ pc'[c] = "printing"
    BY DEF LeaseIsHonoured
  <2>1. \/ rows[h.id].claim = h.claim /\ (rows[h.id].read => h.id \in acked)
        \/ rows[h.id].read /\ pc[c] = "printing"
    BY DEF IInv, LeaseIsHonoured
  <2> QED
    BY <2>1
<1> QED
  BY <1>1, <1>2, <1>3, <1>4, <1>5 DEF IInv

\* Putting a message down, and giving up, only shrink a batch.
LEMMA PutDownKeeps ==
  ASSUME IInv, NEW c \in Clients, pc[c] \in {"applying", "settling"}, PutDown(c),
         UNCHANGED <<rows, storeVars>>, faults' \in 0 .. MaxFaults
  PROVE  IInv'
<1>1. TypeOK'
  BY DEF IInv, TypeOK, PutDown, storeVars, Pcs
<1>2. CurOK'
  BY DEF IInv, CurOK, PutDown, TypeOK
<1>3. AheadOfLast'
  BY DEF IInv, AheadOfLast, PutDown, TypeOK, storeVars
<1>4. UNCHANGED <<sent, rows, acked>> /\ \A d \in Clients : batch'[d] \subseteq batch[d]
  BY DEF IInv, PutDown, TypeOK
<1>5. \A d \in Clients : pc[d] = "printing" => pc'[d] = "printing"
  BY DEF IInv, PutDown, TypeOK
<1> QED
  BY <1>1, <1>2, <1>3, <1>4, <1>5, ShrinkKeeps

LEMMA GiveUpKeeps ==
  ASSUME IInv, NEW c \in Clients, GiveUp(c), faults' \in 0 .. MaxFaults
  PROVE  IInv'
<1>1. TypeOK'
  BY Constants DEF IInv, TypeOK, GiveUp, storeVars, Pcs
<1>2. CurOK'
  BY DEF IInv, CurOK, GiveUp, TypeOK
<1>3. AheadOfLast'
  BY DEF IInv, AheadOfLast, GiveUp, TypeOK, storeVars
<1>4. UNCHANGED <<sent, rows, acked>> /\ \A d \in Clients : batch'[d] \subseteq batch[d]
  BY DEF IInv, GiveUp, TypeOK
<1>5. \A d \in Clients : pc[d] = "printing" => pc'[d] = "printing" \/ batch'[d] = {}
  BY DEF IInv, GiveUp, TypeOK
<1> QED
  BY <1>1, <1>2, <1>3, <1>4, <1>5, ShrinkKeeps

LEMMA FaultType == ASSUME TypeOK, Fault PROVE faults' \in 0 .. MaxFaults
  BY Constants DEF TypeOK, Fault

\* last_receipt_id after a message was applied.
LEMMA ApplyLast ==
  ASSUME IInv, NEW c \in Clients, Apply(c)
  PROVE  \E t \in Topics, j \in {cur[c].id, 0} :
            /\ t = rows[cur[c].id].topic
            /\ last' = last \/ last' = [last EXCEPT ![c] = [last[c] EXCEPT ![t] = j]]
<1>1. cur[c] \in Hold /\ rows[cur[c].id].topic \in Topics
  <2>1. pc[c] = "applying" /\ rows[cur[c].id].topic \in Knows[c]
    BY DEF Apply
  <2>2. cur[c] \in Hold
    BY <2>1 DEF IInv, CurOK, TypeOK
  <2> QED
    BY <2>1, <2>2, Constants
<1>2. rows[cur[c].id] \in Row
  BY <1>1 DEF IInv, TypeOK, Hold
<1>3. rows[cur[c].id].kind \in MessageKinds
  BY <1>2 DEF Row
<1> QED
  BY <1>1, <1>3 DEF Apply, MessageKinds

LEMMA QuietSteps ==
  ASSUME IInv, NEW c \in Clients,
         \/ BeginRound(c) \/ ReserveCall(c) \/ ReserveFails(c) \/ EndRound(c)
         \/ Record(c) \/ Apply(c) \/ Refuse(c) \/ HandOver(c) \/ HandOverThrows(c)
         \/ SettleFails(c) \/ PullPrint(c) \/ Crash(c) \/ \E t \in Topics : Retry(c, t)
  PROVE  IInv'
<1> USE DEF storeVars, clientVars
<1>1. CASE BeginRound(c)
  <2>1. TypeOK'
    BY <1>1, Constants DEF IInv, TypeOK, BeginRound, Pcs
  <2>2. CurOK' /\ AheadOfLast'
    BY <1>1 DEF IInv, TypeOK, BeginRound, CurOK, AheadOfLast
  <2>3. \A d \in Clients : pc[d] = "printing" => pc'[d] = "printing"
    BY <1>1 DEF IInv, TypeOK, BeginRound
  <2> QED
    BY <1>1, <2>1, <2>2, <2>3, ShrinkKeeps DEF BeginRound
<1>2. CASE ReserveCall(c)
  <2>1. TypeOK'
    BY <1>2, Constants DEF IInv, TypeOK, ReserveCall, Pcs
  <2>2. CurOK' /\ AheadOfLast'
    BY <1>2 DEF IInv, TypeOK, ReserveCall, CurOK, AheadOfLast
  <2>3. \A d \in Clients : pc[d] = "printing" => pc'[d] = "printing"
    BY <1>2 DEF IInv, TypeOK, ReserveCall
  <2> QED
    BY <1>2, <2>1, <2>2, <2>3, ShrinkKeeps DEF ReserveCall
<1>3. CASE ReserveFails(c)
  <2>1. faults' \in 0 .. MaxFaults
    BY <1>3, FaultType DEF ReserveFails, IInv
  <2>2. TypeOK'
    BY <1>3, <2>1, Constants DEF IInv, TypeOK, ReserveFails, AfterReserve, Pcs
  <2>3. CurOK' /\ AheadOfLast'
    BY <1>3 DEF IInv, TypeOK, ReserveFails, AfterReserve, CurOK, AheadOfLast
  <2>4. \A d \in Clients : pc[d] = "printing" => pc'[d] = "printing"
    BY <1>3 DEF IInv, TypeOK, ReserveFails, AfterReserve
  <2> QED
    BY <1>3, <2>2, <2>3, <2>4, ShrinkKeeps DEF ReserveFails, AfterReserve
<1>4. CASE EndRound(c)
  <2>1. TypeOK'
    BY <1>4 DEF IInv, TypeOK, EndRound, Pcs
  <2>2. CurOK' /\ AheadOfLast'
    BY <1>4 DEF IInv, TypeOK, EndRound, CurOK, AheadOfLast
  <2>3. \A d \in Clients : pc[d] = "printing" => pc'[d] = "printing"
    BY <1>4 DEF IInv, TypeOK, EndRound
  <2> QED
    BY <1>4, <2>1, <2>2, <2>3, ShrinkKeeps DEF EndRound
<1>5. CASE Record(c)
  <2> PICK h \in Heads(c) :
        /\ receipts' = [receipts EXCEPT ![c] = @ \union {h.id}]
        /\ TakeUp(c, h, IF h.id \in receipts[c] \/ IsStale(c, h.id)
                        THEN "settling" ELSE "applying")
    BY <1>5 DEF Record
  <2>1. h \in batch[c] /\ h \in Hold /\ h.id \in Ids
    BY DEF Heads, IInv, TypeOK, Hold
  <2>2. TypeOK'
    BY <1>5, <2>1 DEF IInv, TypeOK, Record, TakeUp, Pcs
  <2>3. CurOK'
    BY <1>5, <2>1 DEF IInv, TypeOK, Record, TakeUp, CurOK
  <2>4. AheadOfLast'
    <3> SUFFICES ASSUME NEW d \in Clients, pc'[d] = "applying",
                        rows[cur'[d].id].topic \in Knows[d]
                 PROVE  last[d][rows[cur'[d].id].topic] < cur'[d].id
      BY <1>5 DEF AheadOfLast, Record, TakeUp
    <3>1. CASE d # c
      BY <1>5, <3>1 DEF IInv, TypeOK, AheadOfLast, TakeUp
    <3>2. CASE d = c
      <4>1. ~IsStale(c, h.id) /\ cur'[c] = h
        BY <3>2 DEF IInv, TypeOK, TakeUp
      <4>2. rows[h.id].topic \in Knows[c]
        BY <3>2, <4>1
      <4>3. rows[h.id].topic \in Topics
        BY <4>2, Constants
      <4>4. last[c][rows[h.id].topic] \in 0 .. MaxMessages
        BY <4>3 DEF IInv, TypeOK
      <4> QED
        BY <2>1, <3>2, <4>1, <4>2, <4>4, Constants DEF IsStale, Ids
    <3> QED
      BY <3>1, <3>2
  <2>5. \A d \in Clients : pc[d] = "printing" => pc'[d] = "printing"
    BY <1>5 DEF IInv, TypeOK, TakeUp, Record
  <2> QED
    BY <1>5, <2>2, <2>3, <2>4, <2>5, ShrinkKeeps DEF TakeUp, Record
<1>6. CASE Apply(c)
  <2>1. cur[c] \in batch[c] /\ cur[c] \in Hold /\ cur[c].id \in Ids
    BY <1>6 DEF Apply, IInv, CurOK, TypeOK, Hold
  <2>2. rows[cur[c].id].topic \in Topics /\ cur[c].id \in 0 .. MaxMessages
    BY <1>6, <2>1, Constants DEF Apply, Ids
  <2>3. last' \in [Clients -> [Topics -> 0 .. MaxMessages]]
    <3>1. PICK t \in Topics, j \in {cur[c].id, 0} :
             last' = last \/ last' = [last EXCEPT ![c] = [last[c] EXCEPT ![t] = j]]
      BY <1>6, ApplyLast
    <3>2. j \in 0 .. MaxMessages
      BY <2>2, <3>1, Constants
    <3>3. last[c] \in [Topics -> 0 .. MaxMessages]
      BY DEF IInv, TypeOK
    <3>4. [last[c] EXCEPT ![t] = j] \in [Topics -> 0 .. MaxMessages]
      BY <3>2, <3>3
    <3> QED
      BY <3>1, <3>4 DEF IInv, TypeOK
  <2>4. \A d \in Clients : d # c => last'[d] = last[d]
    BY <1>6, ApplyLast DEF IInv, TypeOK
  <2>5. TypeOK'
    BY <1>6, <2>1, <2>2, <2>3 DEF IInv, TypeOK, Apply, Pcs
  <2>6. CurOK' /\ AheadOfLast'
    BY <1>6, <2>4 DEF IInv, TypeOK, Apply, CurOK, AheadOfLast
  <2>7. \A d \in Clients : pc[d] = "printing" => pc'[d] = "printing"
    BY <1>6 DEF IInv, TypeOK, Apply
  <2> QED
    BY <1>6, <2>5, <2>6, <2>7, ShrinkKeeps DEF Apply
<1>7. CASE Refuse(c)
  BY <1>7, PutDownKeeps DEF Refuse, IInv, TypeOK
<1>8. CASE HandOver(c)
  <2> PICK h \in Heads(c) :
        /\ applied' = [applied EXCEPT ![c] = @ \union {h.id}]
        /\ TakeUp(c, h, "settling")
    BY <1>8 DEF HandOver
  <2>1. h \in batch[c] /\ h \in Hold /\ h.id \in Ids
    BY DEF Heads, IInv, TypeOK, Hold
  <2>2. TypeOK'
    BY <1>8, <2>1 DEF IInv, TypeOK, HandOver, TakeUp, Pcs
  <2>3. CurOK' /\ AheadOfLast'
    BY <1>8, <2>1 DEF IInv, TypeOK, HandOver, TakeUp, CurOK, AheadOfLast
  <2>4. \A d \in Clients : pc[d] = "printing" => pc'[d] = "printing"
    BY <1>8 DEF IInv, TypeOK, TakeUp, HandOver
  <2> QED
    BY <1>8, <2>2, <2>3, <2>4, ShrinkKeeps DEF TakeUp, HandOver
<1>9. CASE HandOverThrows(c)
  BY <1>9, FaultType, GiveUpKeeps DEF HandOverThrows, IInv
<1>10. CASE SettleFails(c)
  BY <1>10, FaultType, GiveUpKeeps, PutDownKeeps DEF SettleFails, IInv
<1>11. CASE PullPrint(c)
  <2>1. TypeOK'
    BY <1>11 DEF IInv, TypeOK, PullPrint, Pcs, Hold
  <2>2. CurOK' /\ AheadOfLast'
    BY <1>11 DEF IInv, TypeOK, PullPrint, CurOK, AheadOfLast
  <2>3. \A d \in Clients : pc[d] = "printing" => pc'[d] = "printing" \/ batch'[d] = {}
    BY <1>11 DEF IInv, TypeOK, PullPrint
  <2>4. UNCHANGED <<sent, rows, acked>> /\ \A d \in Clients : batch'[d] \subseteq batch[d]
    BY <1>11 DEF IInv, TypeOK, PullPrint
  <2> QED
    BY <2>1, <2>2, <2>3, <2>4, ShrinkKeeps
<1>12. CASE Crash(c)
  BY <1>12, FaultType, GiveUpKeeps DEF Crash, IInv
<1>13. CASE \E t \in Topics : Retry(c, t)
  <2> PICK t \in Topics : Retry(c, t)
    BY <1>13
  <2>1. TypeOK'
    BY Constants DEF IInv, TypeOK, Retry
  <2>2. CurOK'
    BY DEF IInv, CurOK, Retry
  <2>3. AheadOfLast'
    <3> SUFFICES ASSUME NEW d \in Clients, pc[d] = "applying",
                        rows[cur[d].id].topic \in Knows[d]
                 PROVE  last'[d][rows[cur[d].id].topic] < cur[d].id
      BY DEF AheadOfLast, Retry
    <3>1. cur[d].id \in Ids /\ last[d][rows[cur[d].id].topic] < cur[d].id
      BY DEF IInv, CurOK, TypeOK, Hold, AheadOfLast
    <3>2. rows[cur[d].id].topic \in Topics
      BY Constants
    <3> QED
      BY <3>1, <3>2 DEF Retry, IInv, TypeOK, Ids
  <2> QED
    BY <2>1, <2>2, <2>3, ShrinkKeeps DEF Retry
<1> QED
  BY <1>1, <1>2, <1>3, <1>4, <1>5, <1>6, <1>7, <1>8, <1>9, <1>10, <1>11, <1>12, <1>13

-----------------------------------------------------------------------------
(* Steps that write the table.                                             *)

LEMMA SendKeeps ==
  ASSUME IInv, NEW t \in Topics, NEW k \in Kinds, Send(t, k)
  PROVE  IInv'
<1> DEFINE new == [topic |-> t, kind |-> k, read |-> FALSE, claim |-> NoClaim, left |-> Floor]
<1>1. /\ sent' = sent + 1 /\ sent + 1 \in Ids /\ sent \in Int
      /\ rows' = [rows EXCEPT ![sent + 1] = new]
      /\ UNCHANGED <<pc, asks, ask, lag, batch, cur, receipts, last, applied, acked, faults>>
  BY Constants DEF Send, IInv, TypeOK, Ids, clientVars, storeVars
<1>2. new \in Row
  BY Constants DEF Row, Claim, NoClaim
<1>3. TypeOK'
  <2>1. rows' \in [Ids -> Row]
    BY <1>1, <1>2 DEF IInv, TypeOK
  <2>2. sent' \in 0 .. MaxMessages
    BY <1>1, Constants DEF Ids
  <2> QED
    BY <1>1, <2>1, <2>2 DEF IInv, TypeOK
<1> HIDE DEF new
<1>4. \A c \in Clients : \A h \in batch[c] :
        h.id \in Ids /\ h.id # sent + 1 /\ h.id <= sent /\ rows'[h.id] = rows[h.id]
  BY <1>1 DEF IInv, HoldsOK, TypeOK, Hold, Ids
<1>5. HoldsOK'
  BY <1>1, <1>4 DEF IInv, HoldsOK, TypeOK, Hold, Ids
<1>6. RowsOK'
  BY <1>1 DEF IInv, RowsOK, TypeOK, Ids
<1>7. CurOK' /\ OneLiveHolder'
  BY <1>1 DEF IInv, CurOK, OneLiveHolder
<1>8. LeaseOK' /\ LeaseIsHonoured'
  BY <1>1, <1>4 DEF IInv, LeaseOK, LeaseIsHonoured
<1>9. AheadOfLast'
  BY <1>1, <1>4 DEF IInv, AheadOfLast, CurOK
<1> QED
  BY <1>3, <1>5, <1>6, <1>7, <1>8, <1>9 DEF IInv

LEMMA AcknowledgeKeeps ==
  ASSUME IInv, NEW i \in Ids, Acknowledge(i)
  PROVE  IInv'
<1>1. /\ rows' = [rows EXCEPT ![i].read = TRUE] /\ acked' = acked \union {i} /\ i <= sent
      /\ UNCHANGED <<sent, pc, asks, ask, lag, batch, cur, receipts, last, applied, faults>>
  BY DEF Acknowledge, clientVars, storeVars
<1>2. \A j \in Ids : /\ rows'[j] \in Row
                     /\ rows'[j].topic = rows[j].topic
                     /\ rows'[j].claim = rows[j].claim
                     /\ rows'[j].left = rows[j].left
                     /\ rows'[j].read = (rows[j].read \/ j = i)
  <2> SUFFICES ASSUME NEW j \in Ids
               PROVE  /\ rows'[j] \in Row
                      /\ rows'[j].topic = rows[j].topic
                      /\ rows'[j].claim = rows[j].claim
                      /\ rows'[j].left = rows[j].left
                      /\ rows'[j].read = (rows[j].read \/ j = i)
    OBVIOUS
  <2>1. rows[j] \in Row
    BY DEF IInv, TypeOK
  <2>2. CASE j = i
    <3>1. rows'[j] = [rows[j] EXCEPT !.read = TRUE]
      BY <1>1, <2>2 DEF IInv, TypeOK
    <3> QED
      BY <2>1, <2>2, <3>1 DEF Row
  <2>3. CASE j # i
    <3>1. rows'[j] = rows[j]
      BY <1>1, <2>3 DEF IInv, TypeOK
    <3> QED
      BY <2>1, <2>3, <3>1 DEF Row
  <2> QED
    BY <2>2, <2>3
<1>3. TypeOK'
  <2>1. rows' \in [Ids -> Row]
    BY <1>1, <1>2 DEF IInv, TypeOK
  <2> QED
    BY <1>1, <2>1 DEF IInv, TypeOK
<1>4. \A c \in Clients : \A h \in batch[c] : h.id \in Ids
  BY DEF IInv, TypeOK, Hold
<1>5. HoldsOK' /\ CurOK' /\ OneLiveHolder'
  BY <1>1 DEF IInv, HoldsOK, CurOK, OneLiveHolder
<1>6. RowsOK'
  BY <1>1, <1>2 DEF IInv, RowsOK, TypeOK, Ids
<1>7. LeaseOK' /\ LeaseIsHonoured'
  BY <1>1, <1>2, <1>4 DEF IInv, LeaseOK, LeaseIsHonoured
<1>8. AheadOfLast'
  BY <1>1, <1>2, <1>4 DEF IInv, AheadOfLast, CurOK
<1> QED
  BY <1>3, <1>5, <1>6, <1>7, <1>8 DEF IInv

\* Marking the rows of some claims, all of them a client's own.
LEMMA MarkSettledRows ==
  ASSUME IInv, NEW ks, MarkSettled(ks)
  PROVE  /\ rows' \in [Ids -> Row]
         /\ \A j \in Ids : /\ rows'[j].topic = rows[j].topic
                           /\ j \notin Settled(ks) => rows'[j] = rows[j]
                           /\ j \in Settled(ks) => rows'[j].read /\ rows'[j].claim = NoClaim
<1>0. NoClaim \in Claim /\ Floor \in Left
  BY Constants DEF NoClaim, Claim
<1>1. \A r \in Row : /\ MarkedRead(r) \in Row
                     /\ MarkedRead(r).topic = r.topic
                     /\ MarkedRead(r).read /\ MarkedRead(r).claim = NoClaim
  BY <1>0 DEF Row, MarkedRead
<1>2. \A j \in Ids : rows[j] \in Row
  BY DEF IInv, TypeOK
<1>3. rows' = [j \in Ids |-> IF j \in Settled(ks) THEN MarkedRead(rows[j]) ELSE rows[j]]
  BY DEF MarkSettled
<1>4. rows' \in [Ids -> Row]
  BY <1>1, <1>2, <1>3
<1>5. \A j \in Ids : /\ j \notin Settled(ks) => rows'[j] = rows[j]
                     /\ j \in Settled(ks) => rows'[j] = MarkedRead(rows[j])
  BY <1>3
<1> QED
  BY <1>1, <1>2, <1>4, <1>5

LEMMA SettledWereSent ==
  ASSUME IInv, NEW c \in Clients, NEW ks, \A k \in ks : k.by = c
  PROVE  \A j \in Settled(ks) : j \in Ids /\ j <= sent /\ rows[j].claim.by = c /\ ~rows[j].read
<1> SUFFICES ASSUME NEW j \in Settled(ks)
             PROVE  j \in Ids /\ j <= sent /\ rows[j].claim.by = c /\ ~rows[j].read
  OBVIOUS
<1>1. j \in Ids /\ rows[j].claim.by = c /\ ~rows[j].read
  BY DEF Settled
<1>2. rows[j].claim # NoClaim
  BY <1>1, Constants DEF NoClaim
<1>3. ~(j > sent)
  BY <1>1, <1>2 DEF IInv, RowsOK
<1>4. j \in Int /\ sent \in Int
  BY <1>1, Constants DEF IInv, TypeOK, Ids
<1> QED
  BY <1>1, <1>3, <1>4

LEMMA SettleKeeps ==
  ASSUME IInv, NEW c \in Clients, Settle(c)
  PROVE  IInv'
<1> DEFINE k == cur[c].claim
<1>1. /\ cur[c] \in batch[c] /\ k.by = c /\ MarkSettled({k}) /\ pc[c] = "settling"
      /\ batch' = [batch EXCEPT ![c] = @ \ {cur[c]}]
      /\ cur' = [cur EXCEPT ![c] = NoHold]
      /\ pc' = [pc EXCEPT ![c] = "handling"]
      /\ UNCHANGED <<sent, acked, asks, ask, lag, receipts, last, applied, faults>>
  BY DEF Settle, PutDown, IInv, CurOK, HoldsOK, storeVars
<1>2. /\ rows' \in [Ids -> Row]
      /\ \A j \in Ids : /\ rows'[j].topic = rows[j].topic
                        /\ j \notin Settled({k}) => rows'[j] = rows[j]
                        /\ j \in Settled({k}) => rows'[j].read /\ rows'[j].claim = NoClaim
  BY <1>1, MarkSettledRows
<1>3. \A j \in Settled({k}) : j <= sent /\ ~rows[j].read /\ rows[j].claim = k
  BY <1>1, SettledWereSent DEF Settled
<1> HIDE DEF k
<1>4. TypeOK'
  BY <1>1, <1>2 DEF IInv, TypeOK, Pcs
<1>5. \A d \in Clients : /\ batch'[d] \subseteq batch[d]
                         /\ \A h \in batch'[d] : h.id \in Ids /\ (d = c => h # cur[c])
                         /\ pc[d] = "printing" => pc'[d] = "printing"
  BY <1>1 DEF IInv, TypeOK, Hold
<1>6. HoldsOK' /\ OneLiveHolder'
  BY <1>1, <1>5 DEF IInv, HoldsOK, OneLiveHolder
<1>7. RowsOK'
  <2>1. \A j \in Ids : j > sent => j \notin Settled({k})
    <3>1. sent \in Int /\ \A j \in Ids : j \in Int
      BY Constants DEF IInv, TypeOK, Ids
    <3> QED
      BY <1>3, <3>1
  <2> QED
    BY <1>1, <1>2, <2>1 DEF IInv, RowsOK
<1>8. CurOK'
  BY <1>1 DEF IInv, CurOK, TypeOK
\* A hold whose row was settled is the one that was put down.
<1>9. \A d \in Clients : \A h \in batch'[d] :
         rows[h.id].claim = h.claim => rows'[h.id] = rows[h.id]
  <2> SUFFICES ASSUME NEW d \in Clients, NEW h \in batch'[d], rows[h.id].claim = h.claim,
                      h.id \in Settled({k})
               PROVE  FALSE
    BY <1>2, <1>5
  <2>1. h.claim = k
    BY <1>3
  <2>2. h \in batch[d] /\ h.claim.by = d
    BY <1>5 DEF IInv, HoldsOK
  <2>3. d = c
    BY <1>1, <2>1, <2>2
  <2> QED
    BY <1>1, <1>5, <2>1, <2>2, <2>3 DEF IInv, HoldsOK, k
<1>10. LeaseOK'
  <2> SUFFICES ASSUME NEW d \in Clients, NEW h \in batch'[d], rows'[h.id].claim = h.claim
               PROVE  rows'[h.id].left = h.left
    BY DEF LeaseOK
  <2>1. h.claim # NoClaim
    BY <1>5, Constants DEF IInv, HoldsOK, NoClaim
  <2>2. rows'[h.id] = rows[h.id]
    BY <1>2, <1>5, <2>1
  <2> QED
    BY <1>5, <2>2 DEF IInv, LeaseOK
<1>11. LeaseIsHonoured'
  <2> SUFFICES ASSUME NEW d \in Clients, NEW h \in batch'[d], h.left >= 0
               PROVE  \/ rows'[h.id].claim = h.claim /\ (rows'[h.id].read => h.id \in acked)
                      \/ rows'[h.id].read /\ pc'[d] = "printing"
    BY <1>1 DEF LeaseIsHonoured
  <2>1. \/ rows[h.id].claim = h.claim /\ (rows[h.id].read => h.id \in acked)
        \/ rows[h.id].read /\ pc[d] = "printing"
    BY <1>5 DEF IInv, LeaseIsHonoured
  <2>2. rows[h.id].read => rows'[h.id] = rows[h.id]
    BY <1>2, <1>3, <1>5
  <2> QED
    BY <1>5, <1>9, <2>1, <2>2
<1>12. AheadOfLast'
  <2>1. \A d \in Clients : pc'[d] = "applying" => pc[d] = "applying" /\ cur'[d] = cur[d]
    BY <1>1 DEF IInv, TypeOK
  <2>2. \A d \in Clients : pc[d] = "applying" => cur[d].id \in Ids
    BY DEF IInv, CurOK, TypeOK, Hold
  <2> QED
    BY <1>1, <1>2, <2>1, <2>2 DEF IInv, AheadOfLast
<1> QED
  BY <1>4, <1>6, <1>7, <1>8, <1>10, <1>11, <1>12 DEF IInv

LEMMA PullSettleKeeps ==
  ASSUME IInv, NEW c \in Clients, PullSettle(c)
  PROVE  IInv'
<1> DEFINE ks == {h.claim : h \in batch[c]}
<1>1. /\ MarkSettled(ks) /\ pc[c] = "handling"
      /\ pc' = [pc EXCEPT ![c] = "printing"]
      /\ UNCHANGED <<sent, acked, asks, ask, lag, batch, cur, receipts, last, applied, faults>>
  BY DEF PullSettle, storeVars
<1>2. /\ rows' \in [Ids -> Row]
      /\ \A j \in Ids : /\ rows'[j].topic = rows[j].topic
                        /\ j \notin Settled(ks) => rows'[j] = rows[j]
                        /\ j \in Settled(ks) => rows'[j].read /\ rows'[j].claim = NoClaim
  BY <1>1, MarkSettledRows
<1>3. \A j \in Settled(ks) : j <= sent /\ ~rows[j].read /\ rows[j].claim.by = c
  <2>1. \A k \in ks : k.by = c
    BY DEF IInv, HoldsOK
  <2> QED
    BY <2>1, SettledWereSent
<1> HIDE DEF ks
<1>4. TypeOK'
  BY <1>1, <1>2 DEF IInv, TypeOK, Pcs
<1>5. \A d \in Clients : \A h \in batch[d] : h.id \in Ids /\ h.claim.by = d /\ h.claim # NoClaim
  BY Constants DEF IInv, TypeOK, Hold, HoldsOK, NoClaim
<1>6. HoldsOK' /\ OneLiveHolder'
  BY <1>1 DEF IInv, HoldsOK, OneLiveHolder
<1>7. RowsOK'
  BY <1>1, <1>2, <1>3 DEF IInv, RowsOK, TypeOK, Ids
<1>8. CurOK'
  BY <1>1 DEF IInv, CurOK, TypeOK
<1>9. LeaseOK'
  BY <1>1, <1>2, <1>5 DEF IInv, LeaseOK
<1>10. LeaseIsHonoured'
  <2> SUFFICES ASSUME NEW d \in Clients, NEW h \in batch[d], h.left >= 0
               PROVE  \/ rows'[h.id].claim = h.claim /\ (rows'[h.id].read => h.id \in acked)
                      \/ rows'[h.id].read /\ pc'[d] = "printing"
    BY <1>1 DEF LeaseIsHonoured
  <2>1. \/ rows[h.id].claim = h.claim /\ (rows[h.id].read => h.id \in acked)
        \/ rows[h.id].read /\ pc[d] = "printing"
    BY DEF IInv, LeaseIsHonoured
  <2>2. pc[d] = "printing" => pc'[d] = "printing"
    BY <1>1 DEF IInv, TypeOK
  <2>3. CASE h.id \in Settled(ks)
    <3>1. rows[h.id].claim = h.claim
      BY <1>3, <2>1, <2>3
    <3>2. d = c
      BY <1>3, <1>5, <2>3, <3>1
    <3> QED
      BY <1>1, <1>2, <1>5, <2>3, <3>2 DEF IInv, TypeOK
  <2>4. CASE h.id \notin Settled(ks)
    BY <1>2, <1>5, <2>1, <2>2, <2>4
  <2> QED
    BY <2>3, <2>4
<1>11. AheadOfLast'
  <2>1. \A d \in Clients : pc'[d] = "applying" => pc[d] = "applying"
    BY <1>1 DEF IInv, TypeOK
  <2>2. \A d \in Clients : pc[d] = "applying" => cur[d].id \in Ids
    BY DEF IInv, CurOK, TypeOK, Hold
  <2> QED
    BY <1>1, <1>2, <2>1, <2>2 DEF IInv, AheadOfLast
<1> QED
  BY <1>4, <1>6, <1>7, <1>8, <1>9, <1>10, <1>11 DEF IInv

-----------------------------------------------------------------------------
(* Claiming: the rows a reserve picks are leased to nobody.                *)

LEMMA PickedIsFree ==
  ASSUME IInv, NEW c \in Clients, NEW i \in Picked(c)
  PROVE  /\ i \in Ids /\ i <= sent
         /\ ~rows[i].read
         /\ \A d \in Clients : \A h \in batch[d] : h.id = i => ~(h.left >= 0)
<1>1. i \in 1 .. sent /\ Free(rows[i], lag[c])
  BY DEF Picked, Candidates
<1>2. i \in Ids /\ i <= sent /\ ~rows[i].read
  BY <1>1, Constants DEF Free, IInv, TypeOK, Ids
<1>3. ASSUME NEW d \in Clients, NEW h \in batch[d], h.id = i, h.left >= 0
      PROVE  FALSE
  <2>1. rows[i].claim = h.claim
    BY <1>2, <1>3 DEF IInv, LeaseIsHonoured
  <2>2. rows[i].claim # NoClaim
    BY <1>3, <2>1, Constants DEF IInv, HoldsOK, NoClaim
  <2>3. rows[i].left + lag[c] < 0
    BY <1>1, <2>2 DEF Free
  <2>4. rows[i].left = h.left
    BY <1>3, <2>1 DEF IInv, LeaseOK
  <2>5. lag[c] \in 0 .. MaxLag /\ h.left \in Int
    BY <1>3, Constants DEF IInv, TypeOK, Hold, Left
  <2> QED
    BY <1>3, <2>3, <2>4, <2>5, Constants
<1> QED
  BY <1>2, <1>3

LEMMA NewClaims ==
  ASSUME IInv, NEW c \in Clients, NEW i \in Picked(c), Unused(c, i) # {}
  PROVE  /\ NewClaim(c, i) \in Claim
         /\ NewClaim(c, i).by = c /\ NewClaim(c, i).id = i
         /\ \A h \in batch[c] : h.claim # NewClaim(c, i)
<1> DEFINE n == CHOOSE n \in Serials : n \in Unused(c, i)
<1>1. n \in Serials /\ n \in Unused(c, i)
  BY DEF Unused
<1>2. n \in Nat /\ ClaimBy(c, i, n) \notin {h.claim : h \in batch[c]}
  BY <1>1, Constants DEF Unused
<1>3. i \in Nat
  BY PickedIsFree, Constants DEF Ids
<1>4. NewClaim(c, i) = [by |-> c, id |-> i, no |-> n]
  BY DEF NewClaim, ClaimBy
<1>5. \A h \in batch[c] : h.claim # NewClaim(c, i)
  BY <1>2 DEF NewClaim
<1> HIDE DEF n
<1> QED
  BY <1>2, <1>3, <1>4, <1>5 DEF Claim

LEMMA NewLeftType == ASSUME IInv, NEW c \in Clients PROVE NewLeft(c) \in Left
<1>1. lag[c] \in 0 .. MaxLag
  BY DEF IInv, TypeOK
<1> QED
  BY <1>1, Constants DEF NewLeft, Left

\* What both outcomes of a reserve that committed do to the table.
LEMMA ClaimedRows ==
  ASSUME IInv, NEW c \in Clients, MarkClaimed(c), \A i \in Picked(c) : Unused(c, i) # {}
  PROVE  /\ rows' \in [Ids -> Row]
         /\ \A j \in Ids :
              /\ rows'[j].topic = rows[j].topic /\ rows'[j].read = rows[j].read
              /\ j \notin Picked(c) => rows'[j] = rows[j]
              /\ j \in Picked(c) =>
                   rows'[j].claim = NewClaim(c, j) /\ rows'[j].left = NewLeft(c)
<1>1. \A r \in Row, k \in Claim, l \in Left :
        /\ Leased(r, k, l) \in Row
        /\ Leased(r, k, l).topic = r.topic /\ Leased(r, k, l).read = r.read
        /\ Leased(r, k, l).claim = k /\ Leased(r, k, l).left = l
  BY DEF Row, Leased
<1>2. NewLeft(c) \in Left /\ \A i \in Picked(c) : NewClaim(c, i) \in Claim
  BY NewLeftType, NewClaims
<1>3. \A j \in Ids : rows[j] \in Row
  BY DEF IInv, TypeOK
<1>4. rows' = [j \in Ids |-> IF j \in Picked(c)
                            THEN Leased(rows[j], NewClaim(c, j), NewLeft(c)) ELSE rows[j]]
  BY DEF MarkClaimed
<1>5. \A j \in Ids : /\ j \notin Picked(c) => rows'[j] = rows[j]
                     /\ j \in Picked(c) =>
                          rows'[j] = Leased(rows[j], NewClaim(c, j), NewLeft(c))
  BY <1>4
<1>6. ASSUME NEW j \in Ids, j \in Picked(c)
      PROVE  /\ rows'[j] \in Row
             /\ rows'[j].topic = rows[j].topic
             /\ rows'[j].read = rows[j].read
             /\ rows'[j].claim = NewClaim(c, j)
             /\ rows'[j].left = NewLeft(c)
  <2>1. rows[j] \in Row /\ NewClaim(c, j) \in Claim /\ NewLeft(c) \in Left
    BY <1>2, <1>3, <1>6
  <2> QED
    BY <1>1, <1>5, <1>6, <2>1
<1>7. \A j \in Ids : rows'[j] \in Row
  BY <1>3, <1>5, <1>6
<1>8. rows' \in [Ids -> Row]
  BY <1>4, <1>7
<1> QED
  BY <1>5, <1>6, <1>8

\* The holds that were there keep what they had, whoever gets the new ones.
LEMMA ClaimKeepsOldHolds ==
  ASSUME IInv, NEW c \in Clients, MarkClaimed(c), \A i \in Picked(c) : Unused(c, i) # {},
         pc[c] = "reserving", AfterReserve(c)
  PROVE  /\ RowsOK' /\ AheadOfLast'
         /\ \A d \in Clients : \A h \in batch[d] :
              /\ rows'[h.id].claim = h.claim => rows'[h.id].left = h.left
              /\ h.left >= 0 =>
                   \/ rows'[h.id].claim = h.claim /\ (rows'[h.id].read => h.id \in acked)
                   \/ rows'[h.id].read /\ pc'[d] = "printing"
<1>1. /\ sent' = sent /\ acked' = acked /\ cur' = cur /\ last' = last
      /\ pc'[c] \in {"handling", "asking"}
      /\ \A d \in Clients : d # c => pc'[d] = pc[d]
  BY DEF AfterReserve, storeVars, IInv, TypeOK
<1>2. /\ rows' \in [Ids -> Row]
      /\ \A j \in Ids :
           /\ rows'[j].topic = rows[j].topic /\ rows'[j].read = rows[j].read
           /\ j \notin Picked(c) => rows'[j] = rows[j]
           /\ j \in Picked(c) =>
                rows'[j].claim = NewClaim(c, j) /\ rows'[j].left = NewLeft(c)
  BY ClaimedRows
<1>3. RowsOK'
  <2>1. \A j \in Ids : j > sent => j \notin Picked(c)
    <3>1. sent \in Int /\ \A j \in Ids : j \in Int
      BY Constants DEF IInv, TypeOK, Ids
    <3> QED
      BY <3>1, PickedIsFree
  <2> QED
    BY <1>1, <1>2, <2>1 DEF IInv, RowsOK
<1>4. AheadOfLast'
  <2>1. \A d \in Clients : pc'[d] = "applying" => pc[d] = "applying" /\ cur[d].id \in Ids
    BY <1>1 DEF IInv, CurOK, TypeOK, Hold
  <2> QED
    BY <1>1, <1>2, <2>1 DEF IInv, AheadOfLast
<1>5. \A d \in Clients : \A h \in batch[d] : h.id \in Ids /\ h.claim.by = d
  BY DEF IInv, TypeOK, Hold, HoldsOK
<1>6. ASSUME NEW d \in Clients, NEW h \in batch[d], rows'[h.id].claim = h.claim
      PROVE  rows'[h.id].left = h.left
  <2>1. h.id \notin Picked(c)
    <3> SUFFICES ASSUME h.id \in Picked(c) PROVE FALSE
      OBVIOUS
    <3>1. h.claim = NewClaim(c, h.id)
      BY <1>2, <1>5, <1>6
    <3>2. d = c
      BY <1>5, <3>1, NewClaims
    <3> QED
      BY <3>1, <3>2, NewClaims
  <2> QED
    BY <1>2, <1>5, <1>6, <2>1 DEF IInv, LeaseOK
<1>7. ASSUME NEW d \in Clients, NEW h \in batch[d], h.left >= 0
      PROVE  \/ rows'[h.id].claim = h.claim /\ (rows'[h.id].read => h.id \in acked)
             \/ rows'[h.id].read /\ pc'[d] = "printing"
  <2>1. h.id \notin Picked(c)
    BY <1>7, PickedIsFree
  <2>2. \/ rows[h.id].claim = h.claim /\ (rows[h.id].read => h.id \in acked)
        \/ rows[h.id].read /\ pc[d] = "printing"
    BY <1>7 DEF IInv, LeaseIsHonoured
  <2>3. pc[d] = "printing" => pc'[d] = "printing"
    BY <1>1
  <2> QED
    BY <1>2, <1>5, <2>1, <2>2, <2>3
<1> QED
  BY <1>3, <1>4, <1>6, <1>7

LEMMA ReserveKeeps ==
  ASSUME IInv, NEW c \in Clients, Reserve(c)
  PROVE  IInv'
<1>1. /\ MarkClaimed(c) /\ pc[c] = "reserving" /\ AfterReserve(c)
      /\ \A i \in Picked(c) : Unused(c, i) # {}
      /\ batch' = [batch EXCEPT ![c] = @ \union Given(c)] /\ faults' = faults
  BY DEF Reserve
<1>2. /\ UNCHANGED <<sent, acked, asks, ask, cur, receipts, last, applied>>
      /\ pc' = [pc EXCEPT ![c] = IF asks[c] = {} THEN "handling" ELSE "asking"]
      /\ lag' = [lag EXCEPT ![c] = 0]
  BY <1>1 DEF AfterReserve, storeVars
<1>3. \A h \in Given(c) :
        /\ h \in Hold /\ h.id \in Picked(c) /\ h.id <= sent
        /\ h.claim = NewClaim(c, h.id) /\ h.left = NewLeft(c) /\ h.ask = ask[c]
        /\ h.claim.by = c /\ h.claim.id = h.id
        /\ \A g \in batch[c] : g.claim # h.claim
  <2> SUFFICES ASSUME NEW i \in Picked(c),
                      NEW h, h = [id |-> i, claim |-> NewClaim(c, i), left |-> NewLeft(c),
                                  ask |-> ask[c]]
               PROVE  /\ h \in Hold /\ h.id \in Picked(c) /\ h.id <= sent
                      /\ h.claim = NewClaim(c, h.id) /\ h.left = NewLeft(c) /\ h.ask = ask[c]
                      /\ h.claim.by = c /\ h.claim.id = h.id
                      /\ \A g \in batch[c] : g.claim # h.claim
    BY DEF Given
  <2>1. i \in Ids /\ i <= sent /\ NewLeft(c) \in Left /\ ask[c] \in SUBSET Topics
    BY PickedIsFree, NewLeftType DEF IInv, TypeOK
  <2>2. /\ NewClaim(c, i) \in Claim
        /\ NewClaim(c, i).by = c /\ NewClaim(c, i).id = i
        /\ \A g \in batch[c] : g.claim # NewClaim(c, i)
    BY <1>1, NewClaims
  <2> QED
    BY <2>1, <2>2 DEF Hold
<1>4. rows' \in [Ids -> Row]
      /\ \A j \in Ids :
           /\ rows'[j].read = rows[j].read
           /\ j \in Picked(c) =>
                rows'[j].claim = NewClaim(c, j) /\ rows'[j].left = NewLeft(c)
  BY <1>1, ClaimedRows
<1>5. TypeOK'
  <2>1. batch' \in [Clients -> SUBSET Hold]
    BY <1>1, <1>3 DEF IInv, TypeOK
  <2>2. lag' \in [Clients -> 0 .. MaxLag] /\ pc' \in [Clients -> Pcs]
    BY <1>2, Constants DEF IInv, TypeOK, Pcs
  <2> QED
    BY <1>1, <1>2, <1>4, <2>1, <2>2 DEF IInv, TypeOK
<1>6. \A d \in Clients : \A h \in batch'[d] : h \in batch[d] \/ (d = c /\ h \in Given(c))
  BY <1>1 DEF IInv, TypeOK
<1>7. HoldsOK'
  <2> SUFFICES ASSUME NEW d \in Clients, NEW h \in batch'[d]
               PROVE  /\ h.id <= sent
                      /\ h.claim.by = d
                      /\ \A g \in batch'[d] : g.claim = h.claim => g = h
    BY <1>2 DEF HoldsOK
  <2>1. h.id <= sent /\ h.claim.by = d
    BY <1>3, <1>6 DEF IInv, HoldsOK
  <2>2. ASSUME NEW g \in batch'[d], g.claim = h.claim PROVE g = h
    <3>1. CASE h \in batch[d] /\ g \in batch[d]
      BY <2>2, <3>1 DEF IInv, HoldsOK
    <3>2. CASE d = c /\ h \in Given(c) /\ g \in Given(c)
      <4>1. g.id = h.id
        BY <1>3, <2>2, <3>2
      <4>2. PICK i \in Picked(c) : h = [id |-> i, claim |-> NewClaim(c, i),
                                        left |-> NewLeft(c), ask |-> ask[c]]
        BY <3>2 DEF Given
      <4>3. PICK j \in Picked(c) : g = [id |-> j, claim |-> NewClaim(c, j),
                                        left |-> NewLeft(c), ask |-> ask[c]]
        BY <3>2 DEF Given
      <4> QED
        BY <4>1, <4>2, <4>3
    <3> QED
      BY <1>3, <1>6, <2>2, <3>1, <3>2
  <2> QED
    BY <2>1, <2>2
<1>8. CurOK'
  BY <1>1, <1>2, <1>6 DEF IInv, CurOK, TypeOK
<1>9. /\ RowsOK' /\ AheadOfLast'
      /\ \A d \in Clients : \A h \in batch[d] :
           /\ rows'[h.id].claim = h.claim => rows'[h.id].left = h.left
           /\ h.left >= 0 =>
                \/ rows'[h.id].claim = h.claim /\ (rows'[h.id].read => h.id \in acked)
                \/ rows'[h.id].read /\ pc'[d] = "printing"
  BY <1>1, ClaimKeepsOldHolds
<1>10. \A h \in Given(c) : /\ h.id \in Ids /\ ~rows'[h.id].read
                           /\ rows'[h.id].claim = h.claim /\ rows'[h.id].left = h.left
  BY <1>3, <1>4, PickedIsFree
<1>11. LeaseOK'
  BY <1>6, <1>9, <1>10 DEF LeaseOK
<1>12. LeaseIsHonoured'
  <2> SUFFICES ASSUME NEW d \in Clients, NEW h \in batch'[d], h.left >= 0
               PROVE  \/ rows'[h.id].claim = h.claim /\ (rows'[h.id].read => h.id \in acked)
                      \/ rows'[h.id].read /\ pc'[d] = "printing"
    BY <1>2 DEF LeaseIsHonoured
  <2> QED
    BY <1>6, <1>9, <1>10
<1>13. OneLiveHolder'
  <2> SUFFICES ASSUME NEW d \in Clients, NEW e \in Clients,
                      NEW h \in batch'[d], NEW g \in batch'[e],
                      h.id = g.id, h.left >= 0, g.left >= 0
               PROVE  d = e /\ h = g
    BY DEF OneLiveHolder
  <2>1. CASE h \in batch[d] /\ g \in batch[e]
    BY <2>1 DEF IInv, OneLiveHolder
  <2>2. CASE h \in Given(c) /\ g \in batch[e]
    BY <1>3, <2>2, PickedIsFree
  <2>3. CASE h \in batch[d] /\ g \in Given(c)
    BY <1>3, <2>3, PickedIsFree
  <2>4. CASE d = c /\ e = c /\ h \in Given(c) /\ g \in Given(c)
    BY <1>3, <1>7, <2>4 DEF HoldsOK
  <2> QED
    BY <1>6, <2>1, <2>2, <2>3, <2>4
<1> QED
  BY <1>5, <1>7, <1>8, <1>9, <1>11, <1>12, <1>13 DEF IInv

LEMMA ReserveReplyLostKeeps ==
  ASSUME IInv, NEW c \in Clients, ReserveReplyLost(c)
  PROVE  IInv'
<1>1. /\ MarkClaimed(c) /\ pc[c] = "reserving" /\ AfterReserve(c)
      /\ \A i \in Picked(c) : Unused(c, i) # {}
      /\ batch' = batch
  BY DEF ReserveReplyLost
<1>2. /\ UNCHANGED <<sent, acked, asks, ask, cur, receipts, last, applied>>
      /\ pc' = [pc EXCEPT ![c] = IF asks[c] = {} THEN "handling" ELSE "asking"]
      /\ lag' = [lag EXCEPT ![c] = 0]
      /\ faults' \in 0 .. MaxFaults
  BY <1>1, FaultType DEF AfterReserve, storeVars, ReserveReplyLost, IInv
<1>3. TypeOK'
  <2>1. rows' \in [Ids -> Row]
    BY <1>1, ClaimedRows
  <2>2. lag' \in [Clients -> 0 .. MaxLag] /\ pc' \in [Clients -> Pcs]
    BY <1>2, Constants DEF IInv, TypeOK, Pcs
  <2> QED
    BY <1>1, <1>2, <2>1, <2>2 DEF IInv, TypeOK
<1>4. HoldsOK' /\ OneLiveHolder'
  BY <1>1, <1>2 DEF IInv, HoldsOK, OneLiveHolder
<1>5. CurOK'
  BY <1>1, <1>2 DEF IInv, CurOK, TypeOK
<1>6. /\ RowsOK' /\ AheadOfLast'
      /\ \A d \in Clients : \A h \in batch[d] :
           /\ rows'[h.id].claim = h.claim => rows'[h.id].left = h.left
           /\ h.left >= 0 =>
                \/ rows'[h.id].claim = h.claim /\ (rows'[h.id].read => h.id \in acked)
                \/ rows'[h.id].read /\ pc'[d] = "printing"
  BY <1>1, ClaimKeepsOldHolds
<1>7. LeaseOK' /\ LeaseIsHonoured'
  BY <1>1, <1>2, <1>6 DEF LeaseOK, LeaseIsHonoured
<1> QED
  BY <1>3, <1>4, <1>5, <1>6, <1>7 DEF IInv

-----------------------------------------------------------------------------
(* Time.                                                                   *)

LEMMA OlderType ==
  ASSUME NEW l \in Left
  PROVE  /\ Older(l) \in Left
         /\ Older(l) >= 0 => l >= 0
         /\ l < 0 => Older(l) < 0
<1>1. l \in Int /\ MaxLag \in Nat /\ Lease \in Nat /\ Floor = -(MaxLag + 1)
  BY Constants DEF Left
<1> QED
  BY <1>1 DEF Older, Left

\* A hold that aged is the same hold with less of its lease left.
LEMMA AgedHold ==
  ASSUME NEW h \in Hold
  PROVE  /\ [h EXCEPT !.left = Older(@)] \in Hold
         /\ [h EXCEPT !.left = Older(@)].id = h.id
         /\ [h EXCEPT !.left = Older(@)].claim = h.claim
         /\ [h EXCEPT !.left = Older(@)].left = Older(h.left)
<1>1. h.left \in Left
  BY DEF Hold
<1>2. Older(h.left) \in Left
  BY <1>1, OlderType
<1> QED
  BY <1>2 DEF Hold

LEMMA AgedRow ==
  ASSUME NEW r \in Row
  PROVE  /\ [r EXCEPT !.left = Older(@)] \in Row
         /\ [r EXCEPT !.left = Older(@)].topic = r.topic
         /\ [r EXCEPT !.left = Older(@)].read = r.read
         /\ [r EXCEPT !.left = Older(@)].claim = r.claim
         /\ [r EXCEPT !.left = Older(@)].left = Older(r.left)
<1>1. r.left \in Left
  BY DEF Row
<1>2. Older(r.left) \in Left
  BY <1>1, OlderType
<1> QED
  BY <1>2 DEF Row

LEMMA AgedRows ==
  ASSUME IInv, Tick
  PROVE  /\ rows' \in [Ids -> Row]
         /\ \A i \in Ids :
              /\ rows'[i].topic = rows[i].topic /\ rows'[i].read = rows[i].read
              /\ rows'[i].claim = rows[i].claim /\ rows'[i].left = Older(rows[i].left)
<1>1. \A i \in Ids : rows[i] \in Row
  BY DEF IInv, TypeOK
<1>2. rows' = [i \in Ids |-> [rows[i] EXCEPT !.left = Older(@)]]
  BY DEF Tick
<1>3. ASSUME NEW i \in Ids
      PROVE  /\ rows'[i] \in Row
             /\ rows'[i].topic = rows[i].topic /\ rows'[i].read = rows[i].read
             /\ rows'[i].claim = rows[i].claim /\ rows'[i].left = Older(rows[i].left)
  <2>1. rows'[i] = [rows[i] EXCEPT !.left = Older(@)] /\ rows[i] \in Row
    BY <1>1, <1>2
  <2> QED
    BY <2>1, AgedRow
<1> QED
  BY <1>2, <1>3

LEMMA TickKeeps == ASSUME IInv, Tick PROVE IInv'
<1>1. /\ UNCHANGED <<sent, acked, pc, asks, ask, receipts, last, applied, faults>>
      /\ batch' = [c \in Clients |-> {[h EXCEPT !.left = Older(@)] : h \in batch[c]}]
      /\ cur' = [c \in Clients |-> [cur[c] EXCEPT !.left = Older(@)]]
      /\ lag' = [c \in Clients |-> IF pc[c] = "reserving" THEN lag[c] + 1 ELSE lag[c]]
      /\ \A c \in Clients : pc[c] = "reserving" => lag[c] < MaxLag
  BY DEF Tick, storeVars
<1>2. /\ rows' \in [Ids -> Row]
      /\ \A i \in Ids :
           /\ rows'[i].topic = rows[i].topic /\ rows'[i].read = rows[i].read
           /\ rows'[i].claim = rows[i].claim /\ rows'[i].left = Older(rows[i].left)
  BY AgedRows
<1>3. \A c \in Clients : \A h \in batch[c] : h \in Hold
  BY DEF IInv, TypeOK
<1>4. ASSUME NEW c \in Clients, NEW h \in batch'[c]
      PROVE  \E g \in batch[c] : /\ g \in Hold /\ h = [g EXCEPT !.left = Older(@)]
                                 /\ h \in Hold /\ h.id = g.id /\ h.claim = g.claim
                                 /\ h.left = Older(g.left)
                                 /\ h.left >= 0 => g.left >= 0
  <2>1. PICK g \in batch[c] : h = [g EXCEPT !.left = Older(@)]
    BY <1>1
  <2>2. g \in Hold
    BY <1>3
  <2>3. g.left \in Left
    BY <2>2 DEF Hold
  <2> QED
    BY <2>1, <2>2, <2>3, AgedHold, OlderType
<1>5. TypeOK'
  <2>1. batch' \in [Clients -> SUBSET Hold]
    BY <1>1, <1>4
  <2>2. ASSUME NEW c \in Clients
        PROVE  [cur[c] EXCEPT !.left = Older(@)] \in Hold \union {NoHold}
    <3>1. CASE cur[c] \in Hold
      BY <3>1, AgedHold
    <3>2. CASE cur[c] = NoHold
      <4>1. NoHold.left = Floor /\ Older(Floor) = Floor
        BY Constants DEF NoHold, Older
      <4>2. [NoHold EXCEPT !.left = Floor] = NoHold
        BY DEF NoHold
      <4> QED
        BY <3>2, <4>1, <4>2
    <3> QED
      BY <3>1, <3>2 DEF IInv, TypeOK
  <2>3. cur' \in [Clients -> Hold \union {NoHold}]
    BY <1>1, <2>2
  <2>4. \A c \in Clients : lag[c] \in 0 .. MaxLag
    BY DEF IInv, TypeOK
  <2>5. lag' \in [Clients -> 0 .. MaxLag]
    BY <1>1, <2>4, Constants
  <2> QED
    BY <1>1, <1>2, <2>1, <2>3, <2>5 DEF IInv, TypeOK
<1>6. HoldsOK'
  <2> SUFFICES ASSUME NEW c \in Clients, NEW h \in batch'[c]
               PROVE  /\ h.id <= sent
                      /\ h.claim.by = c
                      /\ \A g \in batch'[c] : g.claim = h.claim => g = h
    BY <1>1 DEF HoldsOK
  <2>1. PICK h0 \in batch[c] : h = [h0 EXCEPT !.left = Older(@)]
                              /\ h.id = h0.id /\ h.claim = h0.claim
    BY <1>4
  <2>2. h.id <= sent /\ h.claim.by = c
    BY <2>1 DEF IInv, HoldsOK
  <2>3. ASSUME NEW g \in batch'[c], g.claim = h.claim PROVE g = h
    <3>1. PICK g0 \in batch[c] : g = [g0 EXCEPT !.left = Older(@)] /\ g.claim = g0.claim
      BY <1>4
    <3>2. g0 = h0
      BY <2>1, <2>3, <3>1 DEF IInv, HoldsOK
    <3> QED
      BY <2>1, <3>1, <3>2
  <2> QED
    BY <2>2, <2>3
<1>7. RowsOK'
  BY <1>1, <1>2 DEF IInv, RowsOK
<1>8. CurOK'
  <2> SUFFICES ASSUME NEW c \in Clients, pc[c] \in {"applying", "settling"}
               PROVE  cur'[c] \in batch'[c]
    BY <1>1 DEF CurOK
  <2>1. cur[c] \in batch[c]
    BY DEF IInv, CurOK
  <2> QED
    BY <1>1, <2>1
<1>9. LeaseOK'
  <2> SUFFICES ASSUME NEW c \in Clients, NEW h \in batch'[c], rows'[h.id].claim = h.claim
               PROVE  rows'[h.id].left = h.left
    BY DEF LeaseOK
  <2>1. PICK g \in batch[c] : g \in Hold /\ h.id = g.id /\ h.claim = g.claim
                             /\ h.left = Older(g.left)
    BY <1>4
  <2>2. g.id \in Ids
    BY <2>1 DEF Hold
  <2>3. rows[g.id].left = g.left
    BY <1>2, <2>1, <2>2 DEF IInv, LeaseOK
  <2> QED
    BY <1>2, <2>1, <2>2, <2>3
<1>10. LeaseIsHonoured'
  <2> SUFFICES ASSUME NEW c \in Clients, NEW h \in batch'[c], h.left >= 0
               PROVE  \/ rows'[h.id].claim = h.claim /\ (rows'[h.id].read => h.id \in acked)
                      \/ rows'[h.id].read /\ pc[c] = "printing"
    BY <1>1 DEF LeaseIsHonoured
  <2>1. PICK g \in batch[c] : g \in Hold /\ h.id = g.id /\ h.claim = g.claim /\ g.left >= 0
    BY <1>4
  <2>2. g.id \in Ids
    BY <2>1 DEF Hold
  <2>3. \/ rows[g.id].claim = g.claim /\ (rows[g.id].read => g.id \in acked)
        \/ rows[g.id].read /\ pc[c] = "printing"
    BY <2>1 DEF IInv, LeaseIsHonoured
  <2> QED
    BY <1>2, <2>1, <2>2, <2>3
<1>11. OneLiveHolder'
  <2> SUFFICES ASSUME NEW c \in Clients, NEW d \in Clients,
                      NEW h \in batch'[c], NEW g \in batch'[d],
                      h.id = g.id, h.left >= 0, g.left >= 0
               PROVE  c = d /\ h = g
    BY DEF OneLiveHolder
  <2>1. PICK h0 \in batch[c] : h = [h0 EXCEPT !.left = Older(@)]
                              /\ h.id = h0.id /\ h0.left >= 0
    BY <1>4
  <2>2. PICK g0 \in batch[d] : g = [g0 EXCEPT !.left = Older(@)]
                              /\ g.id = g0.id /\ g0.left >= 0
    BY <1>4
  <2>3. c = d /\ h0 = g0
    BY <2>1, <2>2 DEF IInv, OneLiveHolder
  <2> QED
    BY <2>1, <2>2, <2>3
<1>12. AheadOfLast'
  <2> SUFFICES ASSUME NEW c \in Clients, pc[c] = "applying",
                      rows'[cur'[c].id].topic \in Knows[c]
               PROVE  last[c][rows'[cur'[c].id].topic] < cur'[c].id
    BY <1>1 DEF AheadOfLast
  <2>1. cur[c] \in Hold
    BY DEF IInv, CurOK, TypeOK
  <2>2. cur'[c].id = cur[c].id /\ cur[c].id \in Ids
    <3>1. cur'[c] = [cur[c] EXCEPT !.left = Older(@)]
      BY <1>1
    <3> QED
      BY <2>1, <3>1, AgedHold DEF Hold
  <2>3. rows'[cur[c].id].topic = rows[cur[c].id].topic
    BY <1>2, <2>2
  <2> QED
    BY <2>2, <2>3 DEF IInv, AheadOfLast
<1> QED
  BY <1>5, <1>6, <1>7, <1>8, <1>9, <1>10, <1>11, <1>12 DEF IInv

-----------------------------------------------------------------------------
(* The invariant.                                                          *)

LEMMA NextKeeps == ASSUME IInv, [Next]_vars PROVE IInv'
<1>1. CASE \E t \in Topics, k \in Kinds : Send(t, k)
  BY <1>1, SendKeeps
<1>2. CASE \E i \in Ids : Acknowledge(i)
  BY <1>2, AcknowledgeKeeps
<1>3. CASE Tick
  BY <1>3, TickKeeps
<1>4. CASE \E c \in Clients : Works(c) \/ Refuse(c) \/ Fails(c)
  <2> PICK c \in Clients : Works(c) \/ Refuse(c) \/ Fails(c)
    BY <1>4
  <2>1. CASE Works(c)
    BY <2>1, QuietSteps, ReserveKeeps, SettleKeeps, PullSettleKeeps DEF Works
  <2>2. CASE Refuse(c)
    BY <2>2, QuietSteps
  <2>3. CASE Fails(c)
    BY <2>3, QuietSteps, ReserveReplyLostKeeps DEF Fails
  <2> QED
    BY <2>1, <2>2, <2>3
<1>5. CASE \E c \in Clients, t \in Topics : Retry(c, t)
  BY <1>5, QuietSteps
<1>6. CASE UNCHANGED vars
  BY <1>6 DEF vars, clientVars, storeVars, IInv, TypeOK, HoldsOK, RowsOK, CurOK, LeaseOK,
              OneLiveHolder, LeaseIsHonoured, AheadOfLast
<1> QED
  BY <1>1, <1>2, <1>3, <1>4, <1>5, <1>6 DEF Next

\* The inductive invariant holds in every reachable state.
THEOREM BusInvariance == Spec => []IInv
<1> QED
  BY InitOK, NextKeeps, PTL DEF Spec

\* Rows, leases, batches and receipts keep their types, whoever crashes.
THEOREM BusTypeCorrect == Spec => []TypeOK
<1>1. IInv => TypeOK
  BY DEF IInv
<1> QED
  BY <1>1, BusInvariance, PTL

\* Two consumers never both hold a lease on one message that has not expired,
\* however long each waited for the lock after it had read the clock; and as
\* long as a lease lives nobody re-claims its message, and no late settle of
\* an earlier claim marks it read.
THEOREM LeasesAreHeld == Spec => []LeasesHold
<1>1. IInv => LeasesHold
  BY DEF IInv, LeasesHold
<1> QED
  BY <1>1, BusInvariance, PTL

LastAdvances ==
  \A c \in Daemons, t \in Topics : last'[c][t] >= last[c][t] \/ last'[c][t] = 0

LEMMA ApplyAdvances ==
  ASSUME IInv, NEW c \in Clients, Apply(c)
  PROVE  LastAdvances
<1> DEFINE i == cur[c].id
           t == rows[i].topic
<1>1. /\ pc[c] = "applying" /\ t \in Knows[c]
      /\ \E j \in {i, 0} :
            last' = last \/ last' = [last EXCEPT ![c] = [last[c] EXCEPT ![t] = j]]
  BY ApplyLast DEF Apply
<1>2. last[c][t] < i /\ i \in Int
  <2>1. cur[c] \in Hold
    BY <1>1 DEF IInv, CurOK, TypeOK
  <2> QED
    BY <1>1, <2>1, Constants DEF IInv, AheadOfLast, Hold, Ids
<1>3. t \in Topics
  BY <1>1, Constants
<1> HIDE DEF i, t
<1>4. \A d \in Clients : last[d] \in [Topics -> 0 .. MaxMessages]
  BY DEF IInv, TypeOK
<1>5. ASSUME NEW d \in Daemons, NEW u \in Topics
      PROVE  last'[d][u] >= last[d][u] \/ last'[d][u] = 0
  <2>1. d \in Clients /\ last[d][u] \in Int
    BY <1>4, <1>5, ClientAssumption, Constants
  <2>2. \/ last'[d][u] = last[d][u]
        \/ d = c /\ u = t /\ last'[d][u] \in {i, 0}
    <3>1. CASE last' = last
      BY <3>1
    <3>2. ASSUME NEW j \in {i, 0}, last' = [last EXCEPT ![c] = [last[c] EXCEPT ![t] = j]]
          PROVE  last'[d][u] = last[d][u] \/ (d = c /\ u = t /\ last'[d][u] = j)
      <4>1. last \in [Clients -> [Topics -> 0 .. MaxMessages]]
        BY DEF IInv, TypeOK
      <4>2. last'[d] = IF d = c THEN [last[c] EXCEPT ![t] = j] ELSE last[d]
        BY <2>1, <3>2, <4>1
      <4> QED
        BY <1>3, <1>4, <1>5, <2>1, <4>2
    <3> QED
      BY <1>1, <3>1, <3>2
  <2> QED
    BY <1>2, <2>1, <2>2
<1> QED
  BY <1>5 DEF LastAdvances

LEMMA OthersAdvance ==
  ASSUME IInv, [Next]_vars, ~\E c \in Clients : Apply(c)
  PROVE  LastAdvances
<1>1. \A d \in Daemons : d \in Clients
  BY ClientAssumption
<1>2. \A d \in Clients : last[d] \in [Topics -> 0 .. MaxMessages]
  BY DEF IInv, TypeOK
<1>3. \A d \in Clients, u \in Topics : last[d][u] \in Int
  BY <1>2, Constants
<1>4. CASE last' = last
  BY <1>1, <1>3, <1>4 DEF LastAdvances
<1>5. CASE \E c \in Clients, u \in Topics : Retry(c, u)
  <2> PICK c \in Clients, u \in Topics : Retry(c, u)
    BY <1>5
  <2>1. last' = [last EXCEPT ![c] = [last[c] EXCEPT ![u] = 0]]
    BY DEF Retry
  <2>2. \A d \in Clients, v \in Topics : last'[d][v] = last[d][v] \/ last'[d][v] = 0
    BY <1>2, <2>1 DEF IInv, TypeOK
  <2> QED
    BY <1>1, <1>3, <2>2 DEF LastAdvances
<1>6. last' = last \/ \E c \in Clients, t \in Topics : Retry(c, t)
  <2>1. CASE \E t \in Topics, k \in Kinds : Send(t, k)
    BY <2>1 DEF Send, storeVars
  <2>2. CASE \E i \in Ids : Acknowledge(i)
    BY <2>2 DEF Acknowledge, storeVars
  <2>3. CASE Tick
    BY <2>3 DEF Tick, storeVars
  <2>4. CASE \E c \in Clients : Works(c) \/ Refuse(c)
    BY <2>4 DEF Works, storeVars, BeginRound, ReserveCall, Reserve, AfterReserve, EndRound,
                Record, HandOver, Settle, PullSettle, PullPrint, Refuse
  <2>5. CASE \E c \in Clients : Fails(c)
    BY <2>5 DEF Fails, storeVars, ReserveFails, ReserveReplyLost, AfterReserve,
                HandOverThrows, SettleFails, Crash, GiveUp
  <2>6. CASE UNCHANGED vars
    BY <2>6 DEF vars, storeVars
  <2> QED
    BY <2>1, <2>2, <2>3, <2>4, <2>5, <2>6 DEF Next
<1> QED
  BY <1>4, <1>5, <1>6

\* No step takes last_receipt_id back to an earlier receipt; it is only cleared.
THEOREM TerminalsAdvance == Spec => TerminalsInOrder
<1>1. IInv /\ [Next]_vars => LastAdvances
  BY ApplyAdvances, OthersAdvance
<1>2. IInv /\ [Next]_vars => [LastAdvances]_vars
  BY <1>1
<1>3. [][LastAdvances]_vars => TerminalsInOrder
  BY PTL DEF LastAdvances, TerminalsInOrder
<1> QED
  BY BusInvariance, <1>2, <1>3, PTL DEF Spec

-----------------------------------------------------------------------------
(* Where only watchers read: they hand over first and settle after.        *)

OnlyWatchers == Daemons = {} /\ Pullers = {}

\* A claim names the message it is on.
ClaimsName ==
  /\ \A i \in Ids : rows[i].claim = NoClaim \/ rows[i].claim.id = i
  /\ \A c \in Clients : \A h \in batch[c] : h.claim.id = h.id

\* A watcher that settles has handed the message over.
HandedFirst == \A c \in Clients : pc[c] = "settling" => cur[c].id \in applied[c]

HandInv == ClaimsName /\ HandedFirst /\ ReadIsHandled

LEMMA SameClaims ==
  ASSUME ClaimsName, UNCHANGED rows, \A c \in Clients : batch'[c] \subseteq batch[c]
  PROVE  ClaimsName'
  BY DEF ClaimsName

LEMMA SameReads ==
  ASSUME IInv, ReadIsHandled, sent' = sent, \A i \in Ids : rows'[i].read = rows[i].read,
         acked \subseteq acked', \A c \in Clients : applied[c] \subseteq applied'[c]
  PROVE  ReadIsHandled'
<1>1. \A i \in 1 .. sent : i \in Ids
  BY Constants DEF IInv, TypeOK, Ids
<1> QED
  BY <1>1 DEF ReadIsHandled

\* Giving up and putting down leave nothing to settle.
LEMMA StopsKeepHand ==
  ASSUME IInv, HandInv, NEW c \in Clients, UNCHANGED <<sent, rows, acked, applied>>,
         \A d \in Clients : batch'[d] \subseteq batch[d],
         \A d \in Clients : pc'[d] = "settling" => pc[d] = "settling" /\ cur'[d] = cur[d]
  PROVE  HandInv'
<1>1. ClaimsName' /\ ReadIsHandled'
  BY SameClaims, SameReads DEF HandInv
<1>2. HandedFirst'
  BY DEF HandInv, HandedFirst
<1> QED
  BY <1>1, <1>2 DEF HandInv

LEMMA QuietHand ==
  ASSUME IInv, HandInv, NEW c \in Clients,
         \/ BeginRound(c) \/ ReserveCall(c) \/ EndRound(c) \/ ReserveFails(c)
         \/ HandOverThrows(c) \/ SettleFails(c) \/ Crash(c)
  PROVE  HandInv'
<1>1. pc \in [Clients -> Pcs] /\ batch \in [Clients -> SUBSET Hold] /\ cur \in [Clients -> Hold \union {NoHold}]
  BY DEF IInv, TypeOK
<1>2. CASE BeginRound(c) \/ ReserveCall(c) \/ EndRound(c) \/ ReserveFails(c)
  <2>1. /\ UNCHANGED <<sent, rows, acked, applied, batch, cur>>
        /\ \E s \in Pcs \ {"settling"} : pc' = [pc EXCEPT ![c] = s]
    BY <1>2 DEF BeginRound, ReserveCall, EndRound, ReserveFails, AfterReserve, storeVars, Pcs
  <2>2. \A d \in Clients : pc'[d] = "settling" => pc[d] = "settling"
    BY <1>1, <2>1
  <2> QED
    BY <2>1, <2>2, StopsKeepHand
<1>3. CASE GiveUp(c)
  <2>1. /\ UNCHANGED <<sent, rows, acked, applied>>
        /\ pc' = [pc EXCEPT ![c] = "idle"] /\ cur' = [cur EXCEPT ![c] = NoHold]
        /\ batch' = [batch EXCEPT ![c] = {}]
    BY <1>3 DEF GiveUp, storeVars
  <2> QED
    BY <1>1, <2>1, StopsKeepHand
<1>4. CASE PutDown(c) /\ UNCHANGED <<rows, storeVars>>
  <2>1. /\ UNCHANGED <<sent, rows, acked, applied>>
        /\ pc' = [pc EXCEPT ![c] = "handling"] /\ cur' = [cur EXCEPT ![c] = NoHold]
        /\ batch' = [batch EXCEPT ![c] = @ \ {cur[c]}]
    BY <1>4 DEF PutDown, storeVars
  <2> QED
    BY <1>1, <2>1, StopsKeepHand
<1> QED
  BY <1>2, <1>3, <1>4 DEF HandOverThrows, SettleFails, Crash

LEMMA HandOverHand ==
  ASSUME IInv, HandInv, NEW c \in Clients, HandOver(c)
  PROVE  HandInv'
<1>1. PICK h \in Heads(c) : applied' = [applied EXCEPT ![c] = @ \union {h.id}] /\ TakeUp(c, h, "settling")
  BY DEF HandOver
<1>2. /\ applied \in [Clients -> SUBSET Ids] /\ pc \in [Clients -> Pcs]
      /\ cur \in [Clients -> Hold \union {NoHold}]
  BY DEF IInv, TypeOK
<1>3. /\ UNCHANGED <<sent, rows, acked, batch>>
      /\ pc' = [pc EXCEPT ![c] = "settling"] /\ cur' = [cur EXCEPT ![c] = h]
  BY <1>1 DEF TakeUp
<1>4. ClaimsName' /\ ReadIsHandled'
  BY <1>1, <1>2, <1>3, SameClaims, SameReads DEF HandInv
<1>5. HandedFirst'
  BY <1>1, <1>2, <1>3 DEF HandInv, HandedFirst
<1> QED
  BY <1>4, <1>5 DEF HandInv

LEMMA SettleHand ==
  ASSUME IInv, HandInv, NEW c \in Clients, Settle(c)
  PROVE  HandInv'
<1> DEFINE k == cur[c].claim
<1>1. /\ cur[c] \in batch[c] /\ k.by = c /\ k.id = cur[c].id /\ cur[c].id \in applied[c]
      /\ MarkSettled({k})
      /\ batch' = [batch EXCEPT ![c] = @ \ {cur[c]}] /\ cur' = [cur EXCEPT ![c] = NoHold]
      /\ pc' = [pc EXCEPT ![c] = "handling"] /\ UNCHANGED <<sent, acked, applied>>
  BY DEF Settle, PutDown, IInv, CurOK, HoldsOK, HandInv, ClaimsName, HandedFirst, storeVars
<1>2. \A j \in Ids : /\ j \notin Settled({k}) => rows'[j] = rows[j]
                     /\ j \in Settled({k}) => rows'[j].read /\ rows'[j].claim = NoClaim
  BY <1>1, MarkSettledRows
<1>3. \A j \in Settled({k}) : j = cur[c].id
  <2>1. k # NoClaim
    BY <1>1, Constants DEF NoClaim
  <2> QED
    BY <1>1, <2>1 DEF Settled, HandInv, ClaimsName
<1>4. /\ batch \in [Clients -> SUBSET Hold] /\ pc \in [Clients -> Pcs]
      /\ cur \in [Clients -> Hold \union {NoHold}]
      /\ \A i \in 1 .. sent : i \in Ids
  BY Constants DEF IInv, TypeOK, Ids
<1> HIDE DEF k
<1>5. ClaimsName'
  BY <1>1, <1>2, <1>4 DEF HandInv, ClaimsName
<1>6. HandedFirst'
  BY <1>1, <1>4 DEF HandInv, HandedFirst
<1>7. ReadIsHandled'
  BY <1>1, <1>2, <1>3, <1>4 DEF HandInv, ReadIsHandled
<1> QED
  BY <1>5, <1>6, <1>7 DEF HandInv

LEMMA ReserveHand ==
  ASSUME IInv, HandInv, NEW c \in Clients, Reserve(c)
  PROVE  HandInv'
<1>1. /\ \A i \in Picked(c) : Unused(c, i) # {}
      /\ MarkClaimed(c) /\ batch' = [batch EXCEPT ![c] = @ \union Given(c)]
      /\ UNCHANGED <<sent, acked, applied, cur>>
      /\ \E s \in Pcs \ {"settling"} : pc' = [pc EXCEPT ![c] = s]
  BY DEF Reserve, AfterReserve, storeVars, Pcs
<1>2. \A j \in Ids : /\ rows'[j].read = rows[j].read
                     /\ j \notin Picked(c) => rows'[j] = rows[j]
                     /\ j \in Picked(c) => rows'[j].claim = NewClaim(c, j)
  BY <1>1, ClaimedRows
<1>3. \A i \in Picked(c) : NewClaim(c, i).id = i
  BY <1>1, NewClaims
<1>4. batch \in [Clients -> SUBSET Hold] /\ pc \in [Clients -> Pcs]
  BY DEF IInv, TypeOK
<1>5. \A h \in Given(c) : h.claim.id = h.id
  BY <1>3 DEF Given
<1>6. ClaimsName'
  <2>1. \A i \in Ids : rows'[i].claim = NoClaim \/ rows'[i].claim.id = i
    BY <1>2, <1>3 DEF HandInv, ClaimsName
  <2>2. \A d \in Clients : \A h \in batch'[d] : h \in batch[d] \/ h \in Given(c)
    BY <1>1, <1>4
  <2> QED
    BY <1>5, <2>1, <2>2 DEF HandInv, ClaimsName
<1>7. HandedFirst'
  BY <1>1, <1>4 DEF HandInv, HandedFirst
<1>8. ReadIsHandled'
  BY <1>1, <1>2, SameReads DEF HandInv
<1> QED
  BY <1>6, <1>7, <1>8 DEF HandInv

LEMMA SendHand ==
  ASSUME IInv, HandInv, NEW t \in Topics, NEW k \in Kinds, Send(t, k)
  PROVE  HandInv'
<1> DEFINE new == [topic |-> t, kind |-> k, read |-> FALSE, claim |-> NoClaim, left |-> Floor]
<1>1. /\ sent' = sent + 1 /\ sent + 1 \in Ids /\ sent \in Nat
      /\ rows' = [rows EXCEPT ![sent + 1] = new]
      /\ UNCHANGED <<pc, batch, cur, applied, acked>>
  BY Constants DEF Send, IInv, TypeOK, Ids, clientVars, storeVars
<1>2. new.read = FALSE /\ new.claim = NoClaim
  OBVIOUS
<1> HIDE DEF new
<1>3. \A i \in Ids : /\ i # sent + 1 => rows'[i] = rows[i]
                     /\ i = sent + 1 => rows'[i] = new
  BY <1>1 DEF IInv, TypeOK
<1>4. ClaimsName'
  BY <1>1, <1>2, <1>3 DEF HandInv, ClaimsName
<1>5. HandedFirst'
  BY <1>1 DEF HandInv, HandedFirst
<1>6. ReadIsHandled'
  <2> SUFFICES ASSUME NEW i \in 1 .. sent', rows'[i].read
               PROVE  i \in acked \/ \E c \in Clients : i \in applied[c]
    BY <1>1 DEF ReadIsHandled
  <2>1. i \in Ids /\ i # sent + 1
    BY <1>1, <1>2, <1>3, Constants DEF Ids
  <2>2. i \in 1 .. sent /\ rows[i].read
    BY <1>1, <1>3, <2>1
  <2> QED
    BY <2>2 DEF HandInv, ReadIsHandled
<1> QED
  BY <1>4, <1>5, <1>6 DEF HandInv

LEMMA AcknowledgeHand ==
  ASSUME IInv, HandInv, NEW j \in Ids, Acknowledge(j)
  PROVE  HandInv'
<1>1. /\ rows' = [rows EXCEPT ![j].read = TRUE] /\ acked' = acked \union {j}
      /\ UNCHANGED <<sent, pc, batch, cur, applied>>
  BY DEF Acknowledge, clientVars, storeVars
<1>2. \A i \in Ids : rows'[i].claim = rows[i].claim /\ (i # j => rows'[i] = rows[i])
  BY <1>1 DEF IInv, TypeOK, Row
<1>3. \A i \in 1 .. sent : i \in Ids
  BY Constants DEF IInv, TypeOK, Ids
<1>4. ClaimsName' /\ HandedFirst'
  BY <1>1, <1>2 DEF HandInv, ClaimsName, HandedFirst
<1>5. ReadIsHandled'
  BY <1>1, <1>2, <1>3 DEF HandInv, ReadIsHandled
<1> QED
  BY <1>4, <1>5 DEF HandInv

LEMMA TickHand ==
  ASSUME IInv, HandInv, Tick
  PROVE  HandInv'
<1>1. /\ UNCHANGED <<sent, pc, acked, applied>>
      /\ \A c \in Clients : batch'[c] = {[h EXCEPT !.left = Older(@)] : h \in batch[c]}
      /\ \A c \in Clients : cur'[c] = [cur[c] EXCEPT !.left = Older(@)]
  BY DEF Tick, storeVars
<1>2. \A i \in Ids : rows'[i].read = rows[i].read /\ rows'[i].claim = rows[i].claim
  BY AgedRows
<1>3. ASSUME NEW c \in Clients, NEW g \in batch'[c]
      PROVE  g.claim.id = g.id
  <2>1. PICK h \in batch[c] : g = [h EXCEPT !.left = Older(@)]
    BY <1>1
  <2>2. h \in Hold
    BY DEF IInv, TypeOK
  <2> QED
    BY <2>1, <2>2, AgedHold DEF HandInv, ClaimsName
<1>4. ClaimsName'
  BY <1>2, <1>3 DEF HandInv, ClaimsName
<1>5. HandedFirst'
  <2>1. ASSUME NEW c \in Clients, pc[c] = "settling"
        PROVE  cur'[c].id = cur[c].id
    <3>1. cur[c] \in Hold
      BY <2>1 DEF IInv, CurOK, TypeOK
    <3> QED
      BY <1>1, <3>1, AgedHold
  <2> QED
    BY <1>1, <2>1 DEF HandInv, HandedFirst
<1>6. ReadIsHandled'
  BY <1>1, <1>2, SameReads DEF HandInv
<1> QED
  BY <1>4, <1>5, <1>6 DEF HandInv

\* On a side of the bus that is only watched, a read mark means that a person
\* acked the message or that a watcher handed it over, whatever crashes, fails
\* or throws.  It is false of a pull, which settles before it prints, and of a
\* daemon, which settles what it recorded before a crash without applying it.
THEOREM ReadsAreHandled ==
  ASSUME OnlyWatchers
  PROVE  Spec => []ReadIsHandled
<1>1. Init => HandInv
  BY DEF Init, HandInv, ClaimsName, HandedFirst, ReadIsHandled
<1>2. ASSUME IInv, HandInv, [Next]_vars
      PROVE  HandInv'
  <2>1. CASE \E t \in Topics, k \in Kinds : Send(t, k)
    BY <1>2, <2>1, SendHand
  <2>2. CASE \E i \in Ids : Acknowledge(i)
    BY <1>2, <2>2, AcknowledgeHand
  <2>3. CASE Tick
    BY <1>2, <2>3, TickHand
  <2>4. CASE \E c \in Clients : Works(c) \/ Refuse(c) \/ Fails(c)
    <3>1. PICK c \in Clients : Works(c) \/ Refuse(c) \/ Fails(c)
      BY <2>4
    <3>2. ~Record(c) /\ ~Apply(c) /\ ~Refuse(c) /\ ~PullSettle(c) /\ ~ReserveReplyLost(c)
      BY DEF OnlyWatchers, Record, Apply, Refuse, PullSettle, ReserveReplyLost
    <3>3. CASE PullPrint(c)
      <4>1. /\ UNCHANGED <<sent, rows, acked, cur>> /\ batch' = [batch EXCEPT ![c] = {}]
            /\ pc' = [pc EXCEPT ![c] = "idle"]
            /\ applied' = [applied EXCEPT ![c] = @ \union {h.id : h \in batch[c]}]
        BY <3>3 DEF PullPrint
      <4>2. /\ pc \in [Clients -> Pcs] /\ batch \in [Clients -> SUBSET Hold]
            /\ applied \in [Clients -> SUBSET Ids]
        BY <1>2 DEF IInv, TypeOK
      <4>3. ClaimsName' /\ ReadIsHandled'
        BY <1>2, <4>1, <4>2, SameClaims, SameReads DEF HandInv
      <4>4. HandedFirst'
        BY <1>2, <4>1, <4>2 DEF HandInv, HandedFirst
      <4> QED
        BY <4>3, <4>4 DEF HandInv
    <3> QED
      BY <1>2, <3>1, <3>2, <3>3, QuietHand, ReserveHand, HandOverHand, SettleHand
         DEF Works, Fails
  <2>5. CASE \E c \in Clients, t \in Topics : Retry(c, t)
    BY <2>5 DEF OnlyWatchers, Retry
  <2>6. CASE UNCHANGED vars
    BY <1>2, <2>6 DEF vars, clientVars, storeVars, HandInv, ClaimsName, HandedFirst, ReadIsHandled
  <2> QED
    BY <1>2, <2>1, <2>2, <2>3, <2>4, <2>5, <2>6 DEF Next
<1>3. HandInv => ReadIsHandled
  BY DEF HandInv
<1>4. IInv /\ HandInv /\ [Next]_vars => HandInv'
  BY <1>2
<1> QED
  BY <1>1, <1>3, <1>4, BusInvariance, PTL DEF Spec

-----------------------------------------------------------------------------
(* The table implements the queue: every step is one of its steps or none. *)

OwnerOf(i) ==
  IF rows[i].claim # NoClaim /\ rows[i].left >= 0 /\ ~rows[i].read
  THEN rows[i].claim.by ELSE NoOne

Still == UNCHANGED <<sent, Owner, Done, acked>>

LEMMA SameRowsStill == ASSUME UNCHANGED <<sent, rows, acked>> PROVE Still
  BY DEF Still, Owner, Done

LEMMA SendMaps ==
  ASSUME IInv, NEW t \in Topics, NEW k \in Kinds, Send(t, k)
  PROVE  \E i \in Ids : Queue!Post(i)
<1> DEFINE i == sent + 1
<1>1. i \in Ids /\ i \notin 1 .. sent /\ (1 .. sent)' = (1 .. sent) \union {i}
  BY Constants DEF Send, IInv, TypeOK, Ids
<1>2. rows'[i].claim = NoClaim /\ ~rows'[i].read /\ \A j \in Ids : j # i => rows'[j] = rows[j]
  BY <1>1 DEF Send, IInv, TypeOK
<1>3. rows[i].claim = NoClaim /\ ~rows[i].read
  BY <1>1, Constants DEF IInv, TypeOK, RowsOK, Ids
<1>4. acked' = acked
  BY DEF Send
<1> HIDE DEF i
<1>5. \A j \in Ids : OwnerOf(j)' = OwnerOf(j)
  BY <1>2, <1>3 DEF OwnerOf
<1>6. Owner' = Owner
  BY <1>5 DEF Owner, OwnerOf
<1>7. Done' = Done
  BY <1>2, <1>3 DEF Done
<1> QED
  BY <1>1, <1>4, <1>6, <1>7 DEF Queue!Post

LEMMA ClaimMaps ==
  ASSUME IInv, NEW c \in Clients, MarkClaimed(c), \A i \in Picked(c) : Unused(c, i) # {},
         UNCHANGED <<sent, acked>>
  PROVE  Still \/ Queue!Take(c, Picked(c))
<1>1. /\ rows' \in [Ids -> Row]
      /\ \A j \in Ids :
           /\ rows'[j].topic = rows[j].topic /\ rows'[j].read = rows[j].read
           /\ j \notin Picked(c) => rows'[j] = rows[j]
           /\ j \in Picked(c) =>
                rows'[j].claim = NewClaim(c, j) /\ rows'[j].left = NewLeft(c)
  BY ClaimedRows
<1>2. Done' = Done
  BY <1>1 DEF Done
<1>3. ASSUME NEW j \in Picked(c)
      PROVE  /\ j \in (1 .. sent) \ Done /\ j \in Ids
             /\ OwnerOf(j) = NoOne
             /\ OwnerOf(j)' = IF NewLeft(c) >= 0 THEN c ELSE NoOne
  <2>1. j \in Ids /\ j \in 1 .. sent /\ ~rows[j].read /\ Free(rows[j], lag[c])
    BY PickedIsFree DEF Picked, Candidates
  <2>2. lag[c] \in 0 .. MaxLag /\ rows[j].left \in Int
    BY <2>1, Constants DEF IInv, TypeOK, Row, Left
  <2>3. OwnerOf(j) = NoOne
    BY <2>1, <2>2, Constants DEF OwnerOf, Free
  <2>4. NewClaim(c, j).by = c /\ NewClaim(c, j) # NoClaim
    BY NewClaims, Constants DEF NoClaim
  <2>5. OwnerOf(j)' = IF NewLeft(c) >= 0 THEN c ELSE NoOne
    BY <1>1, <2>1, <2>4 DEF OwnerOf
  <2> QED
    BY <2>1, <2>3, <2>5 DEF Done
<1>4. \A j \in Ids : j \notin Picked(c) => OwnerOf(j)' = OwnerOf(j)
  BY <1>1 DEF OwnerOf
<1>5. CASE NewLeft(c) >= 0
  <2>1. \A j \in Ids : OwnerOf(j)' = IF j \in Picked(c) THEN c ELSE OwnerOf(j)
    BY <1>3, <1>4, <1>5
  <2>2. Owner = [j \in Ids |-> OwnerOf(j)] /\ Owner' = [j \in Ids |-> OwnerOf(j)']
    BY DEF Owner, OwnerOf
  <2>3. Owner' = [j \in Ids |-> IF j \in Picked(c) THEN c ELSE Owner[j]]
    BY <2>1, <2>2
  <2> QED
    BY <1>2, <1>3, <2>2, <2>3 DEF Queue!Take, Queue!Open
<1>6. CASE ~(NewLeft(c) >= 0)
  <2>1. \A j \in Ids : OwnerOf(j)' = OwnerOf(j)
    BY <1>3, <1>4, <1>6
  <2>2. Owner = [j \in Ids |-> OwnerOf(j)] /\ Owner' = [j \in Ids |-> OwnerOf(j)']
    BY DEF Owner, OwnerOf
  <2> QED
    BY <1>2, <2>1, <2>2 DEF Still
<1> QED
  BY <1>5, <1>6

LEMMA SettleMaps ==
  ASSUME IInv, NEW c \in Clients, NEW ks, MarkSettled(ks),
         \A k \in ks : k.by = c, UNCHANGED <<sent, acked>>
  PROVE  Queue!Finish(c, Settled(ks))
<1>1. /\ rows' \in [Ids -> Row]
      /\ \A j \in Ids : /\ rows'[j].topic = rows[j].topic
                        /\ j \notin Settled(ks) => rows'[j] = rows[j]
                        /\ j \in Settled(ks) => rows'[j].read /\ rows'[j].claim = NoClaim
  BY MarkSettledRows
<1>2. \A j \in Settled(ks) : /\ j \in Ids /\ j <= sent /\ ~rows[j].read
                             /\ rows[j].claim.by = c
  BY SettledWereSent DEF Settled
<1>3. Settled(ks) \subseteq (1 .. sent) \ Done
  BY <1>2, Constants DEF Done, Ids, IInv, TypeOK
<1>4. Done' = Done \union Settled(ks)
  BY <1>1, <1>2 DEF Done
<1>5. Owner = [j \in Ids |-> OwnerOf(j)] /\ Owner' = [j \in Ids |-> OwnerOf(j)']
  BY DEF Owner, OwnerOf
<1>6. \A j \in Settled(ks) : Owner[j] \in {c, NoOne}
  BY <1>2, <1>5 DEF OwnerOf
<1>7. \A j \in Ids : OwnerOf(j)' = IF j \in Settled(ks) THEN NoOne ELSE OwnerOf(j)
  BY <1>1 DEF OwnerOf
<1>8. Owner' = [j \in Ids |-> IF j \in Settled(ks) THEN NoOne ELSE Owner[j]]
  BY <1>5, <1>7
<1> QED
  BY <1>3, <1>4, <1>6, <1>8 DEF Queue!Finish, Queue!Open, Queue!Disown

LEMMA AcknowledgeMaps ==
  ASSUME IInv, NEW i \in Ids, Acknowledge(i)
  PROVE  Queue!Withdraw({i})
<1>1. /\ i <= sent /\ ~rows[i].read /\ rows' = [rows EXCEPT ![i].read = TRUE]
      /\ acked' = acked \union {i} /\ sent' = sent
  BY DEF Acknowledge
<1>2. rows[i] \in Row
  BY DEF IInv, TypeOK
<1>3. rows'[i].read /\ \A j \in Ids : j # i => rows'[j] = rows[j]
  BY <1>1, <1>2 DEF IInv, TypeOK, Row
<1>4. {i} \subseteq (1 .. sent) \ Done
  BY <1>1, Constants DEF Done, Ids, IInv, TypeOK
<1>5. Done' = Done \union {i}
  BY <1>3 DEF Done
<1>6. Owner = [j \in Ids |-> OwnerOf(j)] /\ Owner' = [j \in Ids |-> OwnerOf(j)']
  BY DEF Owner, OwnerOf
<1>7. \A j \in Ids : OwnerOf(j)' = IF j \in {i} THEN NoOne ELSE OwnerOf(j)
  BY <1>3 DEF OwnerOf
<1>8. Owner' = [j \in Ids |-> IF j \in {i} THEN NoOne ELSE Owner[j]]
  BY <1>6, <1>7
<1> QED
  BY <1>1, <1>4, <1>5, <1>8 DEF Queue!Withdraw, Queue!Open, Queue!Disown

LEMMA TickMaps ==
  ASSUME IInv, Tick
  PROVE  \E S \in SUBSET Ids : Queue!Expire(S)
<1> DEFINE S == {i \in Ids : Older(rows[i].left) < 0}
<1>1. \A i \in Ids :
         /\ rows'[i].topic = rows[i].topic /\ rows'[i].read = rows[i].read
         /\ rows'[i].claim = rows[i].claim /\ rows'[i].left = Older(rows[i].left)
  BY AgedRows
<1>2. UNCHANGED <<sent, acked>> /\ Done' = Done
  BY <1>1 DEF Tick, Done
<1>3. ASSUME NEW i \in Ids
      PROVE  OwnerOf(i)' = IF i \in S THEN NoOne ELSE OwnerOf(i)
  <2>1. rows[i].left \in Left
    BY DEF IInv, TypeOK, Row
  <2>2. Older(rows[i].left) >= 0 => rows[i].left >= 0
    BY <2>1, OlderType
  <2>3. Older(rows[i].left) \in Int
    BY <2>1, OlderType, Constants DEF Left
  <2> QED
    BY <1>1, <2>2, <2>3 DEF OwnerOf
<1>4. Owner = [j \in Ids |-> OwnerOf(j)] /\ Owner' = [j \in Ids |-> OwnerOf(j)']
  BY DEF Owner, OwnerOf
<1>5. Owner' = [j \in Ids |-> IF j \in S THEN NoOne ELSE Owner[j]]
  BY <1>3, <1>4
<1>6. S \in SUBSET Ids
  OBVIOUS
<1> HIDE DEF S
<1> QED
  BY <1>2, <1>5, <1>6 DEF Queue!Expire, Queue!Disown

LEMMA StepMaps ==
  ASSUME IInv, [Next]_vars
  PROVE  [Queue!Next]_Queue!queueVars
<1> USE DEF Queue!Next, Queue!queueVars
<1>1. CASE \E t \in Topics, k \in Kinds : Send(t, k)
  BY <1>1, SendMaps
<1>2. CASE \E i \in Ids : Acknowledge(i)
  <2> PICK i \in Ids : Acknowledge(i)
    BY <1>2
  <2> QED
    BY AcknowledgeMaps
<1>3. CASE Tick
  BY <1>3, TickMaps
<1>4. ASSUME Still PROVE [Queue!Next]_Queue!queueVars
  BY <1>4 DEF Still
<1>5. ASSUME NEW c \in Clients, Works(c) \/ Refuse(c) \/ Fails(c)
      PROVE  [Queue!Next]_Queue!queueVars
  <2>1. CASE Reserve(c) \/ ReserveReplyLost(c)
    <3>1. /\ MarkClaimed(c) /\ UNCHANGED <<sent, acked>>
          /\ \A i \in Picked(c) : Unused(c, i) # {}
      BY <2>1 DEF Reserve, ReserveReplyLost, AfterReserve
    <3>2. Picked(c) \in SUBSET Ids
      BY PickedIsFree
    <3> QED
      BY <1>4, <3>1, <3>2, ClaimMaps
  <2>2. CASE Settle(c)
    <3>1. MarkSettled({cur[c].claim}) /\ UNCHANGED <<sent, acked>> /\ pc[c] = "settling"
      BY <2>2 DEF Settle, PutDown
    <3>2. cur[c].claim.by = c
      BY <3>1 DEF IInv, CurOK, HoldsOK
    <3>3. Settled({cur[c].claim}) \in SUBSET Ids
      BY DEF Settled
    <3> QED
      BY <3>1, <3>2, <3>3, SettleMaps
  <2>3. CASE PullSettle(c)
    <3> DEFINE ks == {h.claim : h \in batch[c]}
    <3>1. MarkSettled(ks) /\ UNCHANGED <<sent, acked>>
      BY <2>3 DEF PullSettle
    <3>2. \A k \in ks : k.by = c
      BY DEF IInv, HoldsOK
    <3>3. Settled(ks) \in SUBSET Ids
      BY DEF Settled
    <3> HIDE DEF ks
    <3> QED
      BY <3>1, <3>2, <3>3, SettleMaps
  <2>4. CASE ~(Reserve(c) \/ ReserveReplyLost(c) \/ Settle(c) \/ PullSettle(c))
    <3>1. UNCHANGED <<sent, rows, acked>>
      <4>1. CASE Works(c)
        BY <2>4, <4>1 DEF Works, BeginRound, ReserveCall, EndRound, Record, Apply, HandOver,
                          PullPrint, TakeUp
      <4>2. CASE Refuse(c)
        BY <4>2 DEF Refuse, PutDown
      <4>3. CASE Fails(c)
        BY <2>4, <4>3 DEF Fails, ReserveFails, AfterReserve, HandOverThrows, SettleFails,
                          Crash, GiveUp, PutDown
      <4> QED
        BY <1>5, <4>1, <4>2, <4>3
    <3> QED
      BY <1>4, <3>1, SameRowsStill
  <2> QED
    BY <2>1, <2>2, <2>3, <2>4
<1>6. CASE \E c \in Clients, t \in Topics : Retry(c, t)
  BY <1>4, <1>6, SameRowsStill DEF Retry
<1>7. CASE UNCHANGED vars
  BY <1>4, <1>7, SameRowsStill DEF vars
<1> QED
  BY <1>1, <1>2, <1>3, <1>5, <1>6, <1>7 DEF Next

LEMMA InitMaps == Init => Queue!Init
  BY DEF Init, Queue!Init, Owner, Done

\* The relay table, with leases, late lock waits, lost replies and crashes, only
\* does what a queue with one owner per message may do.
THEOREM BusIsAQueue == Spec => IsAQueue
<1>1. IInv /\ [Next]_vars => [Queue!Next]_Queue!queueVars
  BY StepMaps
<1> QED
  BY BusInvariance, InitMaps, <1>1, PTL DEF Spec, IsAQueue, Queue!Spec

====
