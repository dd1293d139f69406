---- MODULE MessageQueue ----
(***************************************************************************)
(* What the agent bus promises one side of a conversation, without leases, *)
(* clocks or claim ids: a message has at most one owner at a time, only    *)
(* the owner (or, when it has none, somebody who owned it before) finishes *)
(* it, and a finished message is never handed out again.  Apart from that  *)
(* a person may withdraw any message.                                      *)
(***************************************************************************)
EXTENDS Naturals

CONSTANTS Ids,       \* the messages
          Readers,   \* who may own them
          NoOne

VARIABLES posted, owner, done, withdrawn
queueVars == <<posted, owner, done, withdrawn>>

Init ==
  /\ posted = {}
  /\ owner = [i \in Ids |-> NoOne]
  /\ done = {}
  /\ withdrawn = {}

Open == posted \ done

Disown(S) == [i \in Ids |-> IF i \in S THEN NoOne ELSE owner[i]]

Post(i) ==
  /\ i \notin posted
  /\ posted' = posted \union {i}
  /\ UNCHANGED <<owner, done, withdrawn>>

Take(r, S) ==
  /\ S \subseteq Open
  /\ \A i \in S : owner[i] = NoOne
  /\ owner' = [i \in Ids |-> IF i \in S THEN r ELSE owner[i]]
  /\ UNCHANGED <<posted, done, withdrawn>>

Expire(S) ==
  /\ owner' = Disown(S)
  /\ UNCHANGED <<posted, done, withdrawn>>

Finish(r, S) ==
  /\ S \subseteq Open
  /\ \A i \in S : owner[i] \in {r, NoOne}
  /\ done' = done \union S
  /\ owner' = Disown(S)
  /\ UNCHANGED <<posted, withdrawn>>

Withdraw(S) ==
  /\ S \subseteq Open
  /\ done' = done \union S
  /\ withdrawn' = withdrawn \union S
  /\ owner' = Disown(S)
  /\ UNCHANGED posted

Next ==
  \/ \E i \in Ids : Post(i)
  \/ \E r \in Readers, S \in SUBSET Ids : Take(r, S) \/ Finish(r, S)
  \/ \E S \in SUBSET Ids : Expire(S) \/ Withdraw(S)

Spec == Init /\ [][Next]_queueVars

====
