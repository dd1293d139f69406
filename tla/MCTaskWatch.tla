---------------------------- MODULE MCTaskWatch ----------------------------
(***************************************************************************)
(* An instance of TaskWatch for TLC: a read-only review on its lease, that *)
(* is retried as it is, or as a mutating task that is waited for strictly. *)
(***************************************************************************)
EXTENDS TaskWatch

CONSTANT w1  \* a waiting process

QuickReview == {[NothingAsked EXCEPT !.profile = "readonly", !.kind = "quick_review"]}

StrictRetry == {[NothingAsked EXCEPT !.profile = "mutating", !.policy = "strict"]}
=============================================================================
