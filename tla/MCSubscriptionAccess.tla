------------------------ MODULE MCSubscriptionAccess ------------------------
(* Instances of SubscriptionAccess for TLC. *)
EXTENDS SubscriptionAccess, TLC

(* Requests are alike, and so are chats and the bindings of one channel. *)
Symmetry ==
    Permutations(Requests) \cup Permutations(Chats)
        \cup Permutations(Telegrams) \cup Permutations(Webhooks)
=============================================================================
